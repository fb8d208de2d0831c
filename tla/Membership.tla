------------------------------ MODULE Membership ------------------------------
(***************************************************************************)
(* Membership changes.  A leader appends a joint entry (C_old,new); when   *)
(* it applies it, it moves to the new configuration and appends the final  *)
(* entry (C_new).  Commits need a quorum of the leader's MembershipState.  *)
(* Elections count votes over the peers a node was configured with, and    *)
(* entries are sent to those peers only, so a node that a change adds is a *)
(* member that never answers.                                              *)
(*                                                                         *)
(* Elections and replication are those of RaftNode in coarser steps: an    *)
(* election is one step of the candidate and the voters it wins, and       *)
(* AppendEntries to one peer is one step, after as many refusals as its    *)
(* next_index needs; its answer may be lost.  A request that was built     *)
(* before the latest entries were appended (`sent') carries the commit     *)
(* index of the moment in which it arrives.                                *)
(***************************************************************************)
EXTENDS Integers, FiniteSets, Sequences, FiniteSetsExt

CONSTANTS Node,      \* the configured nodes
          Extra,     \* nodes that can be added
          Wanted,    \* the configurations that are asked for
          MaxTerm,   \* bound: the term
          Budgets    \* bound: how many changes, lost answers and restarts a behaviour has

VARIABLES
  current_term, voted_for, role, log, commit_index, last_applied, match_index,
  current, pending, in_progress,   \* MembershipState of each node
  left,       \* what is left of the behaviour's budget
  elected,    \* history: who was elected in which term
  decided,    \* history: what leaders committed, and in which term
  marks       \* history: "thin" a commit without a majority of the configured nodes,
              \* "partial" a joint entry committed without majorities of both its
              \* configurations, "outside" an election without a quorum of the
              \* winner's membership

membership == <<current, pending, in_progress>>
vars == <<current_term, voted_for, role, log, commit_index, last_applied, match_index,
          current, pending, in_progress, left, elected, decided, marks>>

Config == SUBSET (Node \cup Extra)
NoConfig == {}   \* Option::None; begin_change makes no empty configuration
Nobody == {}     \* voted_for: Option<NodeId> as a set of at most one node

Spend(what) == left[what] > 0 /\ left' = [left EXCEPT ![what] = @ - 1]

NoopEntry(t) == [term |-> t, kind |-> "noop", old |-> {}, new |-> {}]
Joint(t, old, new) == [term |-> t, kind |-> "joint", old |-> old, new |-> new]
Final(t, new) == [term |-> t, kind |-> "final", old |-> {}, new |-> new]

\* A cluster with its first leader: everyone holds its first entry, and it alone
\* knows that the entry is committed.
Led(n) ==
  /\ current_term = [p \in Node |-> 1]
  /\ voted_for = [p \in Node |-> {n}]
  /\ role = [p \in Node |-> IF p = n THEN "Leader" ELSE "Follower"]
  /\ log = [p \in Node |-> <<NoopEntry(1)>>]
  /\ commit_index = [p \in Node |-> IF p = n THEN 1 ELSE 0]
  /\ match_index = [p \in Node |-> [q \in Node |-> IF p = n THEN 1 ELSE 0]]
  /\ elected = {[node |-> n, term |-> 1]}

Init ==
  /\ \E n \in Node : Led(n)
  /\ last_applied = [n \in Node |-> 0]
  /\ current = [n \in Node |-> Node]
  /\ pending = [n \in Node |-> NoConfig]
  /\ in_progress = [n \in Node |-> FALSE]
  /\ left \in Budgets
  /\ decided = {[index |-> 1, entry |-> NoopEntry(1), at |-> 1]} /\ marks = {}

-----------------------------------------------------------------------------
(* Quorums.                                                                *)

Majority(votes, config) == Cardinality(votes \cap config) >= Cardinality(config) \div 2 + 1

\* MembershipState::has_quorum
HasQuorum(cur, pend, voters) ==
  Majority(voters, cur) /\ (pend # NoConfig => Majority(voters, pend))

-----------------------------------------------------------------------------
(* Elections.                                                              *)

LastTerm(lg) == IF lg = <<>> THEN 0 ELSE lg[Len(lg)].term

UpToDate(lg, other) ==
  \/ LastTerm(lg) > LastTerm(other)
  \/ LastTerm(lg) = LastTerm(other) /\ Len(lg) >= Len(other)

\* step_down_inner: abort_change in the nodes whose term is raised.
AbortChange(ns) ==
  /\ pending' = [n \in Node |-> IF n \in ns THEN NoConfig ELSE pending[n]]
  /\ in_progress' = [n \in Node |-> in_progress[n] /\ n \notin ns]

\* Variant: a voter gives a second vote in its term.
GrantsVoteTwice(p, n, t) == current_term[p] <= t /\ UpToDate(log[n], log[p])

\* Variant: a voter does not compare logs.
GrantsVoteIgnoringLog(p, n, t) ==
  current_term[p] < t \/ (current_term[p] = t /\ voted_for[p] \subseteq {n})

\* should_grant_vote in p, which has left its vote behind if t is a new term to it.
GrantsVote(p, n, t) ==
  /\ current_term[p] < t \/ (current_term[p] = t /\ voted_for[p] \subseteq {n})
  /\ UpToDate(log[n], log[p])

\* Node n starts an election and wins the votes of a majority of the configured
\* nodes, whatever its membership.  start_election keeps a pending configuration;
\* a voter that adopts the term drops its own.
Campaign(n, votes) ==
  LET t == current_term[n] + 1 IN
  /\ role[n] # "Leader" /\ t <= MaxTerm
  /\ n \in votes /\ Majority(votes, Node)
  /\ \A p \in votes \ {n} : GrantsVote(p, n, t)
  /\ current_term' = [p \in Node |-> IF p \in votes THEN t ELSE current_term[p]]
  /\ role' = [p \in Node |-> IF p = n THEN "Leader"
                             ELSE IF p \in votes THEN "Follower" ELSE role[p]]
  /\ voted_for' = [p \in Node |-> IF p \in votes THEN {n} ELSE voted_for[p]]
  /\ AbortChange({p \in votes \ {n} : current_term[p] < t})
  /\ log' = [log EXCEPT ![n] = Append(@, NoopEntry(t))]
  /\ match_index' = [match_index EXCEPT ![n] =
       [p \in Node |-> IF p = n THEN Len(log[n]) + 1 ELSE 0]]
  /\ elected' = elected \cup {[node |-> n, term |-> t]}
  /\ marks' = marks \cup (IF HasQuorum(current[n], pending[n], votes)
                         THEN {} ELSE {"outside"})
  /\ UNCHANGED <<commit_index, last_applied, current, left, decided>>

-----------------------------------------------------------------------------
(* Replication.                                                            *)

\* try_advance_commit: the indexes leader n may commit.
Committable(n, matched) ==
  {i \in {matched[p] : p \in Node} \cap 1..Len(log[n]) :
     /\ i > commit_index[n]
     /\ HasQuorum(current[n], pending[n], {p \in Node : matched[p] >= i})
     /\ log[n][i].term = current_term[n]}

CommitMarks(n, to, voters) ==
  (IF Majority(voters, Node) THEN {} ELSE {"thin"})
    \cup (IF \A i \in commit_index[n] + 1 .. to : log[n][i].kind = "joint" =>
               Majority(voters, log[n][i].old) /\ Majority(voters, log[n][i].new)
          THEN {} ELSE {"partial"})

\* The answer of p, which now holds `held' entries, moves the leader's match_index and
\* perhaps its commit index; p's own is `follower'.
AdvanceCommit(n, p, held, follower) ==
  LET matched == [match_index[n] EXCEPT ![p] = held]
      c == Committable(n, matched)
      to == IF c = {} THEN commit_index[n] ELSE Max(c)
      voters == {q \in Node : matched[q] >= to}
  IN
  /\ match_index' = [match_index EXCEPT ![n] = matched]
  /\ commit_index' = [commit_index EXCEPT ![n] = to, ![p] = follower]
  /\ decided' = decided \cup
       {[index |-> i, entry |-> log[n][i], at |-> current_term[n]] :
          i \in commit_index[n] + 1 .. to}
  /\ marks' = marks \cup (IF c = {} THEN {} ELSE CommitMarks(n, to, voters))

\* handle_append_entries in p: its log takes over the first `sent' entries of the
\* leader's log.
Merged(n, p, sent) ==
  LET entries == SubSeq(log[n], 1, sent)
  IN IF sent <= Len(log[p]) /\ SubSeq(log[p], 1, sent) = entries THEN log[p] ELSE entries

FollowerCommit(n, p, sent) ==
  IF commit_index[n] > commit_index[p]
  THEN Min({commit_index[n], Len(Merged(n, p, sent))}) ELSE commit_index[p]

\* p accepts a request that may have been created before the leader's last entries
\* were appended, though not before the no-op of its term; the answer is lost, or it
\* arrives.
Replicate(n, p, sent, arrives) ==
  /\ role[n] = "Leader" /\ p # n /\ current_term[p] <= current_term[n]
  /\ sent \in match_index[n][p] .. Len(log[n])
  /\ LastTerm(SubSeq(log[n], 1, sent)) = current_term[n]
  /\ current_term' = [current_term EXCEPT ![p] = current_term[n]]
  /\ role' = [role EXCEPT ![p] = "Follower"]
  /\ voted_for' = [voted_for EXCEPT ![p] =
       IF current_term[p] < current_term[n] THEN Nobody ELSE @]
  /\ AbortChange(IF current_term[p] < current_term[n] THEN {p} ELSE {})
  /\ log' = [log EXCEPT ![p] = Merged(n, p, sent)]
  /\ IF arrives
     THEN /\ AdvanceCommit(n, p, Len(Merged(n, p, sent)), FollowerCommit(n, p, sent))
          /\ UNCHANGED left
     ELSE /\ Spend("lost")
          /\ commit_index' = [commit_index EXCEPT ![p] = FollowerCommit(n, p, sent)]
          /\ UNCHANGED <<match_index, decided, marks>>
  /\ UNCHANGED <<last_applied, current, elected>>

\* p is in a higher term: the leader steps down on its answer.
Refuse(n, p) ==
  /\ role[n] = "Leader" /\ current_term[p] > current_term[n]
  /\ current_term' = [current_term EXCEPT ![n] = current_term[p]]
  /\ role' = [role EXCEPT ![n] = "Follower"]
  /\ voted_for' = [voted_for EXCEPT ![n] = Nobody]
  /\ AbortChange({n})
  /\ UNCHANGED <<log, commit_index, last_applied, match_index, current, left, elected,
                 decided, marks>>

-----------------------------------------------------------------------------
(* Changes.                                                                *)

\* The leader's own log grows by an entry.
AppendOwn(n, e) ==
  /\ log' = [log EXCEPT ![n] = Append(@, e)]
  /\ match_index' = [match_index EXCEPT ![n][n] = Len(log[n]) + 1]

\* propose_config_change, begin_change: the members become `new'.
ProposeChange(n, new) ==
  /\ role[n] = "Leader" /\ ~in_progress[n]
  /\ new \in Wanted
  /\ Spend("change")
  /\ pending' = [pending EXCEPT ![n] = new]
  /\ in_progress' = [in_progress EXCEPT ![n] = TRUE]
  /\ AppendOwn(n, Joint(current_term[n], current[n], new))
  /\ UNCHANGED <<current_term, voted_for, role, commit_index, last_applied, current,
                 elected, decided, marks>>

\* The two admin calls, with the refusals of begin_change.
AddNode(n, x) == x \notin current[n] /\ ProposeChange(n, current[n] \cup {x})

RemoveNode(n, x) ==
  x \in current[n] /\ current[n] # {x} /\ ProposeChange(n, current[n] \ {x})

\* Variant: the leader applies the joint entry like a follower.
ApplyJointOnly(n, e) ==
  /\ pending' = [pending EXCEPT ![n] = e.new]
  /\ UNCHANGED <<current, in_progress, log, match_index>>

\* apply_config_change on a joint entry: a leader finalizes it and appends the
\* final entry, a follower keeps the new configuration pending.
ApplyJoint(n, e) ==
  IF role[n] = "Leader"
  THEN /\ current' = [current EXCEPT ![n] = e.new]
       /\ pending' = [pending EXCEPT ![n] = NoConfig]
       /\ in_progress' = [in_progress EXCEPT ![n] = FALSE]
       /\ AppendOwn(n, Final(current_term[n], e.new))
  ELSE /\ pending' = [pending EXCEPT ![n] = e.new]
       /\ UNCHANGED <<current, in_progress, log, match_index>>

\* apply_new_config
ApplyFinal(n, e) ==
  /\ current' = [current EXCEPT ![n] = e.new]
  /\ pending' = [pending EXCEPT ![n] = NoConfig]
  /\ in_progress' = [in_progress EXCEPT ![n] = FALSE]
  /\ UNCHANGED <<log, match_index>>

\* The apply loop goes on to the next configuration entry that is committed; the
\* entries before it leave the membership alone.
ApplyEntries(n) ==
  LET due == {i \in last_applied[n] + 1 .. commit_index[n] : log[n][i].kind # "noop"}
      to == IF due = {} THEN commit_index[n] ELSE Min(due)
  IN
  /\ last_applied[n] < commit_index[n]
  /\ last_applied' = [last_applied EXCEPT ![n] = to]
  /\ CASE log[n][to].kind = "joint" -> ApplyJoint(n, log[n][to])
       [] log[n][to].kind = "final" -> ApplyFinal(n, log[n][to])
       [] OTHER -> UNCHANGED <<membership, log, match_index>>
  /\ UNCHANGED <<current_term, voted_for, role, commit_index, left, elected, decided,
                 marks>>

\* RaftNode::new: the membership is that of the configuration file again, and the
\* log is applied from its start.
Restart(n) ==
  /\ Spend("crash")
  /\ role' = [role EXCEPT ![n] = "Follower"]
  /\ commit_index' = [commit_index EXCEPT ![n] = 0]
  /\ last_applied' = [last_applied EXCEPT ![n] = 0]
  /\ current' = [current EXCEPT ![n] = Node]
  /\ AbortChange({n})
  /\ UNCHANGED <<current_term, voted_for, log, match_index, elected, decided, marks>>

Next ==
  \E n \in Node :
    \/ \E votes \in SUBSET Node : Campaign(n, votes)
    \/ \E p \in Node : \/ \E sent \in 0..Len(log[n]), arrives \in BOOLEAN :
                            Replicate(n, p, sent, arrives)
                       \/ Refuse(n, p)
    \/ \E x \in Node \cup Extra : AddNode(n, x) \/ RemoveNode(n, x)
    \/ ApplyEntries(n)
    \/ Restart(n)

Spec == Init /\ [][Next]_vars

\* The event loop of a leader calls each peer in every round and applies what is
\* committed at the end of every turn; an answer is not lost for ever.
Fairness ==
  \A n \in Node : /\ WF_vars(ApplyEntries(n))
                  /\ \A p \in Node : WF_vars(Replicate(n, p, Len(log[n]), TRUE))

FairSpec == Spec /\ Fairness

-----------------------------------------------------------------------------
(* Properties.                                                             *)

\* Every variable has the type its Rust declaration gives it.
MembershipTypeOK ==
  /\ current_term \in [Node -> 0..MaxTerm]
  /\ role \in [Node -> {"Follower", "Leader"}]
  /\ \A n \in Node : voted_for[n] = Nobody \/ \E p \in Node : voted_for[n] = {p}
  /\ \A n \in Node : commit_index[n] \in 0..Len(log[n]) /\ last_applied[n] \in Nat
  /\ current \in [Node -> Config \ {{}}] /\ pending \in [Node -> Config]
  /\ in_progress \in [Node -> BOOLEAN]
  /\ \A n, p \in Node : match_index[n][p] \in Nat

\* "no two leaders can be elected for the same term during the transition"
OneLeaderPerTerm ==
  \A e, f \in elected : e.term = f.term => e.node = f.node

\* What a leader committed is in the log of every later leader, across changes,
\* aborted changes and restarts, as long as each commit had a majority of the
\* configured nodes, which are the ones that elect.
CompleteUnlessThin ==
  "thin" \notin marks => \A n \in Node : role[n] = "Leader" =>
             \A d \in decided : d.at < current_term[n] =>
               d.index <= Len(log[n]) /\ log[n][d.index] = d.entry

\* The last change in the node's log, if there is one, is finished and its final entry
\* applied.
Settled(n) ==
  LET configs == {i \in 1..Len(log[n]) : log[n][i].kind # "noop"} IN
  /\ pending[n] = NoConfig /\ ~in_progress[n]
  /\ configs # {} => LET i == Max(configs)
                     IN /\ log[n][i].kind = "final" /\ i <= last_applied[n]
                        /\ current[n] = log[n][i].new

\* The leader that proposed a change finishes it: it applies the joint entry, commits
\* and applies the final one, or it loses its leadership.  Once no more changes are
\* asked for, no leader has one to finish (propose_config_change, apply_config_change).
ChangeFinishes == []<>(\A n \in Node : role[n] = "Leader" => Settled(n))

\* "decisions (elections and commits) require majorities from BOTH the old and new
\* configurations": an election has a majority of the membership of its winner.
ElectedByMembers == "outside" \notin marks

\* The same for commits: a joint entry is committed by majorities of both its
\* configurations.
JointByBoth == "partial" \notin marks

\* "Once the joint config entry is committed, a second entry is proposed with only
\* the new configuration": a leader that has applied a joint entry has a final
\* entry for it in its log.
JointIsFinished ==
  \A n \in Node : role[n] = "Leader" =>
    \A i \in 1..last_applied[n] : log[n][i].kind = "joint" =>
      \E k \in i + 1 .. Len(log[n]) : log[n][k].kind = "final"

\* "Whether a config change is in progress (prevents concurrent changes)": between
\* two joint entries of a leader's log there is a final entry.
ChangesDoNotOverlap ==
  \A n \in Node : role[n] = "Leader" =>
    \A i, k \in 1..Len(log[n]) :
      i < k /\ log[n][i].kind = "joint" /\ log[n][k].kind = "joint" =>
        \E f \in i + 1 .. k - 1 : log[n][f].kind = "final"

=============================================================================
