------------------------------ MODULE MCCluster ------------------------------
(***************************************************************************)
(* What a leader does for clients and operators, for TLC: linearizable     *)
(* reads (RaftReads) and membership changes (Membership).  A behaviour is  *)
(* one of the component that `part' names.  The two have variables of the  *)
(* same names, which are declared once; those that a component does not    *)
(* have stay as they are while it moves.  Reads are looked at twice:       *)
(* "reads" has two rounds of AppendEntries, "faults" has one, a client     *)
(* command and vote calls that fail.  So are changes: in "restart" a node  *)
(* restarts and followers do not apply.                                    *)
(***************************************************************************)
EXTENDS RaftReads, TLC

CONSTANT Extra

VARIABLES part, match_index, current, in_progress, left, marks

\* What only Membership has, and what only RaftReads has.
m_vars == <<match_index, current, in_progress, left, marks>>
r_vars == <<leader_id, election_state, leader_state, wal_ahead, loop, network, spent, stored,
            recorded, read, covered>>

\* One node more, or one node less.
OneStep == {Node \cup Extra} \cup {Node \ {n} : n \in Node}

MCBudgets == {[change |-> 1, lost |-> 0, crash |-> 0],
              [change |-> 1, lost |-> 0, crash |-> 1]}

Mem == INSTANCE Membership WITH Wanted <- OneStep, Budgets <- MCBudgets

InitReads ==
  /\ ReadInit
  /\ match_index = None /\ current = None /\ in_progress = None /\ left = None /\ marks = None

InitChange ==
  /\ Mem!Init /\ left.crash = IF part = "restart" THEN 1 ELSE 0
  /\ leader_id = None /\ election_state = None /\ leader_state = None /\ wal_ahead = None
  /\ phase = None /\ ballot = None /\ todo = None /\ vote_response = None /\ appends = None
  /\ late_votes = None /\ late_appends = None /\ spent = None
  /\ stored = None /\ recorded = None /\ covered = None /\ read = [r \in Reader |-> NoRead]

ClusterInit ==
  \/ part \in {"reads", "faults"} /\ InitReads
  \/ part \in {"change", "restart"} /\ InitChange

ClusterNext ==
  \/ part \in {"reads", "faults"} /\ ReadNext /\ UNCHANGED <<part, m_vars>>
  \/ part \in {"change", "restart"} /\ Mem!Next /\ UNCHANGED <<part, r_vars>>

ClusterSpec == ClusterInit /\ [][ClusterNext]_<<part, allVars, m_vars>>

NodeSymmetry == Permutations(Node)

-----------------------------------------------------------------------------
(* Where behaviours are cut off.                                           *)

\* Reads: once every read has ended.
SomeReadOpen == \E r \in Reader : read[r].pc \notin {"done", "failed"}

\* Changes: once every node is in the last term after the change.  Only a node in an
\* earlier term can still be elected or commit in an earlier term, and a leader's own
\* log only grows.
StillOpen == left.change > 0 \/ \E n \in Node : current_term[n] < MaxTerm

Open == IF part \in {"reads", "faults"} THEN SomeReadOpen ELSE StillOpen

\* Only a node that is being read from takes its committed entries in a turn that
\* had nothing else to do: the stores of the others are not looked at.
AppliedWhenRead ==
  \A n \in Node :
    last_applied'[n] # last_applied[n] /\ phase[n] = "idle" =>
      \E r \in Reader : read[r].node = n

\* The calls of a vote round come through.
VotesArrive ==
  \A n \in Node : /\ \A p \in Node : ~VoteRequestFails(n, p)
                  /\ ~VoteResponseLost(n)

\* No client proposes anything.
NoCommands == \A n \in Node : \A i \in DOMAIN log'[n] : log'[n][i].data = Noop

\* Followers are slow to apply.
LeadersApply ==
  \A n \in Node : role[n] = "Leader" \/ last_applied'[n] <= last_applied[n]

Steps ==
  CASE part = "reads" -> AppliedWhenRead /\ VotesArrive /\ NoCommands
    [] part = "faults" -> AppliedWhenRead /\ spent'.append <= 1
    [] part = "change" -> TRUE
    [] part = "restart" -> LeadersApply

-----------------------------------------------------------------------------
(* The properties of both, in their behaviours.                            *)

\* Type invariant: the state of the read path, in which step_down_inner and the polling
\* loop leave no read behind, and of the nodes under it, and the state of the nodes during
\* a change (MembershipState).
ClusterTypeOK ==
  IF part \in {"reads", "faults"} THEN ReadTypeOK /\ PendingOnlyWhilePolled
  ELSE Mem!MembershipTypeOK

\* start_election and should_grant_vote: one leader per term while the members change.
OneLeaderPerTerm == part \in {"change", "restart"} => Mem!OneLeaderPerTerm

\* try_advance_commit with the members of a change: later leaders hold what was committed.
CompleteUnlessThin == part \in {"change", "restart"} => Mem!CompleteUnlessThin

=============================================================================
