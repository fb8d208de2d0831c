------------------------------ MODULE RaftSteps ------------------------------
(***************************************************************************)
(* What a step of RaftNode can do to votes, leaders, logs, requests and    *)
(* answers.  Every step polls honestly (Polls), follows nobody but leaders *)
(* (Heeds) and is of one of six kinds (StepKind).                          *)
(***************************************************************************)
EXTENDS RaftLedger

-----------------------------------------------------------------------------
(* What all steps have in common.                                          *)

\* Terms do not fall.  A vote round begins with the node's own log and vote in a
\* new term, and goes on by counting voters whose log is no more up to date.
Polls ==
  \A q \in Node :
    /\ current_term'[q] >= current_term[q]
    /\ phase'[q] = "vote" =>
         \/ /\ current_term'[q] > current_term[q]
            /\ ballot'[q].last_log_term = LastTerm(log[q])
            /\ ballot'[q].last_log_index = Len(log[q])
            /\ \A v \in CountedBy(q)' : v = q
         \/ /\ phase[q] = "vote" /\ ballot'[q] = ballot[q]
            /\ \A v \in CountedBy(q)' :
                 v \in CountedBy(q) \/ (v \in Node /\ IsLogUpToDate(log[v], ballot[q]))
            /\ election_state'[q] # {} =>
                 election_state[q] # {} /\ current_term'[q] = current_term[q]

\* The requests on their way to node q.
Inbox(q) ==
  {r \in {appends[n][q] : n \in Node} : r.kind = "request"}
    \cup {m.request : m \in {l \in late_appends : l.to = q}}

\* A node forgets its leader, or takes it from a request, or leads itself.  Only a
\* higher term, a crash or a request of its own term stops a leader.
Heeds ==
  /\ elected \subseteq elected'
  /\ \A m \in late_appends' : m \in late_appends \/
       \E n, p \in Node : /\ appends[n][p].kind = "request"
                          /\ m = [to |-> p, request |-> appends[n][p]]
  /\ \A q \in Node :
       /\ \/ leader_id'[q] = None
          \/ leader_id'[q] = leader_id[q] /\ current_term'[q] = current_term[q]
          \/ \E r \in Inbox(q) : leader_id'[q] = r.leader_id /\ current_term'[q] = r.term
          \/ leader_id'[q] = q /\ \E e \in elected' : e.node = q /\ e.term = current_term'[q]
       /\ role[q] = "Leader" =>
            \/ role'[q] = "Leader"
            \/ current_term'[q] # current_term[q]
            \/ spent'.crash # spent.crash
            \/ \E r \in Inbox(q) : r.term = current_term[q]

-----------------------------------------------------------------------------
(* The kinds of steps.                                                     *)

\* No new request and no new answer that reports success.
NoNewMessage ==
  /\ Requests' \subseteq Requests
  /\ \A q, p \in Node : appends'[q][p].kind = "request" \/ Succeeded(appends'[q][p]) =>
       appends'[q][p] = appends[q][p]

\* No log changes, nobody becomes leader, and a leader stays as it is or ends.
Quiet ==
  /\ UNCHANGED <<log, elected, decided>>
  /\ NoNewMessage
  /\ \A q \in Node :
       /\ role'[q] = "Leader" => /\ role[q] = "Leader"
                                 /\ leader_state'[q] = leader_state[q]
                                 /\ current_term'[q] = current_term[q]
       /\ \/ commit_index'[q] = commit_index[q]
          \/ commit_index'[q] = 0 /\ spent'.crash = spent.crash + 1

\* become_leader_inner: the last vote of a quorum is counted.
Leads(n) ==
  /\ phase[n] = "vote" /\ election_state[n] # {}
  /\ HasQuorum(CountedBy(n))
  /\ BecomeLeader(n, CountedBy(n))
  /\ UNCHANGED <<commit_index, appends, late_appends, decided>>

\* handle_append_entries accepts request r in node p.
Stores(p, r) ==
  /\ r \in Requests /\ r.term >= current_term[p] /\ PrevMatches(log[p], r)
  /\ log' = [log EXCEPT ![p] = StoreEntries(log[p], r)]
  /\ commit_index' = [commit_index EXCEPT ![p] =
       FollowerCommit(@, r.leader_commit, Len(StoreEntries(log[p], r)))]
  /\ current_term'[p] = r.term
  /\ \A q \in Node \ {p} : current_term'[q] = current_term[q]
  /\ \A q \in Node : role'[q] = "Leader" =>
       q # p /\ role[q] = "Leader" /\ leader_state'[q] = leader_state[q]
  /\ Requests' \subseteq Requests
  /\ \A n, q \in Node :
       /\ appends'[n][q].kind = "request" => appends'[n][q] = appends[n][q]
       /\ Succeeded(appends'[n][q]) =>
            \/ appends'[n][q] = appends[n][q]
            \/ q = p /\ appends[n][q] = r /\ appends'[n][q].match_index = Len(log'[p])
  /\ UNCHANGED <<elected, decided>>

\* handle_append_response in a leader.
Advances(n, p) ==
  /\ role[n] = "Leader" /\ appends[n][p].kind = "response"
  /\ AdvancePeer(n, p, appends[n][p])
  /\ NoNewMessage
  /\ UNCHANGED <<log, role, current_term, elected>>

StepKind ==
  \/ Quiet
  \/ \E n \in Node : \/ Leads(n) \/ SendAppendEntries(n)
                     \/ \E cmd \in Command : Propose(n, cmd)
                     \/ \E p \in Node : Advances(n, p)
  \/ \E p \in Node : \E r \in Requests : Stores(p, r)

-----------------------------------------------------------------------------
(* What such steps do to the ledger, the logs and the commitments.         *)

\* L2 is L with longer logs.
Extends(L, L2) ==
  \A t \in Term : /\ Len(L[t]) <= Len(L2[t])
                  /\ \A j \in 1..Len(L[t]) : L2[t][j] = L[t][j]

\* The entry e that n appends to its log as the leader of its term becomes part of
\* the ledger.
Grows(n, e, L, L2) ==
  /\ e \in Entry /\ e.term = current_term[n]
  /\ log' = [log EXCEPT ![n] = Append(@, e)]
  /\ L2 = [L EXCEPT ![current_term[n]] = Append(log[n], e)]
  /\ L[current_term[n]] \in {<<>>, log[n]}
  /\ UNCHANGED <<current_term, appends, late_appends>>
  /\ elected \subseteq elected' /\ \E x \in elected' : x.term = current_term[n]
  /\ role'[n] = "Leader"
  /\ \A m \in Node \ {n} : role'[m] = "Leader" =>
       /\ role[m] = "Leader" /\ current_term[m] # current_term[n]
       /\ leader_state'[m] = leader_state[m]

\* No log becomes less up to date.
LogsAdvance ==
  \A q \in Node : AtLeast(log'[q], LastTerm(log[q]), Len(log[q]))

\* In a step from ledger L to ledger L2.
Secures(L, L2) ==
  /\ decided \subseteq decided'
  /\ \A d \in decided, a \in Nat : Secured(L, d, a) => Secured(L2, d, a)'

\* What is committed before the step is committed after it, in ledger L.
StillCommitted(L) ==
  \A q \in Node : \A i \in 1..commit_index[q] :
    CommittedBelow(L, i, LastTerm(log[q]), Len(log[q]))'

\* Two quorums of the cluster share a node.
QuorumsMeet ==
  \A P, Q \in SUBSET Node : HasQuorum(P) /\ HasQuorum(Q) => \E v \in P : v \in Q

\* No vote counts in a term its voter has not reached.
NoLaterVotes ==
  \A v \in Node :
    /\ \A c \in Node : phase[c] = "vote" /\ v \in CountedBy(c) =>
         ballot[c].term <= current_term[v]
    /\ \A e \in elected : v \in e.votes => e.term <= current_term[v]

=============================================================================
