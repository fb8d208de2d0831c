----------------------------- MODULE RaftLedger -----------------------------
(***************************************************************************)
(* The inductive invariant behind the safety of RaftNode's logs.           *)
(*                                                                         *)
(* A ledger L is what no variable of the program keeps: L[t] is the log of *)
(* the leader of term t as it last stood while that node led.  Every log,  *)
(* every AppendEntries request in flight and every committed entry can be  *)
(* described by it alone.  The invariant says that such a ledger exists:   *)
(* become_leader_inner and propose extend it, no other step has to.        *)
(***************************************************************************)
EXTENDS RaftNode

-----------------------------------------------------------------------------
(* What is in flight.                                                      *)

\* The AppendEntries requests that can still reach a node.
Requests ==
  {r \in {appends[n][p] : n, p \in Node} : r.kind = "request"}
    \cup {m.request : m \in late_appends}

\* The index of the last entry a request speaks for.
End(r) == r.prev_log_index + Len(r.entries)

Succeeded(a) == a.kind = "response" /\ a.success

\* p has told leader n that it holds n's log up to index i, or is about to.
Acked(n, p, i) ==
  \/ leader_state[n].match_index[p] >= i
  \/ Succeeded(appends[n][p]) /\ appends[n][p].match_index >= i

-----------------------------------------------------------------------------
(* The ledger and the logs.                                                *)

Ledger == [Term -> Seq(Entry)]

\* Up to each of its entries, s is the log of the leader of that entry's term.
Follows(s, L) ==
  \A i \in 1..Len(s) : /\ i <= Len(L[s[i].term])
                       /\ \A j \in 1..i : s[j] = L[s[i].term][j]

Ascending(s) == \A i, j \in 1..Len(s) : i <= j => s[i].term <= s[j].term

LedgerOK(L) ==
  \A t \in Term :
    /\ Ascending(L[t]) /\ Follows(L[t], L)
    /\ L[t] # <<>> => LastTerm(L[t]) = t /\ \E e \in elected : e.term = t

LogsOK(L) ==
  \A n \in Node :
    /\ Follows(log[n], L)
    /\ LastTerm(log[n]) <= current_term[n]
    /\ role[n] = "Leader" => log[n] # <<>> /\ log[n] = L[current_term[n]]

\* A request is a part of its leader's log that ends in an entry of its term.
RequestOK(L, r) ==
  /\ End(r) \in 1..Len(L[r.term])
  /\ L[r.term][End(r)].term = r.term
  /\ \A k \in 1..Len(r.entries) : r.entries[k] = L[r.term][r.prev_log_index + k]
  /\ r.prev_log_index >= 1 => r.prev_log_term = L[r.term][r.prev_log_index].term

RequestsOK(L) == \A r \in Requests : RequestOK(L, r)

\* Nobody wins a term twice, or a term above its own.
ElectionsOK ==
  /\ \A e \in elected : e.term <= current_term[e.node]
  /\ \A n \in Node : phase[n] = "vote" /\ election_state[n] # {} =>
       ~Elected(n, current_term[n])

\* k is an index a peer can have acknowledged to leader n in n's term.
AckOK(n, k) == k = 0 \/ (k \in 1..Len(log[n]) /\ log[n][k].term = current_term[n])

AcksOK ==
  \A n, p \in Node : role[n] = "Leader" =>
    /\ leader_state[n].next_index[p] <= Len(log[n]) + 1
    /\ appends[n][p].kind = "request" => appends[n][p].term = current_term[n]
    /\ AckOK(n, leader_state[n].match_index[p])
    /\ Succeeded(appends[n][p]) => AckOK(n, appends[n][p].match_index)

\* The part of the invariant that log matching follows from.
LogInv(L) ==
  LedgerOK(L) /\ LogsOK(L) /\ RequestsOK(L) /\ ElectionsOK /\ AcksOK

-----------------------------------------------------------------------------
(* What is committed.                                                      *)

\* The order of is_log_up_to_date on a last term and a last index.
UpToDate(t1, i1, t2, i2) == t1 > t2 \/ (t1 = t2 /\ i1 >= i2)

AtLeast(lg, t, i) == UpToDate(LastTerm(lg), Len(lg), t, i)

\* v's log is at least as up to date as one that ends in an entry of term t at
\* index i, and so is every candidate of a later term that counts v's vote.
Reached(v, t, i) ==
  /\ AtLeast(log[v], t, i)
  /\ \A c \in Node : phase[c] = "vote" /\ ballot[c].term > t /\ v \in CountedBy(c) =>
       UpToDate(ballot[c].last_log_term, ballot[c].last_log_index, t, i)

\* Every later leader has the entry of term t at index i.
Kept(L, t, i) ==
  \A u \in Term : u > t /\ L[u] # <<>> => i \in 1..Len(L[u]) /\ L[u][i].term = t

\* A candidate's log is at least as up to date as its vote request says.
BallotsOK ==
  \A n \in Node : phase[n] = "vote" =>
    AtLeast(log[n], ballot[n].last_log_term, ballot[n].last_log_index)

\* What a leader may conclude of an entry of its own term from the answers to its
\* requests, before it has a quorum of them: it is kept as long as every later
\* leader was elected by one that has acknowledged it.
PendingOK(L) ==
  \A n \in Node : role[n] = "Leader" =>
    \A i \in 1..Len(log[n]) : log[n][i].term = current_term[n] =>
      /\ \A p \in Node : Acked(n, p, i) => Reached(p, current_term[n], i)
      /\ (\A e \in elected : e.term > current_term[n] => \E v \in e.votes : Acked(n, v, i))
           => Kept(L, current_term[n], i)

\* d was committed with an entry of its leader's own term at index a, which a
\* quorum has reached.
Secured(L, d, a) ==
  /\ d.index \in 1..a /\ a \in 1..Len(L[d.at])
  /\ L[d.at][a].term = d.at /\ L[d.at][d.index] = d.entry
  /\ Kept(L, d.at, a)
  /\ \E Q \in SUBSET Node : HasQuorum(Q) /\ \A v \in Q : Reached(v, d.at, a)

DecidedOK(L) == \A d \in decided : \E a \in Nat : Secured(L, d, a)

\* The entry at index i is committed, secured by one that a log with last term t
\* and last index k is at least as up to date as.
CommittedBelow(L, i, t, k) ==
  \E d \in decided : \E a \in Nat :
    d.index = i /\ Secured(L, d, a) /\ UpToDate(t, k, d.at, a)

\* What a node takes for committed is so below the end of its log,
CommitsOK(L) ==
  \A n \in Node : \A i \in 1..commit_index[n] :
    CommittedBelow(L, i, LastTerm(log[n]), Len(log[n]))

\* and what a request says is committed below the end of the request.
LeaderCommitsOK(L) ==
  \A r \in Requests : \A i \in 1..r.leader_commit : CommittedBelow(L, i, r.term, End(r))

CommitInv(L) ==
  BallotsOK /\ PendingOK(L) /\ DecidedOK(L) /\ CommitsOK(L) /\ LeaderCommitsOK(L)

\* The invariant: there is a ledger that accounts for the state.
LedgerInv == \E L \in Ledger : LogInv(L) /\ CommitInv(L)

=============================================================================
