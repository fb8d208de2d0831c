-------------------------- MODULE RaftCommitProofs --------------------------
(***************************************************************************)
(* Every step of RaftNode keeps the commitments: what a quorum has stored  *)
(* in its leader's term is in the log of every later leader (CommitInv).   *)
(* From the commitments: leader completeness and state machine safety.     *)
(***************************************************************************)
EXTENDS RaftLogProofs

-----------------------------------------------------------------------------
(* Votes and elections.                                                    *)

\* should_grant_vote gives a vote in a term only after the voter has entered it.
LEMMA VotesNotLater ==
  ASSUME TypeOK, LoopOK, VotesBacked
  PROVE  NoLaterVotes
<1>. SUFFICES ASSUME NEW v \in Node
              PROVE  /\ \A c \in Node : phase[c] = "vote" /\ v \in CountedBy(c) =>
                          ballot[c].term <= current_term[v]
                     /\ \A e \in elected : v \in e.votes => e.term <= current_term[v]
  BY Zenon DEF NoLaterVotes
<1>0. current_term[v] \in Nat
  BY Zenon DEF TypeOK, InnerTypeOK, Term
<1>1. \A c \in Node, t \in Nat : t \in VoteTerms /\ Counts(v, c, t) => t <= current_term[v]
  BY <1>0 DEF VotesBacked, Backs
<1>2. ASSUME NEW c \in Node, phase[c] = "vote", v \in CountedBy(c)
      PROVE  ballot[c].term <= current_term[v]
  <2>1. ballot[c].term \in Nat
    BY <1>2, Zenon DEF LoopOK, VoteRequest, Term
  <2>. QED  BY <1>1, <1>2, <2>1, Zenon DEF Counts, VoteTerms
<1>3. ASSUME NEW e \in elected, v \in e.votes PROVE e.term <= current_term[v]
  <2>1. e.term \in Nat /\ e.node \in Node
    BY Zenon DEF TypeOK, RestTypeOK, Term
  <2>. QED  BY <1>1, <1>3, <2>1, Zenon DEF Counts, VoteTerms
<1>. QED  BY <1>2, <1>3, Zenon

\* A node whose log ends in its current term has reached what the log holds of it.
LEMMA ReachedNow ==
  ASSUME TypeOK', LoopOK', NoLaterVotes', NEW v \in Node, NEW i \in Nat, NEW t,
         current_term'[v] = t, LastTerm(log'[v]) = t, Len(log'[v]) >= i
  PROVE  Reached(v, t, i)'
<1>1. AtLeast(log'[v], t, i)
  BY Zenon DEF AtLeast, UpToDate
<1>2. \A c \in Node : phase'[c] = "vote" => ballot'[c].term \in Nat
  BY Zenon DEF LoopOK, VoteRequest, Term
<1>3. t \in Nat
  BY DEF TypeOK, InnerTypeOK, Term
<1>4. \A c \in Node : phase'[c] = "vote" /\ v \in CountedBy(c)' => ~(ballot'[c].term > t)
  BY <1>2, <1>3 DEF NoLaterVotes
<1>. QED  BY <1>1, <1>4, Zenon DEF Reached

-----------------------------------------------------------------------------
(* What stays kept when the ledger grows.                                  *)

\* An entry a leader appends costs no later leader anything it kept; a new leader
\* has to hold what it is to keep when become_leader_inner appends its no-op.
LEMMA GrowsKept ==
  ASSUME TypeOK, NEW L \in Ledger, NEW n \in Node, NEW e, NEW L2, Grows(n, e, L, L2),
         NEW t \in Term, NEW i \in Nat, Kept(L, t, i),
         L[current_term[n]] = <<>> /\ current_term[n] > t =>
           i \in 1..Len(log[n]) /\ log[n][i].term = t
  PROVE  Kept(L2, t, i)
<1>. SUFFICES ASSUME NEW u \in Term, u > t, L2[u] # <<>>
              PROVE  i \in 1..Len(L2[u]) /\ L2[u][i].term = t
  BY Zenon DEF Kept
<1>1. /\ L2[current_term[n]] = log'[n]
      /\ \A w \in Term \ {current_term[n]} : L2[w] = L[w]
      /\ Len(log'[n]) = Len(log[n]) + 1 /\ Len(log[n]) \in Nat
      /\ \A j \in 1..Len(log[n]) : log'[n][j] = log[n][j]
  BY GrowsExtends
<1>2. CASE u # current_term[n]
  BY <1>1, <1>2, Zenon DEF Kept
<1>3. CASE u = current_term[n]
  <2>1. L[u] = <<>> \/ L[u] = log[n]
    BY <1>3, Zenon DEF Grows
  <2>2. i \in 1..Len(log[n]) /\ log[n][i].term = t
    BY <1>3, <2>1, Zenon DEF Kept
  <2>. QED  BY <1>1, <1>3, <2>2
<1>. QED  BY <1>2, <1>3, Zenon

\* A new leader has what a voter of its has reached: is_log_up_to_date.
LEMMA LeadsHolds ==
  ASSUME TypeOK, LoopOK, NEW L \in Ledger, LogInv(L), BallotsOK, VotesBacked,
         NEW n \in Node, Leads(n), NEW t \in Term, current_term[n] > t,
         NEW i \in 1..Len(L[t]), L[t][i].term = t, Kept(L, t, i),
         NEW v \in CountedBy(n), Reached(v, t, i)
  PROVE  i \in 1..Len(log[n]) /\ log[n][i].term = t
<1>1. phase[n] = "vote" /\ ballot[n].term = current_term[n]
  BY Zenon DEF Leads, VotesBacked
<1>2. UpToDate(ballot[n].last_log_term, ballot[n].last_log_index, t, i)
  BY <1>1, Zenon DEF Reached
<1>3. AtLeast(log[n], ballot[n].last_log_term, ballot[n].last_log_index)
  BY <1>1, Zenon DEF BallotsOK
<1>4. /\ t \in Nat /\ i \in Nat
      /\ ballot[n].last_log_term \in Nat /\ ballot[n].last_log_index \in Nat
      /\ log[n] \in Seq(Entry) /\ LastTerm(log[n]) \in Nat /\ Len(log[n]) \in Nat
  <2>1. ballot[n] \in VoteRequest
    BY <1>1, Zenon DEF LoopOK
  <2>2. log[n] \in Seq(Entry)
    BY Zenon DEF TypeOK, InnerTypeOK
  <2>. QED  BY <2>1, <2>2, LastTermOfEntry DEF VoteRequest, Term
<1>5. AtLeast(log[n], t, i)
  BY <1>2, <1>3, <1>4, UpToDateTransitive, Zenon DEF AtLeast
<1>6. Follows(log[n], L) /\ \A u \in Term : Ascending(L[u])
  BY Zenon DEF LogInv, LogsOK, LedgerOK
<1>7. i <= Len(log[n]) /\ \A j \in 1..i : log[n][j] = L[t][j]
  BY <1>4, <1>5, <1>6, HoldsPrefix, Zenon
<1>. QED  BY <1>4, <1>7

-----------------------------------------------------------------------------
(* What is secured stays secured.                                          *)

\* The ledger need not grow.
LEMMA SameSecures ==
  ASSUME TypeOK, TypeOK', LoopOK, Polls, LogsAdvance, NEW L \in Ledger,
         decided \subseteq decided'
  PROVE  Secures(L, L)
<1>. SUFFICES ASSUME NEW d \in decided, NEW a \in Nat, Secured(L, d, a) PROVE Secured(L, d, a)'
  BY Zenon DEF Secures
<1>1. d.at \in Term
  BY Zenon DEF TypeOK, RestTypeOK
<1>2. PICK Q \in SUBSET Node : HasQuorum(Q) /\ \A v \in Q : Reached(v, d.at, a)
  BY Zenon DEF Secured
<1>3. \A v \in Q : Reached(v, d.at, a)'
  BY <1>1, <1>2, ReachedStays, Zenon
<1>. QED  BY <1>2, <1>3, Zenon DEF Secured

\* It may grow by an entry that comes to its leader after what is secured.
LEMMA GrowsSecures ==
  ASSUME QuorumsMeet, TypeOK, TypeOK', LoopOK, Polls, NEW L \in Ledger, LogInv(L),
         BallotsOK, VotesBacked,
         NEW n \in Node, NEW e, NEW L2, Grows(n, e, L, L2), decided' = decided,
         Leads(n) \/ L[current_term[n]] # <<>>
  PROVE  Secures(L, L2)
<1>. SUFFICES ASSUME NEW d \in decided, NEW a \in Nat, Secured(L, d, a) PROVE Secured(L2, d, a)'
  BY Zenon DEF Secures
<1>1. d.at \in Term /\ L[d.at] \in Seq(Entry) /\ Len(L[d.at]) \in Nat
  BY DEF TypeOK, RestTypeOK, Ledger
<1>2. PICK Q \in SUBSET Node : HasQuorum(Q) /\ \A v \in Q : Reached(v, d.at, a)
  BY Zenon DEF Secured
<1>3. /\ d.index \in 1..a /\ a \in 1..Len(L[d.at]) /\ L[d.at][a].term = d.at
      /\ L[d.at][d.index] = d.entry /\ Kept(L, d.at, a)
  BY Zenon DEF Secured
<1>4. \A v \in Q : Reached(v, d.at, a)'
  BY <1>1, <1>2, ReachedStays, GrowsAdvance, Zenon
<1>5. /\ a \in 1..Len(L2[d.at]) /\ L2[d.at][a] = L[d.at][a]
      /\ L2[d.at][d.index] = L[d.at][d.index]
  <2>1. L2 \in Ledger /\ Extends(L, L2)
    BY GrowsExtends, Zenon
  <2>2. /\ Len(L[d.at]) <= Len(L2[d.at]) /\ Len(L2[d.at]) \in Nat
        /\ \A j \in 1..Len(L[d.at]) : L2[d.at][j] = L[d.at][j]
    BY <1>1, <2>1 DEF Extends, Ledger
  <2>3. \A j : j \in 1..Len(L[d.at]) => j \in 1..Len(L2[d.at])
    BY <1>1, <2>2 DEF Ledger
  <2>4. a \in 1..Len(L[d.at]) /\ d.index \in 1..Len(L[d.at])
    BY <1>1, <1>3
  <2>. QED  BY <2>2, <2>3, <2>4, Zenon
<1>6. ASSUME L[current_term[n]] = <<>>, current_term[n] > d.at
      PROVE  a \in 1..Len(log[n]) /\ log[n][a].term = d.at
  <2>1. Leads(n) /\ HasQuorum(CountedBy(n)) /\ CountedBy(n) \in SUBSET Node
    BY <1>6, Zenon DEF Leads, CountedBy, TypeOK, InnerTypeOK
  <2>2. PICK v \in Q : v \in CountedBy(n)
    BY <1>2, <2>1, Zenon DEF QuorumsMeet
  <2>. QED  BY <1>1, <1>2, <1>3, <1>6, <2>1, <2>2, LeadsHolds, Zenon
<1>7. Kept(L2, d.at, a)
  BY <1>1, <1>3, <1>6, GrowsKept, Zenon
<1>. QED  BY <1>2, <1>3, <1>4, <1>5, <1>7, Zenon DEF Secured

\* So what is committed below the end of a log is so below the end of a log that
\* is no less up to date.
LEMMA CommittedStaysBelow ==
  ASSUME TypeOK, NEW L, NEW L2, Secures(L, L2), NEW i,
         NEW t \in Nat, NEW k \in Nat, NEW t2 \in Nat, NEW k2 \in Nat,
         UpToDate(t2, k2, t, k), CommittedBelow(L, i, t, k)
  PROVE  CommittedBelow(L2, i, t2, k2)'
<1>1. PICK d \in decided, a \in Nat :
        d.index = i /\ Secured(L, d, a) /\ UpToDate(t, k, d.at, a)
  BY Zenon DEF CommittedBelow
<1>2. d.at \in Nat
  BY Zenon DEF TypeOK, RestTypeOK, Term
<1>3. UpToDate(t2, k2, d.at, a)
  BY <1>1, <1>2, UpToDateTransitive, Zenon
<1>4. d \in decided' /\ Secured(L2, d, a)'
  BY <1>1, Zenon DEF Secures
<1>. QED  BY <1>1, <1>3, <1>4, Zenon DEF CommittedBelow

-----------------------------------------------------------------------------
(* Pending entries.                                                        *)

\* A step in which leaders stay as they are keeps PendingOK when whoever is new
\* among those that have acknowledged an entry has reached it and no later vote.
LEMMA SamePending ==
  ASSUME TypeOK, TypeOK', LoopOK, Polls, LogsAdvance, NEW L \in Ledger, PendingOK(L),
         elected' = elected,
         \A m \in Node : role'[m] = "Leader" =>
           /\ role[m] = "Leader" /\ current_term'[m] = current_term[m] /\ log'[m] = log[m],
         \A m, q \in Node : \A i \in Nat : role'[m] = "Leader" /\ i >= 1 /\ Acked(m, q, i)' =>
           \/ Acked(m, q, i)
           \/ /\ Reached(q, current_term[m], i)'
              /\ \A e \in elected : q \in e.votes => ~(e.term > current_term[m])
  PROVE  PendingOK(L)'
<1>. SUFFICES ASSUME NEW m \in Node, role'[m] = "Leader",
                     NEW i \in 1..Len(log[m]), log[m][i].term = current_term[m]
              PROVE  /\ \A q \in Node : Acked(m, q, i)' => Reached(q, current_term[m], i)'
                     /\ (\A e \in elected : e.term > current_term[m] =>
                           \E v \in e.votes : Acked(m, v, i)')
                          => Kept(L, current_term[m], i)
  <2>1. \A m \in Node : role'[m] = "Leader" =>
          current_term'[m] = current_term[m] /\ log'[m] = log[m]
    OBVIOUS
  <2>2. elected' = elected
    OBVIOUS
  <2>. QED  BY <2>1, <2>2, Zenon DEF PendingOK, Reached, AtLeast
<1>1. /\ role[m] = "Leader" /\ i \in Nat /\ i >= 1 /\ current_term[m] \in Term
  BY DEF TypeOK, InnerTypeOK
<1>2. /\ \A q \in Node : Acked(m, q, i) => Reached(q, current_term[m], i)
      /\ (\A e \in elected : e.term > current_term[m] => \E v \in e.votes : Acked(m, v, i))
           => Kept(L, current_term[m], i)
  BY <1>1, Zenon DEF PendingOK
<1>3. \A q \in Node : Acked(m, q, i)' => Reached(q, current_term[m], i)'
  <2>. SUFFICES ASSUME NEW q \in Node, Acked(m, q, i)' PROVE Reached(q, current_term[m], i)'
    OBVIOUS
  <2>. QED  BY <1>1, <1>2, ReachedStays, Zenon
<1>4. \A e \in elected : e.votes \in SUBSET Node
  BY Zenon DEF TypeOK, RestTypeOK
<1>5. \A e \in elected, v \in Node :
        e.term > current_term[m] /\ v \in e.votes /\ Acked(m, v, i)' =>
        Acked(m, v, i)
  BY <1>1, Zenon
<1>. QED  BY <1>2, <1>3, <1>4, <1>5, Zenon

\* A quiet step, a replication round and a handled answer tell leaders nothing new.
LEMMA QuietPending ==
  ASSUME TypeOK, TypeOK', LoopOK, Polls, NEW L \in Ledger, PendingOK(L), Quiet
  PROVE  PendingOK(L)'
<1>1. LogsAdvance /\ elected' = elected /\ log' = log
  BY SameLogsAdvance, Zenon DEF Quiet
<1>2. \A m \in Node : role'[m] = "Leader" =>
        /\ role[m] = "Leader" /\ leader_state'[m] = leader_state[m]
        /\ current_term'[m] = current_term[m]
  BY Zenon DEF Quiet
<1>3. \A m, q \in Node : Succeeded(appends'[m][q]) => appends'[m][q] = appends[m][q]
  BY Zenon DEF Quiet, NoNewMessage
<1>4. \A m, q \in Node : \A i \in Nat : role'[m] = "Leader" /\ Acked(m, q, i)' => Acked(m, q, i)
  BY <1>2, <1>3, Zenon DEF Acked
<1>. QED  BY <1>1, <1>2, <1>4, SamePending, Zenon

\* A round of create_append_requests adds no acknowledgement.
LEMMA SendPending ==
  ASSUME TypeOK, TypeOK', LoopOK, Polls, NEW L \in Ledger, PendingOK(L),
         NEW n \in Node, SendAppendEntries(n)
  PROVE  PendingOK(L)'
<1>1. UNCHANGED <<log, role, leader_state, current_term, elected>>
  BY Zenon DEF SendAppendEntries, persistent, volatile, history
<1>2. \A m, q \in Node : Succeeded(appends'[m][q]) => appends'[m][q] = appends[m][q]
  BY SendRequests, Zenon
<1>3. \A m, q \in Node : \A i \in Nat : Acked(m, q, i)' => Acked(m, q, i)
  BY <1>1, <1>2, Zenon DEF Acked
<1>4. LogsAdvance
  BY <1>1, SameLogsAdvance, Zenon
<1>. QED  BY <1>1, <1>3, <1>4, SamePending, Zenon

\* What handle_append_response records in match_index was acknowledged before.
LEMMA AdvancesAcked ==
  ASSUME TypeOK, NEW n \in Node, NEW p \in Node, Advances(n, p),
         NEW m \in Node, NEW q \in Node, NEW i \in Nat,
         leader_state'[m].match_index[q] >= i
  PROVE  Acked(m, q, i)
<1>1. /\ appends[n][p] \in AppendResponse
      /\ \A k \in Node \ {n} : leader_state'[k] = leader_state[k]
      /\ \A k \in Node \ {p} : leader_state'[n].match_index[k] = leader_state[n].match_index[k]
      /\ leader_state'[n].match_index[p] =
           IF appends[n][p].success THEN appends[n][p].match_index
           ELSE leader_state[n].match_index[p]
  BY AdvancesFacts
<1>2. appends[n][p].kind = "response"
  BY <1>1, Zenon DEF AppendResponse
<1>. QED  BY <1>1, <1>2, Zenon DEF Acked, Succeeded

\* So handle_append_response adds no acknowledgement either.
LEMMA AdvancesPending ==
  ASSUME TypeOK, TypeOK', LoopOK, Polls, NEW L \in Ledger, PendingOK(L),
         NEW n \in Node, NEW p \in Node, Advances(n, p)
  PROVE  PendingOK(L)'
<1>1. UNCHANGED <<log, role, current_term, elected>>
  BY Zenon DEF Advances
<1>2. \A m, q \in Node : Succeeded(appends'[m][q]) => appends'[m][q] = appends[m][q]
  BY Zenon DEF Advances, NoNewMessage
<1>3. \A m, q \in Node : \A i \in Nat : Acked(m, q, i)' => Acked(m, q, i)
  <2>. SUFFICES ASSUME NEW m \in Node, NEW q \in Node, NEW i \in Nat, Acked(m, q, i)'
                PROVE  Acked(m, q, i)
    OBVIOUS
  <2>1. CASE leader_state'[m].match_index[q] >= i
    BY <2>1, AdvancesAcked, Zenon
  <2>2. CASE Succeeded(appends'[m][q]) /\ appends'[m][q].match_index >= i
    BY <1>2, <2>2, Zenon DEF Acked
  <2>. QED  BY <2>1, <2>2, Zenon DEF Acked
<1>4. LogsAdvance
  BY <1>1, SameLogsAdvance, Zenon
<1>. QED  BY <1>1, <1>3, <1>4, SamePending, Zenon

\* A follower that accepts a request of its leader's has reached what it reports, and
\* it has voted in no later term.
LEMMA StoresPending ==
  ASSUME WellOrdered, TypeOK, TypeOK', LoopOK, LoopOK', Polls, NoLaterVotes',
         NEW L \in Ledger, LogInv(L),
         PendingOK(L), NEW p \in Node, NEW r \in Requests, Stores(p, r)
  PROVE  PendingOK(L)'
<1>1. /\ elected' = elected /\ current_term'[p] = r.term
      /\ \A q \in Node \ {p} : current_term'[q] = current_term[q]
      /\ \A m \in Node : role'[m] = "Leader" =>
           m # p /\ role[m] = "Leader" /\ leader_state'[m] = leader_state[m]
      /\ \A m, q \in Node : Succeeded(appends'[m][q]) =>
           \/ appends'[m][q] = appends[m][q]
           \/ q = p /\ appends[m][q] = r /\ appends'[m][q].match_index = Len(log'[p])
  BY Zenon DEF Stores
<1>2. /\ r \in AppendRequest /\ LastTerm(log'[p]) = r.term
      /\ \A q \in Node \ {p} : log'[q] = log[q]
  BY StoresFollows, Zenon
<1>3. r.kind = "request" /\ r.term \in Nat
  BY <1>2, Zenon DEF AppendRequest, Term
<1>4. \A m \in Node : role'[m] = "Leader" =>
        /\ role[m] = "Leader" /\ current_term'[m] = current_term[m] /\ log'[m] = log[m]
  BY <1>1, <1>2, Zenon
<1>5. ASSUME NEW m \in Node, NEW q \in Node, NEW i \in Nat, role'[m] = "Leader", Acked(m, q, i)'
      PROVE  \/ Acked(m, q, i)
             \/ /\ Reached(q, current_term[m], i)'
                /\ \A e \in elected : q \in e.votes => ~(e.term > current_term[m])
  <2>0. role[m] = "Leader" /\ leader_state'[m] = leader_state[m]
    BY <1>1, <1>5, Zenon
  <2>1. CASE leader_state'[m].match_index[q] >= i
    BY <2>0, <2>1, Zenon DEF Acked
  <2>2. CASE /\ Succeeded(appends'[m][q]) /\ appends'[m][q] = appends[m][q]
             /\ appends'[m][q].match_index >= i
    BY <2>2, Zenon DEF Acked
  <2>3. CASE q = p /\ appends[m][q] = r /\ Len(log'[p]) >= i
    <3>1. r.term = current_term[m] /\ current_term'[m] = current_term[m]
      BY <1>3, <1>4, <1>5, <2>0, <2>3, Zenon DEF LogInv, AcksOK
    <3>2. Reached(p, current_term[m], i)'
      BY <1>1, <1>2, <2>3, <3>1, ReachedNow, Zenon
    <3>3. \A e \in elected : p \in e.votes => e.term <= r.term /\ e.term \in Nat
      BY <1>1, Zenon DEF NoLaterVotes, TypeOK, RestTypeOK, Term
    <3>4. \A e \in elected : p \in e.votes => ~(e.term > r.term)
      BY <1>3, <3>3
    <3>. QED  BY <2>3, <3>1, <3>2, <3>4, Zenon
  <2>. QED  BY <1>1, <1>5, <2>1, <2>2, <2>3, Zenon DEF Acked
<1>6. LogsAdvance
  BY StoresAdvance, Zenon
<1>. QED  BY <1>1, <1>4, <1>5, <1>6, SamePending, Zenon

\* What the other leaders may conclude is still true when n appends an entry: if that
\* makes n a leader, one of its voters had reached the entry they ask about.
LEMMA GrowsPendingOthers ==
  ASSUME TypeOK, TypeOK', LoopOK, Polls, VotesBacked, BallotsOK, NEW L \in Ledger, LogInv(L),
         PendingOK(L), NEW n \in Node, NEW e, NEW L2, Grows(n, e, L, L2),
         Leads(n) \/ L[current_term[n]] # <<>>,
         NEW m \in Node \ {n}, role'[m] = "Leader",
         NEW i \in 1..Len(log[m]), log[m][i].term = current_term[m]
  PROVE  /\ \A q \in Node : Acked(m, q, i)' => Reached(q, current_term[m], i)'
         /\ (\A x \in elected' : x.term > current_term[m] => \E v \in x.votes : Acked(m, v, i)')
              => Kept(L2, current_term[m], i)
<1>. DEFINE t == current_term[m]
<1>1. /\ UNCHANGED <<current_term, appends>> /\ elected \subseteq elected'
      /\ role[m] = "Leader" /\ leader_state'[m] = leader_state[m] /\ t # current_term[n]
  BY Zenon DEF Grows
<1>2. /\ t \in Term /\ i \in Nat /\ log[m] = L[t]
  BY <1>1 DEF TypeOK, InnerTypeOK, LogInv, LogsOK
<1>3. \A q \in Node : Acked(m, q, i)' => Acked(m, q, i)
  BY <1>1, Zenon DEF Acked
<1>4. /\ \A q \in Node : Acked(m, q, i) => Reached(q, t, i)
      /\ (\A x \in elected : x.term > t => \E v \in x.votes : Acked(m, v, i)) => Kept(L, t, i)
  BY <1>1, Zenon DEF PendingOK
<1>5. \A q \in Node : Acked(m, q, i)' => Reached(q, t, i)'
  <2>1. \A q \in Node, u \in Term : Reached(q, u, i) => Reached(q, u, i)'
    BY <1>2, ReachedStays, GrowsAdvance, Zenon
  <2>2. \A q \in Node : \A u : u = t /\ Acked(m, q, i)' => Reached(q, u, i)'
    BY <1>2, <1>3, <1>4, <2>1, Zenon
  <2>. QED  BY <1>1, <2>2, Zenon
<1>. HIDE DEF t
<1>6. ASSUME \A x \in elected' : x.term > t => \E v \in x.votes : Acked(m, v, i)'
      PROVE  Kept(L2, t, i)
  <2>0. \A x \in elected' : x.votes \in SUBSET Node
    BY Zenon DEF TypeOK, RestTypeOK
  <2>1. \A x \in elected' : x.term > t => \E v \in x.votes : v \in Node /\ Acked(m, v, i)
    BY <1>3, <1>6, <2>0, Zenon
  <2>2. Kept(L, t, i)
    BY <1>1, <1>4, <2>1, Zenon
  <2>3. ASSUME L[current_term[n]] = <<>>, current_term[n] > t
        PROVE  i \in 1..Len(log[n]) /\ log[n][i].term = t
    <3>. DEFINE x0 == [node |-> n, term |-> current_term[n], votes |-> CountedBy(n)]
    <3>1. Leads(n) /\ x0 \in elected'
      BY <2>3, Zenon DEF Leads, BecomeLeader
    <3>2. PICK v \in CountedBy(n) : v \in Node /\ Acked(m, v, i)
      BY <2>1, <2>3, <3>1, Zenon
    <3>3. Reached(v, t, i) /\ i \in 1..Len(L[t]) /\ L[t][i].term = t
      BY <1>2, <1>4, <3>2, Zenon DEF t
    <3>. QED  BY <1>2, <2>2, <2>3, <3>1, <3>2, <3>3, LeadsHolds
  <2>. QED  BY <1>2, <2>2, <2>3, GrowsKept, Zenon
<1>. QED  BY <1>1, <1>5, <1>6, Zenon DEF t

\* A leader that appends an entry knows of it only that it has it itself.
LEMMA GrowsPending ==
  ASSUME TypeOK, TypeOK', LoopOK, LoopOK', Polls, VotesBacked, NoLaterVotes', BallotsOK,
         NEW L \in Ledger, LogInv(L), PendingOK(L),
         NEW n \in Node, NEW e, NEW L2, Grows(n, e, L, L2),
         Leads(n) \/ L[current_term[n]] # <<>>,
         \A q \in Node \ {n}, i \in Nat : i >= 1 /\ Acked(n, q, i)' =>
           role[n] = "Leader" /\ i <= Len(log[n]) /\ Acked(n, q, i)
  PROVE  PendingOK(L2)'
<1>. DEFINE T == current_term[n]
<1>1. /\ current_term' = current_term /\ elected \subseteq elected' /\ T \in Term /\ T \in Nat
  BY Zenon DEF Grows, TypeOK, InnerTypeOK, Term
<1>2. /\ \A m \in Node \ {n} : log'[m] = log[m]
      /\ Len(log'[n]) = Len(log[n]) + 1 /\ Len(log[n]) \in Nat
      /\ \A j \in 1..Len(log[n]) : log'[n][j] = log[n][j]
      /\ \A t \in Term \ {T} : L2[t] = L[t]
  BY GrowsExtends
<1>3. LogsAdvance /\ LastTerm(log'[n]) = T
  BY GrowsAdvance, Zenon
<1>4. ASSUME NEW i \in 1..Len(log'[n]), log'[n][i].term = T
      PROVE  /\ \A q \in Node : Acked(n, q, i)' => Reached(q, T, i)'
             /\ (\A x \in elected' : x.term > T => \E v \in x.votes : Acked(n, v, i)')
                  => Kept(L2, T, i)
  <2>0. i \in Nat /\ i >= 1
    BY <1>2
  <2>1. role[n] = "Leader" /\ i <= Len(log[n]) =>
          /\ \A q \in Node : Acked(n, q, i) => Reached(q, T, i)
          /\ (\A x \in elected : x.term > T => \E v \in x.votes : Acked(n, v, i))
               => Kept(L, T, i)
    BY <1>2, <1>4, <2>0 DEF PendingOK
  <2>2. ASSUME NEW q \in Node, Acked(n, q, i)' PROVE Reached(q, T, i)'
    <3>1. CASE q = n
      BY <1>1, <1>2, <1>3, <2>0, <3>1, ReachedNow
    <3>2. CASE q # n
      <4>1. Reached(q, T, i)
        BY <2>0, <2>1, <2>2, <3>2, Zenon
      <4>2. \A t : t = T => Reached(q, t, i)'
        BY <1>1, <1>3, <2>0, <4>1, ReachedStays, Zenon
      <4>. QED  BY <1>1, <4>2, Zenon
    <3>. QED  BY <3>1, <3>2, Zenon
  <2>3. ASSUME \A x \in elected' : x.term > T => \E v \in x.votes : Acked(n, v, i)'
        PROVE  Kept(L2, T, i)
    <3>0. \A x \in elected' : x.votes \in SUBSET Node /\ x.term \in Nat
      BY Zenon DEF TypeOK, RestTypeOK, Term
    <3>1. \A x \in elected' : n \in x.votes => x.term <= T
      BY <1>1, Zenon DEF NoLaterVotes
    <3>2. \A x \in elected' : x.term > T =>
            \E v \in x.votes : v \in Node \ {n} /\ Acked(n, v, i)'
      BY <1>1, <2>3, <3>0, <3>1
    <3>3. \A x \in elected' : x.term > T =>
            role[n] = "Leader" /\ i <= Len(log[n]) /\ \E v \in x.votes : Acked(n, v, i)
      BY <2>0, <3>2, Zenon
    <3>4. CASE role[n] = "Leader" /\ i <= Len(log[n])
      <4>1. Kept(L, T, i)
        BY <1>1, <2>1, <3>3, <3>4, Zenon
      <4>. QED  BY <1>1, <2>0, <4>1, GrowsKept
    <3>5. CASE ~(role[n] = "Leader" /\ i <= Len(log[n]))
      <4>1. \A x \in elected : ~(x.term > T)
        BY <1>1, <3>3, <3>5, Zenon
      <4>2. \A u \in Term : u > T => L[u] = <<>>
        BY <4>1, Zenon DEF LogInv, LedgerOK
      <4>3. \A u \in Term : u > T => L2[u] = <<>>
        BY <1>1, <1>2, <4>2
      <4>. QED  BY <4>3, Zenon DEF Kept
    <3>. QED  BY <3>4, <3>5, Zenon
  <2>. QED  BY <2>2, <2>3, Zenon
<1>5. ASSUME NEW m \in Node \ {n}, role'[m] = "Leader",
             NEW i \in 1..Len(log[m]), log[m][i].term = current_term[m]
      PROVE  /\ \A q \in Node : Acked(m, q, i)' => Reached(q, current_term[m], i)'
             /\ (\A x \in elected' : x.term > current_term[m] =>
                   \E v \in x.votes : Acked(m, v, i)') => Kept(L2, current_term[m], i)
  BY <1>5, GrowsPendingOthers, Zenon
<1>. SUFFICES ASSUME NEW m \in Node, role'[m] = "Leader",
                     NEW i \in 1..Len(log'[m]), log'[m][i].term = current_term'[m]
              PROVE  /\ \A q \in Node : Acked(m, q, i)' => Reached(q, current_term[m], i)'
                     /\ (\A x \in elected' : x.term > current_term'[m] =>
                           \E v \in x.votes : Acked(m, v, i)') => Kept(L2, current_term'[m], i)
  BY Zenon DEF PendingOK
<1>6. CASE m = n
  BY <1>1, <1>4, <1>6, Zenon
<1>7. CASE m # n
  BY <1>1, <1>2, <1>5, <1>7, Zenon
<1>. QED  BY <1>6, <1>7, Zenon

\* The two ways in which a leader's log grows.
LEMMA LeadsAcked ==
  ASSUME TypeOK, LoopOK, NEW n \in Node, Leads(n), NEW q \in Node \ {n}, NEW i \in Nat, i >= 1
  PROVE  ~Acked(n, q, i)'
<1>1. /\ leader_state' = [leader_state EXCEPT ![n] =
           WithMatch(LeaderStateNew(n, Len(log[n])), n, Len(log[n]) + 1)]
      /\ appends' = appends /\ phase[n] = "vote"
  BY Zenon DEF Leads, BecomeLeader
<1>2. appends'[n][q] = NoRpc
  BY <1>1, Zenon DEF LoopOK
<1>3. leader_state'[n] = WithMatch(LeaderStateNew(n, Len(log[n])), n, Len(log[n]) + 1)
  BY <1>1, Zenon DEF TypeOK, InnerTypeOK
<1>4. leader_state'[n].match_index[q] = 0
  BY <1>3 DEF WithMatch, LeaderStateNew
<1>5. ~Succeeded(NoRpc)
  BY Zenon DEF NoRpc, Succeeded
<1>. QED  BY <1>2, <1>4, <1>5 DEF Acked

\* propose adds an acknowledgement of the leader itself only.
LEMMA ProposeAcked ==
  ASSUME TypeOK, NEW L, LogInv(L), NEW n \in Node, NEW cmd, Propose(n, cmd),
         NEW q \in Node \ {n}, NEW i \in Nat, i >= 1, Acked(n, q, i)'
  PROVE  role[n] = "Leader" /\ i <= Len(log[n]) /\ Acked(n, q, i)
<1>1. /\ leader_state' = [leader_state EXCEPT ![n] = WithMatch(@, n, Len(log[n]) + 1)]
      /\ appends' = appends /\ role[n] = "Leader"
  BY Zenon DEF Propose, loop
<1>2. leader_state'[n] = WithMatch(leader_state[n], n, Len(log[n]) + 1)
  BY <1>1, Zenon DEF TypeOK, InnerTypeOK
<1>3. leader_state[n].match_index \in [Node -> Nat] /\ Len(log[n]) \in Nat
  BY DEF TypeOK, InnerTypeOK
<1>4. leader_state'[n].match_index[q] = leader_state[n].match_index[q]
  BY <1>2, <1>3 DEF WithMatch
<1>5. Acked(n, q, i)
  BY <1>1, <1>4, Zenon DEF Acked
<1>6. /\ AckOK(n, leader_state[n].match_index[q])
      /\ Succeeded(appends[n][q]) => AckOK(n, appends[n][q].match_index)
  BY <1>1, Zenon DEF LogInv, AcksOK
<1>7. \A k : AckOK(n, k) /\ k >= i => i <= Len(log[n])
  BY <1>3 DEF AckOK
<1>. QED  BY <1>1, <1>5, <1>6, <1>7, Zenon DEF Acked

-----------------------------------------------------------------------------
(* Commits.                                                                *)

\* A step keeps CommitsOK and LeaderCommitsOK when whatever it commits anew, and
\* whatever it announces as committed, is.
LEMMA CommitsStay ==
  ASSUME TypeOK, TypeOK', LogsAdvance, NEW L \in Ledger, NEW L2 \in Ledger, Secures(L, L2),
         CommitsOK(L), LeaderCommitsOK(L), RequestsOK(L),
         \A q \in Node : \A i \in 1..commit_index'[q] :
           \/ i \in 1..commit_index[q]
           \/ CommittedBelow(L2, i, LastTerm(log[q]), Len(log[q]))',
         \A r \in Requests' :
           \/ r \in Requests
           \/ \E q \in Node : /\ r.leader_commit = commit_index[q]
                              /\ r.term = LastTerm(log[q]) /\ End(r) = Len(log[q])
  PROVE  /\ CommitsOK(L2)' /\ LeaderCommitsOK(L2)'
         /\ \A q \in Node : \A i \in 1..commit_index[q] :
              CommittedBelow(L2, i, LastTerm(log[q]), Len(log[q]))'
<1>1. \A q \in Node : /\ LastTerm(log[q]) \in Nat /\ Len(log[q]) \in Nat
                      /\ LastTerm(log'[q]) \in Nat /\ Len(log'[q]) \in Nat
                      /\ UpToDate(LastTerm(log'[q]), Len(log'[q]), LastTerm(log[q]), Len(log[q]))
  BY LastTermOfEntry, Zenon DEF TypeOK, InnerTypeOK, LogsAdvance, AtLeast
<1>2. ASSUME NEW q \in Node, NEW i \in 1..commit_index[q]
      PROVE  CommittedBelow(L2, i, LastTerm(log[q]), Len(log[q]))'
  <2>1. CommittedBelow(L, i, LastTerm(log[q]), Len(log[q]))
    BY Zenon DEF CommitsOK
  <2>2. \A t2 \in Nat, k2 \in Nat : UpToDate(t2, k2, LastTerm(log[q]), Len(log[q])) =>
          CommittedBelow(L2, i, t2, k2)'
    BY <1>1, <2>1, CommittedStaysBelow, Zenon
  <2>3. \A t2 \in Nat, k2 \in Nat : t2 = LastTerm(log'[q]) /\ k2 = Len(log'[q]) =>
          CommittedBelow(L2, i, t2, k2)'
    BY <1>1, <2>2, Zenon
  <2>. QED  BY <1>1, <2>3 DEF CommittedBelow
<1>3. CommitsOK(L2)'
  BY <1>2, Zenon DEF CommitsOK
<1>4. ASSUME NEW r \in Requests', NEW i \in 1..r.leader_commit
      PROVE  CommittedBelow(L2, i, r.term, End(r))'
  <2>1. CASE r \in Requests
    <3>1. r \in AppendRequest /\ End(r) \in Nat /\ r.term \in Nat
      <4>1. r \in AppendRequest
        BY <2>1, RequestsType, Zenon
      <4>. QED  BY <4>1 DEF AppendRequest, Term, End
    <3>2. CommittedBelow(L, i, r.term, End(r))
      BY <2>1, Zenon DEF LeaderCommitsOK
    <3>3. UpToDate(r.term, End(r), r.term, End(r))
      BY <3>1 DEF UpToDate
    <3>. QED  BY <3>1, <3>2, <3>3, CommittedStaysBelow, Zenon
  <2>2. ASSUME NEW q \in Node, r.leader_commit = commit_index[q], r.term = LastTerm(log[q]),
               End(r) = Len(log[q])
        PROVE  CommittedBelow(L2, i, r.term, End(r))'
    <3>1. CommittedBelow(L, i, r.term, End(r)) /\ r.term \in Nat /\ End(r) \in Nat
      BY <1>1, <2>2, Zenon DEF CommitsOK
    <3>2. UpToDate(r.term, End(r), r.term, End(r))
      BY <3>1 DEF UpToDate
    <3>. QED  BY <3>1, <3>2, CommittedStaysBelow, Zenon
  <2>. QED  BY <2>1, <2>2, Zenon
<1>5. LeaderCommitsOK(L2)'
  BY <1>4, Zenon DEF LeaderCommitsOK
<1>. QED  BY <1>2, <1>3, <1>5, Zenon

\* DecidedOK from what is secured.
LEMMA DecidedStays ==
  ASSUME NEW L, NEW L2, Secures(L, L2), DecidedOK(L), decided' = decided
  PROVE  DecidedOK(L2)'
BY Zenon DEF Secures, DecidedOK

\* try_advance_commit commits what a quorum has reached and every later leader has.
LEMMA AdvancesSecured ==
  ASSUME QuorumsMeet, WellOrdered, TypeOK, TypeOK', LoopOK, Polls, VotesBacked,
         NEW L \in Ledger, LogInv(L), PendingOK(L),
         NEW n \in Node, NEW p \in Node, Advances(n, p), NEW c, c = commit_index'[n],
         NEW i \in Nat, i > commit_index[n], i <= c, NEW T, T = current_term[n],
         NEW d, d = [index |-> i, entry |-> log[n][i], at |-> T]
  PROVE  /\ d \in decided' /\ Secured(L, d, c)' /\ c \in Nat
         /\ AtLeast(log[n], T, c)
<1>. DEFINE matched == leader_state'[n].match_index
            Q == {q \in Node : matched[q] >= c}
<1>1. /\ matched \in [Node -> Nat]
      /\ commit_index' = [commit_index EXCEPT ![n] = AdvancedCommit(n, matched)]
      /\ decided' = decided \cup
           {[index |-> k, entry |-> log[n][k], at |-> current_term[n]] :
              k \in (commit_index[n] + 1)..AdvancedCommit(n, matched)}
  BY AdvancesFacts
<1>2. c = AdvancedCommit(n, matched) /\ commit_index[n] \in Nat /\ T \in Term
  BY <1>1, Zenon DEF TypeOK, InnerTypeOK
<1>. HIDE DEF matched
<1>3. c \in Nat /\ c \in Committable(n, matched)
  BY <1>1, <1>2, AdvancedCommitType
<1>4. c \in 1..Len(log[n]) /\ HasQuorum(Q) /\ log[n][c].term = T
  BY <1>3, Zenon DEF Committable
<1>5. d \in decided'
  BY <1>1, <1>2, <1>3
<1>6. /\ role[n] = "Leader" /\ log[n] = L[T] /\ log[n] # <<>> /\ log[n] \in Seq(Entry)
  BY Zenon DEF Advances, LogInv, LogsOK, TypeOK, InnerTypeOK
<1>7. \A q \in Q : Acked(n, q, c)
  BY <1>1, <1>3, AdvancesAcked, Zenon DEF matched
<1>8. \A q \in Q : Reached(q, T, c)
  BY <1>4, <1>6, <1>7, Zenon DEF PendingOK
<1>9. Kept(L, T, c)
  <2>1. ASSUME NEW x \in elected PROVE \E v \in x.votes : Acked(n, v, c)
    <3>1. HasQuorum(x.votes) /\ x.votes \in SUBSET Node /\ Q \in SUBSET Node
      BY Zenon DEF VotesBacked, TypeOK, RestTypeOK
    <3>2. PICK v \in x.votes : v \in Q
      BY <1>4, <3>1, Zenon DEF QuorumsMeet
    <3>. QED  BY <1>7, <3>2, Zenon
  <2>. QED  BY <1>4, <1>6, <2>1, Zenon DEF PendingOK
<1>10. \E R \in SUBSET Node : HasQuorum(R) /\ \A q \in R : Reached(q, T, c)
  <2>1. Q \in SUBSET Node
    OBVIOUS
  <2>. QED  BY <1>4, <1>8, <2>1, Zenon
<1>11. PICK R \in SUBSET Node : HasQuorum(R) /\ \A q \in R : Reached(q, T, c)
  BY <1>10, Zenon
<1>12. \A q \in R : Reached(q, T, c)'
  BY <1>2, <1>3, <1>11, ReachedStays, SameLogsAdvance, Zenon DEF Advances
<1>13. AtLeast(log[n], T, c)
  <2>1. LastTerm(log[n]) = T
    BY <1>2, <1>6, Zenon DEF LogInv, LedgerOK
  <2>. QED  BY <1>4, <2>1 DEF AtLeast, UpToDate
<1>14. d.index = i /\ d.entry = log[n][i] /\ d.at = T
  OBVIOUS
<1>15. i \in 1..c /\ c \in 1..Len(L[T]) /\ L[T][c].term = T /\ L[T][i] = log[n][i]
  BY <1>2, <1>3, <1>4, <1>6
<1>16. Secured(L, d, c)'
  BY <1>9, <1>11, <1>12, <1>14, <1>15, Zenon DEF Secured
<1>. QED  BY <1>3, <1>5, <1>13, <1>16, Zenon

-----------------------------------------------------------------------------
(* Every kind of step keeps CommitInv.                                     *)

\* What the steps have in common.
LEMMA CommitStep ==
  ASSUME TypeOK, TypeOK', LoopOK, Polls, LogsAdvance,
         NEW L \in Ledger, NEW L2 \in Ledger, RequestsOK(L), CommitInv(L),
         Secures(L, L2), PendingOK(L2)', DecidedOK(L2)',
         \A q \in Node : \A i \in 1..commit_index'[q] :
           \/ i \in 1..commit_index[q]
           \/ CommittedBelow(L2, i, LastTerm(log[q]), Len(log[q]))',
         \A r \in Requests' :
           \/ r \in Requests
           \/ \E q \in Node : /\ r.leader_commit = commit_index[q]
                              /\ r.term = LastTerm(log[q]) /\ End(r) = Len(log[q])
  PROVE  CommitInv(L2)' /\ StillCommitted(L2)
<1>1. BallotsOK /\ CommitsOK(L) /\ LeaderCommitsOK(L)
  BY Zenon DEF CommitInv
<1>2. BallotsOK'
  BY <1>1, ReachedStays, Zenon
<1>3. /\ CommitsOK(L2)' /\ LeaderCommitsOK(L2)'
      /\ \A q \in Node : \A i \in 1..commit_index[q] :
           CommittedBelow(L2, i, LastTerm(log[q]), Len(log[q]))'
  BY <1>1, CommitsStay, Zenon
<1>. QED  BY <1>2, <1>3, Zenon DEF CommitInv, StillCommitted

\* A step that changes nothing of it, a restart included.
LEMMA QuietCommitInv ==
  ASSUME TypeOK, TypeOK', LoopOK, Polls, NEW L \in Ledger, LogInv(L), CommitInv(L), Quiet
  PROVE  CommitInv(L)' /\ StillCommitted(L)
<1>1. LogsAdvance /\ decided' = decided /\ Requests' \subseteq Requests
  BY SameLogsAdvance, Zenon DEF Quiet, NoNewMessage
<1>2. PendingOK(L) /\ DecidedOK(L) /\ RequestsOK(L)
  BY Zenon DEF CommitInv, LogInv
<1>3. Secures(L, L)
  BY <1>1, SameSecures
<1>4. PendingOK(L)' /\ DecidedOK(L)'
  BY <1>1, <1>2, <1>3, QuietPending, DecidedStays, Zenon
<1>5. \A q \in Node : \A i \in 1..commit_index'[q] : i \in 1..commit_index[q]
  <2>1. 1..0 = {}
    OBVIOUS
  <2>. QED  BY <2>1, Zenon DEF Quiet
<1>. QED  BY <1>1, <1>2, <1>3, <1>4, <1>5, CommitStep, Zenon

\* A replication round.
LEMMA SendCommitInv ==
  ASSUME TypeOK, TypeOK', LoopOK, Polls, NEW L \in Ledger, LogInv(L), CommitInv(L),
         NEW n \in Node, SendAppendEntries(n)
  PROVE  CommitInv(L)' /\ StillCommitted(L)
<1>1. /\ log' = log /\ decided' = decided /\ commit_index' = commit_index
      /\ role[n] = "Leader"
  BY Zenon DEF SendAppendEntries, history
<1>2. PendingOK(L) /\ DecidedOK(L) /\ RequestsOK(L) /\ LogsAdvance
  BY <1>1, SameLogsAdvance, Zenon DEF CommitInv, LogInv
<1>3. Secures(L, L)
  BY <1>1, <1>2, SameSecures
<1>4. PendingOK(L)' /\ DecidedOK(L)'
  BY <1>1, <1>2, <1>3, SendPending, DecidedStays, Zenon
<1>5. current_term[n] = LastTerm(log[n])
  <2>1. current_term[n] \in Term /\ log[n] # <<>> /\ log[n] = L[current_term[n]]
    BY <1>1, Zenon DEF LogInv, LogsOK, TypeOK, InnerTypeOK
  <2>. QED  BY <2>1, Zenon DEF LogInv, LedgerOK
<1>6. ASSUME NEW p \in Peers(n), NEW r, r = AppendRequestFor(n, p)
      PROVE  /\ r.leader_commit = commit_index[n]
             /\ r.term = LastTerm(log[n]) /\ End(r) = Len(log[n])
  <2>1. r.leader_commit = commit_index[n] /\ r.term = current_term[n]
    BY <1>6 DEF AppendRequestFor
  <2>. QED  BY <1>1, <1>5, <1>6, <2>1, AppendRequestForOK, Zenon
<1>7. \A r \in Requests' :
        \/ r \in Requests
        \/ \E q \in Node : /\ r.leader_commit = commit_index[q]
                           /\ r.term = LastTerm(log[q]) /\ End(r) = Len(log[q])
  BY <1>6, SendRequests, Zenon
<1>. QED  BY <1>1, <1>2, <1>3, <1>4, <1>7, CommitStep, Zenon

\* The answer that completes a quorum commits.
LEMMA AdvancesCommitInv ==
  ASSUME WellOrdered, QuorumsMeet, TypeOK, TypeOK', LoopOK, Polls, VotesBacked,
         NEW L \in Ledger, LogInv(L), CommitInv(L), NEW n \in Node, NEW p \in Node,
         Advances(n, p)
  PROVE  CommitInv(L)' /\ StillCommitted(L)
<1>. DEFINE c == commit_index'[n]
            T == current_term[n]
            Entered(i) == [index |-> i, entry |-> log[n][i], at |-> T]
<1>1. log' = log /\ LogsAdvance /\ Requests' \subseteq Requests
  BY SameLogsAdvance, Zenon DEF Advances, NoNewMessage
<1>2. PendingOK(L) /\ DecidedOK(L) /\ RequestsOK(L)
  BY Zenon DEF CommitInv, LogInv
<1>3. /\ \A q \in Node \ {n} : commit_index'[q] = commit_index[q]
      /\ decided' = decided \cup {Entered(i) : i \in (commit_index[n] + 1)..c}
  <2>1. PICK matched : matched = leader_state'[n].match_index
    OBVIOUS
  <2>2. /\ commit_index' = [commit_index EXCEPT ![n] = AdvancedCommit(n, matched)]
        /\ decided' = decided \cup
             {[index |-> i, entry |-> log[n][i], at |-> current_term[n]] :
                i \in (commit_index[n] + 1)..AdvancedCommit(n, matched)}
    BY <2>1, AdvancesFacts, Zenon
  <2>3. /\ c = AdvancedCommit(n, matched)
        /\ \A q \in Node \ {n} : commit_index'[q] = commit_index[q]
    BY <2>2, Zenon DEF TypeOK, InnerTypeOK
  <2>. QED  BY <2>2, <2>3, Zenon
<1>4. commit_index[n] \in Nat /\ c \in Nat
  BY Zenon DEF TypeOK, InnerTypeOK
<1>5. ASSUME NEW i \in Nat, i > commit_index[n], i <= c, NEW d, d = Entered(i)
      PROVE  /\ d \in decided' /\ d.index = i
             /\ \E a \in Nat : Secured(L, d, a)' /\ AtLeast(log[n], d.at, a)
  <2>1. PICK a, t : a = c /\ t = T
    BY Zenon
  <2>2. d = [index |-> i, entry |-> log[n][i], at |-> t] /\ d.index = i /\ d.at = t
    BY <1>5, <2>1
  <2>3. d \in decided' /\ Secured(L, d, a)' /\ AtLeast(log[n], t, a)
    BY <1>2, <1>5, <2>1, <2>2, AdvancesSecured, Zenon
  <2>. QED  BY <1>4, <2>1, <2>2, <2>3, Zenon
<1>. HIDE DEF c, T, Entered
<1>6. Secures(L, L)
  BY <1>1, <1>3, SameSecures, Zenon
<1>7. DecidedOK(L)'
  <2>. SUFFICES ASSUME NEW d \in decided' PROVE \E a \in Nat : Secured(L, d, a)'
    BY Zenon DEF DecidedOK
  <2>1. CASE d \in decided
    BY <1>2, <1>6, <2>1, Zenon DEF DecidedOK, Secures
  <2>2. ASSUME NEW i \in (commit_index[n] + 1)..c, d = Entered(i)
        PROVE  \E a \in Nat : Secured(L, d, a)'
    <3>1. i \in Nat /\ i > commit_index[n] /\ i <= c
      BY <1>4
    <3>. QED  BY <1>5, <2>2, <3>1, Zenon
  <2>. QED  BY <1>3, <2>1, <2>2, Zenon
<1>8. PendingOK(L)'
  BY <1>2, AdvancesPending, Zenon
<1>9. ASSUME NEW i \in 1..c, i \notin 1..commit_index[n]
      PROVE  CommittedBelow(L, i, LastTerm(log[n]), Len(log[n]))'
  <2>1. i \in Nat /\ i > commit_index[n] /\ i <= c
    BY <1>4, <1>9
  <2>2. PICK d : d = Entered(i)
    BY Zenon
  <2>3. PICK a \in Nat : Secured(L, d, a)' /\ AtLeast(log[n], d.at, a)
    BY <1>5, <2>1, <2>2, Zenon
  <2>4. d \in decided' /\ d.index = i
    BY <1>5, <2>1, <2>2, Zenon
  <2>5. UpToDate(LastTerm(log'[n]), Len(log'[n]), d.at, a)
    BY <1>1, <2>3, Zenon DEF AtLeast
  <2>. QED  BY <2>3, <2>4, <2>5, Zenon DEF CommittedBelow
<1>10. \A q \in Node : \A i \in 1..commit_index'[q] :
         \/ i \in 1..commit_index[q]
         \/ CommittedBelow(L, i, LastTerm(log[q]), Len(log[q]))'
  BY <1>3, <1>9, Zenon DEF c
<1>. QED  BY <1>1, <1>2, <1>6, <1>7, <1>8, <1>10, CommitStep, Zenon

\* A leader appends an entry to its log.
LEMMA GrowsCommitInv ==
  ASSUME QuorumsMeet, TypeOK, TypeOK', LoopOK, LoopOK', Polls, VotesBacked, NoLaterVotes',
         NEW L \in Ledger, LogInv(L), CommitInv(L), NEW n \in Node, NEW e, NEW L2,
         Grows(n, e, L, L2), Leads(n) \/ L[current_term[n]] # <<>>,
         \A q \in Node \ {n}, i \in Nat : i >= 1 /\ Acked(n, q, i)' =>
           role[n] = "Leader" /\ i <= Len(log[n]) /\ Acked(n, q, i),
         UNCHANGED <<commit_index, decided>>
  PROVE  CommitInv(L2)' /\ StillCommitted(L2)
<1>1. L2 \in Ledger /\ LogsAdvance /\ decided' = decided
  BY GrowsExtends, GrowsAdvance, Zenon
<1>2. PendingOK(L) /\ DecidedOK(L) /\ RequestsOK(L) /\ BallotsOK
  BY Zenon DEF CommitInv, LogInv
<1>3. Secures(L, L2)
  BY <1>1, <1>2, GrowsSecures, Zenon
<1>4. PendingOK(L2)'
  BY <1>2, GrowsPending, Zenon
<1>5. DecidedOK(L2)'
  BY <1>1, <1>2, <1>3, DecidedStays, Zenon
<1>6. Requests' = Requests
  <2>1. appends' = appends /\ late_appends' = late_appends
    BY Zenon DEF Grows
  <2>. QED  BY <2>1 DEF Requests
<1>. QED  BY <1>1, <1>2, <1>3, <1>4, <1>5, <1>6, CommitStep, Zenon

\* handle_append_entries accepts a request.
LEMMA StoresCommitInv ==
  ASSUME WellOrdered, TypeOK, TypeOK', LoopOK, LoopOK', Polls, NoLaterVotes',
         NEW L \in Ledger, LogInv(L), CommitInv(L), NEW p \in Node, NEW r \in Requests,
         Stores(p, r)
  PROVE  CommitInv(L)' /\ StillCommitted(L)
<1>1. /\ LogsAdvance /\ decided' = decided /\ Requests' \subseteq Requests
      /\ commit_index' = [commit_index EXCEPT ![p] =
           FollowerCommit(@, r.leader_commit, Len(StoreEntries(log[p], r)))]
  BY StoresAdvance, Zenon DEF Stores
<1>2. PendingOK(L) /\ DecidedOK(L) /\ RequestsOK(L) /\ LeaderCommitsOK(L)
  BY Zenon DEF CommitInv, LogInv
<1>3. Secures(L, L)
  BY <1>1, SameSecures
<1>4. PendingOK(L)' /\ DecidedOK(L)'
  BY <1>1, <1>2, <1>3, StoresPending, DecidedStays, Zenon
<1>5. /\ r \in AppendRequest /\ End(r) \in 1..Len(log'[p]) /\ LastTerm(log'[p]) = r.term
      /\ log'[p] \in Seq(Entry)
  BY StoresFollows, Zenon
<1>6. /\ r.leader_commit \in Nat /\ r.term \in Nat /\ End(r) \in Nat /\ Len(log'[p]) \in Nat
      /\ End(r) <= Len(log'[p])
  BY <1>5 DEF AppendRequest, Term
<1>7. /\ commit_index[p] \in Nat /\ \A q \in Node \ {p} : commit_index'[q] = commit_index[q]
      /\ commit_index'[p] \in Nat
      /\ commit_index'[p] = commit_index[p] \/ commit_index'[p] <= r.leader_commit
  <2>1. commit_index \in [Node -> Nat] /\ log'[p] = StoreEntries(log[p], r)
    BY Zenon DEF TypeOK, InnerTypeOK, Stores
  <2>2. /\ commit_index'[p] = FollowerCommit(commit_index[p], r.leader_commit, Len(log'[p]))
        /\ \A q \in Node \ {p} : commit_index'[q] = commit_index[q]
    BY <1>1, <2>1, Zenon
  <2>3. commit_index[p] \in Nat /\ commit_index'[p] \in Nat
    BY Zenon DEF TypeOK, InnerTypeOK
  <2>. QED  BY <1>6, <2>2, <2>3 DEF FollowerCommit, Lower
<1>8. ASSUME NEW i \in 1..r.leader_commit, NEW t, NEW k, t = LastTerm(log'[p]), k = Len(log'[p])
      PROVE  CommittedBelow(L, i, t, k)'
  <2>1. CommittedBelow(L, i, r.term, End(r))
    BY <1>2, Zenon DEF LeaderCommitsOK
  <2>2. t \in Nat /\ k \in Nat /\ UpToDate(t, k, r.term, End(r))
    BY <1>5, <1>6, <1>8 DEF UpToDate
  <2>. QED  BY <1>3, <1>6, <2>1, <2>2, CommittedStaysBelow, Zenon
<1>9. \A q \in Node : \A i \in 1..commit_index'[q] :
        \/ i \in 1..commit_index[q]
        \/ CommittedBelow(L, i, LastTerm(log[q]), Len(log[q]))'
  <2>. SUFFICES ASSUME NEW i \in 1..commit_index'[p], commit_index'[p] <= r.leader_commit
                PROVE  CommittedBelow(L, i, LastTerm(log[p]), Len(log[p]))'
    BY <1>7, Zenon
  <2>1. i \in 1..r.leader_commit
    BY <1>6, <1>7
  <2>2. \A t, k : t = LastTerm(log'[p]) /\ k = Len(log'[p]) => CommittedBelow(L, i, t, k)'
    BY <1>8, <2>1, Zenon
  <2>. QED  BY <2>2, Zenon DEF CommittedBelow
<1>. QED  BY <1>1, <1>2, <1>3, <1>4, <1>9, CommitStep, Zenon

\* Every step has a ledger that accounts for the next state and for what was
\* committed before.
LEMMA LedgerStep ==
  ASSUME WellOrdered, QuorumsMeet, TypeOK, TypeOK', LoopOK, LoopOK', VotesBacked, NoLaterVotes',
         RequestsFromElected, ElectionSafety, ElectionSafety', Polls, StepKind, LedgerInv
  PROVE  \E L2 \in Ledger : LogInv(L2)' /\ CommitInv(L2)' /\ StillCommitted(L2)
<1>. PICK L \in Ledger : LogInv(L) /\ CommitInv(L)
  BY Zenon DEF LedgerInv
<1>1. CASE Quiet
  BY <1>1, QuietLogInv, QuietCommitInv, Zenon
<1>2. ASSUME NEW n \in Node, SendAppendEntries(n)
      PROVE  LogInv(L)' /\ CommitInv(L)' /\ StillCommitted(L)
  BY <1>2, SendLogInv, SendCommitInv, Zenon
<1>3. ASSUME NEW n \in Node, NEW p \in Node, Advances(n, p)
      PROVE  LogInv(L)' /\ CommitInv(L)' /\ StillCommitted(L)
  BY <1>3, AdvancesLogInv, AdvancesCommitInv, Zenon
<1>4. ASSUME NEW p \in Node, NEW r \in Requests, Stores(p, r)
      PROVE  LogInv(L)' /\ CommitInv(L)' /\ StillCommitted(L)
  BY <1>4, StoresLogInv, StoresCommitInv, Zenon
<1>5. ASSUME NEW n \in Node, Leads(n)
      PROVE  \E L2 \in Ledger : LogInv(L2)' /\ CommitInv(L2)' /\ StillCommitted(L2)
  <2>1. PICK e : e = [term |-> current_term[n], data |-> Noop]
    BY Zenon
  <2>2. PICK L2 : L2 = [L EXCEPT ![current_term[n]] = Append(log[n], e)]
    BY Zenon
  <2>3. Grows(n, e, L, L2) /\ LogInv(L2)'
    BY <1>5, <2>1, <2>2, LeadsLogInv, Zenon
  <2>4. L2 \in Ledger
    BY <2>3, GrowsExtends, Zenon
  <2>5. \A q \in Node \ {n}, i \in Nat : i >= 1 => ~Acked(n, q, i)'
    BY <1>5, LeadsAcked, Zenon
  <2>6. UNCHANGED <<commit_index, decided>>
    BY <1>5, Zenon DEF Leads
  <2>7. CommitInv(L2)' /\ StillCommitted(L2)
    BY <1>5, <2>3, <2>5, <2>6, GrowsCommitInv, Zenon
  <2>. QED  BY <2>3, <2>4, <2>7, Zenon
<1>6. ASSUME NEW n \in Node, NEW cmd \in Command, Propose(n, cmd)
      PROVE  \E L2 \in Ledger : LogInv(L2)' /\ CommitInv(L2)' /\ StillCommitted(L2)
  <2>1. PICK e : e = [term |-> current_term[n], data |-> cmd]
    BY Zenon
  <2>2. PICK L2 : L2 = [L EXCEPT ![current_term[n]] = Append(log[n], e)]
    BY Zenon
  <2>3. Grows(n, e, L, L2) /\ LogInv(L2)'
    BY <1>6, <2>1, <2>2, ProposeLogInv, Zenon
  <2>4. L2 \in Ledger
    BY <2>3, GrowsExtends, Zenon
  <2>5. \A q \in Node \ {n}, i \in Nat : i >= 1 /\ Acked(n, q, i)' =>
          role[n] = "Leader" /\ i <= Len(log[n]) /\ Acked(n, q, i)
    BY <1>6, ProposeAcked, Zenon
  <2>6. UNCHANGED <<commit_index, decided>>
    BY <1>6, Zenon DEF Propose, history
  <2>7. L[current_term[n]] # <<>>
    BY <1>6, Zenon DEF Propose, LogInv, LogsOK
  <2>8. CommitInv(L2)' /\ StillCommitted(L2)
    BY <2>3, <2>5, <2>6, <2>7, GrowsCommitInv, Zenon
  <2>. QED  BY <2>3, <2>4, <2>8, Zenon
<1>. QED  BY <1>1, <1>2, <1>3, <1>4, <1>5, <1>6, Zenon DEF StepKind

\* At the beginning nobody has led.
LEMMA LedgerInit == Init => LedgerInv
<1>. SUFFICES ASSUME Init PROVE LedgerInv
  OBVIOUS
<1>. DEFINE L == [t \in Term |-> <<>>]
<1>1. L \in Ledger /\ \A t \in Term : L[t] = <<>>
  BY DEF Ledger
<1>2. Requests = {} /\ elected = {} /\ decided = {}
  BY DEF Init, Requests, NoRpc
<1>3. \A n \in Node : /\ log[n] = <<>> /\ role[n] = "Follower" /\ phase[n] = "idle"
                      /\ current_term[n] = 0 /\ commit_index[n] = 0
  BY DEF Init
<1>. HIDE DEF L
<1>4. Ascending(<<>>) /\ Follows(<<>>, L) /\ LastTerm(<<>>) = 0
  BY DEF Ascending, Follows, LastTerm, TermAt
<1>5. LogInv(L)
  <2>1. LedgerOK(L)
    BY <1>1, <1>4, Zenon DEF LedgerOK
  <2>2. LogsOK(L)
    BY <1>3, <1>4 DEF LogsOK
  <2>3. RequestsOK(L) /\ ElectionsOK /\ AcksOK
    BY <1>2, <1>3 DEF RequestsOK, ElectionsOK, AcksOK
  <2>. QED  BY <2>1, <2>2, <2>3, Zenon DEF LogInv
<1>6. CommitInv(L)
  <2>1. BallotsOK /\ PendingOK(L)
    BY <1>3 DEF BallotsOK, PendingOK
  <2>2. DecidedOK(L) /\ CommitsOK(L) /\ LeaderCommitsOK(L)
    BY <1>2, <1>3 DEF DecidedOK, CommitsOK, LeaderCommitsOK
  <2>. QED  BY <2>1, <2>2, Zenon DEF CommitInv
<1>. QED  BY <1>1, <1>5, <1>6, Zenon DEF LedgerInv

-----------------------------------------------------------------------------
(* What follows from the ledger.                                           *)

\* Logs that agree on their first k entries have the same prefix of that length.
LEMMA SamePrefix ==
  ASSUME NEW s \in Seq(Entry), NEW u \in Seq(Entry), NEW k \in Nat,
         k <= Len(s), k <= Len(u), \A j \in 1..k : s[j] = u[j]
  PROVE  SubSeq(s, 1, k) = SubSeq(u, 1, k)
OBVIOUS

\* Log matching, of what handle_append_entries stores after its consistency check.
LEMMA LedgerMatches ==
  ASSUME TypeOK, LedgerInv
  PROVE  LogMatching
<1>. PICK L \in Ledger : LogInv(L)
  BY Zenon DEF LedgerInv
<1>. SUFFICES ASSUME NEW n \in Node, NEW m \in Node,
                     NEW i \in 1..Lower(Len(log[n]), Len(log[m])),
                     log[n][i].term = log[m][i].term
              PROVE  SubSeq(log[n], 1, i) = SubSeq(log[m], 1, i)
  BY Zenon DEF LogMatching
<1>1. log[n] \in Seq(Entry) /\ log[m] \in Seq(Entry)
  BY Zenon DEF TypeOK, InnerTypeOK
<1>2. i \in Nat /\ i \in 1..Len(log[n]) /\ i <= Len(log[n]) /\ i <= Len(log[m])
  BY <1>1 DEF Lower
<1>3. Follows(log[n], L) /\ Follows(log[m], L)
  BY Zenon DEF LogInv, LogsOK
<1>4. \A j \in 1..i : log[n][j] = log[m][j]
  BY <1>1, <1>2, <1>3, FollowsMatch, Zenon
<1>. QED  BY <1>1, <1>2, <1>4, SamePrefix, Zenon

\* Leader completeness, of the term check in try_advance_commit and the
\* up-to-date check in should_grant_vote.
LEMMA LedgerCompletes ==
  ASSUME TypeOK, LedgerInv
  PROVE  LeaderCompleteness
<1>. PICK L \in Ledger : LogInv(L) /\ CommitInv(L)
  BY Zenon DEF LedgerInv
<1>. SUFFICES ASSUME NEW n \in Node, role[n] = "Leader", NEW d \in decided,
                     d.at <= current_term[n]
              PROVE  d.index <= Len(log[n]) /\ log[n][d.index] = d.entry
  BY Zenon DEF LeaderCompleteness
<1>1. PICK a \in Nat : Secured(L, d, a)
  BY Zenon DEF CommitInv, DecidedOK
<1>2. /\ d.index \in 1..a /\ a \in 1..Len(L[d.at])
      /\ L[d.at][a].term = d.at /\ L[d.at][d.index] = d.entry /\ Kept(L, d.at, a)
  BY <1>1, Zenon DEF Secured
<1>3. /\ d.at \in Term /\ current_term[n] \in Term /\ log[n] \in Seq(Entry)
  BY Zenon DEF TypeOK, InnerTypeOK, RestTypeOK
<1>4. log[n] # <<>> /\ log[n] = L[current_term[n]] /\ Follows(log[n], L)
  BY Zenon DEF LogInv, LogsOK
<1>5. L[d.at] \in Seq(Entry) /\ Len(L[d.at]) \in Nat /\ Len(log[n]) \in Nat
  BY <1>3 DEF Ledger
<1>6. CASE d.at = current_term[n]
  BY <1>2, <1>4, <1>5, <1>6
<1>7. CASE current_term[n] > d.at
  <2>1. a \in 1..Len(log[n]) /\ log[n][a].term = d.at
    BY <1>2, <1>3, <1>4, <1>7, Zenon DEF Kept
  <2>2. \A j \in 1..a : log[n][j] = L[d.at][j]
    BY <1>4, <2>1, Zenon DEF Follows
  <2>. QED  BY <1>2, <1>5, <2>1, <2>2
<1>. QED  BY <1>3, <1>6, <1>7 DEF Term

\* A log that is as up to date as the entry that secured d holds d's entry.
LEMMA SecuredHeld ==
  ASSUME NEW L \in Ledger, \A u \in Term : Ascending(L[u]),
         NEW lg \in Seq(Entry), Follows(lg, L), NEW t \in Term, NEW a \in Nat, NEW i,
         i \in 1..a, a \in 1..Len(L[t]), L[t][a].term = t, Kept(L, t, a), AtLeast(lg, t, a)
  PROVE  i \in Nat /\ i <= Len(lg) /\ lg[i] = L[t][i]
<1>1. a <= Len(lg) /\ \A j \in 1..a : lg[j] = L[t][j]
  BY HoldsPrefix, Zenon
<1>. QED  BY <1>1

\* No index is committed with two entries: the quorums that secured them meet.
LEMMA OneEntryPerIndex ==
  ASSUME QuorumsMeet, TypeOK, NEW L \in Ledger, LogInv(L), CommitInv(L),
         NEW d1 \in decided, NEW d2 \in decided, d1.index = d2.index
  PROVE  d1.entry = d2.entry
<1>1. PICK a1 \in Nat : Secured(L, d1, a1)
  BY Zenon DEF CommitInv, DecidedOK
<1>2. PICK a2 \in Nat : Secured(L, d2, a2)
  BY Zenon DEF CommitInv, DecidedOK
<1>3. d1.at \in Term /\ d2.at \in Term
  BY Zenon DEF TypeOK, RestTypeOK
<1>4. PICK v \in Node : AtLeast(log[v], d1.at, a1) /\ AtLeast(log[v], d2.at, a2)
  <2>1. PICK P \in SUBSET Node : HasQuorum(P) /\ \A v \in P : Reached(v, d1.at, a1)
    BY <1>1, Zenon DEF Secured
  <2>2. PICK Q \in SUBSET Node : HasQuorum(Q) /\ \A v \in Q : Reached(v, d2.at, a2)
    BY <1>2, Zenon DEF Secured
  <2>3. PICK v \in P : v \in Q
    BY <2>1, <2>2, Zenon DEF QuorumsMeet
  <2>. QED  BY <2>1, <2>2, <2>3, Zenon DEF Reached
<1>5. /\ log[v] \in Seq(Entry) /\ Follows(log[v], L)
      /\ \A u \in Term : Ascending(L[u])
  BY Zenon DEF TypeOK, InnerTypeOK, LogInv, LogsOK, LedgerOK
<1>6. log[v][d1.index] = L[d1.at][d1.index] /\ L[d1.at][d1.index] = d1.entry
  <2>1. /\ d1.index \in 1..a1 /\ a1 \in 1..Len(L[d1.at]) /\ L[d1.at][a1].term = d1.at
        /\ Kept(L, d1.at, a1) /\ L[d1.at][d1.index] = d1.entry
    BY <1>1, Zenon DEF Secured
  <2>2. log[v][d1.index] = L[d1.at][d1.index]
    BY <1>3, <1>4, <1>5, <2>1, SecuredHeld
  <2>. QED  BY <2>1, <2>2, Zenon
<1>7. log[v][d2.index] = L[d2.at][d2.index] /\ L[d2.at][d2.index] = d2.entry
  <2>1. /\ d2.index \in 1..a2 /\ a2 \in 1..Len(L[d2.at]) /\ L[d2.at][a2].term = d2.at
        /\ Kept(L, d2.at, a2) /\ L[d2.at][d2.index] = d2.entry
    BY <1>2, Zenon DEF Secured
  <2>2. log[v][d2.index] = L[d2.at][d2.index]
    BY <1>3, <1>4, <1>5, <2>1, SecuredHeld
  <2>. QED  BY <2>1, <2>2, Zenon
<1>. QED  BY <1>6, <1>7, Zenon

\* State machine safety, of handle_append_entries, which takes the leader's commit
\* index without a look at the terms.
LEMMA LedgerAgrees ==
  ASSUME QuorumsMeet, TypeOK, LedgerInv
  PROVE  StateMachineSafety
<1>. PICK L \in Ledger : LogInv(L) /\ CommitInv(L)
  BY Zenon DEF LedgerInv
<1>1. ASSUME NEW n \in Node, NEW i \in 1..commit_index[n]
      PROVE  i <= Len(log[n]) /\ \E d \in decided : d.index = i /\ d.entry = log[n][i]
  <2>1. CommittedBelow(L, i, LastTerm(log[n]), Len(log[n]))
    BY Zenon DEF CommitInv, CommitsOK
  <2>2. PICK d \in decided, a \in Nat :
          d.index = i /\ Secured(L, d, a) /\ UpToDate(LastTerm(log[n]), Len(log[n]), d.at, a)
    BY <2>1, Zenon DEF CommittedBelow
  <2>3. /\ d.at \in Term /\ log[n] \in Seq(Entry) /\ Follows(log[n], L)
        /\ \A u \in Term : Ascending(L[u])
    BY Zenon DEF TypeOK, InnerTypeOK, RestTypeOK, LogInv, LogsOK, LedgerOK
  <2>4. AtLeast(log[n], d.at, a)
    BY <2>2, Zenon DEF AtLeast
  <2>5. /\ d.index \in 1..a /\ a \in 1..Len(L[d.at]) /\ L[d.at][a].term = d.at
        /\ Kept(L, d.at, a) /\ L[d.at][d.index] = d.entry
    BY <2>2, Zenon DEF Secured
  <2>6. d.index <= Len(log[n]) /\ log[n][d.index] = L[d.at][d.index]
    BY <2>3, <2>4, <2>5, SecuredHeld
  <2>. QED  BY <2>2, <2>5, <2>6, Zenon
<1>2. \A d1, d2 \in decided : d1.index = d2.index => d1.entry = d2.entry
  BY OneEntryPerIndex, Zenon
<1>. QED  BY <1>1, <1>2, Zenon DEF StateMachineSafety

\* The match_index that handle_append_response keeps for a peer of the leader's term.
LEMMA LedgerMatchIndex ==
  ASSUME TypeOK, LedgerInv
  PROVE  MatchIndexSound
<1>. PICK L \in Ledger : LogInv(L) /\ CommitInv(L)
  BY Zenon DEF LedgerInv
<1>. SUFFICES ASSUME NEW n \in Node, NEW p \in Node, role[n] = "Leader",
                     current_term[p] = current_term[n],
                     NEW k, k = leader_state[n].match_index[p]
              PROVE  /\ k <= Len(log[n]) /\ k <= Len(log[p])
                     /\ SubSeq(log[p], 1, k) = SubSeq(log[n], 1, k)
  BY Zenon DEF MatchIndexSound
<1>1. /\ log[n] \in Seq(Entry) /\ log[p] \in Seq(Entry) /\ current_term[n] \in Term
      /\ k \in Nat
  BY DEF TypeOK, InnerTypeOK
<1>2. /\ log[n] = L[current_term[n]] /\ Follows(log[p], L)
      /\ LastTerm(log[p]) <= current_term[n] /\ AckOK(n, k)
  BY Zenon DEF LogInv, LogsOK, AcksOK
<1>3. \A j \in Nat :
        j <= Len(log[n]) /\ j <= Len(log[p]) /\ (\A i \in 1..j : log[p][i] = log[n][i]) =>
        SubSeq(log[p], 1, j) = SubSeq(log[n], 1, j)
  BY <1>1, SamePrefix, Zenon
<1>4. CASE k = 0
  BY <1>1, <1>3, <1>4
<1>5. CASE k \in 1..Len(log[n]) /\ log[n][k].term = current_term[n]
  <2>1. k >= k
    BY <1>1
  <2>2. Reached(p, current_term[n], k)
    BY <1>5, <2>1, Zenon DEF CommitInv, PendingOK, Acked
  <2>3. UpToDate(LastTerm(log[p]), Len(log[p]), current_term[n], k)
    BY <2>2, Zenon DEF Reached, AtLeast
  <2>4. /\ LastTerm(log[p]) \in Nat /\ current_term[n] \in Nat /\ Len(log[p]) \in Nat
        /\ Len(log[n]) \in Nat
    BY <1>1, LastTermOfEntry DEF Term
  <2>5. LastTerm(log[p]) = current_term[n] /\ k <= Len(log[p])
    BY <1>1, <1>2, <2>3, <2>4 DEF UpToDate
  <2>6. log[p] # <<>>
    BY <1>5, <2>4, <2>5
  <2>7. \A j \in 1..Len(log[p]) : log[p][j] = log[n][j]
    <3>1. \A j \in 1..Len(log[p]) : log[p][j] = L[LastTerm(log[p])][j]
      BY <1>1, <1>2, <2>6, FollowsLast, Zenon
    <3>. QED  BY <1>2, <2>5, <3>1, Zenon
  <2>8. k <= Len(log[n]) /\ \A j \in 1..k : log[p][j] = log[n][j]
    BY <1>1, <1>5, <2>4, <2>5, <2>7
  <2>. QED  BY <1>1, <1>3, <2>5, <2>8, Zenon
<1>. QED  BY <1>2, <1>4, <1>5, Zenon DEF AckOK

\* What was committed in a log before a step is still there after it.
LEMMA CommittedKept ==
  ASSUME TypeOK, TypeOK', decided \subseteq decided',
         StateMachineSafety, StateMachineSafety',
         NEW L \in Ledger, LogInv(L)', StillCommitted(L), NEW n \in Node
  PROVE  /\ Len(log'[n]) >= commit_index[n]
         /\ SubSeq(log'[n], 1, commit_index[n]) = SubSeq(log[n], 1, commit_index[n])
<1>1. /\ log[n] \in Seq(Entry) /\ log'[n] \in Seq(Entry) /\ commit_index[n] \in Nat
      /\ Len(log[n]) \in Nat /\ Len(log'[n]) \in Nat
  BY DEF TypeOK, InnerTypeOK
<1>2. ASSUME NEW i \in 1..commit_index[n]
      PROVE  i <= Len(log[n]) /\ i <= Len(log'[n]) /\ log'[n][i] = log[n][i]
  <2>1. PICK d \in decided', a \in Nat :
          d.index = i /\ Secured(L, d, a)' /\ UpToDate(LastTerm(log'[n]), Len(log'[n]), d.at, a)
    BY Zenon DEF StillCommitted, CommittedBelow
  <2>2. /\ d.at \in Term /\ Follows(log'[n], L) /\ \A u \in Term : Ascending(L[u])
    BY Zenon DEF TypeOK, RestTypeOK, LogInv, LogsOK, LedgerOK
  <2>3. AtLeast(log'[n], d.at, a)
    BY <2>1, Zenon DEF AtLeast
  <2>4. /\ d.index \in 1..a /\ a \in 1..Len(L[d.at]) /\ L[d.at][a].term = d.at
        /\ Kept(L, d.at, a) /\ L[d.at][d.index] = d.entry
    BY <2>1, Zenon DEF Secured
  <2>5. d.index <= Len(log'[n]) /\ log'[n][d.index] = L[d.at][d.index]
    <3>1. \A t \in Term, lg \in Seq(Entry) :
            /\ a \in 1..Len(L[t]) /\ L[t][a].term = t /\ Kept(L, t, a)
            /\ Follows(lg, L) /\ AtLeast(lg, t, a)
            => \A k \in 1..a : k <= Len(lg) /\ lg[k] = L[t][k]
      <4>. SUFFICES ASSUME NEW t \in Term, NEW lg \in Seq(Entry),
                           a \in 1..Len(L[t]), L[t][a].term = t, Kept(L, t, a),
                           Follows(lg, L), AtLeast(lg, t, a), NEW k \in 1..a
                    PROVE  k <= Len(lg) /\ lg[k] = L[t][k]
        BY Zenon
      <4>1. \A u \in Term : Ascending(L[u])
        BY <2>2, Zenon
      <4>2. a <= Len(lg) /\ \A j \in 1..a : lg[j] = L[t][j]
        BY <4>1, HoldsPrefix, Zenon
      <4>. QED  BY <4>2
    <3>. QED  BY <1>1, <2>2, <2>3, <2>4, <3>1, Zenon
  <2>6. PICK c \in decided : i <= Len(log[n]) /\ c.index = i /\ c.entry = log[n][i]
    BY Zenon DEF StateMachineSafety
  <2>7. c.entry = d.entry
    <3>1. \A d1, d2 \in decided' : d1.index = d2.index => d1.entry = d2.entry
      BY Zenon DEF StateMachineSafety
    <3>2. c \in decided' /\ c.index = d.index
      BY <2>1, <2>6, Zenon
    <3>. QED  BY <3>1, <3>2, Zenon
  <2>. QED  BY <2>1, <2>4, <2>5, <2>6, <2>7, Zenon
<1>3. commit_index[n] <= Len(log[n]) /\ commit_index[n] <= Len(log'[n])
  <2>1. CASE commit_index[n] = 0
    BY <1>1, <2>1
  <2>2. CASE commit_index[n] \in 1..commit_index[n]
    BY <1>2, <2>2, Zenon
  <2>. QED  BY <1>1, <2>1, <2>2
<1>4. SubSeq(log'[n], 1, commit_index[n]) = SubSeq(log[n], 1, commit_index[n])
  BY <1>1, <1>2, <1>3, SamePrefix, Zenon
<1>. QED  BY <1>1, <1>3, <1>4

\* Nothing is taken back in a step: a commit index falls in a crash only, since
\* handle_append_entries never cuts a log below what it holds for committed.
LEMMA LedgerStays ==
  ASSUME WellOrdered, TypeOK, TypeOK', LoopOK, StepKind,
         StateMachineSafety, StateMachineSafety',
         NEW L \in Ledger, LogInv(L)', StillCommitted(L), NEW n \in Node
  PROVE  KeepsCommitted(n)
<1>1. decided \subseteq decided'
  <2>1. ASSUME NEW m \in Node, NEW p \in Node, Advances(m, p)
        PROVE  decided \subseteq decided'
    BY <2>1, Zenon DEF Advances, AdvancePeer
  <2>2. ASSUME UNCHANGED decided PROVE decided \subseteq decided'
    BY <2>2, Zenon
  <2>. QED  BY <2>1, <2>2, Zenon DEF StepKind, Quiet, Leads, SendAppendEntries, Propose,
            Stores, history
<1>2. /\ Len(log'[n]) >= commit_index[n]
      /\ SubSeq(log'[n], 1, commit_index[n]) = SubSeq(log[n], 1, commit_index[n])
  BY <1>1, CommittedKept, Zenon
<1>3. /\ commit_index \in [Node -> Nat] /\ commit_index[n] \in Nat /\ commit_index'[n] \in Nat
      /\ log'[n] \in Seq(Entry) /\ Len(log'[n]) \in Nat
  BY DEF TypeOK, InnerTypeOK
<1>4. commit_index'[n] >= commit_index[n] \/ spent'.crash = spent.crash + 1
  <2>1. ASSUME UNCHANGED commit_index PROVE commit_index'[n] >= commit_index[n]
    BY <1>3, <2>1
  <2>2. CASE Quiet
    BY <1>3, <2>1, <2>2 DEF Quiet
  <2>3. ASSUME NEW m \in Node, NEW p \in Node, Advances(m, p)
        PROVE  commit_index'[n] >= commit_index[n]
    <3>1. PICK matched : matched = leader_state'[m].match_index
      BY Zenon
    <3>2. /\ matched \in [Node -> Nat]
          /\ commit_index' = [commit_index EXCEPT ![m] = AdvancedCommit(m, matched)]
      BY <2>3, <3>1, AdvancesFacts, Zenon
    <3>3. AdvancedCommit(m, matched) >= commit_index[m]
      BY <3>2, AdvancedCommitType, Zenon
    <3>4. CASE n = m
      BY <1>3, <3>2, <3>3, <3>4, Zenon
    <3>5. CASE n # m
      <4>1. commit_index'[n] = commit_index[n]
        BY <1>3, <3>2, <3>5, Zenon
      <4>. QED  BY <1>3, <4>1
    <3>. QED  BY <3>4, <3>5, Zenon
  <2>4. ASSUME NEW p \in Node, NEW r \in Requests, Stores(p, r)
        PROVE  commit_index'[n] >= commit_index[n]
    <3>1. CASE n # p
      <4>1. commit_index'[n] = commit_index[n]
        BY <1>3, <2>4, <3>1, Zenon DEF Stores
      <4>. QED  BY <1>3, <4>1
    <3>2. CASE n = p
      <4>1. commit_index'[n] = FollowerCommit(commit_index[n], r.leader_commit, Len(log'[n]))
        <5>1. log \in [Node -> Seq(Entry)]
          BY Zenon DEF TypeOK, InnerTypeOK
        <5>. QED  BY <1>3, <2>4, <3>2, <5>1, Zenon DEF Stores
      <4>2. r.leader_commit \in Nat
        BY RequestsType DEF AppendRequest
      <4>. QED  BY <1>2, <1>3, <4>1, <4>2 DEF FollowerCommit, Lower
    <3>. QED  BY <3>1, <3>2, Zenon
  <2>. QED  BY <2>1, <2>2, <2>3, <2>4, Zenon DEF StepKind, Leads, SendAppendEntries, Propose
<1>5. commit_index'[n] < commit_index[n] => spent'.crash = spent.crash + 1
  BY <1>3, <1>4
<1>. QED  BY <1>2, <1>5, Zenon DEF KeepsCommitted

=============================================================================
