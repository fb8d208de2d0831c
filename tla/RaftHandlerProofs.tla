------------------------- MODULE RaftHandlerProofs --------------------------
(***************************************************************************)
(* The handlers of RaftNode, for every cluster size and every value of the *)
(* bounds: the types of what they compute, and what each of them can do to *)
(* the terms, votes, elections and roles of the nodes.  Every step keeps   *)
(* the types of the variables and the bookkeeping of the event loops; and  *)
(* it keeps VotesBacked, the inductive invariant behind election safety:   *)
(* the votes being counted, and those that made a leader, are pairwise     *)
(* compatible and each is still remembered by its voter or overtaken by a  *)
(* later term.                                                             *)
(***************************************************************************)
EXTENDS RaftSteps, TLAPS

-----------------------------------------------------------------------------
(* Facts about the helpers.                                                *)

\* Every non-empty set of naturals has a least element.  What needs this fact
\* takes it as a hypothesis: RaftProofs proves it, by the induction that the
\* well-foundedness of < rests on.
WellOrdered == \A S \in SUBSET Nat : S # {} => \E x \in S : \A y \in S : x <= y

\* A non-empty set of naturals with an upper bound has a greatest element.
LEMMA GreatestExists ==
  ASSUME WellOrdered, NEW b \in Nat, NEW S \in SUBSET (0..b), S # {}
  PROVE  \E x \in S : \A y \in S : y <= x
<1>. DEFINE D == {b - x : x \in S}
<1>0. \A x \in S : x \in Nat /\ x <= b /\ b - x \in Nat
  OBVIOUS
<1>1. D \in SUBSET Nat /\ D # {}
  BY <1>0, Zenon
<1>. HIDE DEF D
<1>2. PICK d \in D : \A e \in D : d <= e
  BY <1>1, Zenon DEF WellOrdered
<1>3. PICK x \in S : d = b - x
  BY <1>2, Zenon DEF D
<1>4. \A y \in S : b - y \in D
  BY Zenon DEF D
<1>. QED  BY <1>2, <1>3, <1>4

\* A part of a log is a log.
LEMMA SubLog ==
  ASSUME NEW lg \in Seq(Entry), NEW m \in Nat \ {0}, NEW n \in Int, n <= Len(lg)
  PROVE  /\ SubSeq(lg, m, n) \in Seq(Entry)
         /\ Len(SubSeq(lg, m, n)) = IF m <= n THEN n - m + 1 ELSE 0
         /\ \A i \in 1..(n - m + 1) : SubSeq(lg, m, n)[i] = lg[m + i - 1]
OBVIOUS

\* Two logs one after the other are a log.
LEMMA JoinLogs ==
  ASSUME NEW lg \in Seq(Entry), NEW more \in Seq(Entry)
  PROVE  /\ lg \o more \in Seq(Entry)
         /\ Len(lg \o more) = Len(lg) + Len(more)
         /\ \A i \in 1..(Len(lg) + Len(more)) :
              (lg \o more)[i] = IF i <= Len(lg) THEN lg[i] ELSE more[i - Len(lg)]
OBVIOUS

\* Nothing is joined to a log.
LEMMA JoinEmpty ==
  ASSUME NEW lg \in Seq(Entry)
  PROVE  lg \o <<>> = lg
OBVIOUS

\* RaftLog::append keeps the entries it finds and adds one after them.
LEMMA AppendToLog ==
  ASSUME NEW lg \in Seq(Entry), NEW e \in Entry
  PROVE  /\ Append(lg, e) \in Seq(Entry)
         /\ Append(lg, e) # <<>>
         /\ Len(Append(lg, e)) = Len(lg) + 1
         /\ \A i \in 1..Len(lg) : Append(lg, e)[i] = lg[i]
         /\ Append(lg, e)[Len(lg) + 1] = e
OBVIOUS

\* The position StoreEntries truncates at is one of the clashing positions, and
\* no smaller one clashes.
LEMMA FirstConflictIsLeast ==
  ASSUME WellOrdered, NEW lg \in Seq(Entry), NEW req \in AppendRequest,
         Conflicts(lg, req) # {}
  PROVE  /\ FirstConflict(lg, req) \in Conflicts(lg, req)
         /\ FirstConflict(lg, req) \in 1..Len(req.entries)
         /\ req.prev_log_index + FirstConflict(lg, req) <= Len(lg)
         /\ \A j \in Conflicts(lg, req) : FirstConflict(lg, req) <= j
<1>1. Conflicts(lg, req) \in SUBSET Nat
  BY DEF Conflicts
<1>2. \E k \in Conflicts(lg, req) : \A j \in Conflicts(lg, req) : k <= j
  BY <1>1, Zenon DEF WellOrdered
<1>3. /\ FirstConflict(lg, req) \in Conflicts(lg, req)
      /\ \A j \in Conflicts(lg, req) : FirstConflict(lg, req) <= j
  BY <1>2, Zenon DEF FirstConflict
<1>. QED  BY <1>3, Zenon DEF Conflicts

\* StoreEntries turns a log into a log.
LEMMA StoreEntriesType ==
  ASSUME WellOrdered,
         NEW lg \in Seq(Entry), NEW req \in AppendRequest, PrevMatches(lg, req)
  PROVE  StoreEntries(lg, req) \in Seq(Entry)
<1>1. CASE Conflicts(lg, req) # {}
  <2>. DEFINE k == FirstConflict(lg, req)
  <2>1. k \in 1..Len(req.entries) /\ req.prev_log_index + k <= Len(lg)
    BY <1>1, FirstConflictIsLeast, Zenon
  <2>. HIDE DEF k
  <2>2. req.prev_log_index \in Nat /\ req.entries \in Seq(Entry)
    BY Zenon DEF AppendRequest
  <2>3. SubSeq(lg, 1, req.prev_log_index + k - 1) \in Seq(Entry)
    BY <2>1, <2>2, SubLog
  <2>4. SubSeq(req.entries, k, Len(req.entries)) \in Seq(Entry)
    BY <2>1, <2>2, SubLog
  <2>. QED  BY <1>1, <2>3, <2>4, JoinLogs, Zenon DEF StoreEntries, k
<1>2. CASE Conflicts(lg, req) = {}
  <2>1. req.prev_log_index \in Nat /\ req.entries \in Seq(Entry)
    BY Zenon DEF AppendRequest
  <2>2. Len(lg) - req.prev_log_index + 1 \in Nat \ {0}
    BY <2>1 DEF PrevMatches
  <2>3. SubSeq(req.entries, Len(lg) - req.prev_log_index + 1, Len(req.entries))
          \in Seq(Entry)
    BY <2>1, <2>2, SubLog
  <2>. QED  BY <1>2, <2>3, JoinLogs, Zenon DEF StoreEntries
<1>. QED  BY <1>1, <1>2, Zenon

\* What try_advance_commit returns is an index of the log, or the old one.
LEMMA AdvancedCommitType ==
  ASSUME WellOrdered, TypeOK, NEW n \in Node, NEW matched \in [Node -> Nat]
  PROVE  /\ AdvancedCommit(n, matched) \in Nat
         /\ AdvancedCommit(n, matched) >= commit_index[n]
         /\ AdvancedCommit(n, matched) # commit_index[n] =>
              AdvancedCommit(n, matched) \in Committable(n, matched)
<1>. DEFINE c == Committable(n, matched)
<1>1. Len(log[n]) \in Nat /\ commit_index[n] \in Nat
  BY DEF TypeOK, InnerTypeOK
<1>2. c \in SUBSET (0..Len(log[n])) /\ \A i \in c : i > commit_index[n]
  BY <1>1 DEF Committable
<1>3. CASE c = {}
  BY <1>1, <1>3 DEF AdvancedCommit
<1>4. CASE c # {}
  <2>1. \E i \in c : \A j \in c : j <= i
    BY <1>1, <1>2, <1>4, GreatestExists, Zenon
  <2>2. AdvancedCommit(n, matched) \in c
    BY <1>4, <2>1, Zenon DEF AdvancedCommit
  <2>. QED  BY <1>1, <1>2, <2>2
<1>. QED  BY <1>3, <1>4, Zenon

-----------------------------------------------------------------------------
(* Type correctness.                                                       *)

\* RaftLog::term_at returns a term, for indexes outside the log too.
LEMMA TermAtType ==
  ASSUME NEW lg \in Seq(Entry), NEW i \in Int
  PROVE  TermAt(lg, i) \in Term
<1>1. CASE i \in 1..Len(lg)
  <2>1. lg[i] \in Entry
    BY <1>1
  <2>. QED  BY <1>1, <2>1, Zenon DEF TermAt, Entry
<1>2. CASE i \notin 1..Len(lg)
  BY <1>2, Zenon DEF TermAt, Term
<1>. QED  BY <1>1, <1>2, Zenon

\* The leader state of a node that does not lead has its type.
LEMMA NoLeaderStateType ==
  NoLeaderState \in [next_index : [Node -> Nat], match_index : [Node -> Nat]]
BY Zenon DEF NoLeaderState

\* LeaderState::new has its type and starts every peer at an index above 0.
LEMMA LeaderStateNewType ==
  ASSUME NEW n \in Node, NEW k \in Nat
  PROVE  /\ LeaderStateNew(n, k) \in [next_index : [Node -> Nat],
                                      match_index : [Node -> Nat]]
         /\ \A p \in Peers(n) : LeaderStateNew(n, k).next_index[p] >= 1
BY DEF LeaderStateNew, Peers

\* Setting one match index keeps the type and leaves next_index alone.
LEMMA WithMatchType ==
  ASSUME NEW ls \in [next_index : [Node -> Nat], match_index : [Node -> Nat]],
         NEW p \in Node, NEW i \in Nat
  PROVE  /\ WithMatch(ls, p, i) \in [next_index : [Node -> Nat],
                                    match_index : [Node -> Nat]]
         /\ WithMatch(ls, p, i).next_index = ls.next_index
BY Zenon DEF WithMatch

\* step_down_inner keeps the types of RaftNodeInner.
LEMMA StepDownType ==
  ASSUME TypeOK, NEW n \in Node, NEW t \in Term, StepDown(n, t),
         UNCHANGED <<log, commit_index, wal_ahead>>
  PROVE  InnerTypeOK'
BY NoLeaderStateType, Zenon DEF TypeOK, InnerTypeOK, StepDown

\* handle_vote_request keeps the types and answers with a VoteResponse.
LEMMA HandleVoteRequestType ==
  ASSUME TypeOK, NEW p \in Node, NEW req \in VoteRequest,
         HandleVoteRequest(p, req)
  PROVE  InnerTypeOK' /\ VoteResponseTo(p, req) \in VoteResponse
<1>1. /\ req.term \in Term /\ req.candidate_id \in Node
      /\ req.last_log_index \in Nat /\ req.last_log_term \in Term
      /\ req.is_pre_vote \in BOOLEAN
  BY Zenon DEF VoteRequest
<1>2. InnerTypeOK'
  <2>1. CASE ~req.is_pre_vote /\ req.term > current_term[p]
    <3>1. voted_for' \in [Node -> Node \cup {None}]
      BY <1>1, <2>1, Zenon DEF TypeOK, InnerTypeOK, HandleVoteRequest
    <3>2. leader_state' \in [Node -> [next_index : [Node -> Nat],
                                     match_index : [Node -> Nat]]]
      BY <2>1, NoLeaderStateType, Zenon DEF TypeOK, InnerTypeOK, HandleVoteRequest
    <3>. QED
      BY <1>1, <2>1, <3>1, <3>2, ZenonT(40) DEF TypeOK, InnerTypeOK, HandleVoteRequest
  <2>2. CASE ~(~req.is_pre_vote /\ req.term > current_term[p])
    <3>1. voted_for' \in [Node -> Node \cup {None}]
      BY <1>1, <2>2, ZenonT(20) DEF TypeOK, InnerTypeOK, HandleVoteRequest
    <3>. QED
      BY <2>2, <3>1, Zenon DEF TypeOK, InnerTypeOK, HandleVoteRequest, volatile
  <2>. QED  BY <2>1, <2>2, Zenon
<1>3. GrantsVote(p, req) \in BOOLEAN
  BY Zenon DEF GrantsVote
<1>4. VoteResponseTo(p, req) \in VoteResponse
  BY <1>1, <1>3, Zenon DEF TypeOK, InnerTypeOK, VoteResponseTo, VoteResponse
<1>. QED  BY <1>2, <1>4, Zenon

\* handle_append_entries keeps the types and answers with an AppendResponse.
LEMMA HandleAppendEntriesType ==
  ASSUME WellOrdered, TypeOK, NEW p \in Node, NEW req \in AppendRequest,
         HandleAppendEntries(p, req)
  PROVE  InnerTypeOK' /\ AppendResponseTo(p, req) \in AppendResponse
<1>1. /\ req.term \in Term /\ req.leader_id \in Node
      /\ req.prev_log_index \in Nat /\ req.leader_commit \in Nat
      /\ log[p] \in Seq(Entry) /\ commit_index[p] \in Nat /\ current_term[p] \in Nat
  BY Zenon DEF AppendRequest, TypeOK, InnerTypeOK, Term
<1>2. PrevMatches(log[p], req) => StoreEntries(log[p], req) \in Seq(Entry)
  BY <1>1, StoreEntriesType, Zenon
<1>3. ASSUME req.term < current_term[p] PROVE InnerTypeOK'
  BY <1>3, Zenon DEF HandleAppendEntries, TypeOK, InnerTypeOK, persistent, volatile
<1>4. ASSUME ~(req.term < current_term[p]) PROVE InnerTypeOK'
  <2>1. /\ current_term' \in [Node -> Term]
        /\ voted_for' \in [Node -> Node \cup {None}]
        /\ role' \in [Node -> {"Follower", "PreCandidate", "Candidate", "Leader"}]
        /\ leader_id' \in [Node -> Node \cup {None}]
        /\ election_state' \in [Node -> SUBSET Node]
        /\ leader_state' \in [Node -> [next_index : [Node -> Nat],
                                       match_index : [Node -> Nat]]]
    <3>1. CASE req.term > current_term[p]
      <4>1. leader_state' \in [Node -> [next_index : [Node -> Nat],
                                       match_index : [Node -> Nat]]]
        BY <1>4, <3>1, NoLeaderStateType, ZenonT(20) DEF HandleAppendEntries, TypeOK, InnerTypeOK
      <4>2. /\ current_term' = [current_term EXCEPT ![p] = req.term]
            /\ voted_for' = [voted_for EXCEPT ![p] = None]
            /\ role' = [role EXCEPT ![p] = "Follower"]
            /\ leader_id' = [leader_id EXCEPT ![p] = req.leader_id]
            /\ election_state' = [election_state EXCEPT ![p] = {}]
        BY <1>4, <3>1, Zenon DEF HandleAppendEntries
      <4>. QED  BY <1>1, <4>1, <4>2, Zenon DEF TypeOK, InnerTypeOK
    <3>2. CASE ~(req.term > current_term[p])
      <4>1. /\ current_term' = current_term /\ voted_for' = voted_for
            /\ election_state' = election_state /\ leader_state' = leader_state
        BY <1>1, <1>4, <3>2, Zenon DEF HandleAppendEntries, persistent
      <4>. QED
        BY <1>1, <1>4, <4>1, ZenonT(20) DEF HandleAppendEntries, TypeOK, InnerTypeOK
    <3>. QED  BY <3>1, <3>2, Zenon
  <2>2. /\ log' \in [Node -> Seq(Entry)]
        /\ commit_index' \in [Node -> Nat]
        /\ wal_ahead' \in [Node -> BOOLEAN]
    <3>1. CASE PrevMatches(log[p], req)
      <4>. DEFINE stored == StoreEntries(log[p], req)
      <4>1. stored \in Seq(Entry) /\ Len(stored) \in Nat
        BY <1>2, <3>1
      <4>2. /\ log' = [log EXCEPT ![p] = stored]
            /\ wal_ahead' = [wal_ahead EXCEPT ![p] = @ \/ Conflicts(log[p], req) # {}]
            /\ commit_index' = [commit_index EXCEPT ![p] =
                 FollowerCommit(@, req.leader_commit, Len(stored))]
        BY <1>4, <3>1, Zenon DEF HandleAppendEntries
      <4>. HIDE DEF stored
      <4>3. commit_index' \in [Node -> Nat]
        BY <1>1, <4>1, <4>2, Zenon DEF TypeOK, InnerTypeOK, FollowerCommit, Lower
      <4>. QED  BY <4>1, <4>2, <4>3, Zenon DEF TypeOK, InnerTypeOK
    <3>2. CASE ~PrevMatches(log[p], req)
      BY <1>4, <3>2, Zenon DEF HandleAppendEntries, TypeOK, InnerTypeOK
    <3>. QED  BY <3>1, <3>2, Zenon
  <2>. QED  BY <2>1, <2>2, Zenon DEF InnerTypeOK
<1>5. AppendResponseTo(p, req) \in AppendResponse
  <2>1. Len(log[p]) \in Nat
    BY <1>1
  <2>2. PrevMatches(log[p], req) => Len(StoreEntries(log[p], req)) \in Nat
    BY <1>2
  <2>3. (req.term >= current_term[p] /\ PrevMatches(log[p], req)) \in BOOLEAN
    OBVIOUS
  <2>. QED  BY <1>1, <2>1, <2>2, <2>3, Zenon DEF AppendResponseTo, AppendResponse, Term
<1>. QED  BY <1>3, <1>4, <1>5, Zenon

\* What the event loop knows when it is in a vote round.
LEMMA InVoteRound ==
  ASSUME TypeOK, LoopOK, NEW n \in Node,
         todo[n] # {} \/ vote_response[n] # NoAnswer
  PROVE  /\ phase[n] \in {"pre_vote", "vote"}
         /\ ballot[n] \in VoteRequest
         /\ ballot[n].candidate_id = n
         /\ ballot[n].is_pre_vote = (phase[n] = "pre_vote")
BY Zenon DEF LoopOK

\* The vote request a node sends is a VoteRequest.
LEMMA BallotOfType ==
  ASSUME TypeOK, NEW n \in Node, NEW t \in Term, NEW pre \in BOOLEAN
  PROVE  BallotOf(n, t, pre) \in VoteRequest
<1>1. log[n] \in Seq(Entry) /\ Len(log[n]) \in Nat
  BY DEF TypeOK, InnerTypeOK
<1>2. LastTerm(log[n]) \in Term
  BY <1>1, TermAtType DEF LastTerm
<1>. QED  BY <1>1, <1>2, Zenon DEF BallotOf, VoteRequest

\* An outstanding AppendEntries call holds the message its kind says.
LEMMA AppendsKind ==
  ASSUME TypeOK, NEW n \in Node, NEW p \in Node
  PROVE  /\ appends[n][p].kind = "request" => appends[n][p] \in AppendRequest
         /\ appends[n][p].kind = "response" => appends[n][p] \in AppendResponse
<1>1. \A a \in AppendRequest \cup AppendResponse \cup {NoRpc} :
        /\ a.kind = "request" => a \in AppendRequest
        /\ a.kind = "response" => a \in AppendResponse
  <2>1. \A a \in AppendRequest : a.kind = "request"
    BY Zenon DEF AppendRequest
  <2>2. \A a \in AppendResponse : a.kind = "response"
    BY Zenon DEF AppendResponse
  <2>3. NoRpc.kind = "none"
    BY Zenon DEF NoRpc
  <2>. QED  BY <2>1, <2>2, <2>3, Zenon
<1>2. appends \in [Node -> [Node -> AppendRequest \cup AppendResponse \cup {NoRpc}]]
  BY Zenon DEF TypeOK, LoopTypeOK
<1>3. appends[n][p] \in AppendRequest \cup AppendResponse \cup {NoRpc}
  BY <1>2, Zenon
<1>. QED  BY <1>1, <1>3, Zenon

\* A request in flight is an AppendRequest.
LEMMA RequestsType ==
  ASSUME TypeOK
  PROVE  Requests \subseteq AppendRequest
<1>1. \A n, p \in Node : appends[n][p].kind = "request" => appends[n][p] \in AppendRequest
  BY AppendsKind, Zenon
<1>2. \A m \in late_appends : m.request \in AppendRequest
  BY Zenon DEF TypeOK, RestTypeOK
<1>. QED  BY <1>1, <1>2 DEF Requests

\* What create_append_requests builds is an AppendRequest, because next_index
\* is at least 1: the subtraction for prev_log_index never saturates.
LEMMA AppendRequestForType ==
  ASSUME TypeOK, LoopOK, NEW n \in Node, NEW p \in Peers(n), role[n] = "Leader"
  PROVE  AppendRequestFor(n, p) \in AppendRequest
<1>. DEFINE next == leader_state[n].next_index[p]
<1>1. next \in Nat /\ next >= 1
  BY DEF TypeOK, InnerTypeOK, LoopOK, Peers
<1>2. log[n] \in Seq(Entry) /\ commit_index[n] \in Nat /\ current_term[n] \in Term
  BY Zenon DEF TypeOK, InnerTypeOK
<1>. HIDE DEF next
<1>3. next - 1 \in Nat /\ TermAt(log[n], next - 1) \in Term
  BY <1>1, <1>2, TermAtType
<1>4. SubSeq(log[n], next, Len(log[n])) \in Seq(Entry)
  BY <1>1, <1>2, SubLog
<1>. QED  BY <1>2, <1>3, <1>4, Zenon DEF AppendRequestFor, AppendRequest, next

\* handle_append_response keeps the types, and next_index stays at least 1.
LEMMA AdvancePeerType ==
  ASSUME WellOrdered, TypeOK, NEW n \in Node, NEW p \in Node,
         NEW resp \in AppendResponse, AdvancePeer(n, p, resp)
  PROVE  /\ leader_state' \in [Node -> [next_index : [Node -> Nat],
                                        match_index : [Node -> Nat]]]
         /\ commit_index' \in [Node -> Nat]
         /\ decided' \in SUBSET [index : Nat, entry : Entry, at : Term]
         /\ \A q \in Node : leader_state[n].next_index[q] >= 1 \/ q = p =>
              leader_state'[n].next_index[q] >= 1
         /\ \A m \in Node \ {n} : leader_state'[m] = leader_state[m]
<1>. DEFINE next == IF resp.success THEN resp.match_index + 1
                    ELSE IF leader_state[n].next_index[p] > 1
                         THEN leader_state[n].next_index[p] - 1 ELSE 1
            matched == IF resp.success
                       THEN [leader_state[n].match_index EXCEPT ![p] = resp.match_index]
                       ELSE leader_state[n].match_index
            commit == AdvancedCommit(n, matched)
<1>1. /\ resp.match_index \in Nat
      /\ leader_state[n].next_index \in [Node -> Nat]
      /\ leader_state[n].match_index \in [Node -> Nat]
      /\ leader_state \in [Node -> [next_index : [Node -> Nat],
                                    match_index : [Node -> Nat]]]
      /\ log[n] \in Seq(Entry) /\ commit_index[n] \in Nat /\ current_term[n] \in Term
      /\ commit_index \in [Node -> Nat]
      /\ decided \in SUBSET [index : Nat, entry : Entry, at : Term]
  BY Zenon DEF AppendResponse, TypeOK, InnerTypeOK, RestTypeOK
<1>2. next \in Nat /\ next >= 1
  <2>1. leader_state[n].next_index[p] \in Nat
    BY <1>1, Zenon
  <2>2. \A k \in Nat : k + 1 \in Nat /\ k + 1 >= 1 /\ (k > 1 => k - 1 \in Nat /\ k - 1 >= 1)
    OBVIOUS
  <2>3. 1 \in Nat /\ 1 >= 1
    OBVIOUS
  <2>. QED  BY <1>1, <2>1, <2>2, <2>3, Zenon
<1>3. matched \in [Node -> Nat]
  BY <1>1, Zenon
<1>4. /\ leader_state' = [leader_state EXCEPT ![n] =
           [next_index |-> [@.next_index EXCEPT ![p] = next], match_index |-> matched]]
      /\ commit_index' = [commit_index EXCEPT ![n] = commit]
      /\ decided' = decided \cup
           {[index |-> i, entry |-> log[n][i], at |-> current_term[n]] :
              i \in (commit_index[n] + 1)..commit}
  BY Zenon DEF AdvancePeer
<1>. HIDE DEF next, matched
<1>5. /\ commit \in Nat /\ commit >= commit_index[n]
      /\ commit # commit_index[n] => commit \in Committable(n, matched)
  BY <1>3, AdvancedCommitType, Zenon
<1>. HIDE DEF commit
<1>6. [next_index |-> [leader_state[n].next_index EXCEPT ![p] = next],
       match_index |-> matched] \in [next_index : [Node -> Nat], match_index : [Node -> Nat]]
  BY <1>1, <1>2, <1>3, Zenon
<1>7. leader_state' \in [Node -> [next_index : [Node -> Nat],
                                  match_index : [Node -> Nat]]]
  BY <1>1, <1>4, <1>6, Zenon
<1>8. commit_index' \in [Node -> Nat]
  BY <1>1, <1>4, <1>5, Zenon
<1>9. \A i \in (commit_index[n] + 1)..commit :
        i \in Nat /\ log[n][i] \in Entry
  <2>. SUFFICES ASSUME NEW i \in (commit_index[n] + 1)..commit
                PROVE  i \in Nat /\ log[n][i] \in Entry
    BY Zenon
  <2>1. commit # commit_index[n] => commit \in 1..Len(log[n])
    BY <1>5, Zenon DEF Committable
  <2>2. commit_index[n] \in Nat /\ commit \in Nat /\ Len(log[n]) \in Nat
    BY <1>1, <1>5
  <2>3. i \in Nat /\ i \in 1..Len(log[n])
    BY <2>1, <2>2
  <2>. QED  BY <1>1, <2>3
<1>10. decided' \in SUBSET [index : Nat, entry : Entry, at : Term]
  <2>1. decided \in SUBSET [index : Nat, entry : Entry, at : Term] /\ current_term[n] \in Term
    BY <1>1, Zenon
  <2>2. \A i \in (commit_index[n] + 1)..commit :
          [index |-> i, entry |-> log[n][i], at |-> current_term[n]]
            \in [index : Nat, entry : Entry, at : Term]
    BY <1>9, <2>1, Zenon
  <2>. QED  BY <1>4, <2>1, <2>2, Zenon
<1>11. leader_state'[n].next_index = [leader_state[n].next_index EXCEPT ![p] = next]
  BY <1>1, <1>4, Zenon
<1>12. \A q \in Node : leader_state[n].next_index[q] >= 1 \/ q = p =>
         leader_state'[n].next_index[q] >= 1
  BY <1>1, <1>2, <1>11, Zenon
<1>13. \A m \in Node \ {n} : leader_state'[m] = leader_state[m]
  BY <1>1, <1>4, Zenon
<1>. QED  BY <1>7, <1>8, <1>10, <1>12, <1>13, Zenon

-----------------------------------------------------------------------------
(* What a handler can do to the state of any node: raise its term, cast a  *)
(* vote it still has, end its election and its leadership.                 *)

Receives ==
  \A q \in Node :
    /\ current_term'[q] >= current_term[q]
    /\ current_term'[q] = current_term[q] =>
         voted_for'[q] = voted_for[q] \/ voted_for[q] = None
    /\ \/ election_state'[q] = {}
       \/ election_state'[q] = election_state[q] /\ current_term'[q] = current_term[q]
    /\ role'[q] = "Leader" =>
         /\ role[q] = "Leader"
         /\ leader_state'[q] = leader_state[q]
         /\ current_term'[q] = current_term[q]

\* A node that becomes a follower in a higher term does no more than Receives allows.
LEMMA HigherTermReceives ==
  ASSUME TypeOK, NEW p \in Node, NEW t \in Term, t > current_term[p],
         current_term' = [current_term EXCEPT ![p] = t],
         voted_for' = [voted_for EXCEPT ![p] = None],
         role' = [role EXCEPT ![p] = "Follower"],
         election_state' = [election_state EXCEPT ![p] = {}],
         leader_state' = [leader_state EXCEPT ![p] = NoLeaderState]
  PROVE  Receives
<1>1. \A q \in Node \ {p} : /\ current_term'[q] = current_term[q]
                            /\ voted_for'[q] = voted_for[q]
                            /\ role'[q] = role[q] /\ election_state'[q] = election_state[q]
                            /\ leader_state'[q] = leader_state[q]
  BY Zenon DEF TypeOK, InnerTypeOK
<1>2. current_term'[p] = t /\ role'[p] = "Follower" /\ election_state'[p] = {}
  BY Zenon DEF TypeOK, InnerTypeOK
<1>3. /\ t >= current_term[p] /\ t # current_term[p]
      /\ \A q \in Node : current_term[q] >= current_term[q]
  BY DEF TypeOK, InnerTypeOK, Term
<1>. QED  BY <1>1, <1>2, <1>3, Zenon DEF Receives

\* So does step_down_inner.
LEMMA StepDownReceives ==
  ASSUME TypeOK, NEW n \in Node, NEW t \in Term, t > current_term[n], StepDown(n, t)
  PROVE  Receives
BY HigherTermReceives, Zenon DEF StepDown

\* Nor does a step that leaves terms, votes and roles alone.
LEMMA UnchangedReceives ==
  ASSUME TypeOK, UNCHANGED <<persistent, volatile>>
  PROVE  Receives
BY DEF Receives, persistent, volatile, TypeOK, InnerTypeOK, Term

\* Nor does handle_vote_request.
LEMMA HandleVoteRequestReceives ==
  ASSUME TypeOK, NEW p \in Node, NEW req \in VoteRequest, HandleVoteRequest(p, req)
  PROVE  Receives
<1>1. req.term \in Nat /\ req.candidate_id \in Node /\ current_term \in [Node -> Nat]
  BY Zenon DEF VoteRequest, Term, TypeOK, InnerTypeOK
<1>2. CASE ~req.is_pre_vote /\ req.term > current_term[p]
  <2>1. /\ current_term' = [current_term EXCEPT ![p] = req.term]
        /\ role' = [role EXCEPT ![p] = "Follower"]
        /\ election_state' = [election_state EXCEPT ![p] = {}]
        /\ leader_state' = [leader_state EXCEPT ![p] = NoLeaderState]
    BY <1>2, Zenon DEF HandleVoteRequest
  <2>2. \A q \in Node \ {p} : voted_for'[q] = voted_for[q]
    BY <1>2, Zenon DEF HandleVoteRequest, TypeOK, InnerTypeOK
  <2>3. \A q \in Node \ {p} :
          /\ current_term'[q] = current_term[q] /\ role'[q] = role[q]
          /\ election_state'[q] = election_state[q]
          /\ leader_state'[q] = leader_state[q]
    BY <2>1, Zenon DEF TypeOK, InnerTypeOK
  <2>4. /\ current_term'[p] > current_term[p] /\ role'[p] = "Follower"
        /\ election_state'[p] = {}
    BY <1>1, <1>2, <2>1, Zenon DEF TypeOK, InnerTypeOK
  <2>5. \A q \in Node : current_term'[q] \in Nat /\ current_term[q] \in Nat
    BY <1>1, <2>1, Zenon
  <2>. QED  BY <2>2, <2>3, <2>4, <2>5 DEF Receives
<1>3. CASE ~(~req.is_pre_vote /\ req.term > current_term[p])
  <2>1. /\ current_term' = current_term /\ role' = role
        /\ election_state' = election_state /\ leader_state' = leader_state
    BY <1>3, Zenon DEF HandleVoteRequest, volatile
  <2>2. \A q \in Node : voted_for'[q] = voted_for[q] \/ voted_for[q] = None
    <3>1. CASE ~req.is_pre_vote /\ GrantsVote(p, req)
      <4>1. voted_for[p] \in {None, req.candidate_id}
        BY <1>1, <1>3, <3>1, Zenon DEF GrantsVote
      <4>2. voted_for' = [voted_for EXCEPT ![p] = req.candidate_id]
        BY <1>3, <3>1, Zenon DEF HandleVoteRequest
      <4>. QED  BY <4>1, <4>2, Zenon DEF TypeOK, InnerTypeOK
    <3>2. CASE ~(~req.is_pre_vote /\ GrantsVote(p, req))
      <4>1. voted_for' = [voted_for EXCEPT ![p] = voted_for[p]]
        BY <1>3, <3>2, Zenon DEF HandleVoteRequest
      <4>. QED  BY <4>1, Zenon DEF TypeOK, InnerTypeOK
    <3>. QED  BY <3>1, <3>2, Zenon
  <2>. QED  BY <1>1, <2>1, <2>2 DEF Receives
<1>. QED  BY <1>2, <1>3, Zenon

\* Nor does handle_append_entries.
LEMMA HandleAppendEntriesReceives ==
  ASSUME TypeOK, NEW p \in Node, NEW req \in AppendRequest, HandleAppendEntries(p, req)
  PROVE  Receives
<1>1. req.term \in Nat /\ current_term \in [Node -> Nat]
  BY Zenon DEF AppendRequest, Term, TypeOK, InnerTypeOK
<1>2. CASE req.term < current_term[p]
  BY <1>2, UnchangedReceives, Zenon DEF HandleAppendEntries, persistent, volatile
<1>3. CASE req.term > current_term[p]
  <2>1. /\ current_term' = [current_term EXCEPT ![p] = req.term]
        /\ voted_for' = [voted_for EXCEPT ![p] = None]
        /\ role' = [role EXCEPT ![p] = "Follower"]
        /\ election_state' = [election_state EXCEPT ![p] = {}]
        /\ leader_state' = [leader_state EXCEPT ![p] = NoLeaderState]
    <3>1. ~(req.term < current_term[p])
      BY <1>1, <1>3
    <3>. QED  BY <1>3, <3>1, Zenon DEF HandleAppendEntries
  <2>. QED  BY <1>3, <2>1, HigherTermReceives, Zenon DEF AppendRequest
<1>4. CASE req.term = current_term[p]
  <2>1. /\ current_term' = current_term /\ voted_for' = voted_for
        /\ role' = [role EXCEPT ![p] = "Follower"]
        /\ election_state' = election_state /\ leader_state' = leader_state
    <3>1. ~(req.term < current_term[p]) /\ ~(req.term > current_term[p])
      BY <1>1, <1>4
    <3>. QED  BY <3>1, Zenon DEF HandleAppendEntries, persistent
  <2>. QED  BY <1>1, <2>1 DEF Receives, TypeOK, InnerTypeOK
<1>. QED  BY <1>1, <1>2, <1>3, <1>4

-----------------------------------------------------------------------------
(* Logs that follow a ledger.                                              *)

\* RaftLog::last_term of a log that is not empty.
LEMMA LastTermOfEntry ==
  ASSUME NEW s \in Seq(Entry)
  PROVE  /\ Len(s) \in Nat /\ LastTerm(s) \in Nat
         /\ s # <<>> => Len(s) >= 1 /\ LastTerm(s) = s[Len(s)].term
         /\ s = <<>> => Len(s) = 0 /\ LastTerm(s) = 0
         /\ \A i \in 1..Len(s) : s[i] \in Entry /\ s[i].term \in Nat
<1>1. Len(s) \in Nat /\ LastTerm(s) \in Nat
  BY TermAtType DEF LastTerm, Term
<1>2. s # <<>> => Len(s) >= 1
  OBVIOUS
<1>3. \A i \in 1..Len(s) : s[i] \in Entry /\ s[i].term \in Nat
  <2>1. \A i \in 1..Len(s) : s[i] \in Entry
    OBVIOUS
  <2>. QED  BY <2>1, Zenon DEF Entry, Term
<1>. QED  BY <1>1, <1>2, <1>3 DEF LastTerm, TermAt

\* A log that follows a ledger is the log of the leader of its last term, as far
\* as it goes.
LEMMA FollowsLast ==
  ASSUME NEW L \in Ledger, NEW s \in Seq(Entry), Follows(s, L), s # <<>>
  PROVE  /\ LastTerm(s) \in Term
         /\ Len(s) \in 1..Len(L[LastTerm(s)])
         /\ \A j \in 1..Len(s) : s[j] = L[LastTerm(s)][j]
<1>1. Len(s) \in 1..Len(s) /\ LastTerm(s) = s[Len(s)].term /\ LastTerm(s) \in Term
  BY LastTermOfEntry DEF Term
<1>2. L[LastTerm(s)] \in Seq(Entry)
  BY <1>1, Zenon DEF Ledger
<1>3. Len(L[LastTerm(s)]) \in Nat
  BY <1>2
<1>. QED  BY <1>1, <1>3 DEF Follows

\* A beginning of a leader's log follows the ledger.
LEMMA PrefixFollows ==
  ASSUME NEW L \in Ledger, LedgerOK(L), NEW t \in Term, NEW s \in Seq(Entry),
         Len(s) <= Len(L[t]), \A j \in 1..Len(s) : s[j] = L[t][j]
  PROVE  Follows(s, L)
<1>1. L[t] \in Seq(Entry) /\ Follows(L[t], L)
  BY Zenon DEF Ledger, LedgerOK
<1>2. Len(s) \in Nat /\ Len(L[t]) \in Nat
  BY <1>1
<1>. SUFFICES ASSUME NEW i \in 1..Len(s)
              PROVE  /\ i <= Len(L[s[i].term])
                     /\ \A j \in 1..i : s[j] = L[s[i].term][j]
  BY Zenon DEF Follows
<1>3. i \in 1..Len(L[t]) /\ \A j \in 1..i : j \in 1..Len(s)
  BY <1>2
<1>4. s[i] = L[t][i]
  BY Zenon
<1>. QED  BY <1>1, <1>3, <1>4, ZenonT(20) DEF Follows

\* Two logs that follow a ledger and have an entry of the same term at an index
\* are equal up to it.
LEMMA FollowsMatch ==
  ASSUME NEW L \in Ledger, NEW s \in Seq(Entry), NEW u \in Seq(Entry),
         Follows(s, L), Follows(u, L), NEW i \in 1..Len(s), i <= Len(u),
         s[i].term = u[i].term
  PROVE  \A j \in 1..i : s[j] = u[j]
<1>1. i \in 1..Len(u)
  OBVIOUS
<1>. SUFFICES ASSUME NEW j \in 1..i PROVE s[j] = u[j]
  BY Zenon
<1>2. s[j] = L[s[i].term][j]
  BY Zenon DEF Follows
<1>3. u[j] = L[u[i].term][j]
  BY <1>1, Zenon DEF Follows
<1>. QED  BY <1>2, <1>3, Zenon

\* The terms of a log that follows a ledger do not fall.
LEMMA FollowsAscending ==
  ASSUME NEW L \in Ledger, LedgerOK(L), NEW s \in Seq(Entry), Follows(s, L)
  PROVE  Ascending(s)
<1>1. CASE s = <<>>
  BY <1>1 DEF Ascending
<1>2. CASE s # <<>>
  <2>1. PICK t \in Term : /\ Len(s) \in 1..Len(L[t])
                          /\ \A j \in 1..Len(s) : s[j] = L[t][j]
    BY <1>2, FollowsLast, Zenon
  <2>2. Ascending(L[t]) /\ Len(L[t]) \in Nat /\ Len(s) \in Nat
    BY DEF LedgerOK, Ledger
  <2>. QED  BY <2>1, <2>2 DEF Ascending
<1>. QED  BY <1>1, <1>2, Zenon

-----------------------------------------------------------------------------
(* The loop of handle_append_entries over the request's entries.           *)

\* What an accepted request leaves in the log is a beginning of the log of the
\* request's leader, at least up to the end of the request, and no shorter than
\* the old log if that ended in the same term.
LEMMA StoreEntriesFollows ==
  ASSUME WellOrdered, NEW L \in Ledger, LedgerOK(L),
         NEW lg \in Seq(Entry), Follows(lg, L), NEW r \in AppendRequest, RequestOK(L, r),
         PrevMatches(lg, r),
         LastTerm(lg) <= r.term,
         NEW s, s = StoreEntries(lg, r)
  PROVE  /\ s \in Seq(Entry)
         /\ End(r) <= Len(s) /\ Len(s) <= Len(L[r.term])
         /\ \A j \in 1..Len(s) : s[j] = L[r.term][j]
         /\ LastTerm(lg) = r.term => Len(lg) <= Len(s)
<1>. DEFINE prev == r.prev_log_index
            es == r.entries
            led == L[r.term]
<1>1. /\ prev \in Nat /\ es \in Seq(Entry) /\ r.term \in Term /\ r.term \in Nat
      /\ led \in Seq(Entry) /\ Follows(led, L)
  BY Zenon DEF AppendRequest, Ledger, LedgerOK, Term
<1>2. Len(es) \in Nat /\ Len(led) \in Nat /\ Len(lg) \in Nat
  BY <1>1
<1>3. /\ End(r) = prev + Len(es) /\ End(r) >= 1 /\ End(r) <= Len(led)
      /\ led[End(r)].term = r.term
      /\ \A k \in 1..Len(es) : es[k] = led[prev + k]
      /\ prev >= 1 => r.prev_log_term = led[prev].term
  BY <1>1, <1>2 DEF RequestOK, End
<1>4. /\ prev <= Len(lg)
      /\ prev >= 1 => lg[prev].term = led[prev].term
  BY <1>1, <1>2, <1>3 DEF PrevMatches
<1>. HIDE DEF prev, es, led
<1>5. \A i \in 1..Len(lg) : i <= Len(led) /\ lg[i].term = led[i].term =>
        \A j \in 1..i : lg[j] = led[j]
  BY <1>1, FollowsMatch
<1>6. \A j \in 1..prev : lg[j] = led[j]
  <2>1. CASE prev = 0
    BY <2>1
  <2>2. CASE prev >= 1
    <3>1. prev \in 1..Len(lg) /\ prev <= Len(led)
      BY <1>1, <1>2, <1>3, <1>4, <2>2
    <3>. QED  BY <1>4, <1>5, <2>2, <3>1, Zenon
  <2>. QED  BY <1>1, <2>1, <2>2
<1>7. LastTerm(lg) = r.term =>
        Len(lg) <= Len(led) /\ \A j \in 1..Len(lg) : lg[j] = led[j]
  <2>1. CASE lg = <<>>
    BY <1>2, <2>1, LastTermOfEntry
  <2>2. CASE lg # <<>>
    BY <1>2, <2>2, FollowsLast DEF led
  <2>. QED  BY <2>1, <2>2, Zenon
<1>8. \A k \in 1..Len(es) : k \in Conflicts(lg, r) <=>
        prev + k <= Len(lg) /\ lg[prev + k].term # led[prev + k].term
  BY <1>3, Zenon DEF Conflicts, prev, es
<1>9. CASE Conflicts(lg, r) # {}
  <2>. DEFINE k == FirstConflict(lg, r)
              cut == prev + k - 1
              front == SubSeq(lg, 1, cut)
              back == SubSeq(es, k, Len(es))
  <2>1. /\ k \in Conflicts(lg, r) /\ k \in 1..Len(es) /\ prev + k <= Len(lg)
        /\ \A j \in Conflicts(lg, r) : k <= j
    BY <1>9, FirstConflictIsLeast, Zenon DEF es, prev
  <2>2. s = front \o back
    BY <1>9, Zenon DEF StoreEntries, prev, es
  <2>. HIDE DEF k
  <2>3. cut \in Nat /\ cut <= Len(lg) /\ k \in Nat
    BY <1>1, <1>2, <2>1
  <2>4. /\ front \in Seq(Entry) /\ Len(front) = cut
        /\ \A j \in 1..cut : front[j] = lg[j]
    BY <1>2, <2>3, SubLog
  <2>5. /\ back \in Seq(Entry) /\ Len(back) = Len(es) - k + 1
        /\ \A j \in 1..(Len(es) - k + 1) : back[j] = es[k + j - 1]
    BY <1>1, <1>2, <2>1, SubLog
  <2>6. \A j \in 1..cut : lg[j] = led[j]
    <3>1. CASE k = 1
      BY <1>1, <1>6, <3>1
    <3>2. CASE k > 1
      <4>1. k - 1 \in 1..Len(es) /\ k - 1 \notin Conflicts(lg, r)
        BY <1>2, <2>1, <2>3, <3>2
      <4>2. cut \in 1..Len(lg) /\ cut <= Len(led) /\ prev + (k - 1) = cut
        BY <1>1, <1>2, <1>3, <2>1, <2>3, <3>2
      <4>3. lg[cut].term = led[cut].term
        BY <1>8, <4>1, <4>2
      <4>. QED  BY <1>5, <4>2, <4>3, Zenon
    <3>. QED  BY <2>1, <3>1, <3>2
  <2>. HIDE DEF front, back
  <2>7. /\ s \in Seq(Entry) /\ Len(s) = cut + Len(es) - k + 1
        /\ \A j \in 1..Len(s) : s[j] = IF j <= cut THEN front[j] ELSE back[j - cut]
    <3>1. /\ s \in Seq(Entry) /\ Len(s) = Len(front) + Len(back)
          /\ \A j \in 1..(Len(front) + Len(back)) :
               s[j] = IF j <= Len(front) THEN front[j] ELSE back[j - Len(front)]
      <4>1. /\ front \o back \in Seq(Entry)
            /\ Len(front \o back) = Len(front) + Len(back)
            /\ \A j \in 1..(Len(front) + Len(back)) :
                 (front \o back)[j] = IF j <= Len(front) THEN front[j] ELSE back[j - Len(front)]
        BY <2>4, <2>5, JoinLogs, Zenon
      <4>. QED  BY <2>2, <4>1, Zenon
    <3>2. Len(front) + Len(back) = cut + Len(es) - k + 1
      BY <1>2, <2>3, <2>4, <2>5
    <3>. QED  BY <2>4, <3>1, <3>2, Zenon
  <2>8. Len(s) = End(r)
    BY <1>1, <1>2, <1>3, <2>3, <2>7
  <2>9. \A j \in 1..Len(s) : s[j] = led[j]
    <3>. SUFFICES ASSUME NEW j \in 1..Len(s) PROVE s[j] = led[j]
      OBVIOUS
    <3>0. Len(s) = cut + Len(es) - k + 1 /\ k >= 1
      BY <2>1, <2>7
    <3>1. CASE j <= cut
      <4>1. j \in 1..cut
        BY <2>3, <3>1
      <4>. QED  BY <2>4, <2>6, <2>7, <3>1, <4>1, Zenon
    <3>2. CASE j > cut
      <4>1. /\ j - cut \in 1..(Len(es) - k + 1) /\ k + (j - cut) - 1 = j - prev
            /\ j - prev \in 1..Len(es) /\ prev + (j - prev) = j
        BY <1>1, <1>2, <2>3, <3>0, <3>2
      <4>2. s[j] = back[j - cut]
        <5>1. ~(j <= cut)
          BY <2>3, <3>2
        <5>. QED  BY <2>7, <5>1, Zenon
      <4>3. back[j - cut] = es[j - prev]
        BY <2>5, <4>1, Zenon
      <4>. QED  BY <1>3, <4>1, <4>2, <4>3, Zenon
    <3>. QED  BY <2>3, <2>7, <3>1, <3>2
  <2>10. LastTerm(lg) # r.term
    <3>1. prev + k \in 1..Len(lg) /\ lg[prev + k].term # led[prev + k].term
      BY <1>1, <1>8, <2>1, <2>3
    <3>. QED  BY <1>7, <3>1, Zenon
  <2>. QED  BY <1>2, <1>3, <2>7, <2>8, <2>9, <2>10 DEF led
<1>10. CASE Conflicts(lg, r) = {}
  <2>. DEFINE from == Len(lg) - prev + 1
              back == SubSeq(es, from, Len(es))
  <2>1. s = lg \o back
    BY <1>10, Zenon DEF StoreEntries, prev, es
  <2>2. from \in Nat /\ from >= 1
    BY <1>1, <1>2, <1>4
  <2>3. CASE Len(lg) <= End(r)
    <3>1. /\ back \in Seq(Entry) /\ Len(back) = Len(es) - from + 1
          /\ \A j \in 1..(Len(es) - from + 1) : back[j] = es[from + j - 1]
      BY <1>1, <1>2, <1>3, <2>2, <2>3, SubLog, SMTT(20)
    <3>2. \A j \in 1..Len(lg) : lg[j] = led[j]
      <4>1. CASE Len(lg) = prev
        BY <1>6, <4>1, Zenon
      <4>2. CASE Len(lg) > prev
        <5>1. /\ Len(lg) - prev \in 1..Len(es) /\ prev + (Len(lg) - prev) = Len(lg)
              /\ Len(lg) \in 1..Len(lg) /\ Len(lg) <= Len(led)
          BY <1>1, <1>2, <1>3, <2>3, <4>2
        <5>2. lg[Len(lg)].term = led[Len(lg)].term
          BY <1>8, <1>10, <5>1
        <5>. QED  BY <1>5, <5>1, <5>2, Zenon
      <4>. QED  BY <1>1, <1>2, <1>4, <4>1, <4>2
    <3>. HIDE DEF back
    <3>3. /\ s \in Seq(Entry) /\ Len(s) = Len(lg) + Len(es) - from + 1
          /\ \A j \in 1..Len(s) : s[j] = IF j <= Len(lg) THEN lg[j] ELSE back[j - Len(lg)]
      <4>1. /\ s \in Seq(Entry) /\ Len(s) = Len(lg) + Len(back)
            /\ \A j \in 1..(Len(lg) + Len(back)) :
                 s[j] = IF j <= Len(lg) THEN lg[j] ELSE back[j - Len(lg)]
        <5>1. /\ lg \o back \in Seq(Entry) /\ Len(lg \o back) = Len(lg) + Len(back)
              /\ \A j \in 1..(Len(lg) + Len(back)) :
                   (lg \o back)[j] = IF j <= Len(lg) THEN lg[j] ELSE back[j - Len(lg)]
          BY <3>1, JoinLogs, Zenon
        <5>. QED  BY <2>1, <5>1, Zenon
      <4>. QED  BY <1>2, <2>2, <3>1, <4>1
    <3>4. Len(s) = End(r)
      BY <1>1, <1>2, <1>3, <3>3
    <3>5. \A j \in 1..Len(s) : s[j] = led[j]
      <4>. SUFFICES ASSUME NEW j \in 1..Len(s) PROVE s[j] = led[j]
        OBVIOUS
      <4>1. CASE j <= Len(lg)
        BY <1>2, <3>2, <3>3, <4>1
      <4>2. CASE j > Len(lg)
        <5>1. /\ j - Len(lg) \in 1..(Len(es) - from + 1)
              /\ from + (j - Len(lg)) - 1 = j - prev
              /\ j - prev \in 1..Len(es) /\ prev + (j - prev) = j
          BY <1>1, <1>2, <1>3, <1>4, <3>4, <4>2
        <5>2. s[j] = back[j - Len(lg)]
          <6>1. ~(j <= Len(lg))
            BY <1>2, <4>2
          <6>. QED  BY <3>3, <6>1, Zenon
        <5>3. back[j - Len(lg)] = es[j - prev]
          BY <3>1, <5>1, Zenon
        <5>. QED  BY <1>3, <5>1, <5>2, <5>3, Zenon
      <4>. QED  BY <1>2, <3>3, <4>1, <4>2
    <3>. QED  BY <1>2, <1>3, <2>3, <3>3, <3>4, <3>5 DEF led
  <2>4. CASE Len(lg) > End(r)
    <3>1. back = <<>>
      BY <1>1, <1>2, <1>3, <2>2, <2>4
    <3>2. s = lg
      BY <1>2, <2>1, <3>1, JoinEmpty, Zenon
    <3>3. End(r) \in 1..Len(lg) /\ lg[End(r)].term = r.term
      <4>1. CASE Len(es) = 0
        <5>1. End(r) = prev
          BY <1>1, <1>3, <4>1
        <5>. QED  BY <1>1, <1>2, <1>3, <1>4, <2>4, <5>1
      <4>2. CASE Len(es) > 0
        <5>1. Len(es) \in 1..Len(es) /\ End(r) \in 1..Len(lg)
          BY <1>1, <1>2, <1>3, <2>4, <4>2
        <5>2. prev + Len(es) <= Len(lg) /\ Len(es) \notin Conflicts(lg, r)
          BY <1>3, <1>10, <5>1
        <5>3. lg[prev + Len(es)].term = led[prev + Len(es)].term
          BY <1>8, <5>1, <5>2, Zenon
        <5>. QED  BY <1>3, <5>1, <5>3, Zenon
      <4>. QED  BY <1>2, <4>1, <4>2
    <3>4. LastTerm(lg) = r.term
      <4>1. Ascending(lg) /\ Len(lg) \in 1..Len(lg) /\ End(r) <= Len(lg)
        BY <1>2, <2>4, <3>3, FollowsAscending
      <4>2. lg # <<>>
        BY <1>2, <3>3
      <4>3. LastTerm(lg) = lg[Len(lg)].term /\ LastTerm(lg) \in Nat
        BY <4>2, LastTermOfEntry, Zenon
      <4>4. lg[End(r)].term <= lg[Len(lg)].term
        BY <3>3, <4>1, Zenon DEF Ascending
      <4>. QED  BY <1>1, <3>3, <4>3, <4>4
    <3>5. End(r) <= Len(s) /\ Len(s) <= Len(led) /\ \A j \in 1..Len(s) : s[j] = led[j]
      BY <1>1, <1>2, <1>3, <1>7, <2>4, <3>2, <3>4
    <3>. QED  BY <1>2, <3>2, <3>5 DEF led
  <2>. QED  BY <1>1, <1>2, <1>3, <2>3, <2>4
<1>. QED  BY <1>9, <1>10, Zenon


-----------------------------------------------------------------------------
(* Types.                                                                  *)

\* The parts of the state an action does not touch keep their type.
LEMMA StutterType ==
  ASSUME TypeOK
  PROVE  /\ UNCHANGED <<persistent, volatile, log, commit_index, wal_ahead>>
              => InnerTypeOK'
         /\ UNCHANGED loop => LoopTypeOK'
         /\ UNCHANGED <<network, spent, history>> => RestTypeOK'
<1>1. UNCHANGED <<persistent, volatile, log, commit_index, wal_ahead>> => InnerTypeOK'
  BY Zenon DEF TypeOK, InnerTypeOK, persistent, volatile
<1>2. UNCHANGED loop => LoopTypeOK'
  BY Zenon DEF TypeOK, LoopTypeOK, loop
<1>3. UNCHANGED <<network, spent, history>> => RestTypeOK'
  BY Zenon DEF TypeOK, RestTypeOK, network, history
<1>. QED  BY <1>1, <1>2, <1>3, Zenon

\* RaftNode::new gives every variable its type.
LEMMA TypeInit == Init => TypeOK /\ LoopOK
<1>. SUFFICES ASSUME Init PROVE TypeOK /\ LoopOK
  OBVIOUS
<1>1. InnerTypeOK
  <2>1. leader_state \in [Node -> [next_index : [Node -> Nat],
                                   match_index : [Node -> Nat]]]
    BY NoLeaderStateType, Zenon DEF Init
  <2>2. log \in [Node -> Seq(Entry)]
    BY DEF Init
  <2>. QED  BY <2>1, <2>2, Zenon DEF Init, InnerTypeOK, Term
<1>2. LoopTypeOK
  BY Zenon DEF Init, LoopTypeOK
<1>3. RestTypeOK
  BY Zenon DEF Init, RestTypeOK
<1>4. LoopOK
  BY Zenon DEF Init, LoopOK
<1>. QED  BY <1>1, <1>2, <1>3, <1>4, Zenon DEF TypeOK

\* Every step of handlers, event loop and network keeps the types.
LEMMA TypeNext == WellOrdered /\ TypeOK /\ LoopOK /\ [Next]_vars => TypeOK'
<1>. SUFFICES ASSUME WellOrdered, TypeOK, LoopOK, [Next]_vars PROVE TypeOK'
  OBVIOUS
<1>. USE StutterType
<1>1. ASSUME NEW n \in Node, StartPreVote(n) PROVE TypeOK'
  <2>1. current_term[n] + 1 \in Term
    BY SMTT(20) DEF TypeOK, InnerTypeOK, Term
  <2>2. BallotOf(n, current_term[n] + 1, TRUE) \in VoteRequest
    BY <2>1, BallotOfType, Zenon
  <2>3. InnerTypeOK'
    BY <1>1, SMTT(20), Zenon DEF StartPreVote, TypeOK, InnerTypeOK, persistent
  <2>4. LoopTypeOK'
    BY <1>1, <2>2, Zenon DEF StartPreVote, TypeOK, LoopTypeOK, Peers
  <2>5. RestTypeOK'
    BY <1>1 DEF StartPreVote, TypeOK, RestTypeOK, network, history
  <2>. QED  BY <2>3, <2>4, <2>5, Zenon DEF TypeOK
<1>2. ASSUME NEW n \in Node, CandidateTimeout(n) PROVE TypeOK'
  <2>1. LoopTypeOK'
    BY <1>2, Zenon DEF CandidateTimeout, TypeOK, LoopTypeOK
  <2>. QED  BY <1>2, <2>1, Zenon DEF CandidateTimeout, TypeOK
<1>3. ASSUME NEW n \in Node, StartElection(n) PROVE TypeOK'
  <2>1. current_term[n] + 1 \in Term
    BY DEF TypeOK, InnerTypeOK, Term
  <2>2. BallotOf(n, current_term[n] + 1, FALSE) \in VoteRequest
    BY <2>1, BallotOfType, Zenon
  <2>3. InnerTypeOK'
    BY <1>3, <2>1, SMTT(20), Zenon DEF StartElection, TypeOK, InnerTypeOK
  <2>4. LoopTypeOK'
    BY <1>3, <2>2, Zenon DEF StartElection, TypeOK, LoopTypeOK, Peers
  <2>. QED  BY <1>3, <2>3, <2>4, Zenon DEF StartElection, TypeOK
<1>4. ASSUME NEW n \in Node, NEW p \in Node, DeliverVoteRequest(n, p) PROVE TypeOK'
  <2>1. ballot[n] \in VoteRequest
    BY <1>4, InVoteRound, Zenon DEF DeliverVoteRequest
  <2>2. InnerTypeOK' /\ VoteResponseTo(p, ballot[n]) \in VoteResponse
    BY <1>4, <2>1, HandleVoteRequestType, Zenon DEF DeliverVoteRequest
  <2>3. LoopTypeOK'
    BY <1>4, <2>2, Zenon DEF DeliverVoteRequest, TypeOK, LoopTypeOK
  <2>. QED  BY <1>4, <2>2, <2>3, Zenon DEF DeliverVoteRequest, TypeOK
<1>5. ASSUME NEW n \in Node, HandleVoteResponse(n) PROVE TypeOK'
  <2>1. vote_response[n] \in VoteResponse
    BY <1>5, Zenon DEF HandleVoteResponse, TypeOK, LoopTypeOK
  <2>2. vote_response[n].from \in Node /\ vote_response[n].term \in Term
    BY <2>1, Zenon DEF VoteResponse
  <2>3. LoopTypeOK'
    BY <1>5, Zenon DEF HandleVoteResponse, TypeOK, LoopTypeOK
  <2>4. elected' \in SUBSET [node : Node, term : Term, votes : SUBSET Node]
    <3>. DEFINE votes == election_state[n] \cup {vote_response[n].from}
    <3>1. \/ elected' = elected
          \/ elected' = elected \cup
                {[node |-> n, term |-> current_term[n], votes |-> votes]}
      BY <1>5, Zenon DEF HandleVoteResponse, BecomeLeader
    <3>2. /\ current_term[n] \in Term
          /\ elected \in SUBSET [node : Node, term : Term, votes : SUBSET Node]
          /\ votes \in SUBSET Node
      BY <2>2, Zenon DEF TypeOK, InnerTypeOK, RestTypeOK
    <3>3. [node |-> n, term |-> current_term[n], votes |-> votes]
            \in [node : Node, term : Term, votes : SUBSET Node]
      BY <3>2, Zenon
    <3>. QED  BY <3>1, <3>2, <3>3, Zenon
  <2>5. RestTypeOK'
    BY <1>5, <2>4, Zenon DEF HandleVoteResponse, TypeOK, RestTypeOK, network
  <2>6. CASE StepDown(n, vote_response[n].term) /\ UNCHANGED log
    BY <1>5, <2>2, <2>3, <2>5, <2>6, StepDownType, Zenon DEF HandleVoteResponse, TypeOK
  <2>7. CASE BecomeLeader(n, election_state[n] \cup {vote_response[n].from})
    <3>0. current_term[n] \in Term /\ log[n] \in Seq(Entry) /\ Len(log[n]) \in Nat
      BY DEF TypeOK, InnerTypeOK
    <3>1. [term |-> current_term[n], data |-> Noop] \in Entry
      BY <3>0, SMTT(20), Zenon DEF Entry
    <3>2. log' \in [Node -> Seq(Entry)]
      BY <2>7, <3>0, <3>1, AppendToLog, Zenon DEF BecomeLeader, TypeOK, InnerTypeOK
    <3>3. WithMatch(LeaderStateNew(n, Len(log[n])), n, Len(log[n]) + 1)
            \in [next_index : [Node -> Nat], match_index : [Node -> Nat]]
      <4>1. LeaderStateNew(n, Len(log[n])) \in [next_index : [Node -> Nat],
                                                match_index : [Node -> Nat]]
        BY <3>0, LeaderStateNewType, ZenonT(20)
      <4>2. Len(log[n]) + 1 \in Nat
        BY <3>0, SMTT(20), Zenon
      <4>. QED  BY <4>1, <4>2, WithMatchType, Zenon
    <3>4. leader_state' \in [Node -> [next_index : [Node -> Nat],
                                      match_index : [Node -> Nat]]]
      BY <2>7, <3>3, Zenon DEF BecomeLeader, TypeOK, InnerTypeOK
    <3>5. InnerTypeOK'
      BY <1>5, <2>7, <3>2, <3>4, ZenonT(20)
      DEF HandleVoteResponse, BecomeLeader, TypeOK, InnerTypeOK, persistent
    <3>. QED  BY <2>3, <2>5, <3>5, Zenon DEF TypeOK
  <2>8. CASE /\ election_state' = [election_state EXCEPT ![n] =
                  election_state[n] \cup {vote_response[n].from}]
             /\ UNCHANGED <<persistent, log, role, leader_id, leader_state>>
    <3>1. InnerTypeOK'
      BY <1>5, <2>2, <2>8, ZenonT(20)
      DEF HandleVoteResponse, TypeOK, InnerTypeOK, persistent
    <3>. QED  BY <2>3, <2>5, <3>1, Zenon DEF TypeOK
  <2>9. CASE UNCHANGED <<persistent, log, volatile>>
    BY <1>5, <2>3, <2>5, <2>9, Zenon DEF HandleVoteResponse, TypeOK
  <2>. QED  BY <1>5, <2>6, <2>7, <2>8, <2>9, Zenon DEF HandleVoteResponse
<1>6. ASSUME NEW n \in Node, NEW p \in Node, VoteRequestFails(n, p) PROVE TypeOK'
  <2>1. ballot[n] \in VoteRequest
    BY <1>6, InVoteRound, Zenon DEF VoteRequestFails
  <2>2. LoopTypeOK'
    BY <1>6, Zenon DEF VoteRequestFails, TypeOK, LoopTypeOK
  <2>3. RestTypeOK'
    <3>1. /\ late_appends' = late_appends /\ spent' = spent
          /\ elected' = elected /\ decided' = decided
          /\ \A m \in late_votes' : m \in late_votes \/ m = [to |-> p, request |-> ballot[n]]
      BY <1>6, Zenon DEF VoteRequestFails, history
    <3>2. [to |-> p, request |-> ballot[n]] \in [to : Node, request : VoteRequest]
      BY <1>6, <2>1, Zenon
    <3>3. RestTypeOK
      BY Zenon DEF TypeOK
    <3>. QED  BY <3>1, <3>2, <3>3, Zenon DEF RestTypeOK
  <2>. QED  BY <1>6, <2>2, <2>3, Zenon DEF VoteRequestFails, TypeOK
<1>7. ASSUME NEW n \in Node, VoteResponseLost(n) PROVE TypeOK'
  <2>1. LoopTypeOK'
    BY <1>7, Zenon DEF VoteResponseLost, TypeOK, LoopTypeOK
  <2>. QED  BY <1>7, <2>1, Zenon DEF VoteResponseLost, TypeOK
<1>8. ASSUME NEW n \in Node, EndVoteRound(n) PROVE TypeOK'
  <2>1. LoopTypeOK'
    BY <1>8, Zenon DEF EndVoteRound, TypeOK, LoopTypeOK
  <2>. QED  BY <1>8, <2>1, Zenon DEF EndVoteRound, TypeOK
<1>9. ASSUME NEW n \in Node, SendAppendEntries(n) PROVE TypeOK'
  <2>1. \A p \in Peers(n) : AppendRequestFor(n, p) \in AppendRequest
    BY <1>9, AppendRequestForType, Zenon DEF SendAppendEntries
  <2>2. LoopTypeOK'
    BY <1>9, <2>1, Zenon DEF SendAppendEntries, TypeOK, LoopTypeOK, Peers
  <2>3. RestTypeOK'
    BY <1>9 DEF SendAppendEntries, TypeOK, RestTypeOK, network, history
  <2>. QED  BY <1>9, <2>2, <2>3, Zenon DEF SendAppendEntries, TypeOK
<1>10. ASSUME NEW n \in Node, NEW p \in Node, DeliverAppendEntries(n, p) PROVE TypeOK'
  <2>1. appends[n][p] \in AppendRequest
    BY <1>10, AppendsKind, Zenon DEF DeliverAppendEntries
  <2>2. InnerTypeOK' /\ AppendResponseTo(p, appends[n][p]) \in AppendResponse
    BY <1>10, <2>1, HandleAppendEntriesType, Zenon DEF DeliverAppendEntries
  <2>3. LoopTypeOK'
    BY <1>10, <2>2, Zenon DEF DeliverAppendEntries, TypeOK, LoopTypeOK
  <2>. QED  BY <1>10, <2>2, <2>3, Zenon DEF DeliverAppendEntries, TypeOK
<1>11. ASSUME NEW n \in Node, NEW p \in Node, HandleAppendResponse(n, p) PROVE TypeOK'
  <2>1. appends[n][p] \in AppendResponse
    BY <1>11, AppendsKind, SMTT(20), Zenon DEF HandleAppendResponse
  <2>2. LoopTypeOK'
    BY <1>11, Zenon DEF HandleAppendResponse, TypeOK, LoopTypeOK
  <2>3. appends[n][p].term \in Term
    BY <2>1, Zenon DEF AppendResponse
  <2>4. CASE StepDown(n, appends[n][p].term) /\ UNCHANGED <<commit_index, decided>>
    BY <1>11, <2>2, <2>3, <2>4, StepDownType, Zenon
    DEF HandleAppendResponse, TypeOK, network, history
  <2>5. CASE /\ AdvancePeer(n, p, appends[n][p])
             /\ UNCHANGED <<persistent, role, leader_id, election_state>>
    <3>1. /\ leader_state' \in [Node -> [next_index : [Node -> Nat],
                                         match_index : [Node -> Nat]]]
          /\ commit_index' \in [Node -> Nat]
          /\ decided' \in SUBSET [index : Nat, entry : Entry, at : Term]
      BY <2>1, <2>5, AdvancePeerType, Zenon
    <3>2. InnerTypeOK'
      BY <1>11, <2>5, <3>1, Zenon
      DEF HandleAppendResponse, TypeOK, InnerTypeOK, persistent
    <3>3. RestTypeOK'
      BY <1>11, <3>1, Zenon DEF HandleAppendResponse, TypeOK, RestTypeOK, network
    <3>. QED  BY <2>2, <3>2, <3>3, Zenon DEF TypeOK
  <2>6. CASE UNCHANGED <<persistent, volatile, commit_index, decided>>
    BY <1>11, <2>2, <2>6, Zenon DEF HandleAppendResponse, TypeOK, history
  <2>. QED  BY <1>11, <2>4, <2>5, <2>6, Zenon DEF HandleAppendResponse
<1>12. ASSUME NEW n \in Node, NEW p \in Node, AppendEntriesFails(n, p) PROVE TypeOK'
  <2>1. LoopTypeOK'
    BY <1>12, Zenon DEF AppendEntriesFails, TypeOK, LoopTypeOK
  <2>2. appends[n][p].kind = "request" => appends[n][p] \in AppendRequest
    BY AppendsKind, Zenon
  <2>3. RestTypeOK'
    BY <1>12, <2>2, SMTT(20), Zenon DEF AppendEntriesFails, TypeOK, RestTypeOK, history
  <2>. QED  BY <1>12, <2>1, <2>3, Zenon DEF AppendEntriesFails, TypeOK
<1>13. ASSUME NEW n \in Node, EndAppendRound(n) PROVE TypeOK'
  <2>1. LoopTypeOK'
    BY <1>13, Zenon DEF EndAppendRound, TypeOK, LoopTypeOK
  <2>. QED  BY <1>13, <2>1, Zenon DEF EndAppendRound, TypeOK
<1>14. ASSUME NEW n \in Node, NEW cmd \in Command, Propose(n, cmd) PROVE TypeOK'
  <2>0. leader_state[n] \in [next_index : [Node -> Nat], match_index : [Node -> Nat]]
    BY Zenon DEF TypeOK, InnerTypeOK
  <2>1. /\ current_term[n] \in Term /\ log[n] \in Seq(Entry)
        /\ Len(log[n]) \in Nat /\ Len(log[n]) + 1 \in Nat
    BY DEF TypeOK, InnerTypeOK
  <2>2. [term |-> current_term[n], data |-> cmd] \in Entry
    BY <2>1, SMTT(20), Zenon DEF Entry
  <2>3. log' \in [Node -> Seq(Entry)]
    BY <1>14, <2>1, <2>2, AppendToLog, ZenonT(20) DEF Propose, TypeOK, InnerTypeOK
  <2>4. WithMatch(leader_state[n], n, Len(log[n]) + 1)
          \in [next_index : [Node -> Nat], match_index : [Node -> Nat]]
    BY <2>0, <2>1, WithMatchType, Zenon
  <2>5. leader_state' \in [Node -> [next_index : [Node -> Nat],
                                    match_index : [Node -> Nat]]]
    BY <1>14, <2>4, Zenon DEF Propose, TypeOK, InnerTypeOK
  <2>6. InnerTypeOK'
    BY <1>14, <2>3, <2>5, Zenon DEF Propose, TypeOK, InnerTypeOK, persistent
  <2>. QED  BY <1>14, <2>6, Zenon DEF Propose, TypeOK
<1>15. ASSUME NEW m \in late_votes, DeliverLateVote(m) PROVE TypeOK'
  <2>1. m.to \in Node /\ m.request \in VoteRequest
    BY Zenon DEF TypeOK, RestTypeOK
  <2>2. InnerTypeOK'
    BY <1>15, <2>1, HandleVoteRequestType, Zenon DEF DeliverLateVote
  <2>3. RestTypeOK'
    BY <1>15, Zenon DEF DeliverLateVote, TypeOK, RestTypeOK, history
  <2>. QED  BY <1>15, <2>2, <2>3, Zenon DEF DeliverLateVote, TypeOK
<1>16. ASSUME NEW m \in late_appends, DeliverLateAppend(m) PROVE TypeOK'
  <2>1. m.to \in Node /\ m.request \in AppendRequest
    BY Zenon DEF TypeOK, RestTypeOK
  <2>2. InnerTypeOK'
    BY <1>16, <2>1, HandleAppendEntriesType, Zenon DEF DeliverLateAppend
  <2>3. RestTypeOK'
    BY <1>16, Zenon DEF DeliverLateAppend, TypeOK, RestTypeOK, history
  <2>. QED  BY <1>16, <2>2, <2>3, Zenon DEF DeliverLateAppend, TypeOK
<1>17. ASSUME NEW n \in Node, Restart(n) PROVE TypeOK'
  <2>1. leader_state' \in [Node -> [next_index : [Node -> Nat],
                                    match_index : [Node -> Nat]]]
    BY <1>17, NoLeaderStateType, Zenon DEF Restart, TypeOK, InnerTypeOK
  <2>2. InnerTypeOK'
    BY <1>17, <2>1, Zenon DEF Restart, TypeOK, InnerTypeOK, persistent
  <2>3. LoopTypeOK'
    BY <1>17, Zenon DEF Restart, TypeOK, LoopTypeOK
  <2>4. RestTypeOK'
    BY <1>17, SMTT(20), Zenon DEF Restart, TypeOK, RestTypeOK, network, history
  <2>. QED  BY <2>2, <2>3, <2>4, Zenon DEF TypeOK
<1>18. CASE UNCHANGED vars
  BY <1>18, Zenon DEF vars, TypeOK, InnerTypeOK, LoopTypeOK, RestTypeOK
<1>. QED
  BY <1>1, <1>2, <1>3, <1>4, <1>5, <1>6, <1>7, <1>8, <1>9, <1>10, <1>11, <1>12,
     <1>13, <1>14, <1>15, <1>16, <1>17, <1>18, SMTT(20), Zenon DEF Next

-----------------------------------------------------------------------------
(* The event loop's bookkeeping.                                           *)

\* A handler's step leaves the event loop's bookkeeping in order when the loops
\* themselves do not move.
LEMMA ReceivesKeepsLoopOK ==
  ASSUME TypeOK, LoopOK, Receives, UNCHANGED loop
  PROVE  LoopOK'
BY DEF LoopOK, Receives, loop, Peers

\* What LoopOK says of one node.
LoopAt(n) ==
  /\ phase[n] \in {"pre_vote", "vote"} =>
       /\ ballot[n] \in VoteRequest
       /\ ballot[n].candidate_id = n
       /\ ballot[n].is_pre_vote = (phase[n] = "pre_vote")
  /\ phase[n] \notin {"pre_vote", "vote"} => todo[n] = {} /\ vote_response[n] = NoAnswer
  /\ phase[n] # "append" => \A p \in Node : appends[n][p] = NoRpc
  /\ n \notin todo[n] /\ appends[n][n] = NoRpc
  /\ role[n] = "Leader" => \A p \in Peers(n) : leader_state[n].next_index[p] >= 1

\* LoopOK is about one node at a time.
LEMMA LoopByNode ==
  /\ LoopOK <=> \A n \in Node : LoopAt(n)
  /\ LoopOK' <=> \A n \in Node : LoopAt(n)'
BY Zenon DEF LoopOK, LoopAt

\* Calls that end and peers that have been called leave the event loop as it was.
LEMMA LoopShrinks ==
  ASSUME LoopOK, UNCHANGED <<role, leader_state, phase, ballot>>,
         \A m \in Node : todo'[m] \subseteq todo[m],
         \A m \in Node : vote_response'[m] = vote_response[m] \/ vote_response'[m] = NoAnswer,
         \A m, q \in Node : appends'[m][q] = appends[m][q] \/ appends'[m][q] = NoRpc
  PROVE  LoopOK'
<1>. SUFFICES ASSUME NEW n \in Node, LoopAt(n) PROVE LoopAt(n)'
  BY LoopByNode, Zenon
<1>1. phase'[n] \notin {"pre_vote", "vote"} => todo'[n] = {} /\ vote_response'[n] = NoAnswer
  <2>. SUFFICES ASSUME phase'[n] \notin {"pre_vote", "vote"}
                PROVE  todo'[n] = {} /\ vote_response'[n] = NoAnswer
    OBVIOUS
  <2>1. todo[n] = {} /\ vote_response[n] = NoAnswer
    BY Zenon DEF LoopAt
  <2>. QED  BY <2>1, Zenon
<1>2. n \notin todo'[n] /\ appends'[n][n] = NoRpc
  <2>1. n \notin todo[n] /\ appends[n][n] = NoRpc
    BY Zenon DEF LoopAt
  <2>. QED  BY <2>1, Zenon
<1>3. phase'[n] # "append" => \A p \in Node : appends'[n][p] = NoRpc
  <2>1. phase[n] # "append" => \A p \in Node : appends[n][p] = NoRpc
    BY Zenon DEF LoopAt
  <2>. QED  BY <2>1, Zenon
<1>. QED  BY <1>1, <1>2, <1>3, Zenon DEF LoopAt

\* A round that is over leaves the node with no call outstanding.
LEMMA RoundEnds ==
  ASSUME LoopOK, NEW n \in Node, phase'[n] \in {"idle", "elect"},
         \A m \in Node \ {n} : phase'[m] = phase[m] /\ ballot'[m] = ballot[m],
         todo[n] = {}, vote_response[n] = NoAnswer, \A p \in Node : appends[n][p] = NoRpc,
         UNCHANGED <<role, leader_state, todo, vote_response, appends>>
  PROVE  LoopOK'
<1>. SUFFICES ASSUME NEW m \in Node, LoopAt(m) PROVE LoopAt(m)'
  BY LoopByNode, Zenon
<1>1. CASE m = n
  BY <1>1, Zenon DEF LoopAt
<1>2. CASE m # n
  BY <1>2, Zenon DEF LoopAt
<1>. QED  BY <1>1, <1>2, Zenon

\* Every step keeps the bookkeeping of the event loop.
LEMMA LoopNext == WellOrdered /\ TypeOK /\ LoopOK /\ [Next]_vars => LoopOK'
<1>. SUFFICES ASSUME WellOrdered, TypeOK, LoopOK, [Next]_vars PROVE LoopOK'
  OBVIOUS
<1>1. ASSUME NEW n \in Node, StartPreVote(n) PROVE LoopOK'
  <2>1. current_term[n] + 1 \in Term
    BY DEF TypeOK, InnerTypeOK, Term
  <2>2. /\ BallotOf(n, current_term[n] + 1, TRUE) \in VoteRequest
        /\ BallotOf(n, current_term[n] + 1, TRUE).candidate_id = n
        /\ BallotOf(n, current_term[n] + 1, TRUE).is_pre_vote = TRUE
    BY <2>1, BallotOfType, Zenon DEF BallotOf
  <2>3. /\ phase'[n] \in {"pre_vote", "vote"} /\ todo'[n] = Peers(n)
        /\ ballot'[n] = BallotOf(n, current_term[n] + 1, TRUE)
        /\ (phase'[n] = "pre_vote") = TRUE
        /\ role'[n] # "Leader" /\ appends' = appends
    BY <1>1, Zenon DEF StartPreVote, TypeOK, InnerTypeOK, LoopTypeOK
  <2>5. /\ ballot'[n] \in VoteRequest /\ ballot'[n].candidate_id = n
        /\ ballot'[n].is_pre_vote = (phase'[n] = "pre_vote")
    BY <2>2, <2>3, Zenon
  <2>4. \A m \in Node \ {n} :
          /\ phase'[m] = phase[m] /\ todo'[m] = todo[m] /\ ballot'[m] = ballot[m]
          /\ vote_response'[m] = vote_response[m]
          /\ role'[m] = role[m] /\ leader_state'[m] = leader_state[m]
    BY <1>1, Zenon DEF StartPreVote, TypeOK, InnerTypeOK, LoopTypeOK
  <2>6. n \notin todo'[n] /\ \A p \in Node : appends'[n][p] = NoRpc
    BY <1>1, <2>3 DEF StartPreVote, LoopOK, Peers
  <2>7. \A m \in Node \ {n} :
          /\ phase[m] # "append" => \A p \in Node : appends'[m][p] = NoRpc
          /\ appends'[m][m] = NoRpc
    BY <2>3 DEF LoopOK
  <2>. SUFFICES ASSUME NEW m \in Node
                PROVE  /\ phase'[m] \in {"pre_vote", "vote"} =>
                            /\ ballot'[m] \in VoteRequest
                            /\ ballot'[m].candidate_id = m
                            /\ ballot'[m].is_pre_vote = (phase'[m] = "pre_vote")
                       /\ phase'[m] \notin {"pre_vote", "vote"} =>
                            todo'[m] = {} /\ vote_response'[m] = NoAnswer
                       /\ phase'[m] # "append" => \A p \in Node : appends'[m][p] = NoRpc
                       /\ m \notin todo'[m] /\ appends'[m][m] = NoRpc
                       /\ role'[m] = "Leader" =>
                            \A p \in Peers(m) : leader_state'[m].next_index[p] >= 1
    BY Zenon DEF LoopOK
  <2>8. CASE m = n
    BY <2>3, <2>5, <2>6, <2>8, Zenon
  <2>9. CASE m # n
    BY <2>4, <2>7, <2>9 DEF LoopOK
  <2>. QED  BY <2>8, <2>9, Zenon
<1>2. ASSUME NEW n \in Node, CandidateTimeout(n) PROVE LoopOK'
  <2>1. phase[n] = "idle" /\ phase'[n] = "elect" /\ \A m \in Node \ {n} : phase'[m] = phase[m]
    BY <1>2, Zenon DEF CandidateTimeout, TypeOK, LoopTypeOK
  <2>2. UNCHANGED <<role, leader_state, ballot, todo, vote_response, appends>>
    BY <1>2, Zenon DEF CandidateTimeout, volatile
  <2>3. todo[n] = {} /\ vote_response[n] = NoAnswer /\ \A p \in Node : appends[n][p] = NoRpc
    BY <2>1, Zenon DEF LoopOK
  <2>. QED  BY <2>1, <2>2, <2>3, RoundEnds, Zenon
<1>3. ASSUME NEW n \in Node, StartElection(n) PROVE LoopOK'
  <2>1. current_term[n] + 1 \in Term
    BY DEF TypeOK, InnerTypeOK, Term
  <2>2. /\ BallotOf(n, current_term[n] + 1, FALSE) \in VoteRequest
        /\ BallotOf(n, current_term[n] + 1, FALSE).candidate_id = n
        /\ BallotOf(n, current_term[n] + 1, FALSE).is_pre_vote = FALSE
    BY <2>1, BallotOfType, Zenon DEF BallotOf
  <2>3. /\ phase'[n] \in {"pre_vote", "vote"} /\ todo'[n] = Peers(n)
        /\ ballot'[n] = BallotOf(n, current_term[n] + 1, FALSE)
        /\ (phase'[n] = "pre_vote") = FALSE
        /\ role'[n] # "Leader" /\ appends' = appends
    BY <1>3, Zenon DEF StartElection, TypeOK, InnerTypeOK, LoopTypeOK
  <2>5. /\ ballot'[n] \in VoteRequest /\ ballot'[n].candidate_id = n
        /\ ballot'[n].is_pre_vote = (phase'[n] = "pre_vote")
    BY <2>2, <2>3, Zenon
  <2>4. \A m \in Node \ {n} :
          /\ phase'[m] = phase[m] /\ todo'[m] = todo[m] /\ ballot'[m] = ballot[m]
          /\ vote_response'[m] = vote_response[m]
          /\ role'[m] = role[m] /\ leader_state'[m] = leader_state[m]
    BY <1>3, Zenon DEF StartElection, TypeOK, InnerTypeOK, LoopTypeOK
  <2>6. n \notin todo'[n] /\ \A p \in Node : appends'[n][p] = NoRpc
    BY <1>3, <2>3 DEF StartElection, LoopOK, Peers
  <2>7. \A m \in Node \ {n} :
          /\ phase[m] # "append" => \A p \in Node : appends'[m][p] = NoRpc
          /\ appends'[m][m] = NoRpc
    BY <2>3, Zenon DEF LoopOK
  <2>. SUFFICES ASSUME NEW m \in Node
                PROVE  /\ phase'[m] \in {"pre_vote", "vote"} =>
                            /\ ballot'[m] \in VoteRequest
                            /\ ballot'[m].candidate_id = m
                            /\ ballot'[m].is_pre_vote = (phase'[m] = "pre_vote")
                       /\ phase'[m] \notin {"pre_vote", "vote"} =>
                            todo'[m] = {} /\ vote_response'[m] = NoAnswer
                       /\ phase'[m] # "append" => \A p \in Node : appends'[m][p] = NoRpc
                       /\ m \notin todo'[m] /\ appends'[m][m] = NoRpc
                       /\ role'[m] = "Leader" =>
                            \A p \in Peers(m) : leader_state'[m].next_index[p] >= 1
    BY Zenon DEF LoopOK
  <2>8. CASE m = n
    BY <2>3, <2>5, <2>6, <2>8, Zenon
  <2>9. CASE m # n
    BY <2>4, <2>7, <2>9 DEF LoopOK
  <2>. QED  BY <2>8, <2>9, Zenon
<1>4. ASSUME NEW n \in Node, NEW p \in Node, DeliverVoteRequest(n, p) PROVE LoopOK'
  <2>1. phase[n] \in {"pre_vote", "vote"} /\ ballot[n] \in VoteRequest
    BY <1>4, InVoteRound, Zenon DEF DeliverVoteRequest
  <2>2. Receives
    BY <1>4, <2>1, HandleVoteRequestReceives, Zenon DEF DeliverVoteRequest
  <2>3. \A m \in Node :
          /\ todo'[m] \subseteq todo[m]
          /\ vote_response'[m] = vote_response[m] \/ phase[m] \in {"pre_vote", "vote"}
    BY <1>4, <2>1, Zenon DEF DeliverVoteRequest, TypeOK, LoopTypeOK
  <2>4. UNCHANGED <<phase, ballot, appends>>
    BY <1>4, Zenon DEF DeliverVoteRequest
  <2>5. \A m \in Node : role'[m] = "Leader" =>
          role[m] = "Leader" /\ leader_state'[m] = leader_state[m]
    BY <2>2, Zenon DEF Receives
  <2>6. \A m \in Node : phase'[m] \in {"pre_vote", "vote"} =>
          /\ ballot'[m] \in VoteRequest /\ ballot'[m].candidate_id = m
          /\ ballot'[m].is_pre_vote = (phase'[m] = "pre_vote")
    BY <2>4, Zenon DEF LoopOK
  <2>7. \A m \in Node :
          /\ phase'[m] \notin {"pre_vote", "vote"} =>
               todo'[m] = {} /\ vote_response'[m] = NoAnswer
          /\ phase'[m] # "append" => \A q \in Node : appends'[m][q] = NoRpc
          /\ m \notin todo'[m] /\ appends'[m][m] = NoRpc
    BY <2>3, <2>4 DEF LoopOK
  <2>8. \A m \in Node : role'[m] = "Leader" =>
          \A q \in Peers(m) : leader_state'[m].next_index[q] >= 1
    BY <2>5, Zenon DEF LoopOK
  <2>. QED  BY <2>6, <2>7, <2>8, Zenon DEF LoopOK
<1>5. ASSUME NEW n \in Node, HandleVoteResponse(n) PROVE LoopOK'
  <2>1. vote_response[n] \in VoteResponse /\ phase[n] \in {"pre_vote", "vote"}
    BY <1>5, InVoteRound, Zenon DEF HandleVoteResponse, TypeOK, LoopTypeOK
  <2>2. vote_response[n].term \in Term
    BY <2>1, Zenon DEF VoteResponse
  <2>3. \A q \in Node : role'[q] = "Leader" =>
          \A p \in Peers(q) : leader_state'[q].next_index[p] >= 1
    <3>1. CASE BecomeLeader(n, election_state[n] \cup {vote_response[n].from})
      <4>1. Len(log[n]) \in Nat /\ Len(log[n]) + 1 \in Nat
        BY DEF TypeOK, InnerTypeOK
      <4>2. /\ LeaderStateNew(n, Len(log[n])) \in [next_index : [Node -> Nat],
                                                   match_index : [Node -> Nat]]
            /\ \A p \in Peers(n) : LeaderStateNew(n, Len(log[n])).next_index[p] >= 1
        BY <4>1, LeaderStateNewType, Zenon
      <4>3. leader_state' = [leader_state EXCEPT ![n] =
                 WithMatch(LeaderStateNew(n, Len(log[n])), n, Len(log[n]) + 1)]
        BY <3>1, Zenon DEF BecomeLeader
      <4>4. leader_state'[n].next_index = LeaderStateNew(n, Len(log[n])).next_index
        <5>1. leader_state'[n] =
                WithMatch(LeaderStateNew(n, Len(log[n])), n, Len(log[n]) + 1)
          <6>1. leader_state \in [Node -> [next_index : [Node -> Nat],
                                           match_index : [Node -> Nat]]]
            BY Zenon DEF TypeOK, InnerTypeOK
          <6>. QED  BY <4>3, <6>1, Zenon
        <5>2. \A ls, q, i : WithMatch(ls, q, i).next_index = ls.next_index
          BY Zenon DEF WithMatch
        <5>3. WithMatch(LeaderStateNew(n, Len(log[n])), n, Len(log[n]) + 1).next_index
                = LeaderStateNew(n, Len(log[n])).next_index
          BY <5>2, Zenon
        <5>. QED  BY <5>1, <5>3, Zenon
      <4>5. \A q \in Node \ {n} : leader_state'[q] = leader_state[q]
        BY <4>3, Zenon DEF TypeOK, InnerTypeOK
      <4>6. \A q \in Node \ {n} : role'[q] = role[q]
        BY <3>1, Zenon DEF BecomeLeader, TypeOK, InnerTypeOK
      <4>7. \A q \in Node : role[q] = "Leader" =>
              \A p \in Peers(q) : leader_state[q].next_index[p] >= 1
        BY Zenon DEF LoopOK
      <4>. QED  BY <4>2, <4>4, <4>5, <4>6, <4>7, Zenon
    <3>2. CASE ~BecomeLeader(n, election_state[n] \cup {vote_response[n].from})
      <4>1. Receives \/ UNCHANGED <<role, leader_state>>
        BY <1>5, <2>2, <3>2, StepDownReceives, Zenon DEF HandleVoteResponse, volatile
      <4>. QED  BY <4>1, Zenon DEF LoopOK, Receives
    <3>. QED  BY <3>1, <3>2, Zenon
  <2>4. /\ phase' = phase /\ ballot' = ballot /\ appends' = appends
        /\ vote_response' = [vote_response EXCEPT ![n] = NoAnswer]
        /\ todo' = todo \/ todo' = [todo EXCEPT ![n] = {}]
    BY <1>5, Zenon DEF HandleVoteResponse, BecomeLeader
  <2>5. \A m \in Node : /\ todo'[m] = todo[m] \/ todo'[m] = {}
                        /\ vote_response'[m] = vote_response[m] \/ vote_response'[m] = NoAnswer
    BY <2>4, Zenon DEF TypeOK, LoopTypeOK
  <2>. QED  BY <2>1, <2>3, <2>4, <2>5 DEF LoopOK
<1>6. ASSUME NEW n \in Node, NEW p \in Node, VoteRequestFails(n, p) PROVE LoopOK'
  <2>1. \A m \in Node : todo'[m] = todo[m] \/ todo'[m] = todo[m] \ {p}
    BY <1>6, Zenon DEF VoteRequestFails, TypeOK, LoopTypeOK
  <2>2. \A m \in Node : todo'[m] \subseteq todo[m]
    BY <2>1, Zenon
  <2>3. UNCHANGED <<role, leader_state, phase, ballot, vote_response, appends>>
    BY <1>6, Zenon DEF VoteRequestFails, volatile
  <2>. QED  BY <2>2, <2>3, LoopShrinks, Zenon
<1>7. ASSUME NEW n \in Node, VoteResponseLost(n) PROVE LoopOK'
  <2>1. \A m \in Node : vote_response'[m] = vote_response[m] \/ vote_response'[m] = NoAnswer
    BY <1>7, Zenon DEF VoteResponseLost, TypeOK, LoopTypeOK
  <2>2. UNCHANGED <<role, leader_state, phase, ballot, todo, appends>>
    BY <1>7, Zenon DEF VoteResponseLost, volatile
  <2>. QED  BY <2>1, <2>2, LoopShrinks, Zenon
<1>8. ASSUME NEW n \in Node, EndVoteRound(n) PROVE LoopOK'
  <2>1. /\ phase[n] \in {"pre_vote", "vote"} /\ phase'[n] \in {"idle", "elect"}
        /\ \A m \in Node \ {n} : phase'[m] = phase[m] /\ ballot'[m] = ballot[m]
        /\ todo[n] = {} /\ vote_response[n] = NoAnswer
    BY <1>8, Zenon DEF EndVoteRound, TypeOK, LoopTypeOK
  <2>2. UNCHANGED <<role, leader_state, todo, vote_response, appends>>
    BY <1>8, Zenon DEF EndVoteRound, volatile
  <2>3. \A p \in Node : appends[n][p] = NoRpc
    BY <2>1, Zenon DEF LoopOK
  <2>. QED  BY <2>1, <2>2, <2>3, RoundEnds, Zenon
<1>9. ASSUME NEW n \in Node, SendAppendEntries(n) PROVE LoopOK'
  BY <1>9 DEF SendAppendEntries, LoopOK, TypeOK, LoopTypeOK, volatile
<1>10. ASSUME NEW n \in Node, NEW p \in Node, DeliverAppendEntries(n, p) PROVE LoopOK'
  <2>1. appends[n][p] \in AppendRequest
    BY <1>10, AppendsKind, Zenon DEF DeliverAppendEntries
  <2>2. Receives
    BY <1>10, <2>1, HandleAppendEntriesReceives, Zenon DEF DeliverAppendEntries
  <2>3. p # n
    BY <1>10 DEF DeliverAppendEntries, LoopOK, NoRpc
  <2>4. \A m \in Node : appends'[m][m] = appends[m][m]
    BY <1>10, <2>3, Zenon DEF DeliverAppendEntries, TypeOK, LoopTypeOK
  <2>5. phase[n] = "append" /\ \A m \in Node \ {n} : appends'[m] = appends[m]
    <3>1. appends[n][p] # NoRpc
      BY <1>10 DEF DeliverAppendEntries, NoRpc
    <3>2. phase[n] = "append"
      BY <3>1, Zenon DEF LoopOK
    <3>. QED  BY <1>10, <3>2, Zenon DEF DeliverAppendEntries, TypeOK, LoopTypeOK
  <2>6. UNCHANGED <<phase, ballot, todo, vote_response>>
    BY <1>10, Zenon DEF DeliverAppendEntries
  <2>7. \A m \in Node : phase[m] # "append" => \A q \in Node : appends'[m][q] = NoRpc
    <3>1. \A m \in Node : phase[m] # "append" => \A q \in Node : appends[m][q] = NoRpc
      BY Zenon DEF LoopOK
    <3>2. \A m \in Node : phase[m] # "append" => appends'[m] = appends[m]
      BY <2>5, Zenon
    <3>. QED  BY <3>1, <3>2, Zenon
  <2>8. \A m \in Node : role'[m] = "Leader" =>
          \A q \in Peers(m) : leader_state'[m].next_index[q] >= 1
    <3>1. \A m \in Node : role'[m] = "Leader" =>
            role[m] = "Leader" /\ leader_state'[m] = leader_state[m]
      BY <2>2, Zenon DEF Receives
    <3>2. \A m \in Node : role[m] = "Leader" =>
            \A q \in Peers(m) : leader_state[m].next_index[q] >= 1
      BY Zenon DEF LoopOK
    <3>. QED  BY <3>1, <3>2, Zenon
  <2>. QED  BY <2>4, <2>6, <2>7, <2>8, Zenon DEF LoopOK, Peers
<1>11. ASSUME NEW n \in Node, NEW p \in Node, HandleAppendResponse(n, p) PROVE LoopOK'
  <2>1. appends[n][p] \in AppendResponse
    BY <1>11, AppendsKind, Zenon DEF HandleAppendResponse
  <2>2. appends[n][p].term \in Term
    BY <2>1, Zenon DEF AppendResponse
  <2>3. \A q \in Node : role'[q] = "Leader" =>
          \A r \in Peers(q) : leader_state'[q].next_index[r] >= 1
    <3>1. CASE AdvancePeer(n, p, appends[n][p]) /\ role[n] = "Leader" /\ role' = role
      <4>1. /\ \A q \in Node : leader_state[n].next_index[q] >= 1 \/ q = p =>
                 leader_state'[n].next_index[q] >= 1
            /\ \A m \in Node \ {n} : leader_state'[m] = leader_state[m]
        BY <2>1, <3>1, AdvancePeerType, Zenon
      <4>2. \A q \in Node : role[q] = "Leader" =>
              \A r \in Peers(q) : leader_state[q].next_index[r] >= 1
        BY Zenon DEF LoopOK
      <4>. QED  BY <3>1, <4>1, <4>2, Zenon DEF Peers
    <3>2. CASE ~(AdvancePeer(n, p, appends[n][p]) /\ role[n] = "Leader" /\ role' = role)
      <4>1. Receives \/ UNCHANGED <<role, leader_state>>
        BY <1>11, <2>2, <3>2, StepDownReceives, SMTT(20), Zenon
        DEF HandleAppendResponse, volatile
      <4>2. CASE Receives
        <5>1. \A q \in Node : role'[q] = "Leader" =>
                role[q] = "Leader" /\ leader_state'[q] = leader_state[q]
          BY <4>2, Zenon DEF Receives
        <5>. QED  BY <5>1, Zenon DEF LoopOK
      <4>3. CASE UNCHANGED <<role, leader_state>>
        BY <4>3, Zenon DEF LoopOK
      <4>. QED  BY <4>1, <4>2, <4>3, Zenon
    <3>. QED  BY <3>1, <3>2, Zenon
  <2>4. \A m \in Node : appends'[m][m] = NoRpc
    BY <1>11, Zenon DEF HandleAppendResponse, LoopOK, TypeOK, LoopTypeOK
  <2>. QED  BY <1>11, <2>3, <2>4 DEF HandleAppendResponse, LoopOK
<1>12. ASSUME NEW n \in Node, NEW p \in Node, AppendEntriesFails(n, p) PROVE LoopOK'
  <2>1. \A m, q \in Node : appends'[m][q] = appends[m][q] \/ appends'[m][q] = NoRpc
    BY <1>12, Zenon DEF AppendEntriesFails, TypeOK, LoopTypeOK
  <2>2. UNCHANGED <<role, leader_state, phase, ballot, todo, vote_response>>
    BY <1>12, Zenon DEF AppendEntriesFails, volatile
  <2>. QED  BY <2>1, <2>2, LoopShrinks, Zenon
<1>13. ASSUME NEW n \in Node, EndAppendRound(n) PROVE LoopOK'
  <2>1. /\ phase[n] = "append" /\ phase'[n] = "idle"
        /\ \A m \in Node \ {n} : phase'[m] = phase[m]
        /\ \A p \in Node : appends[n][p] = NoRpc
    BY <1>13, Zenon DEF EndAppendRound, TypeOK, LoopTypeOK
  <2>2. UNCHANGED <<role, leader_state, ballot, todo, vote_response, appends>>
    BY <1>13, Zenon DEF EndAppendRound, volatile
  <2>3. todo[n] = {} /\ vote_response[n] = NoAnswer
    BY <2>1, Zenon DEF LoopOK
  <2>. QED  BY <2>1, <2>2, <2>3, RoundEnds, Zenon
<1>14. ASSUME NEW n \in Node, NEW cmd \in Command, Propose(n, cmd) PROVE LoopOK'
  <2>1. leader_state[n] \in [next_index : [Node -> Nat], match_index : [Node -> Nat]]
    BY Zenon DEF TypeOK, InnerTypeOK
  <2>2. Len(log[n]) + 1 \in Nat
    BY DEF TypeOK, InnerTypeOK
  <2>3. leader_state'[n] = WithMatch(leader_state[n], n, Len(log[n]) + 1)
    BY <1>14, Zenon DEF Propose, TypeOK, InnerTypeOK
  <2>4. leader_state'[n].next_index = leader_state[n].next_index
    BY <2>3 DEF WithMatch
  <2>5. \A m \in Node \ {n} : leader_state'[m] = leader_state[m]
    BY <1>14, Zenon DEF Propose, TypeOK, InnerTypeOK
  <2>6. UNCHANGED <<role, phase, ballot, todo, vote_response, appends>>
    BY <1>14, Zenon DEF Propose, loop
  <2>7. \A m \in Node : leader_state'[m].next_index = leader_state[m].next_index
    BY <2>4, <2>5, Zenon
  <2>. QED  BY <2>6, <2>7 DEF LoopOK
<1>15. ASSUME NEW m \in late_votes, DeliverLateVote(m) PROVE LoopOK'
  <2>1. m.to \in Node /\ m.request \in VoteRequest
    BY Zenon DEF TypeOK, RestTypeOK
  <2>2. Receives
    BY <1>15, <2>1, HandleVoteRequestReceives, Zenon DEF DeliverLateVote
  <2>. QED  BY <1>15, <2>2, ReceivesKeepsLoopOK, Zenon DEF DeliverLateVote
<1>16. ASSUME NEW m \in late_appends, DeliverLateAppend(m) PROVE LoopOK'
  <2>1. m.to \in Node /\ m.request \in AppendRequest
    BY Zenon DEF TypeOK, RestTypeOK
  <2>2. Receives
    BY <1>16, <2>1, HandleAppendEntriesReceives, Zenon DEF DeliverLateAppend
  <2>. QED  BY <1>16, <2>2, ReceivesKeepsLoopOK, Zenon DEF DeliverLateAppend
<1>17. ASSUME NEW n \in Node, Restart(n) PROVE LoopOK'
  <2>1. /\ phase'[n] = "idle" /\ todo'[n] = {} /\ vote_response'[n] = NoAnswer
        /\ appends'[n] = [p \in Node |-> NoRpc] /\ role'[n] = "Follower"
    BY <1>17, Zenon DEF Restart, TypeOK, InnerTypeOK, LoopTypeOK
  <2>2. \A m \in Node : m # n =>
          /\ phase'[m] = phase[m] /\ todo'[m] = todo[m] /\ ballot'[m] = ballot[m]
          /\ vote_response'[m] = vote_response[m] /\ appends'[m] = appends[m]
          /\ role'[m] = role[m] /\ leader_state'[m] = leader_state[m]
    BY <1>17, Zenon DEF Restart, TypeOK, InnerTypeOK, LoopTypeOK
  <2>3. /\ n \notin todo'[n] /\ \A p \in Node : appends'[n][p] = NoRpc
    BY <2>1, Zenon
  <2>. SUFFICES ASSUME NEW m \in Node PROVE LoopAt(m)'
    BY LoopByNode, Zenon
  <2>4. CASE m = n
    BY <2>1, <2>3, <2>4, Zenon DEF LoopAt
  <2>5. CASE m # n
    <3>1. LoopAt(m)
      BY LoopByNode, Zenon
    <3>. QED  BY <2>2, <2>5, <3>1, Zenon DEF LoopAt
  <2>. QED  BY <2>4, <2>5, Zenon
<1>18. CASE UNCHANGED vars
  BY <1>18, Zenon DEF vars, LoopOK
<1>. QED
  BY <1>1, <1>2, <1>3, <1>4, <1>5, <1>6, <1>7, <1>8, <1>9, <1>10, <1>11, <1>12,
     <1>13, <1>14, <1>15, <1>16, <1>17, <1>18, SMTT(20), Zenon DEF Next

-----------------------------------------------------------------------------
(* Votes.                                                                  *)

\* The terms of counted votes are the VoteTerms, and natural numbers.
LEMMA CountsType ==
  ASSUME TypeOK, LoopOK, NEW v, NEW c \in Node, NEW t, Counts(v, c, t)
  PROVE  v \in Node /\ t \in Nat /\ t \in VoteTerms
<1>1. CASE phase[c] = "vote" /\ ballot[c].term = t /\ v \in CountedBy(c)
  <2>1. v \in Node
    BY <1>1, Zenon DEF CountedBy, TypeOK, InnerTypeOK
  <2>2. t \in Nat
    BY <1>1, Zenon DEF LoopOK, VoteRequest, Term
  <2>. QED  BY <1>1, <2>1, <2>2, Zenon DEF VoteTerms
<1>2. ASSUME NEW e \in elected, e.node = c, e.term = t, v \in e.votes
      PROVE  v \in Node /\ t \in Nat /\ t \in VoteTerms
  <2>1. e.term \in Nat /\ e.votes \in SUBSET Node
    BY Zenon DEF TypeOK, RestTypeOK, Term
  <2>. QED  BY <1>2, <2>1, Zenon DEF VoteTerms
<1>. QED  BY <1>1, <1>2, Zenon DEF Counts

-----------------------------------------------------------------------------
(* Terms only grow, and a vote is not taken back within a term.            *)

Ages ==
  \A q \in Node :
    /\ current_term'[q] \in Nat /\ current_term[q] \in Nat
    /\ current_term'[q] >= current_term[q]
    /\ current_term'[q] = current_term[q] =>
         voted_for'[q] = voted_for[q] \/ voted_for[q] = None

\* The handlers of requests and of answers with a higher term obey Ages.
LEMMA ReceivesAges ==
  ASSUME TypeOK, TypeOK', Receives
  PROVE  Ages
BY Zenon DEF Receives, Ages, TypeOK, InnerTypeOK, Term

\* So does a step that leaves the persistent state alone.
LEMMA UnchangedAges ==
  ASSUME TypeOK, TypeOK', UNCHANGED persistent
  PROVE  Ages
BY DEF Ages, persistent, TypeOK, InnerTypeOK, Term

\* A voter that backs a candidate of a term goes on backing it.
LEMMA BacksStays ==
  ASSUME Ages, NEW v \in Node, NEW c \in Node, NEW t \in Nat, Backs(v, c, t)
  PROVE  Backs(v, c, t)'
BY NoneAssumption DEF Ages, Backs

\* A vote once counted stays backed by its voter.
LEMMA CountedStaysBacked ==
  ASSUME TypeOK, LoopOK, VotesBacked, Ages,
         NEW v \in Node, NEW c \in Node, NEW t, Counts(v, c, t)
  PROVE  /\ Backs(v, c, t)'
         /\ \A d \in Node : Counts(v, d, t) => d = c
<1>1. t \in Nat /\ t \in VoteTerms
  BY CountsType, Zenon
<1>2. Backs(v, c, t)
  BY <1>1, Zenon DEF VotesBacked
<1>. QED  BY <1>1, <1>2, BacksStays, Zenon DEF VotesBacked

\* A step that counts no new vote keeps the votes backed and compatible.
LEMMA NoNewVote ==
  ASSUME TypeOK, LoopOK, VotesBacked, Ages,
         \A v, c \in Node : \A t : Counts(v, c, t)' => Counts(v, c, t)
  PROVE  \A t \in VoteTerms' : \A v, c \in Node : Counts(v, c, t)' =>
           /\ Backs(v, c, t)'
           /\ \A d \in Node : Counts(v, d, t)' => d = c
BY CountedStaysBacked

\* So does a step that counts one new vote, backed by its voter, when the voter's
\* vote does not already count for another candidate of that term.
LEMMA OneNewVote ==
  ASSUME TypeOK, LoopOK, VotesBacked, Ages, NEW w \in Node, NEW b \in Node, NEW s \in Nat,
         \A v, c \in Node : \A t : Counts(v, c, t)' =>
           Counts(v, c, t) \/ (v = w /\ c = b /\ t = s),
         Backs(w, b, s)',
         \A d \in Node : Counts(w, d, s) => d = b
  PROVE  \A t \in VoteTerms' : \A v, c \in Node : Counts(v, c, t)' =>
           /\ Backs(v, c, t)'
           /\ \A d \in Node : Counts(v, d, t)' => d = c
BY CountedStaysBacked

-----------------------------------------------------------------------------
(* The votes stay backed.                                                  *)

\* No vote round starts or counts more votes, and an election still being counted
\* keeps its term.
Recounts ==
  /\ elected' = elected
  /\ \A n \in Node : phase'[n] = "vote" =>
       /\ phase[n] = "vote" /\ ballot'[n] = ballot[n]
       /\ CountedBy(n)' \subseteq CountedBy(n)
       /\ election_state'[n] # {} =>
            election_state[n] # {} /\ current_term'[n] = current_term[n]

\* A step that only recounts keeps VotesBacked.
LEMMA RecountsKeepsVotes ==
  ASSUME TypeOK, LoopOK, VotesBacked, Ages, Recounts
  PROVE  VotesBacked'
<1>1. \A v, c \in Node : \A t : Counts(v, c, t)' => Counts(v, c, t)
  BY Zenon DEF Recounts, Counts
<1>2. \A n \in Node : phase'[n] = "vote" /\ election_state'[n] # {} =>
        ballot'[n].term = current_term'[n]
  BY Zenon DEF Recounts, VotesBacked
<1>3. \A e \in elected' : HasQuorum(e.votes)
  BY Zenon DEF Recounts, VotesBacked
<1>4. \A t \in VoteTerms' : \A v, c \in Node : Counts(v, c, t)' =>
           /\ Backs(v, c, t)'
           /\ \A d \in Node : Counts(v, d, t)' => d = c
  BY <1>1, NoNewVote, Zenon
<1>. QED  BY <1>2, <1>3, <1>4, Zenon DEF VotesBacked, HasQuorum

\* The handlers of requests and of answers with a higher term count no new vote.
LEMMA ReceivesRecounts ==
  ASSUME Receives, UNCHANGED <<phase, ballot, elected>>,
         \A n \in Node : vote_response'[n] \in {vote_response[n], NoAnswer}
  PROVE  Recounts
BY Zenon DEF Receives, Recounts, CountedBy

\* start_election keeps VotesBacked: the new term is above every vote the node
\* has given, and the election starts with its own vote only.
LEMMA StartElectionKeepsVotes ==
  ASSUME TypeOK, LoopOK, TypeOK', VotesBacked, NEW n \in Node, StartElection(n)
  PROVE  VotesBacked'
<1>0. PICK t0 \in Nat : t0 = current_term[n] + 1
  BY DEF TypeOK, InnerTypeOK, Term
<1>1. current_term[n] \in Nat /\ t0 > current_term[n]
  BY <1>0 DEF TypeOK, InnerTypeOK, Term
<1>2. /\ current_term' = [current_term EXCEPT ![n] = t0]
      /\ voted_for' = [voted_for EXCEPT ![n] = n]
      /\ election_state' = [election_state EXCEPT ![n] = {n}]
      /\ phase' = [phase EXCEPT ![n] = "vote"]
      /\ ballot' = [ballot EXCEPT ![n] = BallotOf(n, t0, FALSE)]
      /\ vote_response' = vote_response /\ elected' = elected
  BY <1>0, Zenon DEF StartElection, history
<1>3. /\ current_term \in [Node -> Nat] /\ voted_for \in [Node -> Node \cup {None}]
      /\ election_state \in [Node -> SUBSET Node] /\ DOMAIN phase = Node
      /\ DOMAIN ballot = Node /\ BallotOf(n, t0, FALSE).term = t0
  BY Zenon DEF TypeOK, InnerTypeOK, LoopTypeOK, Term, BallotOf
<1>4. /\ current_term'[n] = t0 /\ voted_for'[n] = n /\ election_state'[n] = {n}
      /\ phase'[n] = "vote" /\ ballot'[n].term = t0
      /\ vote_response' = vote_response /\ elected' = elected
  BY <1>2, <1>3, Zenon
<1>5. \A m \in Node \ {n} :
        /\ current_term'[m] = current_term[m] /\ voted_for'[m] = voted_for[m]
        /\ election_state'[m] = election_state[m] /\ phase'[m] = phase[m]
        /\ ballot'[m] = ballot[m]
  BY <1>2, <1>3, Zenon
<1>6. Ages
  <2>1. \A q \in Node : current_term'[q] \in Nat /\ current_term[q] \in Nat
    BY Zenon DEF TypeOK, InnerTypeOK, Term
  <2>2. \A a, b \in Nat : a >= a /\ (a > b => a >= b /\ a # b)
    OBVIOUS
  <2>3. ASSUME NEW q \in Node
        PROVE  /\ current_term'[q] >= current_term[q]
               /\ current_term'[q] = current_term[q] => voted_for'[q] = voted_for[q]
    <3>1. CASE q = n
      BY <1>1, <1>4, <2>2, <3>1, Zenon
    <3>2. CASE q # n
      BY <1>5, <2>1, <2>2, <3>2, Zenon
    <3>. QED  BY <3>1, <3>2, Zenon
  <2>. QED  BY <2>1, <2>3, Zenon DEF Ages
<1>7. vote_response[n] = NoAnswer
  BY Zenon DEF StartElection, LoopOK
<1>8. \A v, c \in Node : \A t : Counts(v, c, t)' =>
        Counts(v, c, t) \/ (v = n /\ c = n /\ t = t0)
  <2>1. CountedBy(n)' = {n}
    BY <1>4, <1>7, Zenon DEF CountedBy
  <2>2. \A c \in Node \ {n} : CountedBy(c)' = CountedBy(c)
    BY <1>4, <1>5, Zenon DEF CountedBy
  <2>. QED  BY <1>4, <1>5, <2>1, <2>2 DEF Counts
<1>9. Backs(n, n, t0)'
  BY <1>4, Zenon DEF Backs
<1>10. \A d \in Node : ~Counts(n, d, t0)
  <2>1. ASSUME NEW d \in Node, Counts(n, d, t0) PROVE FALSE
    <3>1. Backs(n, d, t0)
      BY <2>1, CountsType, Zenon DEF VotesBacked
    <3>. QED  BY <1>1, <3>1 DEF Backs
  <2>. QED  BY <2>1, Zenon
<1>11. \A t \in VoteTerms' : \A v, c \in Node : Counts(v, c, t)' =>
           /\ Backs(v, c, t)'
           /\ \A d \in Node : Counts(v, d, t)' => d = c
  BY <1>1, <1>6, <1>8, <1>9, <1>10, OneNewVote, SMTT(20), Zenon
<1>12. \A m \in Node : phase'[m] = "vote" /\ election_state'[m] # {} =>
        ballot'[m].term = current_term'[m]
  BY <1>4, <1>5, Zenon DEF VotesBacked
<1>. QED  BY <1>4, <1>11, <1>12, Zenon DEF VotesBacked, HasQuorum

\* handle_vote_request keeps VotesBacked: a granted vote is recorded before it is
\* answered, and was not given to another candidate of the term.
LEMMA DeliverVoteRequestKeepsVotes ==
  ASSUME TypeOK, LoopOK, TypeOK', VotesBacked,
         NEW n \in Node, NEW p \in Node, DeliverVoteRequest(n, p)
  PROVE  VotesBacked'
<1>1. /\ phase[n] \in {"pre_vote", "vote"} /\ ballot[n] \in VoteRequest
      /\ ballot[n].candidate_id = n /\ p # n
      /\ ballot[n].is_pre_vote = (phase[n] = "pre_vote")
  BY InVoteRound, Zenon DEF DeliverVoteRequest, LoopOK
<1>2. Receives /\ Ages
  BY <1>1, HandleVoteRequestReceives, ReceivesAges, Zenon DEF DeliverVoteRequest
<1>3. /\ phase' = phase /\ ballot' = ballot /\ elected' = elected
      /\ vote_response[n] = NoAnswer
      /\ vote_response'[n] = VoteResponseTo(p, ballot[n])
      /\ \A m \in Node \ {n} : vote_response'[m] = vote_response[m]
  BY Zenon DEF DeliverVoteRequest, history, TypeOK, LoopTypeOK
<1>4. VoteResponseTo(p, ballot[n]).from = p
      /\ VoteResponseTo(p, ballot[n]).vote_granted = GrantsVote(p, ballot[n])
  BY Zenon DEF VoteResponseTo
<1>5. \A m \in Node \ {n} : CountedBy(m)' \subseteq CountedBy(m)
  BY <1>2, <1>3, Zenon DEF CountedBy, Receives
<1>6. CASE phase[n] # "vote" \/ ~GrantsVote(p, ballot[n])
  <2>1. phase[n] = "vote" => CountedBy(n)' \subseteq CountedBy(n)
    BY <1>2, <1>3, <1>4, <1>6, Zenon DEF CountedBy, Receives
  <2>2. Recounts
    BY <1>2, <1>3, <1>5, <2>1, SMTT(20), Zenon DEF Recounts, Receives
  <2>. QED  BY <1>2, <2>2, RecountsKeepsVotes, Zenon
<1>7. CASE phase[n] = "vote" /\ GrantsVote(p, ballot[n])
  <2>1. PICK t0 \in Nat : t0 = ballot[n].term
    BY <1>1, Zenon DEF VoteRequest, Term
  <2>2. ~ballot[n].is_pre_vote
    BY <1>1, <1>7, Zenon
  <2>3. /\ current_term[p] \in Nat /\ current_term[p] <= t0
        /\ current_term[p] = t0 => voted_for[p] \in {None, n}
    <3>1. \/ t0 > current_term[p]
          \/ t0 = current_term[p] /\ voted_for[p] \in {None, n}
      BY <1>1, <1>7, <2>1, <2>2, Zenon DEF GrantsVote
    <3>2. current_term[p] \in Nat
      BY Zenon DEF TypeOK, InnerTypeOK, Term
    <3>. QED  BY <3>1, <3>2
  <2>4. current_term'[p] = t0 /\ voted_for'[p] = n
    <3>1. CASE t0 > current_term[p]
      <4>1. /\ current_term' = [current_term EXCEPT ![p] = t0]
            /\ voted_for' = [voted_for EXCEPT ![p] = n]
        BY <1>1, <1>7, <2>1, <2>2, <3>1, Zenon DEF DeliverVoteRequest, HandleVoteRequest
      <4>. QED  BY <4>1, Zenon DEF TypeOK, InnerTypeOK
    <3>2. CASE ~(t0 > current_term[p])
      <4>1. /\ current_term' = current_term
            /\ voted_for' = [voted_for EXCEPT ![p] = n]
        BY <1>1, <1>7, <2>1, <2>2, <3>2, Zenon DEF DeliverVoteRequest, HandleVoteRequest
      <4>2. current_term[p] = t0
        BY <2>1, <2>3, <3>2
      <4>. QED  BY <4>1, <4>2, Zenon DEF TypeOK, InnerTypeOK
    <3>. QED  BY <3>1, <3>2, Zenon
  <2>5. Backs(p, n, t0)'
    BY <2>4, Zenon DEF Backs
  <2>6. \A d \in Node : Counts(p, d, t0) => d = n
    <3>1. ASSUME NEW d \in Node, Counts(p, d, t0) PROVE d = n
      <4>1. Backs(p, d, t0)
        BY <3>1, CountsType, Zenon DEF VotesBacked
      <4>. QED  BY <2>3, <4>1, NoneAssumption DEF Backs
    <3>. QED  BY <3>1, Zenon
  <2>7. CountedBy(n)' \subseteq CountedBy(n) \cup {p}
    BY <1>2, <1>3, <1>4, Zenon DEF CountedBy, Receives
  <2>8. \A v, c \in Node : \A t : Counts(v, c, t)' =>
          Counts(v, c, t) \/ (v = p /\ c = n /\ t = t0)
    BY <1>3, <1>5, <2>1, <2>7, Zenon DEF Counts
  <2>9. \A t \in VoteTerms' : \A v, c \in Node : Counts(v, c, t)' =>
             /\ Backs(v, c, t)'
             /\ \A d \in Node : Counts(v, d, t)' => d = c
    BY <1>2, <2>5, <2>6, <2>8, OneNewVote, SMTT(20), Zenon
  <2>10. \A m \in Node : phase'[m] = "vote" /\ election_state'[m] # {} =>
          ballot'[m].term = current_term'[m]
    BY <1>2, <1>3, ZenonT(20) DEF VotesBacked, Receives
  <2>. QED  BY <1>3, <2>9, <2>10, Zenon DEF VotesBacked, HasQuorum
<1>. QED  BY <1>6, <1>7, Zenon

\* handle_vote_response keeps VotesBacked: the votes it makes a leader of were
\* counted in the term the node is in.
LEMMA HandleVoteResponseKeepsVotes ==
  ASSUME TypeOK, LoopOK, TypeOK', VotesBacked, NEW n \in Node, HandleVoteResponse(n)
  PROVE  VotesBacked'
<1>. DEFINE resp == vote_response[n]
            votes == election_state[n] \cup {resp.from}
<1>1. /\ phase[n] \in {"pre_vote", "vote"} /\ resp \in VoteResponse
      /\ ballot[n].is_pre_vote = (phase[n] = "pre_vote")
  BY InVoteRound, ZenonT(20) DEF HandleVoteResponse, LoopOK, TypeOK, LoopTypeOK
<1>2. resp.from \in Node /\ resp.term \in Term
  BY <1>1, Zenon DEF VoteResponse
<1>3. /\ phase' = phase /\ ballot' = ballot /\ resp # NoAnswer
      /\ vote_response'[n] = NoAnswer
      /\ \A m \in Node \ {n} : vote_response'[m] = vote_response[m]
  BY Zenon DEF HandleVoteResponse, TypeOK, LoopTypeOK
<1>4. CASE resp.term > current_term[n] /\ StepDown(n, resp.term) /\ elected' = elected
  <2>1. Receives /\ Ages
    BY <1>2, <1>4, StepDownReceives, ReceivesAges, Zenon
  <2>2. Recounts
    BY <1>3, <1>4, <2>1, ReceivesRecounts, Zenon
  <2>. QED  BY <2>1, <2>2, RecountsKeepsVotes, Zenon
<1>5. CASE UNCHANGED <<persistent, volatile, elected>>
  <2>1. Receives /\ Ages
    BY <1>5, UnchangedReceives, UnchangedAges, Zenon
  <2>2. Recounts
    BY <1>3, <1>5, <2>1, ReceivesRecounts, Zenon
  <2>. QED  BY <2>1, <2>2, RecountsKeepsVotes, Zenon
<1>6. CASE /\ resp.vote_granted /\ election_state[n] # {}
           /\ election_state' = [election_state EXCEPT ![n] = votes]
           /\ UNCHANGED <<persistent, elected>>
  <2>1. Ages
    BY <1>6, UnchangedAges, Zenon
  <2>2. election_state'[n] = votes
        /\ \A m \in Node \ {n} : election_state'[m] = election_state[m]
    BY <1>6, Zenon DEF TypeOK, InnerTypeOK
  <2>3. \A m \in Node : CountedBy(m)' \subseteq CountedBy(m)
    <3>1. CountedBy(n)' \subseteq votes
      BY <1>3, <2>2, Zenon DEF CountedBy
    <3>2. votes \subseteq CountedBy(n)
      BY <1>2, <1>3, <1>6, Zenon DEF CountedBy
    <3>3. \A m \in Node \ {n} : CountedBy(m)' = CountedBy(m)
      BY <1>3, <2>2, Zenon DEF CountedBy
    <3>. QED  BY <3>1, <3>2, <3>3, Zenon
  <2>4. Recounts
    BY <1>3, <1>6, <2>2, <2>3, ZenonT(20) DEF Recounts, persistent
  <2>. QED  BY <2>1, <2>4, RecountsKeepsVotes, Zenon
<1>7. CASE /\ resp.vote_granted /\ election_state[n] # {}
           /\ HasQuorum(votes) /\ ~ballot[n].is_pre_vote /\ BecomeLeader(n, votes)
  <2>1. Ages
    BY <1>7, UnchangedAges, Zenon DEF BecomeLeader
  <2>2. phase[n] = "vote" /\ ballot[n].term = current_term[n]
    BY <1>1, <1>7, ZenonT(20) DEF VotesBacked
  <2>3. /\ election_state'[n] = {}
        /\ \A m \in Node \ {n} : election_state'[m] = election_state[m]
        /\ current_term' = current_term
        /\ elected' = elected \cup {[node |-> n, term |-> current_term[n], votes |-> votes]}
    <3>1. /\ election_state' = [election_state EXCEPT ![n] = {}]
          /\ current_term' = current_term
          /\ elected' = elected \cup
                {[node |-> n, term |-> current_term[n], votes |-> votes]}
      BY <1>7, Zenon DEF BecomeLeader, persistent
    <3>2. election_state \in [Node -> SUBSET Node]
      BY Zenon DEF TypeOK, InnerTypeOK
    <3>. QED  BY <3>1, <3>2, Zenon
  <2>4. \A m \in Node : CountedBy(m)' \subseteq CountedBy(m)
    BY <1>3, <2>3, Zenon DEF CountedBy
  <2>5. votes \subseteq CountedBy(n)
    BY <1>2, <1>3, <1>7, Zenon DEF CountedBy
  <2>. HIDE DEF resp, votes
  <2>6. \A v, c \in Node : \A t : Counts(v, c, t)' => Counts(v, c, t)
    <3>1. ASSUME NEW v \in Node, NEW c \in Node, NEW t, NEW x \in elected',
                 x.node = c, x.term = t, v \in x.votes
          PROVE  Counts(v, c, t)
      <4>1. CASE x \in elected
        BY <3>1, <4>1, Zenon DEF Counts
      <4>2. CASE x = [node |-> n, term |-> current_term[n], votes |-> votes]
        <5>1. c = n /\ t = current_term[n] /\ v \in votes
          BY <3>1, <4>2, Zenon
        <5>. QED  BY <2>2, <2>5, <5>1, Zenon DEF Counts
      <4>. QED  BY <2>3, <3>1, <4>1, <4>2, Zenon
    <3>2. ASSUME NEW v \in Node, NEW c \in Node, NEW t, phase'[c] = "vote",
                 ballot'[c].term = t, v \in CountedBy(c)'
          PROVE  Counts(v, c, t)
      BY <1>3, <2>4, <3>2, Zenon DEF Counts
    <3>3. ASSUME NEW v \in Node, NEW c \in Node, NEW t, Counts(v, c, t)'
          PROVE  Counts(v, c, t)
      <4>1. \/ phase'[c] = "vote" /\ ballot'[c].term = t /\ v \in CountedBy(c)'
            \/ \E x \in elected' : x.node = c /\ x.term = t /\ v \in x.votes
        BY <3>3, Zenon DEF Counts
      <4>. QED  BY <3>1, <3>2, <4>1, Zenon
    <3>. QED  BY <3>3, Zenon
  <2>7. \A t \in VoteTerms' : \A v, c \in Node : Counts(v, c, t)' =>
             /\ Backs(v, c, t)'
             /\ \A d \in Node : Counts(v, d, t)' => d = c
    BY <2>1, <2>6, NoNewVote, SMTT(20), Zenon
  <2>8. \A m \in Node : phase'[m] = "vote" /\ election_state'[m] # {} =>
          ballot'[m].term = current_term'[m]
    BY <1>3, <2>3, Zenon DEF VotesBacked
  <2>9. \A e \in elected' : HasQuorum(e.votes)
    <3>1. \A e \in elected : HasQuorum(e.votes)
      BY Zenon DEF VotesBacked
    <3>2. [node |-> n, term |-> current_term[n], votes |-> votes].votes = votes
      BY Zenon
    <3>. QED  BY <1>7, <2>3, <3>1, <3>2, Zenon
  <2>. QED  BY <2>7, <2>8, <2>9, Zenon DEF VotesBacked, HasQuorum
<1>. QED  BY <1>4, <1>5, <1>6, <1>7, Zenon
          DEF HandleVoteResponse, persistent, volatile


\* Every step keeps VotesBacked.
LEMMA VotesNext ==
  TypeOK /\ LoopOK /\ TypeOK' /\ VotesBacked /\ [Next]_vars => VotesBacked'
<1>. SUFFICES ASSUME TypeOK, LoopOK, TypeOK', VotesBacked, [Next]_vars PROVE VotesBacked'
  OBVIOUS
<1>. USE RecountsKeepsVotes
<1>1. ASSUME NEW n \in Node, StartPreVote(n) PROVE VotesBacked'
  <2>1. phase'[n] # "vote"
    BY <1>1, Zenon DEF StartPreVote, TypeOK, LoopTypeOK
  <2>2. \A m \in Node \ {n} :
          /\ phase'[m] = phase[m] /\ ballot'[m] = ballot[m]
          /\ vote_response'[m] = vote_response[m]
          /\ election_state'[m] = election_state[m]
    BY <1>1 DEF StartPreVote, TypeOK, InnerTypeOK, LoopTypeOK
  <2>3. Recounts
    BY <1>1, <2>1, <2>2, Zenon DEF StartPreVote, Recounts, CountedBy, persistent, history
  <2>. QED  BY <1>1, <2>3, UnchangedAges, Zenon DEF StartPreVote
<1>2. ASSUME NEW n \in Node, CandidateTimeout(n) PROVE VotesBacked'
  <2>1. Recounts
    BY <1>2, Zenon DEF CandidateTimeout, Recounts, CountedBy, persistent, volatile, history,
                TypeOK, LoopTypeOK
  <2>. QED  BY <1>2, <2>1, UnchangedAges, Zenon DEF CandidateTimeout
<1>3. ASSUME NEW n \in Node, StartElection(n) PROVE VotesBacked'
  BY <1>3, StartElectionKeepsVotes, Zenon
<1>4. ASSUME NEW n \in Node, NEW p \in Node, DeliverVoteRequest(n, p) PROVE VotesBacked'
  BY <1>4, DeliverVoteRequestKeepsVotes, SMTT(20), Zenon
<1>5. ASSUME NEW n \in Node, HandleVoteResponse(n) PROVE VotesBacked'
  BY <1>5, HandleVoteResponseKeepsVotes, Zenon
<1>6. ASSUME NEW n \in Node, NEW p \in Node, VoteRequestFails(n, p) PROVE VotesBacked'
  <2>1. Recounts
    BY <1>6, UnchangedReceives, ReceivesRecounts, Zenon DEF VoteRequestFails, history
  <2>. QED  BY <1>6, <2>1, UnchangedAges, ZenonT(30) DEF VoteRequestFails
<1>7. ASSUME NEW n \in Node, VoteResponseLost(n) PROVE VotesBacked'
  <2>1. \A m \in Node : vote_response'[m] \in {vote_response[m], NoAnswer}
    BY <1>7, Zenon DEF VoteResponseLost, TypeOK, LoopTypeOK
  <2>2. Recounts
    BY <1>7, <2>1, UnchangedReceives, ReceivesRecounts, Zenon DEF VoteResponseLost, history
  <2>. QED  BY <1>7, <2>2, UnchangedAges, Zenon DEF VoteResponseLost
<1>8. ASSUME NEW n \in Node, EndVoteRound(n) PROVE VotesBacked'
  <2>1. phase'[n] # "vote" /\ \A m \in Node \ {n} : /\ phase'[m] = phase[m]
                                                   /\ ballot'[m] = ballot[m]
    BY <1>8, SMTT(20), Zenon DEF EndVoteRound, TypeOK, LoopTypeOK
  <2>2. Recounts
    BY <1>8, <2>1, Zenon DEF EndVoteRound, Recounts, CountedBy, persistent, volatile, history
  <2>. QED  BY <1>8, <2>2, UnchangedAges, SMTT(20), Zenon DEF EndVoteRound
<1>9. ASSUME NEW n \in Node, SendAppendEntries(n) PROVE VotesBacked'
  <2>1. Recounts
    BY <1>9, Zenon DEF SendAppendEntries, Recounts, CountedBy, persistent, volatile, history,
                TypeOK, LoopTypeOK
  <2>. QED  BY <1>9, <2>1, UnchangedAges, Zenon DEF SendAppendEntries
<1>10. ASSUME NEW n \in Node, NEW p \in Node, DeliverAppendEntries(n, p) PROVE VotesBacked'
  <2>1. appends[n][p] \in AppendRequest
    BY <1>10, AppendsKind, Zenon DEF DeliverAppendEntries
  <2>2. Receives
    BY <1>10, <2>1, HandleAppendEntriesReceives, Zenon DEF DeliverAppendEntries
  <2>3. Recounts
    BY <1>10, <2>2, ReceivesRecounts, SMTT(20), Zenon DEF DeliverAppendEntries, history
  <2>. QED  BY <2>2, <2>3, ReceivesAges, Zenon
<1>11. ASSUME NEW n \in Node, NEW p \in Node, HandleAppendResponse(n, p) PROVE VotesBacked'
  <2>1. appends[n][p].term \in Term
    BY <1>11, AppendsKind, Zenon DEF HandleAppendResponse, AppendResponse
  <2>2. CASE appends[n][p].term > current_term[n] /\ StepDown(n, appends[n][p].term)
    <3>1. Receives
      BY <2>1, <2>2, StepDownReceives, Zenon
    <3>2. Recounts
      BY <1>11, <3>1, ReceivesRecounts, Zenon DEF HandleAppendResponse
    <3>. QED  BY <3>1, <3>2, ReceivesAges, Zenon
  <2>3. CASE UNCHANGED <<persistent, election_state>>
    <3>1. Recounts
      BY <1>11, <2>3, Zenon DEF HandleAppendResponse, Recounts, CountedBy, persistent
    <3>. QED  BY <2>3, <3>1, UnchangedAges, SMTT(20), Zenon
  <2>. QED  BY <1>11, <2>2, <2>3, SMTT(20), Zenon DEF HandleAppendResponse, volatile
<1>12. ASSUME NEW n \in Node, NEW p \in Node, AppendEntriesFails(n, p) PROVE VotesBacked'
  <2>1. Recounts
    BY <1>12, UnchangedReceives, ReceivesRecounts, Zenon DEF AppendEntriesFails, history
  <2>. QED  BY <1>12, <2>1, UnchangedAges, Zenon DEF AppendEntriesFails
<1>13. ASSUME NEW n \in Node, EndAppendRound(n) PROVE VotesBacked'
  <2>1. Recounts
    BY <1>13, Zenon DEF EndAppendRound, Recounts, CountedBy, persistent, volatile, history,
                 TypeOK, LoopTypeOK
  <2>. QED  BY <1>13, <2>1, UnchangedAges, SMTT(20), Zenon DEF EndAppendRound
<1>14. ASSUME NEW n \in Node, NEW cmd \in Command, Propose(n, cmd) PROVE VotesBacked'
  <2>1. Recounts
    BY <1>14, Zenon DEF Propose, Recounts, CountedBy, persistent, loop, history
  <2>. QED  BY <1>14, <2>1, UnchangedAges, SMTT(20), Zenon DEF Propose
<1>15. ASSUME NEW m \in late_votes, DeliverLateVote(m) PROVE VotesBacked'
  <2>1. m.to \in Node /\ m.request \in VoteRequest
    BY Zenon DEF TypeOK, RestTypeOK
  <2>2. Receives
    BY <1>15, <2>1, HandleVoteRequestReceives, Zenon DEF DeliverLateVote
  <2>3. Recounts
    BY <1>15, <2>2, ReceivesRecounts, SMTT(20), Zenon DEF DeliverLateVote, loop, history
  <2>. QED  BY <2>2, <2>3, ReceivesAges, Zenon
<1>16. ASSUME NEW m \in late_appends, DeliverLateAppend(m) PROVE VotesBacked'
  <2>1. m.to \in Node /\ m.request \in AppendRequest
    BY Zenon DEF TypeOK, RestTypeOK
  <2>2. Receives
    BY <1>16, <2>1, HandleAppendEntriesReceives, Zenon DEF DeliverLateAppend
  <2>3. Recounts
    BY <1>16, <2>2, ReceivesRecounts, Zenon DEF DeliverLateAppend, loop, history
  <2>. QED  BY <2>2, <2>3, ReceivesAges, Zenon
<1>17. ASSUME NEW n \in Node, Restart(n) PROVE VotesBacked'
  <2>1. phase'[n] # "vote"
    BY <1>17, SMTT(20), Zenon DEF Restart, TypeOK, LoopTypeOK
  <2>2. \A m \in Node \ {n} :
          /\ phase'[m] = phase[m] /\ ballot'[m] = ballot[m]
          /\ vote_response'[m] = vote_response[m]
          /\ election_state'[m] = election_state[m]
    BY <1>17 DEF Restart, TypeOK, InnerTypeOK, LoopTypeOK
  <2>3. Recounts
    BY <1>17, <2>1, <2>2, Zenon DEF Restart, Recounts, CountedBy, persistent, history
  <2>. QED  BY <1>17, <2>3, UnchangedAges, Zenon DEF Restart
<1>18. CASE UNCHANGED vars
  <2>1. Recounts
    BY <1>18, Zenon DEF vars, Recounts, CountedBy
  <2>. QED  BY <1>18, <2>1, UnchangedAges, SMTT(20), Zenon DEF vars, persistent
<1>. QED
  BY <1>1, <1>2, <1>3, <1>4, <1>5, <1>6, <1>7, <1>8, <1>9, <1>10, <1>11, <1>12,
     <1>13, <1>14, <1>15, <1>16, <1>17, <1>18, SMTT(20), Zenon DEF Next


\* Before the first election no vote counts.
LEMMA VotesInit == Init => VotesBacked
BY Zenon DEF Init, VotesBacked, VoteTerms

=============================================================================
