----------------------------- MODULE ReadProofs -----------------------------
(***************************************************************************)
(* Linearizable reads (RaftReads), for every cluster size, every number of *)
(* reads and every value of the bounds: the invariant behind a read that   *)
(* is confirmed after it was registered, and that every step keeps it.     *)
(* What the node under the reads does in a step is taken as a hypothesis   *)
(* (NodeStep), which RaftProofs proves from the ledger.                    *)
(***************************************************************************)
EXTENDS RaftReads, RaftHandlerProofs

-----------------------------------------------------------------------------
(* The invariant.                                                          *)

\* A read that was made.
ReadRecord ==
  [pc : {"none", "poll", "applied", "serve", "done", "failed"}, node : Node \cup {None},
   read_index : Nat, seen : Nat, floor : Nat, own : BOOLEAN, fresh : SUBSET Node,
   early : BOOLEAN]

ReadTypes ==
  /\ pending \in [Node -> [Reader -> SUBSET Node]]
  /\ last_applied \in [Node -> Nat] /\ stored \in [Node -> Nat]
  /\ recorded \in [Node -> SUBSET Node] /\ covered \in [Node -> SUBSET Reader]
  /\ read \in [Reader -> ReadRecord]
  /\ \A r \in Reader : IF read[r].pc = "none" THEN \A n \in Node : r \notin covered[n]
                       ELSE read[r].node \in Node

\* What is stored was taken, and what was taken is committed.
AppliedCommitted ==
  \A n \in Node : stored[n] <= last_applied[n] /\ last_applied[n] <= commit_index[n]

\* What the leader of a term has committed in it is below its commit index, and what
\* leaders have committed has an end.
OwnCommitted ==
  /\ \A n \in Node : role[n] = "Leader" =>
       \A d \in decided : d.at = current_term[n] => d.index <= commit_index[n]
  /\ \E b \in Nat : \A d \in decided : d.index <= b

\* v will not confirm read r: it has not, and is in a later term than the node where
\* the read waits, which has no answer of v to a request that was sent for it.
Silent(v, r) ==
  /\ v \notin read[r].fresh
  /\ \A n \in Node : r \in Waiting(n) =>
       /\ current_term[v] > current_term[n]
       /\ r \in covered[n] => ~Succeeded(appends[n][v])

\* A read of a leader that had committed in its term starts from everything that was
\* committed, or a quorum will not confirm it.
ReadsGrounded ==
  \A r \in Reader : read[r].pc # "none" /\ read[r].own =>
    \/ read[r].floor <= read[r].read_index
    \/ \E Q \in SUBSET Node : HasQuorum(Q) /\ \A v \in Q : Silent(v, r)

\* A read is served when its read index was taken.
ReadsServed ==
  \A r \in Reader :
    /\ read[r].pc = "serve" => read[r].read_index <= last_applied[read[r].node]
    /\ read[r].pc = "done" => read[r].early \/ read[r].read_index <= read[r].seen

ReadInv ==
  ReadTypes /\ PendingOnlyWhilePolled /\ AppliedCommitted /\ OwnCommitted /\ ReadsGrounded
    /\ ReadsServed

\* A leader is not in the middle of becoming a candidate.
NotElecting == \A n \in Node : phase[n] \in {"pre_vote", "elect"} => role[n] # "Leader"

\* What is known of a step of the nodes under the reads.
NodeStep ==
  /\ TypeOK /\ TypeOK' /\ LoopOK /\ RequestsFromElected /\ ElectionSafety /\ ElectionSafety'
  /\ Polls /\ StepKind /\ LedgerInv
  /\ \A n \in Node : StaysLeader(n) /\ KeepsCommitted(n)

-----------------------------------------------------------------------------
(* The nodes under the reads.                                              *)

\* A step of the read path is one of the nodes, or leaves them alone.
LEMMA ReadStepIsStep == [ReadNext]_allVars => [Next]_vars
<1>1. ASSUME ReadNext PROVE [Next]_vars
  <2>1. CASE Receive
    BY <2>1, Zenon DEF Receive, Next
  <2>2. ASSUME NEW n \in Node, StartTurn(n) \/ Campaign(n) PROVE Next
    BY <2>2, Zenon DEF StartTurn, Campaign, Next
  <2>3. ASSUME NEW n \in Node, EndTurn(n) PROVE [Next]_vars
    BY <2>3, Zenon DEF EndTurn, Next
  <2>4. ASSUME NEW n \in Node, Apply(n) PROVE UNCHANGED vars
    BY <2>4, Zenon DEF Apply
  <2>5. ASSUME NEW n \in Node, NEW p \in Node, RecordAck(n, p) PROVE UNCHANGED vars
    BY <2>5, Zenon DEF RecordAck
  <2>6. ASSUME NEW n \in Node, NEW p \in Node, FinishCall(n, p) PROVE Next
    BY <2>6, Zenon DEF FinishCall, Next
  <2>7. ASSUME NEW n \in Node, NEW cmd \in Command, Propose(n, cmd) PROVE Next
    BY <2>7, Zenon DEF Next
  <2>8. ASSUME NEW r \in Reader, NEW n \in Node, RequestReadIndex(r, n) PROVE UNCHANGED vars
    BY <2>8, Zenon DEF RequestReadIndex
  <2>9. ASSUME NEW r \in Reader, Poll(r) \/ GiveUp(r) \/ WaitForApplied(r) \/ Serve(r)
        PROVE  UNCHANGED vars
    BY <2>9, Zenon DEF Poll, GiveUp, WaitForApplied, Serve
  <2>. QED
    BY <1>1, <2>1, <2>2, <2>3, <2>4, <2>5, <2>6, <2>7, <2>8, <2>9, Zenon DEF ReadNext
<1>2. ASSUME UNCHANGED allVars PROVE UNCHANGED vars
  BY <1>2, Zenon DEF allVars
<1>. QED  BY <1>1, <1>2, Zenon

\* It crashes nobody.
LEMMA NoCrash ==
  ASSUME TypeOK, [ReadNext]_allVars
  PROVE  spent'.crash = spent.crash
<1>. USE DEF vars
<1>1. ASSUME UNCHANGED spent PROVE spent'.crash = spent.crash
  BY <1>1, Zenon
<1>2. ASSUME NEW n \in Node, StartPreVote(n) \/ SendAppendEntries(n)
      PROVE  spent'.crash = spent.crash
  BY <1>2, Zenon DEF StartPreVote, SendAppendEntries, TypeOK, RestTypeOK
<1>3. ASSUME Receive PROVE UNCHANGED spent
  BY <1>3, Zenon DEF Receive, HandleVoteResponse, VoteResponseLost, DeliverVoteRequest,
            VoteRequestFails, DeliverAppendEntries
<1>4. ASSUME NEW n \in Node, CandidateTimeout(n) \/ Campaign(n) PROVE UNCHANGED spent
  BY <1>4, Zenon DEF CandidateTimeout, Campaign, StartElection
<1>5. ASSUME NEW n \in Node, EndTurn(n) \/ Apply(n) PROVE UNCHANGED spent
  BY <1>5, Zenon DEF EndTurn, EndVoteRound, EndAppendRound, Apply
<1>6. ASSUME NEW n \in Node, NEW p \in Node, RecordAck(n, p) \/ FinishCall(n, p)
      PROVE  UNCHANGED spent
  BY <1>6, Zenon DEF RecordAck, FinishCall, HandleAppendResponse, AppendEntriesFails
<1>7. ASSUME NEW n \in Node, NEW cmd \in Command, Propose(n, cmd) PROVE UNCHANGED spent
  BY <1>7, Zenon DEF Propose
<1>8. ASSUME NEW r \in Reader, \/ \E n \in Node : RequestReadIndex(r, n)
                              \/ Poll(r) \/ GiveUp(r) \/ WaitForApplied(r) \/ Serve(r)
      PROVE  UNCHANGED spent
  BY <1>8, Zenon DEF RequestReadIndex, Poll, GiveUp, WaitForApplied, Serve
<1>9. ASSUME UNCHANGED allVars PROVE UNCHANGED spent
  BY <1>9, Zenon DEF allVars
<1>. QED
  BY <1>1, <1>2, <1>3, <1>4, <1>5, <1>6, <1>7, <1>8, <1>9, Zenon DEF ReadNext, StartTurn

\* An answer that reports success is given to a request whose term the peer accepts.
LEMMA NewAcks ==
  ASSUME TypeOK, StepKind, NEW n \in Node, NEW v \in Node, Succeeded(appends'[n][v])
  PROVE  \/ appends'[n][v] = appends[n][v]
         \/ appends[n][v].kind = "request" /\ appends[n][v].term >= current_term[v]
<1>1. CASE Quiet
  BY <1>1, Zenon DEF Quiet, NoNewMessage
<1>2. ASSUME NEW m \in Node, Leads(m) PROVE appends' = appends
  BY <1>2, Zenon DEF Leads
<1>3. ASSUME NEW m \in Node, SendAppendEntries(m) PROVE appends'[n][v] = appends[n][v]
  <2>1. CASE m = n
    <3>1. appends'[n][v] = NoRpc \/ appends'[n][v] = AppendRequestFor(n, v)
      BY <1>3, <2>1, Zenon DEF SendAppendEntries, TypeOK, LoopTypeOK
    <3>2. NoRpc.kind = "none" /\ AppendRequestFor(n, v).kind = "request"
      BY Zenon DEF NoRpc, AppendRequestFor
    <3>. QED  BY <3>1, <3>2, Zenon DEF Succeeded
  <2>2. CASE m # n
    BY <1>3, <2>2, Zenon DEF SendAppendEntries, TypeOK, LoopTypeOK
  <2>. QED  BY <2>1, <2>2, Zenon
<1>4. ASSUME NEW m \in Node, NEW cmd \in Command, Propose(m, cmd) PROVE appends' = appends
  BY <1>4, Zenon DEF Propose, loop
<1>5. ASSUME NEW m \in Node, NEW p \in Node, Advances(m, p) PROVE appends'[n][v] = appends[n][v]
  BY <1>5, Zenon DEF Advances, NoNewMessage
<1>6. ASSUME NEW p \in Node, NEW r \in Requests, Stores(p, r)
      PROVE  \/ appends'[n][v] = appends[n][v]
             \/ appends[n][v].kind = "request" /\ appends[n][v].term >= current_term[v]
  <2>1. r.kind = "request"
    BY RequestsType, Zenon DEF AppendRequest
  <2>. QED  BY <1>6, <2>1, Zenon DEF Stores
<1>. QED  BY <1>1, <1>2, <1>3, <1>4, <1>5, <1>6, Zenon DEF StepKind

\* A node wins an election in a vote round, and leaves a round before the next begins.
LEMMA NotElectingNext ==
  ASSUME TypeOK, LoopOK, NotElecting, Next
  PROVE  NotElecting'
<1>. SUFFICES ASSUME NEW q \in Node, phase'[q] \in {"pre_vote", "elect"}
              PROVE  role'[q] # "Leader"
  BY Zenon DEF NotElecting
<1>t. /\ role \in [Node -> {"Follower", "PreCandidate", "Candidate", "Leader"}]
      /\ phase \in [Node -> {"idle", "pre_vote", "elect", "vote", "append"}]
  BY Zenon DEF TypeOK, InnerTypeOK, LoopTypeOK
<1>a. ASSUME UNCHANGED phase, role'[q] = role[q] \/ role'[q] = "Follower"
      PROVE  role'[q] # "Leader"
  BY <1>a, Zenon DEF NotElecting
<1>1. ASSUME NEW n \in Node, StartPreVote(n) \/ CandidateTimeout(n) \/ StartElection(n)
      PROVE  role'[q] # "Leader"
  BY <1>1, <1>t, Zenon DEF NotElecting, StartPreVote, CandidateTimeout, StartElection, volatile
<1>2. ASSUME NEW n \in Node, HandleVoteResponse(n) PROVE role'[q] # "Leader"
  <2>1. UNCHANGED phase
    BY <1>2, Zenon DEF HandleVoteResponse
  <2>2. CASE role'[q] = role[q] \/ role'[q] = "Follower"
    BY <1>a, <2>1, <2>2, Zenon
  <2>3. CASE ~(role'[q] = role[q] \/ role'[q] = "Follower")
    <3>1. ~ballot[n].is_pre_vote /\ q = n /\ vote_response[n] # NoAnswer
      BY <1>2, <2>3, <1>t, Zenon DEF HandleVoteResponse, StepDown, BecomeLeader, volatile
    <3>2. phase[n] = "vote"
      BY <3>1, Zenon DEF LoopOK
    <3>. QED  BY <2>1, <3>1, <3>2, Zenon
  <2>. QED  BY <2>2, <2>3, Zenon
<1>3. ASSUME NEW n \in Node, EndVoteRound(n) \/ EndAppendRound(n) PROVE role'[q] # "Leader"
  BY <1>3, <1>t, Zenon DEF NotElecting, EndVoteRound, EndAppendRound, volatile
<1>4. ASSUME NEW n \in Node, SendAppendEntries(n) PROVE role'[q] # "Leader"
  BY <1>4, <1>t, Zenon DEF NotElecting, SendAppendEntries, volatile
<1>5. ASSUME NEW n \in Node, VoteResponseLost(n) \/ \E cmd \in Command : Propose(n, cmd)
      PROVE  role'[q] # "Leader"
  BY <1>5, <1>a, Zenon DEF VoteResponseLost, Propose, loop, volatile
<1>6. ASSUME NEW n \in Node, Restart(n) PROVE role'[q] # "Leader"
  BY <1>6, <1>t, Zenon DEF NotElecting, Restart
<1>7. ASSUME NEW p \in Node, NEW req, HandleVoteRequest(p, req), UNCHANGED phase
      PROVE  role'[q] # "Leader"
  BY <1>7, <1>a, <1>t, Zenon DEF HandleVoteRequest, volatile
<1>8. ASSUME NEW p \in Node, NEW req, HandleAppendEntries(p, req), UNCHANGED phase
      PROVE  role'[q] # "Leader"
  BY <1>8, <1>a, <1>t, Zenon DEF HandleAppendEntries, volatile
<1>9. ASSUME NEW n \in Node, NEW p \in Node, DeliverVoteRequest(n, p) \/ DeliverAppendEntries(n, p)
      PROVE  role'[q] # "Leader"
  BY <1>9, <1>7, <1>8, Zenon DEF DeliverVoteRequest, DeliverAppendEntries
<1>10. ASSUME NEW n \in Node, NEW p \in Node, VoteRequestFails(n, p) \/ AppendEntriesFails(n, p)
      PROVE  role'[q] # "Leader"
  BY <1>10, <1>a, Zenon DEF VoteRequestFails, AppendEntriesFails, volatile
<1>11. ASSUME NEW n \in Node, NEW p \in Node, HandleAppendResponse(n, p)
       PROVE  role'[q] # "Leader"
  BY <1>11, <1>a, <1>t, Zenon DEF HandleAppendResponse, StepDown, volatile
<1>12. ASSUME NEW m \in late_votes, DeliverLateVote(m) PROVE role'[q] # "Leader"
  <2>1. m.to \in Node
    BY Zenon DEF TypeOK, RestTypeOK
  <2>. QED  BY <1>12, <1>7, <2>1, Zenon DEF DeliverLateVote, loop
<1>13. ASSUME NEW m \in late_appends, DeliverLateAppend(m) PROVE role'[q] # "Leader"
  <2>1. m.to \in Node
    BY Zenon DEF TypeOK, RestTypeOK
  <2>. QED  BY <1>13, <1>8, <2>1, Zenon DEF DeliverLateAppend, loop
<1>. QED
  BY <1>1, <1>2, <1>3, <1>4, <1>5, <1>6, <1>9, <1>10, <1>11, <1>12, <1>13, Zenon DEF Next

\* Commit indexes do not fall without a crash.
LEMMA CommitIndexGrows ==
  ASSUME NodeStep, spent'.crash = spent.crash, NEW q \in Node
  PROVE  commit_index'[q] \in Nat /\ commit_index[q] \in Nat /\ commit_index'[q] >= commit_index[q]
<1>1. commit_index[q] \in Nat /\ commit_index'[q] \in Nat /\ spent.crash \in Nat
  BY Zenon DEF NodeStep, TypeOK, InnerTypeOK, RestTypeOK
<1>2. commit_index'[q] < commit_index[q] => spent'.crash = spent.crash + 1
  BY Zenon DEF NodeStep, KeepsCommitted
<1>. QED  BY <1>1, <1>2

\* What a leader commits it has below its commit index at once, and a new leader has
\* committed nothing in its term.
LEMMA OwnCommittedNext ==
  ASSUME WellOrdered, NodeStep, spent'.crash = spent.crash, OwnCommitted
  PROVE  OwnCommitted'
<1>. USE DEF NodeStep
<1>t. /\ commit_index \in [Node -> Nat] /\ commit_index' \in [Node -> Nat]
      /\ current_term \in [Node -> Term] /\ role \in [Node -> {"Follower", "PreCandidate", "Candidate", "Leader"}]
  BY Zenon DEF TypeOK, InnerTypeOK
<1>c. \A d \in decided : d.index \in Nat
  BY Zenon DEF TypeOK, RestTypeOK
<1>n. ASSUME NEW q \in Node PROVE commit_index'[q] >= commit_index[q]
  BY CommitIndexGrows, Zenon
<1>1. ASSUME UNCHANGED decided,
             \A q \in Node : role'[q] = "Leader" =>
               role[q] = "Leader" /\ current_term'[q] = current_term[q]
      PROVE  OwnCommitted'
  <2>1. ASSUME NEW q \in Node, role'[q] = "Leader", NEW d \in decided', d.at = current_term'[q]
        PROVE  d.index <= commit_index'[q]
    <3>1. d \in decided /\ d.index <= commit_index[q]
      BY <1>1, <2>1, Zenon DEF OwnCommitted
    <3>. QED  BY <3>1, <1>t, <1>c, <1>n
  <2>2. PICK b \in Nat : \A d \in decided' : d.index <= b
    BY <1>1, Zenon DEF OwnCommitted
  <2>. QED  BY <2>1, <2>2, Zenon DEF OwnCommitted
<1>2. CASE Quiet
  BY <1>1, <1>2, Zenon DEF Quiet
<1>3. ASSUME NEW n \in Node, Leads(n) PROVE OwnCommitted'
  <2>1. PICK L \in Ledger : LogInv(L) /\ CommitInv(L)
    BY Zenon DEF LedgerInv
  <2>2. /\ UNCHANGED <<commit_index, decided, current_term>> /\ ~Elected(n, current_term[n])
        /\ \A q \in Node : role'[q] = "Leader" => q = n \/ role[q] = "Leader"
    BY <1>3, <1>t, <2>1, Zenon DEF Leads, BecomeLeader, LogInv, ElectionsOK, persistent
  <2>3. ASSUME NEW d \in decided, d.at = current_term[n] PROVE FALSE
    <3>1. PICK a \in Nat : Secured(L, d, a)
      BY <2>1, Zenon DEF CommitInv, DecidedOK
    <3>2. L[d.at] # <<>> /\ d.at \in Term
      <4>1. a \in 1..Len(L[d.at])
        BY <3>1, Zenon DEF Secured
      <4>. QED  BY <4>1 DEF TypeOK, RestTypeOK
    <3>3. PICK e \in elected : e.term = current_term[n]
      BY <2>1, <2>3, <3>2, Zenon DEF LogInv, LedgerOK
    <3>4. PICK x \in elected' : x.node = n /\ x.term = current_term[n]
      <4>. DEFINE w == [node |-> n, term |-> current_term[n], votes |-> CountedBy(n)]
      <4>1. w \in elected'
        BY <1>3, Zenon DEF Leads, BecomeLeader
      <4>2. w.node = n /\ w.term = current_term[n]
        OBVIOUS
      <4>. HIDE DEF w
      <4>. QED  BY <4>1, <4>2, Zenon
    <3>5. e \in elected'
      BY <1>3, Zenon DEF Leads, BecomeLeader
    <3>6. e.node = n
      BY <3>3, <3>4, <3>5, Zenon DEF ElectionSafety
    <3>. QED  BY <2>2, <3>3, <3>6, Zenon DEF Elected
  <2>4. PICK b \in Nat : \A d \in decided : d.index <= b
    BY Zenon DEF OwnCommitted
  <2>5. \A q \in Node : role'[q] = "Leader" =>
          \A d \in decided : d.at = current_term[q] => d.index <= commit_index[q]
    BY <2>2, <2>3, Zenon DEF OwnCommitted
  <2>. QED  BY <2>2, <2>4, <2>5, Zenon DEF OwnCommitted
<1>4. ASSUME NEW n \in Node, SendAppendEntries(n) PROVE OwnCommitted'
  BY <1>1, <1>4, Zenon DEF SendAppendEntries, history, persistent, volatile
<1>5. ASSUME NEW n \in Node, NEW cmd \in Command, Propose(n, cmd) PROVE OwnCommitted'
  BY <1>1, <1>5, Zenon DEF Propose, history, persistent
<1>6. ASSUME NEW n \in Node, NEW p \in Node, Advances(n, p) PROVE OwnCommitted'
  <2>1. /\ UNCHANGED <<role, current_term>> /\ role[n] = "Leader"
        /\ decided' = decided \cup
             {[index |-> i, entry |-> log[n][i], at |-> current_term[n]] :
                i \in (commit_index[n] + 1)..commit_index'[n]}
    BY <1>6, <1>t, Zenon DEF Advances, AdvancePeer
  <2>2. ASSUME NEW d \in decided'
        PROVE  d \in decided \/ (d.at = current_term[n] /\ d.index <= commit_index'[n])
    BY <2>1, <1>t
  <2>3. ASSUME NEW q \in Node, role'[q] = "Leader", NEW d \in decided', d.at = current_term'[q]
        PROVE  d.index <= commit_index'[q]
    <3>1. CASE d \in decided
      <4>1. d.index <= commit_index[q]
        BY <2>1, <2>3, <3>1, Zenon DEF OwnCommitted
      <4>. QED  BY <3>1, <4>1, <1>t, <1>c, <1>n
    <3>2. CASE d.at = current_term[n] /\ d.index <= commit_index'[n]
      <4>1. role[q] = "Leader" /\ current_term[q] = current_term[n]
        BY <2>1, <2>3, <3>2, Zenon
      <4>2. PICK e1 \in elected : e1.node = n /\ e1.term = current_term[n]
        BY <2>1, Zenon DEF RequestsFromElected, Elected
      <4>e. PICK e2 \in elected : e2.node = q /\ e2.term = current_term[q]
        BY <4>1, Zenon DEF RequestsFromElected, Elected
      <4>f. e1.term = e2.term
        BY <4>1, <4>2, <4>e, Zenon
      <4>3. q = n
        BY <4>2, <4>e, <4>f, Zenon DEF ElectionSafety
      <4>. QED  BY <3>2, <4>3, Zenon
    <3>. QED  BY <2>2, <3>1, <3>2, Zenon
  <2>4. \E b \in Nat : \A d \in decided' : d.index <= b
    <3>1. PICK b \in Nat : \A d \in decided : d.index <= b
      BY Zenon DEF OwnCommitted
    <3>2. PICK c \in Nat : c >= b /\ c >= commit_index'[n]
      <4>1. b + commit_index'[n] \in Nat /\ b + commit_index'[n] >= b
            /\ b + commit_index'[n] >= commit_index'[n]
        BY <1>t
      <4>. QED  BY <4>1, Zenon
    <3>3. ASSUME NEW d \in decided' PROVE d.index <= c
      <4>1. d.index \in Nat
        BY Zenon DEF TypeOK, RestTypeOK
      <4>2. d.index <= b \/ d.index <= commit_index'[n]
        BY <2>2, <3>1, Zenon
      <4>. QED  BY <3>2, <4>1, <4>2, <1>t
    <3>. QED  BY <3>3, Zenon
  <2>. QED  BY <2>3, <2>4, Zenon DEF OwnCommitted
<1>7. ASSUME NEW p \in Node, NEW r \in Requests, Stores(p, r) PROVE OwnCommitted'
  BY <1>1, <1>7, Zenon DEF Stores
<1>. QED  BY <1>2, <1>3, <1>4, <1>5, <1>6, <1>7, Zenon DEF StepKind

-----------------------------------------------------------------------------
(* Steps of the nodes, as the reads see them.                              *)

\* No read changes.  A read stays pending only in a node that stays in its term, and
\* is covered by a round that has no answer yet if the round has just started.
MovesNodes ==
  /\ UNCHANGED <<read, stored>>
  /\ pending' \in [Node -> [Reader -> SUBSET Node]]
  /\ recorded' \in [Node -> SUBSET Node]
  /\ covered' \in [Node -> SUBSET Reader]
  /\ last_applied' \in [Node -> Nat]
  /\ \A n \in Node :
       /\ last_applied'[n] = last_applied[n] \/ last_applied'[n] = commit_index[n]
       /\ \A r \in Reader :
            /\ pending'[n][r] # {} => r \in Waiting(n) /\ current_term'[n] = current_term[n]
            /\ r \in covered'[n] =>
                 \/ r \in covered[n]
                 \/ r \in Waiting(n) /\ \A v \in Node : ~Succeeded(appends'[n][v])

\* step_down_inner clears the reads of the node whose term it raises.
LEMMA ClearingMoves ==
  ASSUME ReadTypes, ClearsReads, UNCHANGED <<last_applied, stored, recorded, read, covered>>
  PROVE  MovesNodes
<1>t. /\ pending \in [Node -> [Reader -> SUBSET Node]]
      /\ recorded \in [Node -> SUBSET Node] /\ covered \in [Node -> SUBSET Reader]
      /\ last_applied \in [Node -> Nat]
  BY Zenon DEF ReadTypes
<1>1. pending' \in [Node -> [Reader -> SUBSET Node]]
  BY <1>t, Zenon DEF ClearsReads
<1>2. ASSUME NEW n \in Node, NEW r \in Reader, pending'[n][r] # {}
      PROVE  pending[n][r] # {} /\ current_term'[n] = current_term[n]
  BY <1>2, Zenon DEF ClearsReads
<1>. QED  BY <1>t, <1>1, <1>2, Zenon DEF MovesNodes, Waiting

\* A round starts when the one before it has no call left, and its own calls have not
\* been answered.
LEMMA StartMoves ==
  ASSUME TypeOK, LoopOK, ReadTypes, NEW n \in Node, StartTurn(n)
  PROVE  MovesNodes
<1>t. /\ pending \in [Node -> [Reader -> SUBSET Node]]
      /\ recorded \in [Node -> SUBSET Node] /\ covered \in [Node -> SUBSET Reader]
      /\ last_applied \in [Node -> Nat]
  BY Zenon DEF ReadTypes
<1>1. /\ UNCHANGED <<pending, last_applied, stored, read>> /\ UNCHANGED current_term
      /\ recorded' = [recorded EXCEPT ![n] = {}]
      /\ covered' = [covered EXCEPT ![n] = Waiting(n)]
      /\ phase[n] = "idle"
  BY Zenon DEF StartTurn, StartPreVote, CandidateTimeout, SendAppendEntries, persistent
<1>2. recorded' \in [Node -> SUBSET Node] /\ covered' \in [Node -> SUBSET Reader]
  <2>1. Waiting(n) \in SUBSET Reader
    BY Zenon DEF Waiting
  <2>. QED  BY <1>1, <1>t, <2>1, Zenon
<1>3. ASSUME NEW v \in Node PROVE ~Succeeded(appends'[n][v])
  <2>1. NoRpc.kind = "none" /\ AppendRequestFor(n, v).kind = "request"
    BY Zenon DEF NoRpc, AppendRequestFor
  <2>2. CASE StartPreVote(n) \/ CandidateTimeout(n)
    <3>0. phase[n] # "append"
      BY <1>1, Zenon
    <3>1. appends' = appends
      BY <2>2, Zenon DEF StartPreVote, CandidateTimeout
    <3>2. appends[n][v] = NoRpc
      BY <3>0, Zenon DEF LoopOK
    <3>. QED  BY <2>1, <3>1, <3>2, Zenon DEF Succeeded
  <2>3. CASE SendAppendEntries(n)
    <3>1. appends'[n][v] = NoRpc \/ appends'[n][v] = AppendRequestFor(n, v)
      BY <2>3, Zenon DEF SendAppendEntries, TypeOK, LoopTypeOK
    <3>. QED  BY <2>1, <3>1, Zenon DEF Succeeded
  <2>. QED  BY <2>2, <2>3, Zenon DEF StartTurn
<1>4. ASSUME NEW q \in Node, NEW r \in Reader, r \in covered'[q]
      PROVE  \/ r \in covered[q]
             \/ r \in Waiting(q) /\ \A v \in Node : ~Succeeded(appends'[q][v])
  <2>1. CASE q = n
    BY <1>1, <1>3, <1>4, <1>t, <2>1, Zenon
  <2>2. CASE q # n
    BY <1>1, <1>4, <1>t, <2>2, Zenon
  <2>. QED  BY <2>1, <2>2, Zenon
<1>5. \A q \in Node, r \in Reader : pending'[q][r] # {} => r \in Waiting(q)
  BY <1>1, Zenon DEF Waiting
<1>. QED  BY <1>t, <1>1, <1>2, <1>4, <1>5, Zenon DEF MovesNodes

\* A candidate has no pending read.
LEMMA CampaignMoves ==
  ASSUME TypeOK, NotElecting, ReadTypes, PendingOnlyWhilePolled, NEW n \in Node, Campaign(n)
  PROVE  MovesNodes
<1>1. UNCHANGED <<pending, last_applied, stored, recorded, read, covered>>
  BY Zenon DEF Campaign, readVars
<1>2. /\ role[n] # "Leader"
      /\ \A q \in Node \ {n} : current_term'[q] = current_term[q]
  BY Zenon DEF Campaign, StartElection, NotElecting, TypeOK, InnerTypeOK
<1>3. ASSUME NEW q \in Node, NEW r \in Reader, pending'[q][r] # {}
      PROVE  r \in Waiting(q) /\ current_term'[q] = current_term[q]
  <2>1. r \in Waiting(q)
    BY <1>1, <1>3, Zenon DEF Waiting
  <2>2. q # n
    BY <1>2, <2>1, Zenon DEF PendingOnlyWhilePolled
  <2>. QED  BY <1>2, <2>1, <2>2, Zenon
<1>. QED  BY <1>1, <1>3, Zenon DEF MovesNodes, ReadTypes

\* The end of a turn takes what is committed.
LEMMA EndMoves ==
  ASSUME TypeOK, ReadTypes, NEW n \in Node, EndTurn(n)
  PROVE  MovesNodes
<1>1. UNCHANGED <<pending, stored, recorded, read, covered>> /\ UNCHANGED current_term
  BY Zenon DEF EndTurn, EndVoteRound, EndAppendRound, persistent, vars
<1>t. commit_index \in [Node -> Nat] /\ last_applied \in [Node -> Nat]
  BY Zenon DEF TypeOK, InnerTypeOK, ReadTypes
<1>2. last_applied' = last_applied \/ last_applied' = [last_applied EXCEPT ![n] = commit_index[n]]
  BY Zenon DEF EndTurn, TakeCommitted
<1>3. /\ last_applied' \in [Node -> Nat]
      /\ \A q \in Node : last_applied'[q] = last_applied[q] \/ last_applied'[q] = commit_index[q]
  BY <1>t, <1>2, Zenon
<1>4. \A q \in Node, r \in Reader : pending'[q][r] # {} => r \in Waiting(q)
  BY <1>1, Zenon DEF Waiting
<1>. QED  BY <1>1, <1>3, <1>4, Zenon DEF MovesNodes, ReadTypes

\* Steps of the nodes keep the invariant: terms do not fall, and a peer in a later term
\* does not accept the requests of the node where the read waits.
LEMMA NodesKeepReads ==
  ASSUME NodeStep, spent'.crash = spent.crash, WellOrdered, ReadInv, MovesNodes
  PROVE  ReadInv'
<1>. USE DEF ReadInv
<1>1. ReadTypes'
  <2>1. ASSUME NEW r \in Reader, read'[r].pc = "none", NEW n \in Node PROVE r \notin covered'[n]
    <3>1. read[r].pc = "none" /\ r \notin covered[n]
      BY <2>1, Zenon DEF MovesNodes, ReadTypes
    <3>2. r \notin Waiting(n)
      BY <3>1, Zenon DEF PendingOnlyWhilePolled
    <3>. QED  BY <3>1, <3>2, Zenon DEF MovesNodes
  <2>2. ASSUME NEW r \in Reader, read'[r].pc # "none" PROVE read'[r].node \in Node
    BY <2>2, Zenon DEF MovesNodes, ReadTypes
  <2>. QED  BY <2>1, <2>2, Zenon DEF ReadTypes, MovesNodes
<1>2. ASSUME NEW n \in Node, NEW r \in Reader, pending'[n][r] # {}
      PROVE  /\ r \in Waiting(n) /\ current_term'[n] = current_term[n]
             /\ role[n] = "Leader" /\ role'[n] = "Leader"
             /\ read'[r].pc = "poll" /\ read'[r].node = n
  <2>1. r \in Waiting(n) /\ current_term'[n] = current_term[n] /\ read' = read
    BY <1>2, Zenon DEF MovesNodes
  <2>2. role[n] = "Leader" /\ read[r].pc = "poll" /\ read[r].node = n
    BY <2>1, Zenon DEF PendingOnlyWhilePolled
  <2>3. role'[n] = "Leader"
    BY <2>1, <2>2, Zenon DEF NodeStep, StaysLeader
  <2>. QED  BY <2>1, <2>2, <2>3, Zenon
<1>3. PendingOnlyWhilePolled'
  <2>1. ASSUME NEW n \in Node, NEW r \in Waiting(n)'
        PROVE  role'[n] = "Leader" /\ read'[r].pc = "poll" /\ read'[r].node = n
    <3>1. r \in Reader /\ pending'[n][r] # {}
      BY <2>1, Zenon DEF Waiting
    <3>. QED  BY <3>1, <1>2
  <2>. QED  BY <2>1, Zenon DEF PendingOnlyWhilePolled
<1>4. ASSUME NEW n \in Node
      PROVE  /\ stored'[n] <= last_applied'[n] /\ last_applied'[n] <= commit_index'[n]
             /\ last_applied[n] <= last_applied'[n]
             /\ last_applied[n] \in Nat /\ last_applied'[n] \in Nat
  <2>1. /\ commit_index'[n] \in Nat /\ commit_index[n] \in Nat
        /\ commit_index'[n] >= commit_index[n]
    BY CommitIndexGrows, Zenon
  <2>2. /\ stored[n] \in Nat /\ last_applied[n] \in Nat /\ last_applied'[n] \in Nat
        /\ stored[n] <= last_applied[n] /\ last_applied[n] <= commit_index[n]
        /\ stored'[n] = stored[n]
        /\ last_applied'[n] = last_applied[n] \/ last_applied'[n] = commit_index[n]
    BY Zenon DEF ReadTypes, AppliedCommitted, MovesNodes
  <2>. QED  BY <2>1, <2>2
<1>5. AppliedCommitted'
  BY <1>4, Zenon DEF AppliedCommitted
<1>6. OwnCommitted'
  BY OwnCommittedNext, Zenon
<1>7. ReadsGrounded'
  <2>1. ASSUME NEW r \in Reader, NEW v \in Node, Silent(v, r) PROVE Silent(v, r)'
    <3>1. v \notin read'[r].fresh
      BY <2>1, Zenon DEF Silent, MovesNodes
    <3>2. ASSUME NEW n \in Node, pending'[n][r] # {}
          PROVE  current_term'[v] > current_term'[n]
                 /\ (r \in covered'[n] => ~Succeeded(appends'[n][v]))
      <4>1. /\ current_term'[n] = current_term[n] /\ role[n] = "Leader"
            /\ current_term[v] > current_term[n] /\ current_term'[v] >= current_term[v]
            /\ r \in covered[n] => ~Succeeded(appends[n][v])
        BY <1>2, <2>1, <3>2, Zenon DEF Silent, NodeStep, Polls
      <4>2. current_term[v] \in Nat /\ current_term'[v] \in Nat /\ current_term[n] \in Nat
        BY Zenon DEF NodeStep, TypeOK, InnerTypeOK, Term
      <4>3. ASSUME r \in covered'[n], Succeeded(appends'[n][v]) PROVE FALSE
        <5>1. r \in covered[n] /\ ~Succeeded(appends[n][v])
          BY <4>1, <4>3, Zenon DEF MovesNodes
        <5>2. appends[n][v].kind = "request" /\ appends[n][v].term >= current_term[v]
          BY <4>3, <5>1, NewAcks, Zenon DEF NodeStep
        <5>3. appends[n][v].term = current_term[n]
          BY <4>1, <5>2, Zenon DEF NodeStep, LedgerInv, LogInv, AcksOK
        <5>. QED  BY <4>1, <4>2, <5>2, <5>3
      <4>. QED  BY <4>1, <4>2, <4>3
    <3>. QED  BY <3>1, <3>2, Zenon DEF Silent, Waiting
  <2>2. ASSUME NEW r \in Reader, read'[r].pc # "none", read'[r].own,
               ~(read'[r].floor <= read'[r].read_index)
        PROVE  \E Q \in SUBSET Node : HasQuorum(Q) /\ \A v \in Q : Silent(v, r)'
    <3>1. PICK Q \in SUBSET Node : HasQuorum(Q) /\ \A v \in Q : Silent(v, r)
      BY <2>2, Zenon DEF ReadsGrounded, MovesNodes
    <3>. QED  BY <2>1, <3>1, Zenon
  <2>. QED  BY <2>2, Zenon DEF ReadsGrounded
<1>8. ReadsServed'
  <2>1. ASSUME NEW r \in Reader, read'[r].pc = "serve"
        PROVE  read'[r].read_index <= last_applied'[read'[r].node]
    <3>1. /\ read' = read /\ read[r].node \in Node /\ read[r].read_index \in Nat
          /\ read[r].read_index <= last_applied[read[r].node]
      BY <2>1, Zenon DEF MovesNodes, ReadTypes, ReadRecord, ReadsServed
    <3>2. PICK n \in Node : n = read[r].node
      BY <3>1, Zenon
    <3>3. read[r].read_index <= last_applied'[n]
      BY <3>1, <3>2, <1>4
    <3>. QED  BY <3>1, <3>2, <3>3, Zenon
  <2>. QED  BY <2>1, Zenon DEF ReadsServed, MovesNodes
<1>. QED  BY <1>1, <1>3, <1>5, <1>6, <1>7, <1>8, Zenon

-----------------------------------------------------------------------------
(* The read index.                                                         *)

\* The highest committed index exists.
LEMMA CommittedGreatest ==
  ASSUME TypeOK, WellOrdered, OwnCommitted
  PROVE  /\ Committed \in Nat
         /\ \A c \in Nat : (\A d \in decided : d.index <= c) => Committed <= c
<1>. DEFINE is == {d.index : d \in decided}
<1>1. \A d \in decided : d.index \in Nat
  BY Zenon DEF TypeOK, RestTypeOK
<1>2. PICK b \in Nat : \A d \in decided : d.index <= b
  BY Zenon DEF OwnCommitted
<1>3. is \in SUBSET (0..b)
  BY <1>1, <1>2
<1>4. CASE is = {}
  BY <1>4 DEF Committed
<1>5. CASE is # {}
  <2>1. \A i \in is : \E d \in decided : i = d.index
    OBVIOUS
  <2>2. Committed = CHOOSE i \in is : \A j \in is : j <= i
    BY <1>5, Zenon DEF Committed
  <2>. HIDE DEF is
  <2>3. \E x \in is : \A y \in is : y <= x
    BY <1>3, <1>5, GreatestExists, Zenon
  <2>4. Committed \in is
    BY <2>2, <2>3, Zenon
  <2>5. PICK d \in decided : Committed = d.index
    BY <2>1, <2>4, Zenon
  <2>. QED  BY <2>5, <1>1, Zenon
<1>. QED  BY <1>4, <1>5, Zenon

\* The term of a log's last entry.
LEMMA LastTermNat ==
  ASSUME TypeOK, NEW v \in Node
  PROVE  LastTerm(log[v]) \in Nat
<1>1. log[v] \in Seq(Entry)
  BY Zenon DEF TypeOK, InnerTypeOK
<1>2. Len(log[v]) \in Int
  BY <1>1
<1>. QED  BY <1>1, <1>2, TermAtType, Zenon DEF LastTerm, Term

\* When a leader of a later term has committed, a quorum is in a later term.
LEMMA LaterQuorum ==
  ASSUME TypeOK, LedgerInv, NEW n \in Node, NEW d \in decided, d.at > current_term[n]
  PROVE  \E Q \in SUBSET Node : HasQuorum(Q) /\ \A v \in Q : current_term[v] > current_term[n]
<1>1. PICK L \in Ledger : LogInv(L) /\ CommitInv(L)
  BY Zenon DEF LedgerInv
<1>2. PICK a \in Nat : Secured(L, d, a)
  BY <1>1, Zenon DEF CommitInv, DecidedOK
<1>3. PICK Q \in SUBSET Node : HasQuorum(Q) /\ \A v \in Q : Reached(v, d.at, a)
  BY <1>2, Zenon DEF Secured
<1>4. ASSUME NEW v \in Q PROVE current_term[v] > current_term[n]
  <2>1. v \in Node /\ AtLeast(log[v], d.at, a)
    BY <1>3, Zenon DEF Reached
  <2>2. LastTerm(log[v]) > d.at \/ LastTerm(log[v]) = d.at
    BY <2>1, Zenon DEF AtLeast, UpToDate
  <2>3. LastTerm(log[v]) <= current_term[v]
    BY <1>1, <2>1, Zenon DEF LogInv, LogsOK
  <2>4. LastTerm(log[v]) \in Nat
    BY <2>1, LastTermNat, Zenon
  <2>5. current_term[v] \in Nat /\ current_term[n] \in Nat /\ d.at \in Nat
    BY <2>1, Zenon DEF TypeOK, InnerTypeOK, RestTypeOK, Term
  <2>. QED  BY <2>2, <2>3, <2>4, <2>5
<1>. QED  BY <1>3, <1>4, Zenon

\* A leader that has committed in its term has committed what leaders of earlier terms
\* and itself have committed.
LEMMA CommitsAll ==
  ASSUME TypeOK, LedgerInv, OwnCommitted, NEW n \in Node, role[n] = "Leader", CommittedOwn(n),
         NEW d \in decided, ~(d.at > current_term[n])
  PROVE  d.index <= commit_index[n]
<1>t. /\ current_term[n] \in Nat /\ d.at \in Nat /\ d.index \in Nat /\ commit_index[n] \in Nat
      /\ log[n] \in Seq(Entry)
  BY Zenon DEF TypeOK, InnerTypeOK, RestTypeOK, Term
<1>1. CASE d.at = current_term[n]
  BY <1>1, Zenon DEF OwnCommitted
<1>2. CASE d.at < current_term[n]
  <2>1. PICK L \in Ledger : LogInv(L) /\ CommitInv(L)
    BY Zenon DEF LedgerInv
  <2>2. PICK a \in Nat : Secured(L, d, a)
    BY <2>1, Zenon DEF CommitInv, DecidedOK
  <2>3. /\ log[n] # <<>> /\ log[n] = L[current_term[n]] /\ current_term[n] \in Term
    BY <2>1, <1>t, Zenon DEF LogInv, LogsOK, Term
  <2>4. Ascending(log[n])
    BY <2>1, <2>3, Zenon DEF LogInv, LedgerOK
  <2>5. current_term[n] > d.at
    BY <1>2, <1>t, Zenon
  <2>6. a \in 1..Len(log[n]) /\ log[n][a].term = d.at
    BY <2>2, <2>3, <2>5, Zenon DEF Secured, Kept
  <2>7. d.index <= a
    BY <2>2, <1>t DEF Secured
  <2>8. commit_index[n] \in 1..Len(log[n]) /\ log[n][commit_index[n]].term = current_term[n]
    <3>1. IF commit_index[n] \in 1..Len(log[n])
          THEN log[n][commit_index[n]].term = current_term[n] ELSE current_term[n] = 0
      BY Zenon DEF CommittedOwn, TermAt
    <3>. QED  BY <3>1, <2>5, <1>t
  <2>9. ~(commit_index[n] <= a)
    <3>1. ASSUME commit_index[n] <= a PROVE current_term[n] <= d.at
      BY <3>1, <2>4, <2>6, <2>8, Zenon DEF Ascending
    <3>. QED  BY <3>1, <2>5, <1>t
  <2>. QED  BY <2>7, <2>9, <1>t
<1>. QED  BY <1>1, <1>2, <1>t

-----------------------------------------------------------------------------
(* Steps of the reads.                                                     *)

\* A step of read x: it is pending where it was, or nowhere, and keeps what it was
\* registered with.
MovesRead(x) ==
  /\ UNCHANGED vars /\ UNCHANGED <<last_applied, stored, recorded, covered>>
  /\ pending' \in [Node -> [Reader -> SUBSET Node]]
  /\ read' \in [Reader -> ReadRecord]
  /\ \A r \in Reader \ {x} : read'[r] = read[r]
  /\ \A n \in Node, r \in Reader : pending'[n][r] # {} => pending[n][r] # {}
  /\ read[x].pc # "none" /\ read'[x].pc # "none" /\ read'[x].node = read[x].node
  /\ read'[x].own = read[x].own /\ read'[x].fresh = read[x].fresh
  /\ read'[x].floor = read[x].floor /\ read'[x].read_index = read[x].read_index
  /\ \A n \in Node : pending'[n][x] = {}
  /\ read'[x].pc = "serve" => read[x].read_index <= last_applied[read[x].node]
  /\ read'[x].pc = "done" => read'[x].early \/ read[x].read_index <= read'[x].seen

\* The commitments stay as they are.
LEMMA SameCommitted ==
  ASSUME UNCHANGED vars, OwnCommitted
  PROVE  OwnCommitted'
BY Zenon DEF OwnCommitted, vars

\* Such steps keep the invariant.
LEMMA ReadMoveKeeps ==
  ASSUME ReadInv, NEW x \in Reader, MovesRead(x)
  PROVE  ReadInv'
<1>. USE DEF ReadInv
<1>v. /\ UNCHANGED <<role, current_term, appends, commit_index>>
      /\ UNCHANGED <<last_applied, stored, recorded, covered>>
  BY Zenon DEF MovesRead, vars
<1>1. ReadTypes'
  <2>1. ASSUME NEW r \in Reader, read'[r].pc = "none", NEW n \in Node PROVE r \notin covered'[n]
    <3>1. r # x
      BY <2>1, Zenon DEF MovesRead
    <3>2. read[r].pc = "none"
      BY <2>1, <3>1, Zenon DEF MovesRead
    <3>. QED  BY <3>2, <1>v, Zenon DEF ReadTypes
  <2>2. ASSUME NEW r \in Reader, read'[r].pc # "none" PROVE read'[r].node \in Node
    <3>1. CASE r = x
      BY <3>1, Zenon DEF MovesRead, ReadTypes
    <3>2. CASE r # x
      BY <2>2, <3>2, Zenon DEF MovesRead, ReadTypes
    <3>. QED  BY <3>1, <3>2, Zenon
  <2>. QED  BY <2>1, <2>2, <1>v, Zenon DEF ReadTypes, MovesRead
<1>2. PendingOnlyWhilePolled'
  <2>1. ASSUME NEW n \in Node, NEW r \in Waiting(n)'
        PROVE  role'[n] = "Leader" /\ read'[r].pc = "poll" /\ read'[r].node = n
    <3>1. r \in Reader /\ pending'[n][r] # {}
      BY <2>1, Zenon DEF Waiting
    <3>2. r # x /\ r \in Waiting(n)
      BY <3>1, Zenon DEF MovesRead, Waiting
    <3>3. read'[r] = read[r]
      BY <3>1, <3>2, Zenon DEF MovesRead
    <3>4. role[n] = "Leader" /\ read[r].pc = "poll" /\ read[r].node = n
      BY <3>2, Zenon DEF PendingOnlyWhilePolled
    <3>. QED  BY <3>3, <3>4, <1>v, Zenon
  <2>. QED  BY <2>1, Zenon DEF PendingOnlyWhilePolled
<1>3. AppliedCommitted' /\ OwnCommitted'
  <2>1. AppliedCommitted'
    BY <1>v, Zenon DEF AppliedCommitted
  <2>2. OwnCommitted'
    BY SameCommitted, Zenon DEF MovesRead
  <2>. QED  BY <2>1, <2>2, Zenon
<1>4. ASSUME NEW r \in Reader
      PROVE  /\ read'[r].own = read[r].own /\ read'[r].fresh = read[r].fresh
             /\ read'[r].floor = read[r].floor /\ read'[r].read_index = read[r].read_index
             /\ read'[r].node = read[r].node
             /\ read'[r].pc # "none" => read[r].pc # "none"
  BY Zenon DEF MovesRead
<1>5. ReadsGrounded'
  <2>1. ASSUME NEW r \in Reader, NEW v, Silent(v, r) PROVE Silent(v, r)'
    <3>1. ASSUME NEW n \in Node, r \in Waiting(n)' PROVE r \in Waiting(n)
      BY <3>1, Zenon DEF Waiting, MovesRead
    <3>. QED  BY <2>1, <3>1, <1>4, <1>v, Zenon DEF Silent
  <2>2. ASSUME NEW r \in Reader, read'[r].pc # "none", read'[r].own,
               ~(read'[r].floor <= read'[r].read_index)
        PROVE  \E Q \in SUBSET Node : HasQuorum(Q) /\ \A v \in Q : Silent(v, r)'
    <3>1. PICK Q \in SUBSET Node : HasQuorum(Q) /\ \A v \in Q : Silent(v, r)
      BY <2>2, <1>4, Zenon DEF ReadsGrounded
    <3>. QED  BY <2>1, <3>1, Zenon
  <2>. QED  BY <2>2, Zenon DEF ReadsGrounded
<1>6. ReadsServed'
  <2>1. ASSUME NEW r \in Reader
        PROVE  /\ read'[r].pc = "serve" => read'[r].read_index <= last_applied'[read'[r].node]
               /\ read'[r].pc = "done" => read'[r].early \/ read'[r].read_index <= read'[r].seen
    <3>1. CASE r = x
      BY <3>1, <1>v, Zenon DEF MovesRead
    <3>2. CASE r # x
      BY <3>2, <1>v, Zenon DEF MovesRead, ReadsServed
    <3>. QED  BY <3>1, <3>2, Zenon
  <2>. QED  BY <2>1, Zenon DEF ReadsServed
<1>. QED  BY <1>1, <1>2, <1>3, <1>5, <1>6, Zenon

\* The end of the polling loop, of wait_for_applied and of the read are such steps.
LEMMA ReadMoves ==
  ASSUME TypeOK, ReadInv, NEW x \in Reader,
         Poll(x) \/ GiveUp(x) \/ WaitForApplied(x) \/ Serve(x)
  PROVE  MovesRead(x)
<1>. DEFINE k == read[x].node
            pc == read'[x].pc
<1>t. /\ pending \in [Node -> [Reader -> SUBSET Node]] /\ read \in [Reader -> ReadRecord]
      /\ last_applied \in [Node -> Nat] /\ stored \in [Node -> Nat]
  BY Zenon DEF ReadInv, ReadTypes
<1>0. read[x].pc # "none" /\ k \in Node /\ read[x] \in ReadRecord
  <2>1. read[x].pc # "none"
    BY Zenon DEF Poll, GiveUp, WaitForApplied, Serve
  <2>. QED  BY <2>1, <1>t, Zenon DEF ReadInv, ReadTypes
<1>1. UNCHANGED vars /\ UNCHANGED <<last_applied, stored, recorded, covered>>
  BY Zenon DEF Poll, GiveUp, WaitForApplied, Serve
<1>2. ASSUME NEW n \in Node, pending[n][x] # {}
      PROVE  read[x].pc = "poll" /\ n = k /\ role[n] = "Leader"
  <2>1. x \in Waiting(n)
    BY <1>2, Zenon DEF Waiting
  <2>. QED  BY <2>1, Zenon DEF ReadInv, PendingOnlyWhilePolled
<1>3. ASSUME pending' = pending \/ pending' = [pending EXCEPT ![k][x] = {}]
      PROVE  /\ pending' \in [Node -> [Reader -> SUBSET Node]]
             /\ \A n \in Node, r \in Reader : pending'[n][r] # {} => pending[n][r] # {}
  <2>1. ASSUME NEW q \in Node, pending' = [pending EXCEPT ![q][x] = {}]
        PROVE  /\ pending' \in [Node -> [Reader -> SUBSET Node]]
               /\ \A n \in Node, r \in Reader : pending'[n][r] # {} => pending[n][r] # {}
    BY <2>1, <1>t, Zenon
  <2>. QED  BY <1>3, <1>t, <1>0, <2>1, Zenon
<1>4. ASSUME NEW s \in ReadRecord, read' = [read EXCEPT ![x] = s]
      PROVE  read' \in [Reader -> ReadRecord] /\ read'[x] = s
             /\ \A r \in Reader \ {x} : read'[r] = read[r]
  BY <1>4, <1>t, Zenon
<1>5. CASE Poll(x)
  <2>1. pending' = [pending EXCEPT ![k][x] = {}] /\ read' = [read EXCEPT ![x].pc = "applied"]
    BY <1>5, Zenon DEF Poll
  <2>2. PICK s \in ReadRecord : s = [read[x] EXCEPT !.pc = "applied"]
    BY <1>0, Zenon DEF ReadRecord
  <2>3. /\ s.pc = "applied" /\ s.node = k /\ s.own = read[x].own /\ s.fresh = read[x].fresh
        /\ s.floor = read[x].floor /\ s.read_index = read[x].read_index
    BY <2>2, <1>0, Zenon DEF ReadRecord
  <2>4. read' = [read EXCEPT ![x] = s]
    BY <2>1, <2>2, Zenon
  <2>5. \A n \in Node : pending'[n][x] = {}
    <3>1. pending'[k][x] = {}
      BY <2>1, <1>t, <1>0, Zenon
    <3>. QED  BY <3>1, <1>2, <1>3, <2>1, Zenon
  <2>6. s.pc # "none" /\ s.pc # "serve" /\ s.pc # "done"
    BY <2>3, Zenon
  <2>. QED  BY <1>0, <1>1, <1>3, <1>4, <2>1, <2>3, <2>4, <2>5, <2>6, Zenon DEF MovesRead
<1>6. CASE GiveUp(x)
  <2>1. /\ read' = [read EXCEPT ![x].pc = "failed"]
        /\ \/ pending' = [pending EXCEPT ![k][x] = {}]
           \/ role[k] # "Leader" /\ pending' = pending
    BY <1>6, Zenon DEF GiveUp
  <2>2. PICK s \in ReadRecord : s = [read[x] EXCEPT !.pc = "failed"]
    BY <1>0, Zenon DEF ReadRecord
  <2>3. /\ s.pc = "failed" /\ s.node = k /\ s.own = read[x].own /\ s.fresh = read[x].fresh
        /\ s.floor = read[x].floor /\ s.read_index = read[x].read_index
    BY <2>2, <1>0, Zenon DEF ReadRecord
  <2>4. read' = [read EXCEPT ![x] = s]
    BY <2>1, <2>2, Zenon
  <2>5. \A n \in Node : pending'[n][x] = {}
    <3>1. CASE pending' = [pending EXCEPT ![k][x] = {}]
      <4>1. pending'[k][x] = {}
        BY <3>1, <1>t, <1>0, Zenon
      <4>. QED  BY <3>1, <4>1, <1>2, <1>3, Zenon
    <3>2. CASE role[k] # "Leader" /\ pending' = pending
      BY <3>2, <1>2, Zenon
    <3>. QED  BY <2>1, <3>1, <3>2, Zenon
  <2>6. s.pc # "none" /\ s.pc # "serve" /\ s.pc # "done"
    BY <2>3, Zenon
  <2>. QED  BY <1>0, <1>1, <1>3, <1>4, <2>1, <2>3, <2>4, <2>5, <2>6, Zenon DEF MovesRead
<1>7. CASE WaitForApplied(x)
  <2>. DEFINE to == IF last_applied[k] >= read[x].read_index THEN "serve" ELSE "failed"
  <2>1. pending' = pending /\ read' = [read EXCEPT ![x].pc = to] /\ read[x].pc = "applied"
    BY <1>7, Zenon DEF WaitForApplied
  <2>2. PICK s \in ReadRecord : s = [read[x] EXCEPT !.pc = to]
    BY <1>0, Zenon DEF ReadRecord
  <2>3. /\ s.pc = to /\ s.node = k /\ s.own = read[x].own /\ s.fresh = read[x].fresh
        /\ s.floor = read[x].floor /\ s.read_index = read[x].read_index
    BY <2>2, <1>0, Zenon DEF ReadRecord
  <2>4. read' = [read EXCEPT ![x] = s]
    BY <2>1, <2>2, Zenon
  <2>5. \A n \in Node : pending'[n][x] = {}
    BY <2>1, <1>2, Zenon
  <2>6. /\ to # "none" /\ to # "done"
        /\ to = "serve" => read[x].read_index <= last_applied[k]
    <3>1. last_applied[k] \in Nat /\ read[x].read_index \in Nat
      BY <1>0, <1>t, Zenon DEF ReadRecord
    <3>. QED  BY <3>1, Zenon
  <2>. HIDE DEF to
  <2>. QED  BY <1>0, <1>1, <1>3, <1>4, <2>1, <2>3, <2>4, <2>5, <2>6, Zenon DEF MovesRead
<1>8. CASE Serve(x)
  <2>1. /\ pending' = pending /\ read[x].pc = "serve"
        /\ read' = [read EXCEPT ![x].pc = "done", ![x].seen = stored[k],
                               ![x].early = Applying(k)]
    BY <1>8, Zenon DEF Serve
  <2>2. stored[k] \in Nat /\ Applying(k) \in BOOLEAN /\ last_applied[k] \in Nat
    BY <1>0, <1>t DEF Applying
  <2>3. PICK s : s = [read[x] EXCEPT !.pc = "done", !.seen = stored[k], !.early = Applying(k)]
    OBVIOUS
  <2>4. /\ s \in ReadRecord /\ s.pc = "done" /\ s.node = k /\ s.own = read[x].own
        /\ s.fresh = read[x].fresh /\ s.floor = read[x].floor
        /\ s.read_index = read[x].read_index /\ s.seen = stored[k]
        /\ s.early = Applying(k)
    BY <2>2, <2>3, <1>0, Zenon DEF ReadRecord
  <2>5. read' = [read EXCEPT ![x] = s]
    BY <2>1, <2>3, <1>t, Zenon
  <2>6. \A n \in Node : pending'[n][x] = {}
    BY <2>1, <1>2, Zenon
  <2>7. s.early \/ read[x].read_index <= s.seen
    <3>1. read[x].read_index <= last_applied[k] /\ read[x].read_index \in Nat
      BY <2>1, <1>0, Zenon DEF ReadInv, ReadsServed, ReadRecord
    <3>2. ~s.early => ~(stored[k] < last_applied[k])
      BY <2>4, Zenon DEF Applying
    <3>3. ~(stored[k] < last_applied[k]) => read[x].read_index <= stored[k]
      BY <2>2, <3>1
    <3>. QED  BY <2>4, <3>2, <3>3, Zenon
  <2>8. s.pc # "none" /\ s.pc # "serve"
    BY <2>4, Zenon
  <2>. QED  BY <1>0, <1>1, <1>3, <1>4, <2>1, <2>4, <2>5, <2>6, <2>7, <2>8, Zenon DEF MovesRead
<1>. QED  BY <1>5, <1>6, <1>7, <1>8, Zenon

\* ApplyLoop::apply brings the store up to what was taken.
LEMMA ApplyKeeps ==
  ASSUME ReadInv, NEW n \in Node, Apply(n)
  PROVE  ReadInv'
<1>. USE DEF ReadInv
<1>1. /\ UNCHANGED vars /\ UNCHANGED <<pending, last_applied, recorded, read, covered>>
      /\ stored' = [stored EXCEPT ![n] = last_applied[n]]
  BY Zenon DEF Apply
<1>v. UNCHANGED <<role, current_term, appends, commit_index>>
  BY <1>1, Zenon DEF vars
<1>2. /\ stored' \in [Node -> Nat]
      /\ \A q \in Node : stored'[q] = stored[q] \/ stored'[q] = last_applied[q]
  BY <1>1, Zenon DEF ReadTypes
<1>3. ReadTypes'
  BY <1>1, <1>2, Zenon DEF ReadTypes
<1>4. AppliedCommitted'
  <2>1. ASSUME NEW q \in Node PROVE stored'[q] <= last_applied'[q] /\ last_applied'[q] <= commit_index'[q]
    <3>1. /\ stored[q] <= last_applied[q] /\ last_applied[q] <= commit_index[q]
          /\ last_applied[q] \in Nat /\ stored[q] \in Nat
      BY Zenon DEF AppliedCommitted, ReadTypes
    <3>2. last_applied[q] <= last_applied[q]
      BY <3>1
    <3>. QED  BY <3>1, <3>2, <1>1, <1>2, <1>v, Zenon
  <2>. QED  BY <2>1, Zenon DEF AppliedCommitted
<1>5. PendingOnlyWhilePolled' /\ ReadsServed'
  <2>1. ASSUME NEW q \in Node, NEW r \in Waiting(q)'
        PROVE  role'[q] = "Leader" /\ read'[r].pc = "poll" /\ read'[r].node = q
    <3>1. r \in Waiting(q)
      BY <2>1, <1>1, Zenon DEF Waiting
    <3>2. role[q] = "Leader" /\ read[r].pc = "poll" /\ read[r].node = q
      BY <3>1, Zenon DEF PendingOnlyWhilePolled
    <3>. QED  BY <3>2, <1>1, <1>v, Zenon
  <2>2. PendingOnlyWhilePolled'
    BY <2>1, Zenon DEF PendingOnlyWhilePolled
  <2>3. ReadsServed'
    BY <1>1, Zenon DEF ReadsServed
  <2>. QED  BY <2>2, <2>3, Zenon
<1>6. OwnCommitted'
  BY <1>1, SameCommitted, Zenon
<1>7. ReadsGrounded'
  BY <1>1, <1>v, Zenon DEF ReadsGrounded, Silent, Waiting
<1>. QED  BY <1>3, <1>4, <1>5, <1>6, <1>7, Zenon

\* read_index_ack adds an ack to reads that are pending.  A silent peer is not added to
\* the acks that answer a request sent after the registration.
LEMMA RecordKeeps ==
  ASSUME TypeOK, ReadInv, NEW n \in Node, NEW p \in Node, RecordAck(n, p)
  PROVE  ReadInv'
<1>. USE DEF ReadInv
<1>1. /\ UNCHANGED vars /\ UNCHANGED <<last_applied, stored, covered>>
      /\ appends[n][p].kind = "response" /\ appends[n][p].success
      /\ recorded' = [recorded EXCEPT ![n] = @ \cup {p}]
      /\ pending' = [pending EXCEPT ![n] =
           [r \in Reader |-> IF @[r] = {} THEN {} ELSE @[r] \cup {p}]]
      /\ read' = [r \in Reader |->
           IF r \in Waiting(n) /\ r \in covered[n]
           THEN [read[r] EXCEPT !.fresh = @ \cup {p}] ELSE read[r]]
  BY Zenon DEF RecordAck
<1>v. UNCHANGED <<role, current_term, appends, commit_index>>
  BY <1>1, Zenon DEF vars
<1>t. /\ pending \in [Node -> [Reader -> SUBSET Node]] /\ read \in [Reader -> ReadRecord]
      /\ recorded \in [Node -> SUBSET Node]
  BY Zenon DEF ReadTypes
<1>2. recorded' \in [Node -> SUBSET Node]
  BY <1>1, <1>t, Zenon
<1>3. /\ pending' \in [Node -> [Reader -> SUBSET Node]]
      /\ \A q \in Node, r \in Reader : pending'[q][r] # {} => pending[q][r] # {}
  BY <1>1, <1>t
<1>4. ASSUME NEW r \in Reader
      PROVE  /\ read'[r] \in ReadRecord
             /\ read'[r].pc = read[r].pc /\ read'[r].node = read[r].node
             /\ read'[r].own = read[r].own /\ read'[r].floor = read[r].floor
             /\ read'[r].read_index = read[r].read_index /\ read'[r].seen = read[r].seen
             /\ read'[r].early = read[r].early
             /\ \/ read'[r].fresh = read[r].fresh
                \/ /\ read'[r].fresh = read[r].fresh \cup {p}
                   /\ r \in Waiting(n) /\ r \in covered[n]
  <2>1. read[r] \in ReadRecord
    BY <1>t, Zenon
  <2>2. CASE r \in Waiting(n) /\ r \in covered[n]
    <3>1. read'[r] = [read[r] EXCEPT !.fresh = @ \cup {p}]
      BY <1>1, <2>2, Zenon
    <3>. QED  BY <2>1, <2>2, <3>1 DEF ReadRecord
  <2>3. CASE ~(r \in Waiting(n) /\ r \in covered[n])
    <3>1. read'[r] = read[r]
      BY <1>1, <2>3, Zenon
    <3>. QED  BY <2>1, <3>1, Zenon
  <2>. QED  BY <2>2, <2>3, Zenon
<1>5. ReadTypes'
  <2>1. read' \in [Reader -> ReadRecord]
    <3>1. read' = [r \in Reader |-> read'[r]]
      BY <1>1, Zenon
    <3>. QED  BY <3>1, <1>4, Zenon
  <2>2. ASSUME NEW r \in Reader
        PROVE  IF read'[r].pc = "none" THEN \A q \in Node : r \notin covered'[q]
               ELSE read'[r].node \in Node
    BY <1>1, <1>4, Zenon DEF ReadTypes
  <2>. QED  BY <1>1, <1>2, <1>3, <2>1, <2>2, Zenon DEF ReadTypes
<1>6. PendingOnlyWhilePolled'
  <2>1. ASSUME NEW q \in Node, NEW r \in Waiting(q)'
        PROVE  role'[q] = "Leader" /\ read'[r].pc = "poll" /\ read'[r].node = q
    <3>1. r \in Reader /\ pending'[q][r] # {}
      BY <2>1, Zenon DEF Waiting
    <3>2. r \in Waiting(q)
      BY <3>1, <1>3, Zenon DEF Waiting
    <3>3. role[q] = "Leader" /\ read[r].pc = "poll" /\ read[r].node = q
      BY <3>2, Zenon DEF PendingOnlyWhilePolled
    <3>. QED  BY <3>1, <3>3, <1>4, <1>v, Zenon
  <2>. QED  BY <2>1, Zenon DEF PendingOnlyWhilePolled
<1>7. AppliedCommitted'
  BY <1>1, <1>v, Zenon DEF AppliedCommitted
<1>8. OwnCommitted'
  BY <1>1, SameCommitted, Zenon
<1>9. ReadsServed'
  <2>1. ASSUME NEW r \in Reader
        PROVE  /\ read'[r].pc = "serve" => read'[r].read_index <= last_applied'[read'[r].node]
               /\ read'[r].pc = "done" => read'[r].early \/ read'[r].read_index <= read'[r].seen
    <3>1. /\ read[r].pc = "serve" => read[r].read_index <= last_applied'[read[r].node]
          /\ read[r].pc = "done" => read[r].early \/ read[r].read_index <= read[r].seen
      BY <1>1, Zenon DEF ReadsServed
    <3>. QED  BY <3>1, <1>4, Zenon
  <2>. QED  BY <2>1, Zenon DEF ReadsServed
<1>10. ReadsGrounded'
  <2>1. ASSUME NEW r \in Reader, NEW v, Silent(v, r) PROVE Silent(v, r)'
    <3>1. ASSUME NEW q \in Node, r \in Waiting(q)' PROVE r \in Waiting(q)
      BY <3>1, <1>3, Zenon DEF Waiting
    <3>2. v \notin read'[r].fresh
      <4>1. CASE read'[r].fresh = read[r].fresh
        BY <2>1, <4>1, Zenon DEF Silent
      <4>2. CASE read'[r].fresh = read[r].fresh \cup {p} /\ r \in Waiting(n) /\ r \in covered[n]
        <5>1. ~Succeeded(appends[n][v])
          BY <2>1, <4>2, Zenon DEF Silent
        <5>2. v # p
          BY <5>1, <1>1, Zenon DEF Succeeded
        <5>3. v \notin read[r].fresh
          BY <2>1, Zenon DEF Silent
        <5>. QED  BY <4>2, <5>2, <5>3, Zenon
      <4>. QED  BY <4>1, <4>2, <1>4, Zenon
    <3>. QED  BY <2>1, <3>1, <3>2, <1>1, <1>v, Zenon DEF Silent
  <2>2. ASSUME NEW r \in Reader, read'[r].pc # "none", read'[r].own,
               ~(read'[r].floor <= read'[r].read_index)
        PROVE  \E Q \in SUBSET Node : HasQuorum(Q) /\ \A v \in Q : Silent(v, r)'
    <3>1. PICK Q \in SUBSET Node : HasQuorum(Q) /\ \A v \in Q : Silent(v, r)
      BY <2>2, <1>4, Zenon DEF ReadsGrounded
    <3>. QED  BY <2>1, <3>1, Zenon
  <2>. QED  BY <2>2, Zenon DEF ReadsGrounded
<1>. QED  BY <1>5, <1>6, <1>7, <1>8, <1>9, <1>10, Zenon

\* request_read_index: everything that is committed is below the leader's commit index,
\* or a quorum is in a later term already and will not confirm the read.
LEMMA RequestKeeps ==
  ASSUME TypeOK, LedgerInv, WellOrdered, ReadInv, NEW x \in Reader, NEW n \in Node,
         RequestReadIndex(x, n)
  PROVE  ReadInv'
<1>. USE DEF ReadInv
<1>1. /\ UNCHANGED vars /\ UNCHANGED <<last_applied, stored, recorded, covered>>
      /\ read[x].pc = "none" /\ role[n] = "Leader"
      /\ pending' = [pending EXCEPT ![n][x] = {n}]
      /\ read' = [read EXCEPT ![x] =
           [@ EXCEPT !.pc = "poll", !.node = n, !.read_index = commit_index[n],
                     !.floor = Committed, !.own = CommittedOwn(n), !.fresh = {n}]]
  BY Zenon DEF RequestReadIndex
<1>v. UNCHANGED <<role, current_term, appends, commit_index>>
  BY <1>1, Zenon DEF vars
<1>t. /\ pending \in [Node -> [Reader -> SUBSET Node]] /\ read \in [Reader -> ReadRecord]
      /\ commit_index[n] \in Nat /\ Committed \in Nat /\ CommittedOwn(n) \in BOOLEAN
  <2>1. Committed \in Nat
    BY CommittedGreatest, Zenon
  <2>2. CommittedOwn(n) \in BOOLEAN
    BY Zenon DEF CommittedOwn
  <2>. QED  BY <2>1, <2>2, Zenon DEF ReadTypes, TypeOK, InnerTypeOK
<1>2. PICK s : s = [read[x] EXCEPT !.pc = "poll", !.node = n, !.read_index = commit_index[n],
                                   !.floor = Committed, !.own = CommittedOwn(n), !.fresh = {n}]
  OBVIOUS
<1>3. /\ s \in ReadRecord /\ s.pc = "poll" /\ s.node = n /\ s.read_index = commit_index[n]
      /\ s.floor = Committed /\ s.own = CommittedOwn(n) /\ s.fresh = {n}
  <2>1. read[x] \in ReadRecord
    BY <1>t, Zenon
  <2>. QED  BY <1>2, <1>t, <2>1, Zenon DEF ReadRecord
<1>4. /\ read' \in [Reader -> ReadRecord] /\ read'[x] = s
      /\ \A r \in Reader \ {x} : read'[r] = read[r]
  <2>1. read' = [read EXCEPT ![x] = s]
    BY <1>1, <1>2, Zenon
  <2>. QED  BY <2>1, <1>3, <1>t, Zenon
<1>5. /\ pending' \in [Node -> [Reader -> SUBSET Node]]
      /\ \A q \in Node, r \in Reader \ {x} : pending'[q][r] = pending[q][r]
      /\ \A q \in Node : pending'[q][x] # {} => q = n \/ pending[q][x] # {}
  BY <1>1, <1>t, Zenon
<1>6. ASSUME NEW q \in Node, pending'[q][x] # {} PROVE q = n
  <2>1. ASSUME pending[q][x] # {} PROVE FALSE
    <3>1. x \in Waiting(q)
      BY <2>1, Zenon DEF Waiting
    <3>2. read[x].pc = "poll"
      BY <3>1, Zenon DEF PendingOnlyWhilePolled
    <3>. QED  BY <3>2, <1>1, Zenon
  <2>. QED  BY <1>5, <1>6, <2>1, Zenon
<1>7. ReadTypes'
  <2>1. ASSUME NEW r \in Reader
        PROVE  IF read'[r].pc = "none" THEN \A q \in Node : r \notin covered'[q]
               ELSE read'[r].node \in Node
    <3>1. CASE r = x
      BY <3>1, <1>3, <1>4, Zenon
    <3>2. CASE r # x
      BY <3>2, <1>1, <1>4, Zenon DEF ReadTypes
    <3>. QED  BY <3>1, <3>2, Zenon
  <2>. QED  BY <1>1, <1>4, <1>5, <2>1, Zenon DEF ReadTypes
<1>8. PendingOnlyWhilePolled'
  <2>1. ASSUME NEW q \in Node, NEW r \in Waiting(q)'
        PROVE  role'[q] = "Leader" /\ read'[r].pc = "poll" /\ read'[r].node = q
    <3>1. r \in Reader /\ pending'[q][r] # {}
      BY <2>1, Zenon DEF Waiting
    <3>2. CASE r = x
      BY <3>1, <3>2, <1>1, <1>3, <1>4, <1>6, <1>v, Zenon
    <3>3. CASE r # x
      <4>1. r \in Waiting(q) /\ read'[r] = read[r]
        BY <3>1, <3>3, <1>4, <1>5, Zenon DEF Waiting
      <4>2. role[q] = "Leader" /\ read[r].pc = "poll" /\ read[r].node = q
        BY <4>1, Zenon DEF PendingOnlyWhilePolled
      <4>. QED  BY <4>1, <4>2, <1>v, Zenon
    <3>. QED  BY <3>2, <3>3, Zenon
  <2>. QED  BY <2>1, Zenon DEF PendingOnlyWhilePolled
<1>9. AppliedCommitted'
  BY <1>1, <1>v, Zenon DEF AppliedCommitted
<1>10. OwnCommitted'
  BY <1>1, SameCommitted, Zenon
<1>11. ReadsServed'
  <2>1. ASSUME NEW r \in Reader
        PROVE  /\ read'[r].pc = "serve" => read'[r].read_index <= last_applied'[read'[r].node]
               /\ read'[r].pc = "done" => read'[r].early \/ read'[r].read_index <= read'[r].seen
    <3>1. CASE r = x
      BY <3>1, <1>3, <1>4, Zenon
    <3>2. CASE r # x
      BY <3>2, <1>1, <1>4, Zenon DEF ReadsServed
    <3>. QED  BY <3>1, <3>2, Zenon
  <2>. QED  BY <2>1, Zenon DEF ReadsServed
<1>12. ReadsGrounded'
  <2>1. ASSUME CommittedOwn(n)
        PROVE  \/ Committed <= commit_index[n]
               \/ \E Q \in SUBSET Node : HasQuorum(Q) /\ \A v \in Q : Silent(v, x)'
    <3>1. CASE \E d \in decided : d.at > current_term[n]
      <4>1. PICK Q \in SUBSET Node : HasQuorum(Q) /\ \A v \in Q : current_term[v] > current_term[n]
        BY <3>1, LaterQuorum, Zenon
      <4>2. ASSUME NEW v \in Q PROVE Silent(v, x)'
        <5>1. v # n
          <6>1. current_term[n] \in Nat /\ current_term[v] > current_term[n]
            BY <4>1, Zenon DEF TypeOK, InnerTypeOK, Term
          <6>. QED  BY <6>1
        <5>2. v \notin read'[x].fresh
          BY <5>1, <1>3, <1>4, Zenon
        <5>3. ASSUME NEW q \in Node, x \in Waiting(q)'
              PROVE  current_term'[v] > current_term'[q] /\ x \notin covered'[q]
          <6>1. q = n
            BY <5>3, <1>6, Zenon DEF Waiting
          <6>2. x \notin covered[q]
            BY <1>1, Zenon DEF ReadTypes
          <6>3. current_term'[v] > current_term'[q]
            BY <4>1, <6>1, <1>v, Zenon
          <6>. QED  BY <6>2, <6>3, <1>1, Zenon
        <5>. QED  BY <5>2, <5>3, Zenon DEF Silent
      <4>. QED  BY <4>1, <4>2, Zenon
    <3>2. CASE ~\E d \in decided : d.at > current_term[n]
      <4>1. \A d \in decided : d.index <= commit_index[n]
        BY <3>2, <2>1, <1>1, CommitsAll, Zenon
      <4>. QED  BY <4>1, <1>t, CommittedGreatest, Zenon
    <3>. QED  BY <3>1, <3>2, Zenon
  <2>2. ASSUME NEW r \in Reader, r # x, NEW v, Silent(v, r) PROVE Silent(v, r)'
    <3>1. read'[r] = read[r]
      BY <2>2, <1>4, Zenon
    <3>2. ASSUME NEW q \in Node, r \in Waiting(q)' PROVE r \in Waiting(q)
      BY <3>2, <2>2, <1>5, Zenon DEF Waiting
    <3>. QED  BY <2>2, <3>1, <3>2, <1>1, <1>v, Zenon DEF Silent
  <2>3. ASSUME NEW r \in Reader, read'[r].pc # "none", read'[r].own
        PROVE  \/ read'[r].floor <= read'[r].read_index
               \/ \E Q \in SUBSET Node : HasQuorum(Q) /\ \A v \in Q : Silent(v, r)'
    <3>1. CASE r = x
      <4>1. /\ CommittedOwn(n) /\ read'[r].floor = Committed
            /\ read'[r].read_index = commit_index[n]
        BY <2>3, <3>1, <1>3, <1>4, Zenon
      <4>. QED  BY <4>1, <2>1, <3>1, Zenon
    <3>2. CASE r # x
      <4>1. \/ read'[r].floor <= read'[r].read_index
            \/ \E Q \in SUBSET Node : HasQuorum(Q) /\ \A v \in Q : Silent(v, r)
        BY <2>3, <3>2, <1>4, Zenon DEF ReadsGrounded
      <4>. QED  BY <4>1, <2>2, <3>2, Zenon
    <3>. QED  BY <3>1, <3>2, Zenon
  <2>. QED  BY <2>3, Zenon DEF ReadsGrounded
<1>. QED  BY <1>7, <1>8, <1>9, <1>10, <1>11, <1>12, Zenon

-----------------------------------------------------------------------------
(* The invariant, and what follows from it.                                *)

\* Steps that leave the reads and the terms alone.
LEMMA StillMoves ==
  ASSUME ReadTypes, UNCHANGED readVars, UNCHANGED current_term
  PROVE  MovesNodes
<1>1. UNCHANGED <<pending, last_applied, stored, recorded, read, covered>>
  BY Zenon DEF readVars
<1>2. \A q \in Node, r \in Reader : pending'[q][r] # {} => r \in Waiting(q)
  BY <1>1, Zenon DEF Waiting
<1>. QED  BY <1>1, <1>2, Zenon DEF MovesNodes, ReadTypes

\* Every step of the read path keeps the invariant.
LEMMA ReadInvNext ==
  ASSUME NodeStep, NotElecting, WellOrdered, ReadInv, [ReadNext]_allVars
  PROVE  ReadInv'
<1>t. /\ TypeOK /\ LoopOK /\ LedgerInv /\ ReadTypes /\ PendingOnlyWhilePolled
      /\ spent'.crash = spent.crash
  BY NoCrash, Zenon DEF NodeStep, ReadInv
<1>a. ASSUME MovesNodes PROVE ReadInv'
  BY <1>a, <1>t, NodesKeepReads, Zenon
<1>1. CASE Receive
  BY <1>1, <1>a, <1>t, ClearingMoves, Zenon DEF Receive
<1>2. ASSUME NEW n \in Node, StartTurn(n) PROVE ReadInv'
  BY <1>2, <1>a, <1>t, StartMoves, Zenon
<1>3. ASSUME NEW n \in Node, Campaign(n) PROVE ReadInv'
  BY <1>3, <1>a, <1>t, CampaignMoves, Zenon
<1>4. ASSUME NEW n \in Node, EndTurn(n) PROVE ReadInv'
  BY <1>4, <1>a, <1>t, EndMoves, Zenon
<1>5. ASSUME NEW n \in Node, Apply(n) PROVE ReadInv'
  BY <1>5, ApplyKeeps, Zenon
<1>6. ASSUME NEW n \in Node, NEW p \in Node, RecordAck(n, p) PROVE ReadInv'
  BY <1>6, <1>t, RecordKeeps, Zenon
<1>7. ASSUME NEW n \in Node, NEW p \in Node, FinishCall(n, p) PROVE ReadInv'
  BY <1>7, <1>a, <1>t, ClearingMoves, Zenon DEF FinishCall
<1>8. ASSUME NEW n \in Node, NEW cmd \in Command, Propose(n, cmd), UNCHANGED readVars
      PROVE  ReadInv'
  BY <1>8, <1>a, <1>t, StillMoves, Zenon DEF Propose, persistent
<1>9. ASSUME NEW r \in Reader, NEW n \in Node, RequestReadIndex(r, n) PROVE ReadInv'
  BY <1>9, <1>t, RequestKeeps, Zenon
<1>10. ASSUME NEW r \in Reader, Poll(r) \/ GiveUp(r) \/ WaitForApplied(r) \/ Serve(r)
       PROVE  ReadInv'
  BY <1>10, <1>t, ReadMoves, ReadMoveKeeps, Zenon
<1>11. CASE UNCHANGED allVars
  BY <1>11, <1>a, <1>t, StillMoves, Zenon DEF allVars, vars
<1>. QED
  BY <1>1, <1>2, <1>3, <1>4, <1>5, <1>6, <1>7, <1>8, <1>9, <1>10, <1>11, Zenon DEF ReadNext

\* A read that a quorum has confirmed after its registration is current: the quorum
\* shares a node with any other, so none is silent.
LEMMA ReadInvCurrent ==
  ASSUME QuorumsMeet, ReadInv
  PROVE  CurrentWhenConfirmedAfterwards
<1>. SUFFICES ASSUME NEW r \in Reader, read[r].own, HasQuorum(read[r].fresh), ~read[r].early,
                     read[r].pc = "done"
              PROVE  read[r].seen >= read[r].floor
  BY Zenon DEF CurrentWhenConfirmedAfterwards, Current
<1>1. /\ read[r].seen \in Nat /\ read[r].floor \in Nat /\ read[r].read_index \in Nat
      /\ read[r].fresh \in SUBSET Node
  BY Zenon DEF ReadInv, ReadTypes, ReadRecord
<1>2. read[r].read_index <= read[r].seen
  BY Zenon DEF ReadInv, ReadsServed
<1>3. read[r].pc # "none"
  OBVIOUS
<1>4. read[r].floor <= read[r].read_index
  <2>1. ASSUME NEW Q \in SUBSET Node, HasQuorum(Q), \A v \in Q : Silent(v, r) PROVE FALSE
    <3>1. PICK v \in Q : v \in read[r].fresh
      BY <2>1, <1>1, Zenon DEF QuorumsMeet
    <3>. QED  BY <2>1, <3>1, Zenon DEF Silent
  <2>. QED  BY <2>1, <1>3, Zenon DEF ReadInv, ReadsGrounded
<1>. QED  BY <1>1, <1>2, <1>4

-----------------------------------------------------------------------------
(* The cluster the reads start from.                                       *)

\* Its nodes have their types, and none is in a round.
LEMMA LedTypes ==
  ASSUME NEW n \in Node, Led(n)
  PROVE  TypeOK /\ LoopOK /\ NotElecting
<1>1. [term |-> 1, data |-> Noop] \in Entry
  BY Zenon DEF Entry, Term
<1>2. <<[term |-> 1, data |-> Noop]>> \in Seq(Entry)
  BY <1>1
<1>3. InnerTypeOK
  <2>1. leader_state \in [Node -> [next_index : [Node -> Nat], match_index : [Node -> Nat]]]
    BY NoLeaderStateType, Zenon DEF Led
  <2>. QED  BY <1>2, <2>1, Zenon DEF Led, InnerTypeOK, Term
<1>4. LoopTypeOK
  BY Zenon DEF Led, LoopTypeOK
<1>5. RestTypeOK
  BY <1>1 DEF Led, RestTypeOK, Term
<1>6. LoopOK
  <2>1. ASSUME NEW q \in Node
        PROVE  /\ phase[q] = "idle" /\ todo[q] = {} /\ vote_response[q] = NoAnswer
               /\ \A p \in Node : appends[q][p] = NoRpc
               /\ role[q] = "Leader" =>
                    \A p \in Peers(q) : leader_state[q].next_index[p] >= 1
    BY DEF Led, Peers
  <2>. QED  BY <2>1, Zenon DEF LoopOK
<1>7. NotElecting
  BY Zenon DEF Led, NotElecting
<1>. QED  BY <1>3, <1>4, <1>5, <1>6, <1>7, Zenon DEF TypeOK

\* Everyone has voted for its leader, and no request is under way.
LEMMA LedVotes ==
  ASSUME NEW n \in Node, Led(n), HasQuorum(Node)
  PROVE  VotesBacked /\ RequestsFromElected
<1>1. \A q \in Node : phase[q] # "vote" /\ current_term[q] = 1 /\ voted_for[q] = n
  BY Zenon DEF Led
<1>2. \A e \in elected : e.node = n /\ e.term = 1 /\ e.votes = Node
  BY DEF Led
<1>3. VotesBacked
  <2>1. ASSUME NEW v \in Node, NEW c \in Node, NEW t, Counts(v, c, t) PROVE c = n /\ t = 1
    BY <2>1, <1>1, <1>2, Zenon DEF Counts
  <2>2. ASSUME NEW v \in Node PROVE Backs(v, n, 1)
    BY <1>1, Zenon DEF Backs
  <2>. QED  BY <1>1, <1>2, <2>1, <2>2, Zenon DEF VotesBacked
<1>4. RequestsFromElected
  <2>1. \A q \in Node : role[q] = "Leader" => q = n
    BY Zenon DEF Led
  <2>2. Elected(n, current_term[n])
    BY Zenon DEF Led, Elected
  <2>3. \A q, p \in Node : appends[q][p].kind # "request"
    BY Zenon DEF Led, NoRpc
  <2>. QED  BY <2>1, <2>2, <2>3, Zenon DEF RequestsFromElected, Led
<1>. QED  BY <1>3, <1>4, Zenon

\* Its ledger holds the first leader's entry.
LEMMA LedLedger ==
  ASSUME NEW n \in Node, Led(n), HasQuorum(Node)
  PROVE  LedgerInv
<1>. DEFINE first == [term |-> 1, data |-> Noop]
<1>1. first \in Entry /\ first.term = 1
  BY Zenon DEF Entry, Term
<1>2. PICK f : f = first
  BY Zenon
<1>3. PICK L \in Ledger : L[1] = <<f>> /\ \A u \in Term : u # 1 => L[u] = <<>>
  <2>. DEFINE M == [u \in Term |-> IF u = 1 THEN <<f>> ELSE <<>>]
  <2>1. M \in [Term -> Seq(Entry)]
    BY <1>1, <1>2
  <2>2. M[1] = <<f>> /\ \A u \in Term : u # 1 => M[u] = <<>>
    BY Zenon DEF Term
  <2>. QED  BY <2>1, <2>2, Zenon DEF Ledger
<1>4. f.term = 1 /\ f \in Entry
  BY <1>1, <1>2, Zenon
<1>5. Len(L[1]) = 1 /\ L[1][1] = f /\ L[1] # <<>> /\ LastTerm(L[1]) = 1
  BY <1>3, <1>4 DEF LastTerm, TermAt
<1>6. ASSUME NEW q \in Node
      PROVE  /\ log[q] = L[1] /\ current_term[q] = 1 /\ phase[q] # "vote"
             /\ role[q] = "Leader" => q = n
             /\ \A p \in Node : appends[q][p].kind = "none"
             /\ commit_index[q] \in Nat /\ (commit_index[q] # 0 => commit_index[q] = 1)
  <2>1. log[q] = <<first>>
    BY Zenon DEF Led
  <2>2. /\ current_term[q] = 1 /\ phase[q] # "vote"
        /\ role[q] = "Leader" => q = n
        /\ \A p \in Node : appends[q][p].kind = "none"
        /\ commit_index[q] \in Nat /\ (commit_index[q] # 0 => commit_index[q] = 1)
    BY Zenon DEF Led, NoRpc
  <2>. QED  BY <1>2, <1>3, <2>1, <2>2, Zenon
<1>7. \A e \in elected : e.node = n /\ e.term = 1
  BY DEF Led
<1>8. \A d \in decided : d.index = 1 /\ d.at = 1 /\ d.entry = f
  BY <1>2 DEF Led
<1>. HIDE DEF first
<1>9. Requests = {}
  BY <1>6 DEF Requests, Led
<1>10. 1 \in Term /\ \A u \in Term : u \in Nat
  BY Zenon DEF Term
<1>11. LogInv(L)
  <2>1. LedgerOK(L)
    <3>1. ASSUME NEW t \in Term, t # 1
          PROVE  L[t] = <<>> /\ Ascending(L[t]) /\ Follows(L[t], L)
      BY <3>1, <1>3 DEF Ascending, Follows
    <3>2. Ascending(L[1]) /\ Follows(L[1], L)
      BY <1>4, <1>5 DEF Ascending, Follows
    <3>3. \E e \in elected : e.term = 1
      BY Zenon DEF Led
    <3>. QED  BY <3>1, <3>2, <3>3, <1>5, Zenon DEF LedgerOK
  <2>2. LogsOK(L)
    <3>1. Follows(L[1], L)
      BY <1>4, <1>5 DEF Follows
    <3>2. LastTerm(L[1]) <= 1
      BY <1>5
    <3>. QED  BY <3>1, <3>2, <1>5, <1>6, Zenon DEF LogsOK
  <2>3. RequestsOK(L)
    BY <1>9, Zenon DEF RequestsOK
  <2>4. ElectionsOK
    <3>1. \A e \in elected : e.term <= current_term[e.node]
      BY <1>6, <1>7
    <3>. QED  BY <3>1, <1>6, Zenon DEF ElectionsOK
  <2>5. AcksOK
    <3>1. ASSUME NEW p \in Node
          PROVE  /\ leader_state[n].next_index[p] <= 2 /\ leader_state[n].match_index[p] = 1
      BY DEF Led
    <3>2. 2 = Len(log[n]) + 1 /\ 1 \in 1..Len(log[n]) /\ log[n][1].term = current_term[n]
      <4>1. log[n] = L[1] /\ current_term[n] = 1
        BY <1>6, Zenon
      <4>2. Len(log[n]) = 1 /\ log[n][1].term = current_term[n]
        BY <1>4, <1>5, <4>1, Zenon
      <4>3. 2 = Len(log[n]) + 1 /\ 1 \in 1..Len(log[n])
        BY <4>2
      <4>. QED  BY <4>2, <4>3, Zenon
    <3>3. \A p \in Node : appends[n][p].kind # "request" /\ ~Succeeded(appends[n][p])
      BY <1>6, Zenon DEF Succeeded
    <3>4. \A p \in Node : AckOK(n, leader_state[n].match_index[p])
      BY <3>1, <3>2, Zenon DEF AckOK
    <3>5. \A p \in Node : leader_state[n].next_index[p] <= Len(log[n]) + 1
      BY <3>1, <3>2, Zenon
    <3>. QED  BY <3>3, <3>4, <3>5, <1>6, Zenon DEF AcksOK
  <2>. QED  BY <2>1, <2>2, <2>3, <2>4, <2>5, Zenon DEF LogInv
<1>12. \A q \in Node : Reached(q, 1, 1)
  <2>1. UpToDate(1, 1, 1, 1)
    BY DEF UpToDate
  <2>. QED  BY <2>1, <1>5, <1>6, Zenon DEF Reached, AtLeast
<1>13. Kept(L, 1, 1)
  <2>1. \A u \in Term : u > 1 => L[u] = <<>>
    BY <1>3, <1>10
  <2>. QED  BY <2>1, Zenon DEF Kept
<1>14. ASSUME NEW d \in decided PROVE Secured(L, d, 1)
  <2>1. d.index \in 1..1 /\ 1 \in 1..Len(L[d.at]) /\ L[d.at][1].term = d.at
        /\ L[d.at][d.index] = d.entry
    BY <1>4, <1>5, <1>8
  <2>. QED  BY <2>1, <1>8, <1>12, <1>13, Zenon DEF Secured
<1>15. ASSUME NEW q \in Node, NEW i \in 1..commit_index[q]
       PROVE  CommittedBelow(L, i, LastTerm(log[q]), Len(log[q]))
  <2>1. PICK d \in decided : d.index = 1
    BY Zenon DEF Led
  <2>2. i = 1
    BY <1>6, <1>15
  <2>3. UpToDate(1, 1, 1, 1) /\ 1 \in Nat
    BY DEF UpToDate
  <2>4. LastTerm(log[q]) = 1 /\ Len(log[q]) = 1
    BY <1>5, <1>6, Zenon
  <2>5. Secured(L, d, 1) /\ UpToDate(LastTerm(log[q]), Len(log[q]), d.at, 1)
    BY <2>3, <2>4, <1>8, <1>14, Zenon
  <2>. QED  BY <2>1, <2>2, <2>3, <2>5, Zenon DEF CommittedBelow
<1>16. CommitInv(L)
  <2>1. BallotsOK
    BY <1>6, Zenon DEF BallotsOK
  <2>2. PendingOK(L)
    <3>1. ASSUME NEW q \in Node, NEW i \in 1..Len(log[q]) PROVE i = 1
      <4>1. Len(log[q]) = 1
        BY <1>5, <1>6, Zenon
      <4>. QED  BY <3>1, <4>1
    <3>2. ASSUME NEW q \in Node, NEW i \in 1..Len(log[q])
          PROVE  /\ \A p \in Node : Reached(p, current_term[q], i)
                 /\ Kept(L, current_term[q], i)
      <4>1. i = 1 /\ current_term[q] = 1
        BY <3>1, <1>6, Zenon
      <4>. QED  BY <4>1, <1>12, <1>13, Zenon
    <3>. QED  BY <3>2, Zenon DEF PendingOK
  <2>3. DecidedOK(L)
    BY <1>14, Zenon DEF DecidedOK
  <2>4. CommitsOK(L)
    BY <1>15, Zenon DEF CommitsOK
  <2>5. LeaderCommitsOK(L)
    BY <1>9, Zenon DEF LeaderCommitsOK
  <2>. QED  BY <2>1, <2>2, <2>3, <2>4, <2>5, Zenon DEF CommitInv
<1>. QED  BY <1>11, <1>16, Zenon DEF LedgerInv

\* No read has been made, and the leader has committed its first entry.
LEMMA ReadsStart ==
  ASSUME ReadInit
  PROVE  ReadInv
<1>1. PICK n \in Node : Led(n)
  BY Zenon DEF ReadInit
<1>2. NoRead \in ReadRecord /\ NoRead.pc = "none"
  BY Zenon DEF NoRead, ReadRecord
<1>3. \A r \in Reader : read[r] = NoRead
  BY Zenon DEF ReadInit
<1>4. commit_index \in [Node -> Nat] /\ last_applied = commit_index /\ stored = commit_index
  BY <1>1, Zenon DEF Led
<1>5. ReadTypes
  <2>1. \A r \in Reader : \A q \in Node : r \notin covered[q]
    BY Zenon DEF ReadInit
  <2>2. read \in [Reader -> ReadRecord]
    BY <1>2, Zenon DEF ReadInit
  <2>3. /\ pending \in [Node -> [Reader -> SUBSET Node]] /\ recorded \in [Node -> SUBSET Node]
        /\ covered \in [Node -> SUBSET Reader]
    BY Zenon DEF ReadInit
  <2>. QED  BY <1>2, <1>3, <1>4, <2>1, <2>2, <2>3, Zenon DEF ReadTypes
<1>6. PendingOnlyWhilePolled
  BY Zenon DEF ReadInit, PendingOnlyWhilePolled, Waiting
<1>7. AppliedCommitted
  BY <1>4 DEF AppliedCommitted
<1>8. OwnCommitted
  <2>1. \A d \in decided : d.index = 1
    BY <1>1 DEF Led
  <2>2. \A q \in Node : role[q] = "Leader" => commit_index[q] = 1
    BY <1>1, Zenon DEF Led
  <2>3. 1 \in Nat /\ 1 <= 1
    OBVIOUS
  <2>. QED  BY <2>1, <2>2, <2>3, Zenon DEF OwnCommitted
<1>9. ReadsGrounded
  BY <1>2, <1>3, Zenon DEF ReadsGrounded
<1>10. ReadsServed
  <2>1. \A r \in Reader : read[r].pc # "serve" /\ read[r].pc # "done"
    BY <1>2, <1>3, Zenon
  <2>. QED  BY <2>1, Zenon DEF ReadsServed
<1>. QED  BY <1>5, <1>6, <1>7, <1>8, <1>9, <1>10, Zenon DEF ReadInv

=============================================================================
