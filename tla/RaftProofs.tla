----------------------------- MODULE RaftProofs -----------------------------
(***************************************************************************)
(* The theorems about RaftNode, for every cluster size and every value of  *)
(* the bounds: type correctness, election safety and what it gives the     *)
(* other handlers, the ledger behind the logs (RaftLedger), and from it    *)
(* log matching, leader completeness, state machine safety and that no     *)
(* committed entry is taken back.  The last theorem is about RaftReads: a  *)
(* linearizable read returns what was committed when it began.             *)
(***************************************************************************)
EXTENDS RaftCommitProofs, ReadProofs, FiniteSetTheorems

-----------------------------------------------------------------------------
(* The two facts of the library that the other modules take as hypotheses. *)

\* Every non-empty set of naturals has a least element.
LEMMA NaturalsWellOrdered == WellOrdered
<1>. SUFFICES ASSUME NEW S \in SUBSET Nat, S # {}
              PROVE  \E x \in S : \A y \in S : x <= y
  BY Zenon DEF WellOrdered
<1>1. PICK x \in S : \A y \in S : ~(<<y, x>> \in OpToRel(<, Nat))
  BY NatLessThanWellFounded, WFMin, Zenon
<1>2. \A y \in S : ~(y < x)
  BY <1>1, Zenon DEF OpToRel
<1>. QED  BY <1>2

\* Two quorums of the cluster share a node.
LEMMA QuorumsIntersect ==
  ASSUME NEW P \in SUBSET Node, NEW Q \in SUBSET Node, HasQuorum(P), HasQuorum(Q)
  PROVE  \E v \in P : v \in Q
<1>. DEFINE c == Cardinality(Node)
<1>1. IsFiniteSet(Node) /\ c \in Nat
  BY NodeAssumption, FS_CardinalityType
<1>2. /\ Cardinality(P) \in Nat /\ Cardinality(Q) \in Nat
  BY <1>1, FS_Subset, FS_CardinalityType
<1>3. Cardinality(P) >= (c \div 2) + 1 /\ Cardinality(Q) >= (c \div 2) + 1
  BY DEF HasQuorum
<1>. HIDE DEF c
<1>4. 2 * (c \div 2) + 2 > c /\ (c \div 2) \in Nat
  BY <1>1
<1>5. Cardinality(P) + Cardinality(Q) > c
  BY <1>1, <1>2, <1>3, <1>4
<1>6. P \cap Q # {}
  BY <1>1, <1>5, FS_MajoritiesIntersect DEF c
<1>. QED  BY <1>6

\* Any two quorums of has_quorum meet.
LEMMA MajoritiesMeet == QuorumsMeet
  BY QuorumsIntersect, Zenon DEF QuorumsMeet

\* Backed votes and quorums leave room for one leader per term.
LEMMA VotesBackedSafe ==
  ASSUME TypeOK, LoopOK, VotesBacked
  PROVE  ElectionSafety
<1>. SUFFICES ASSUME NEW e1 \in elected, NEW e2 \in elected, e1.term = e2.term
              PROVE  e1.node = e2.node
  BY Zenon DEF ElectionSafety
<1>1. /\ e1.node \in Node /\ e1.votes \in SUBSET Node
      /\ e2.node \in Node /\ e2.votes \in SUBSET Node
  BY Zenon DEF TypeOK, RestTypeOK
<1>2. PICK v \in e1.votes : v \in e2.votes
  BY <1>1, QuorumsIntersect, Zenon DEF VotesBacked
<1>3. Counts(v, e1.node, e1.term) /\ Counts(v, e2.node, e1.term)
  BY <1>2, Zenon DEF Counts
<1>4. v \in Node /\ e1.term \in VoteTerms
  BY <1>1, <1>3, CountsType, Zenon
<1>. QED  BY <1>1, <1>3, <1>4, Zenon DEF VotesBacked

-----------------------------------------------------------------------------
(* The theorems.                                                           *)

\* In every reachable state of a cluster of any size every variable has its type
\* and the event loop's bookkeeping is in order: no handler is given a request it
\* cannot read, and no AppendEntries request has a previous index below 0.
THEOREM TypeCorrect == Spec => [](TypeOK /\ LoopOK)
<1>1. Init => TypeOK /\ LoopOK
  BY TypeInit, Zenon
<1>2. TypeOK /\ LoopOK /\ [Next]_vars => (TypeOK /\ LoopOK)'
  BY NaturalsWellOrdered, TypeNext, LoopNext, Zenon
<1>. QED  BY <1>1, <1>2, PTL DEF Spec

\* In a cluster of any size, with any number of elections, lost and late messages
\* and restarts, handle_vote_response counts only votes that its voters still stand
\* by, and a quorum of them stands behind every leader.
THEOREM VotesAreBacked == Spec => []VotesBacked
<1>1. TypeOK /\ LoopOK /\ TypeOK' /\ VotesBacked /\ [Next]_vars => VotesBacked'
  BY VotesNext, Zenon
<1>. QED  BY <1>1, VotesInit, TypeCorrect, PTL DEF Spec

\* become_leader_inner runs in at most one node of a cluster in any one term.
THEOREM ElectionIsSafe == Spec => []ElectionSafety
<1>1. TypeOK /\ LoopOK /\ VotesBacked => ElectionSafety
  BY VotesBackedSafe, Zenon
<1>. QED  BY <1>1, VotesAreBacked, TypeCorrect, PTL

\* create_append_requests runs only in the elected node of its term, and every
\* request it makes, however late it arrives, carries that node and that term.
THEOREM RequestsAreFromElected == Spec => []RequestsFromElected
<1>1. TypeOK /\ LoopOK /\ RequestsFromElected /\ [Next]_vars => RequestsFromElected'
  BY HeedsNext, StepKinds, RequestsNext, Zenon
<1>. QED  BY <1>1, LeadersInit, TypeCorrect, PTL DEF Spec

\* The leader that handle_append_entries and become_leader_inner record, and that
\* check_leader names to clients, is the one elected in the node's current term.
THEOREM LeaderIdsAreElected == Spec => []LeaderIdIsElected
<1>1. TypeOK /\ LoopOK /\ RequestsFromElected /\ LeaderIdIsElected /\ [Next]_vars
        => LeaderIdIsElected'
  BY HeedsNext, LeaderIdNext, Zenon
<1>. QED  BY <1>1, LeadersInit, TypeCorrect, RequestsAreFromElected, PTL DEF Spec

\* handle_append_entries never makes a follower of the leader of the request's
\* term, nor truncates its log: within a term, and without a crash, a leader
\* leads on and its log only grows.
THEOREM LeadersAppendOnly == Spec => LeaderAppendOnly
<1>1. TypeOK /\ TypeOK' /\ LoopOK /\ ElectionSafety /\ RequestsFromElected /\ [Next]_vars
        => [\A n \in Node : StaysLeader(n)]_vars
  BY HeedsNext, StepKinds, StaysLeaderNext, Zenon
<1>. QED
  BY <1>1, TypeCorrect, ElectionIsSafe, RequestsAreFromElected, PTL
  DEF Spec, LeaderAppendOnly

\* There is always a ledger: whatever was lost, delayed, repeated or forgotten in
\* a crash, every log and every request agrees with what the leaders of its
\* entries' terms held when they led, and every committed entry is secured by a
\* quorum.  This is the inductive invariant the theorems below rest on.
THEOREM LedgerExists == Spec => []LedgerInv
<1>1. TypeOK /\ LoopOK /\ VotesBacked => NoLaterVotes
  BY VotesNotLater, Zenon
<1>2. /\ TypeOK /\ LoopOK /\ VotesBacked /\ RequestsFromElected /\ ElectionSafety
      /\ TypeOK' /\ LoopOK' /\ NoLaterVotes' /\ ElectionSafety'
      /\ LedgerInv /\ [Next]_vars
      => LedgerInv'
  BY NaturalsWellOrdered, MajoritiesMeet, StepKinds, LedgerStep, Zenon DEF LedgerInv
<1>. QED
  BY <1>1, <1>2, LedgerInit, TypeCorrect, VotesAreBacked, RequestsAreFromElected,
     ElectionIsSafe, PTL DEF Spec

\* handle_append_entries stores entries only behind an entry that agrees with the
\* leader's, and truncates what conflicts: two logs that have an entry of the same
\* term at an index are the same up to it.
THEOREM LogsMatch == Spec => []LogMatching
<1>1. TypeOK /\ LedgerInv => LogMatching
  BY LedgerMatches, Zenon
<1>. QED  BY <1>1, TypeCorrect, LedgerExists, PTL

\* should_grant_vote compares logs and try_advance_commit counts only entries of
\* the leader's own term: every leader has every entry committed before it.
THEOREM LeadersAreComplete == Spec => []LeaderCompleteness
<1>1. TypeOK /\ LedgerInv => LeaderCompleteness
  BY LedgerCompletes, Zenon
<1>. QED  BY <1>1, TypeCorrect, LedgerExists, PTL

\* What any node regards as committed, by try_advance_commit or by the leader_commit
\* of a request, was committed by a leader, and never with two entries at an index.
THEOREM StateMachinesAreSafe == Spec => []StateMachineSafety
<1>1. TypeOK /\ LedgerInv => StateMachineSafety
  BY MajoritiesMeet, LedgerAgrees, Zenon
<1>. QED  BY <1>1, TypeCorrect, LedgerExists, PTL

\* The match_index that handle_append_response records is a prefix the peer shares
\* with the leader as long as it is in the leader's term.
THEOREM MatchIndexesAreSound == Spec => []MatchIndexSound
<1>1. TypeOK /\ LedgerInv => MatchIndexSound
  BY LedgerMatchIndex, Zenon
<1>. QED  BY <1>1, TypeCorrect, LedgerExists, PTL

\* A step keeps what is committed before it.
LEMMA KeepsCommittedNext ==
  ASSUME TypeOK, LoopOK, VotesBacked, RequestsFromElected, ElectionSafety,
         TypeOK', LoopOK', NoLaterVotes', ElectionSafety',
         StateMachineSafety, StateMachineSafety', LedgerInv, [Next]_vars, NEW n \in Node
  PROVE  KeepsCommitted(n)
<1>1. WellOrdered /\ QuorumsMeet /\ Polls /\ StepKind
  BY NaturalsWellOrdered, MajoritiesMeet, StepKinds, Zenon
<1>2. PICK L \in Ledger : LogInv(L)' /\ StillCommitted(L)
  BY <1>1, LedgerStep, Zenon
<1>. QED  BY <1>1, <1>2, LedgerStays, Zenon

\* The truncation in handle_append_entries never reaches a committed entry, and a
\* commit index falls in a restart only.
THEOREM CommittedIsKept == Spec => CommittedStays
<1>1. TypeOK /\ LoopOK /\ VotesBacked => NoLaterVotes
  BY VotesNotLater, Zenon
<1>2. /\ TypeOK /\ LoopOK /\ VotesBacked /\ RequestsFromElected /\ ElectionSafety
      /\ TypeOK' /\ LoopOK' /\ NoLaterVotes' /\ ElectionSafety'
      /\ StateMachineSafety /\ StateMachineSafety'
      /\ LedgerInv /\ [Next]_vars
      => [\A n \in Node : KeepsCommitted(n)]_vars
  BY KeepsCommittedNext, Zenon
<1>. QED
  BY <1>1, <1>2, TypeCorrect, VotesAreBacked, RequestsAreFromElected, ElectionIsSafe,
     StateMachinesAreSafe, LedgerExists, PTL DEF Spec, CommittedStays

-----------------------------------------------------------------------------
(* Linearizable reads.                                                     *)

\* Every node together is a quorum.
LEMMA EveryoneIsQuorum == HasQuorum(Node)
<1>1. IsFiniteSet(Node) /\ Node # {} /\ Cardinality(Node) \in Nat
  BY NodeAssumption, FS_CardinalityType
<1>2. Cardinality(Node) # 0
  BY <1>1, FS_EmptySet
<1>3. PICK c \in Nat : c = Cardinality(Node) /\ c # 0
  BY <1>1, <1>2, Zenon
<1>4. c >= (c \div 2) + 1
  BY <1>3
<1>. QED  BY <1>3, <1>4, Zenon DEF HasQuorum

\* What the nodes under the reads keep to, and that their ledger exists: the read path
\* adds nothing to their steps.
NodeInv == TypeOK /\ LoopOK /\ VotesBacked /\ RequestsFromElected /\ NotElecting

\* The cluster the reads start from is in order.
LEMMA ReadInitNodes == ReadInit => NodeInv /\ LedgerInv /\ ReadInv
<1>. SUFFICES ASSUME ReadInit PROVE NodeInv /\ LedgerInv /\ ReadInv
  OBVIOUS
<1>1. PICK n \in Node : Led(n)
  BY Zenon DEF ReadInit
<1>. QED
  BY <1>1, EveryoneIsQuorum, LedTypes, LedVotes, LedLedger, ReadsStart, Zenon DEF NodeInv

\* It stays so.
LEMMA NodeInvNext == NodeInv /\ [Next]_vars => NodeInv'
<1>. SUFFICES ASSUME NodeInv, [Next]_vars PROVE NodeInv'
  OBVIOUS
<1>. USE DEF NodeInv
<1>1. TypeOK' /\ LoopOK'
  BY NaturalsWellOrdered, TypeNext, LoopNext, Zenon
<1>2. VotesBacked'
  BY <1>1, VotesNext, Zenon
<1>3. RequestsFromElected'
  BY HeedsNext, StepKinds, RequestsNext, Zenon
<1>4. NotElecting'
  <2>1. CASE Next
    BY <2>1, NotElectingNext, Zenon
  <2>2. CASE UNCHANGED vars
    BY <2>2, Zenon DEF vars, NotElecting
  <2>. QED  BY <2>1, <2>2, Zenon
<1>. QED  BY <1>1, <1>2, <1>3, <1>4, Zenon

\* A linearizable read is current when a quorum has answered requests that were sent
\* after request_read_index registered it, its leader had committed an entry of its own
\* term and no batch was being applied: whatever is elected, lost or committed in
\* between, for any number of reads and nodes.  A read is pending in a leader only, and
\* only while wait_for_linearizable_read polls.
THEOREM ReadsAreCurrent ==
  ReadSpec => [](CurrentWhenConfirmedAfterwards /\ PendingOnlyWhilePolled)
<1>1. ReadInit => NodeInv /\ LedgerInv /\ ReadInv
  BY ReadInitNodes
<1>2. [ReadNext]_allVars => [Next]_vars
  BY ReadStepIsStep
<1>3. NodeInv /\ [Next]_vars => NodeInv'
  BY NodeInvNext
<1>4. NodeInv => ElectionSafety /\ NoLaterVotes
  BY VotesBackedSafe, VotesNotLater, Zenon DEF NodeInv
<1>5. /\ NodeInv /\ ElectionSafety /\ NodeInv' /\ NoLaterVotes' /\ ElectionSafety'
      /\ LedgerInv /\ [Next]_vars
      => LedgerInv'
  BY NaturalsWellOrdered, MajoritiesMeet, StepKinds, LedgerStep, Zenon DEF LedgerInv, NodeInv
<1>6. NodeInv /\ LedgerInv => StateMachineSafety
  BY MajoritiesMeet, LedgerAgrees, Zenon DEF NodeInv
<1>7. /\ NodeInv /\ ElectionSafety /\ NodeInv' /\ NoLaterVotes' /\ ElectionSafety'
      /\ StateMachineSafety /\ StateMachineSafety' /\ LedgerInv /\ [Next]_vars
      => NodeStep
  <2>. SUFFICES ASSUME NodeInv, ElectionSafety, NodeInv', NoLaterVotes', ElectionSafety',
                       StateMachineSafety, StateMachineSafety', LedgerInv, [Next]_vars
                PROVE  NodeStep
    BY Zenon
  <2>. USE DEF NodeInv
  <2>1. \A n \in Node : KeepsCommitted(n)
    BY KeepsCommittedNext, Zenon
  <2>2. Heeds /\ Polls /\ StepKind
    BY HeedsNext, StepKinds, Zenon
  <2>3. \A n \in Node : StaysLeader(n)
    BY <2>2, StaysLeaderNext, Zenon
  <2>. QED  BY <2>1, <2>2, <2>3, Zenon DEF NodeStep
<1>8. NodeInv /\ NodeStep /\ ReadInv /\ [ReadNext]_allVars => ReadInv'
  BY NaturalsWellOrdered, ReadInvNext, Zenon DEF NodeInv
<1>9. ReadInv => CurrentWhenConfirmedAfterwards /\ PendingOnlyWhilePolled
  BY MajoritiesMeet, ReadInvCurrent, Zenon DEF ReadInv
<1>. QED
  BY <1>1, <1>2, <1>3, <1>4, <1>5, <1>6, <1>7, <1>8, <1>9, PTL DEF ReadSpec

=============================================================================
