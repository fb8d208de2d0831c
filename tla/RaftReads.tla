------------------------------ MODULE RaftReads ------------------------------
(***************************************************************************)
(* Linearizable reads on top of RaftNode: the KV service registers a read  *)
(* with the leader's commit index, polls until heartbeat answers have      *)
(* confirmed the leadership, waits for last_applied and reads the store.   *)
(*                                                                         *)
(* The steps of RaftNode are taken over.  Added to them: the pending reads *)
(* (step_down_inner clears them, a successful AppendEntries answer is      *)
(* recorded for them before it is handled) and the end of an event-loop    *)
(* turn, which takes the committed entries and then applies them to the    *)
(* store without the node's lock.                                          *)
(*                                                                         *)
(* Crashes and requests without a caller, whose answers confirm nothing,   *)
(* are left to RaftNode.                                                   *)
(*                                                                         *)
(* A read is represented by how much of the log the store it reads from    *)
(* holds.  The wait loops of the service sleep between their attempts; how *)
(* long that takes is left open.                                           *)
(***************************************************************************)
EXTENDS RaftNode

CONSTANT Reader   \* the linearizable reads, by the id register gives them

VARIABLES
  pending,       \* read_index_state: for each node and read, its acks
  last_applied,  \* RaftNodeInner.last_applied
  stored,        \* how much of the log has been applied to the node's store
  recorded,      \* peers whose answer read_index_ack has seen in this round
  read,          \* the service's handler of each read
  covered        \* history: the reads pending when the node's round started

readVars == <<pending, last_applied, stored, recorded, read, covered>>
allVars == <<vars, readVars>>

\* A read that was not made: of the others, `floor' is the highest index any
\* leader had committed when the read was registered, `own' whether its leader
\* had committed an entry of its own term, `fresh' the acks that answer a
\* request sent after the registration, `early' whether the store was read
\* while a batch was being applied.
NoRead == [pc |-> "none", node |-> None, read_index |-> 0, seen |-> 0,
           floor |-> 0, own |-> FALSE, fresh |-> {}, early |-> FALSE]

\* The highest index some leader has committed.
Committed == LET is == {d.index : d \in decided}
             IN IF is = {} THEN 0 ELSE CHOOSE i \in is : \A j \in is : j <= i

\* The leader has committed an entry of the term it leads.
CommittedOwn(n) == TermAt(log[n], commit_index[n]) = current_term[n]

-----------------------------------------------------------------------------
(* A cluster whose first leader has been elected by everyone and whose first *)
(* entry is held by everyone and known to be committed by the leader only.   *)

Led(n) ==
  /\ current_term = [p \in Node |-> 1]
  /\ voted_for = [p \in Node |-> n]
  /\ log = [p \in Node |-> <<[term |-> 1, data |-> Noop]>>]
  /\ role = [p \in Node |-> IF p = n THEN "Leader" ELSE "Follower"]
  /\ leader_id = [p \in Node |-> n]
  /\ commit_index = [p \in Node |-> IF p = n THEN 1 ELSE 0]
  /\ election_state = [p \in Node |-> {}]
  /\ leader_state = [p \in Node |->
       IF p = n THEN [next_index |-> [q \in Node |-> IF q = n THEN 0 ELSE 2],
                      match_index |-> [q \in Node |-> 1]]
       ELSE NoLeaderState]
  /\ wal_ahead = [p \in Node |-> FALSE]
  /\ phase = [p \in Node |-> "idle"]
  /\ ballot = [p \in Node |-> NoBallot]
  /\ todo = [p \in Node |-> {}]
  /\ vote_response = [p \in Node |-> NoAnswer]
  /\ appends = [p \in Node |-> [q \in Node |-> NoRpc]]
  /\ late_votes = {} /\ late_appends = {}
  /\ spent = [crash |-> 0, pre_vote |-> 0, append |-> 0]
  /\ elected = {[node |-> n, term |-> 1, votes |-> Node]}
  /\ decided = {[index |-> 1, entry |-> [term |-> 1, data |-> Noop], at |-> 1]}
  /\ last_applied = commit_index /\ stored = commit_index

ReadInit ==
  /\ \E n \in Node : Led(n)
  /\ pending = [n \in Node |-> [r \in Reader |-> {}]]
  /\ recorded = [n \in Node |-> {}]
  /\ read = [r \in Reader |-> NoRead]
  /\ covered = [n \in Node |-> {}]

-----------------------------------------------------------------------------
(* ReadIndexState.                                                         *)

Waiting(n) == {r \in Reader : pending[n][r] # {}}

\* is_read_index_confirmed
Confirmed(n, r) == pending[n][r] # {} /\ HasQuorum(pending[n][r])

\* request_read_index, when check_leader and then the node itself find that it
\* leads.  The commit index is the read index, the leader is the first ack.
RequestReadIndex(r, n) ==
  /\ read[r].pc = "none"
  /\ role[n] = "Leader"
  /\ pending' = [pending EXCEPT ![n][r] = {n}]
  /\ read' = [read EXCEPT ![r] =
       [@ EXCEPT !.pc = "poll", !.node = n, !.read_index = commit_index[n],
                 !.floor = Committed, !.own = CommittedOwn(n), !.fresh = {n}]]
  /\ UNCHANGED <<vars, last_applied, stored, recorded, covered>>

\* Variant: an answer counts even if the peer refused the request.
RecordAckAlways(n, p) ==
  /\ appends[n][p].kind = "response"
  /\ p \notin recorded[n]
  /\ recorded' = [recorded EXCEPT ![n] = @ \cup {p}]
  /\ pending' = [pending EXCEPT ![n] =
       [r \in Reader |-> IF @[r] = {} THEN {} ELSE @[r] \cup {p}]]
  /\ read' = [r \in Reader |->
       IF r \in Waiting(n) /\ r \in covered[n]
       THEN [read[r] EXCEPT !.fresh = @ \cup {p}] ELSE read[r]]
  /\ UNCHANGED <<vars, last_applied, stored, covered>>

\* read_index_ack: the answer of p counts for every pending read.  Neither the
\* term of the answer nor when its request was sent is looked at.
RecordAck(n, p) ==
  /\ appends[n][p].kind = "response" /\ appends[n][p].success
  /\ p \notin recorded[n]
  /\ recorded' = [recorded EXCEPT ![n] = @ \cup {p}]
  /\ pending' = [pending EXCEPT ![n] =
       [r \in Reader |-> IF @[r] = {} THEN {} ELSE @[r] \cup {p}]]
  /\ read' = [r \in Reader |->
       IF r \in Waiting(n) /\ r \in covered[n]
       THEN [read[r] EXCEPT !.fresh = @ \cup {p}] ELSE read[r]]
  /\ UNCHANGED <<vars, last_applied, stored, covered>>

-----------------------------------------------------------------------------
(* Steps of RaftNode.                                                      *)

\* step_down_inner clears the pending reads; it runs in the nodes whose term a
\* received message raises.
ClearsReads ==
  pending' = [n \in Node |-> IF current_term'[n] # current_term[n]
                             THEN [r \in Reader |-> {}] ELSE pending[n]]

Receive ==
  /\ \E n \in Node :
       \/ HandleVoteResponse(n) \/ VoteResponseLost(n)
       \/ \E p \in Node : \/ DeliverVoteRequest(n, p) \/ VoteRequestFails(n, p)
                          \/ DeliverAppendEntries(n, p)
  /\ ClearsReads
  /\ UNCHANGED <<last_applied, stored, recorded, read, covered>>

\* An answer is handled after read_index_ack has seen it; a failed call is not
\* recorded.
FinishCall(n, p) ==
  /\ \/ /\ HandleAppendResponse(n, p)
        /\ appends[n][p].success => p \in recorded[n]
     \/ AppendEntriesFails(n, p) /\ p \notin recorded[n]
  /\ ClearsReads
  /\ UNCHANGED <<last_applied, stored, recorded, read, covered>>

\* A batch has been taken and is being applied: the event loop is busy.
Applying(n) == stored[n] < last_applied[n]

\* The event loop starts a turn with something to do.
StartTurn(n) ==
  /\ ~Applying(n)
  /\ \/ StartPreVote(n) \/ CandidateTimeout(n)
     \/ SendAppendEntries(n)
  /\ recorded' = [recorded EXCEPT ![n] = {}]
  /\ covered' = [covered EXCEPT ![n] = Waiting(n)]
  /\ UNCHANGED <<pending, last_applied, stored, read>>

Campaign(n) == StartElection(n) /\ UNCHANGED readVars

\* Variant: the last entry is held back.
TakeCommittedShort(n) == last_applied' = [last_applied EXCEPT ![n] = commit_index[n] - 1]

\* take_committed: the entries up to the commit index are handed out and count
\* as applied from now on.
TakeCommitted(n) == last_applied' = [last_applied EXCEPT ![n] = commit_index[n]]

\* A turn whose round is over, or that had nothing to do, takes the committed
\* entries.  An approved pre-vote round goes on to its election first.
EndTurn(n) ==
  /\ ~Applying(n)
  /\ \/ /\ EndVoteRound(n) \/ EndAppendRound(n)
        /\ IF phase'[n] = "idle" THEN TakeCommitted(n) ELSE UNCHANGED last_applied
     \/ /\ phase[n] = "idle" /\ last_applied[n] < commit_index[n]
        /\ TakeCommitted(n)
        /\ UNCHANGED vars
  /\ UNCHANGED <<pending, stored, recorded, read, covered>>

\* ApplyLoop::apply has put the batch into the store.
Apply(n) ==
  /\ Applying(n)
  /\ stored' = [stored EXCEPT ![n] = last_applied[n]]
  /\ UNCHANGED <<vars, pending, last_applied, recorded, read, covered>>

-----------------------------------------------------------------------------
(* The rest of wait_for_linearizable_read, and the read.                   *)

\* The polling loop finds the read confirmed and takes it.
Poll(r) ==
  /\ read[r].pc = "poll"
  /\ Confirmed(read[r].node, r)
  /\ pending' = [pending EXCEPT ![read[r].node][r] = {}]
  /\ read' = [read EXCEPT ![r].pc = "applied"]
  /\ UNCHANGED <<vars, last_applied, stored, recorded, covered>>

\* ... or it gives up after its last attempt and removes the read, or finds that
\* the node does not lead any more.
GiveUp(r) ==
  LET n == read[r].node IN
  /\ read[r].pc = "poll"
  /\ ~Confirmed(n, r)
  /\ \/ pending' = [pending EXCEPT ![n][r] = {}]
     \/ role[n] # "Leader" /\ UNCHANGED pending
  /\ read' = [read EXCEPT ![r].pc = "failed"]
  /\ UNCHANGED <<vars, last_applied, stored, recorded, covered>>

\* wait_for_applied ends when last_applied has come up to the read index, or
\* gives up.
WaitForApplied(r) ==
  /\ read[r].pc = "applied"
  /\ read' = [read EXCEPT ![r].pc =
       IF last_applied[read[r].node] >= read[r].read_index THEN "serve" ELSE "failed"]
  /\ UNCHANGED <<vars, pending, last_applied, stored, recorded, covered>>

\* get and range read the store.
Serve(r) ==
  LET n == read[r].node IN
  /\ read[r].pc = "serve"
  /\ read' = [read EXCEPT ![r].pc = "done", ![r].seen = stored[n],
                          ![r].early = Applying(n)]
  /\ UNCHANGED <<vars, pending, last_applied, stored, recorded, covered>>

ReadNext ==
  \/ Receive
  \/ \E n \in Node :
       \/ StartTurn(n)
       \/ Campaign(n)
       \/ EndTurn(n)
       \/ Apply(n)
       \/ \E p \in Node : RecordAck(n, p) \/ FinishCall(n, p)
       \/ \E cmd \in Command : Propose(n, cmd) /\ UNCHANGED readVars
  \/ \E r \in Reader :
       \/ \E n \in Node : RequestReadIndex(r, n)
       \/ Poll(r)
       \/ GiveUp(r)
       \/ WaitForApplied(r)
       \/ Serve(r)

ReadSpec == ReadInit /\ [][ReadNext]_allVars

-----------------------------------------------------------------------------
(* Properties.                                                             *)

\* Every variable of the reads has the type its Rust declaration gives it.
ReadTypeOK ==
  /\ TypeOK
  /\ pending \in [Node -> [Reader -> SUBSET Node]]
  /\ last_applied \in [Node -> Nat] /\ stored \in [Node -> Nat]
  /\ recorded \in [Node -> SUBSET Node] /\ covered \in [Node -> SUBSET Reader]
  /\ \A r \in Reader :
       /\ read[r].pc \in {"none", "poll", "applied", "serve", "done", "failed"}
       /\ read[r].node \in Node \cup {None}
       /\ read[r].fresh \subseteq Node

\* The store a read was served from held everything that any leader had committed
\* when the read was registered.
Current(r) == read[r].pc = "done" => read[r].seen >= read[r].floor

\* A read is current when its leader had committed an entry of its own term, when
\* a quorum of answers to requests sent after its registration confirmed it, and
\* when it was not served in the middle of an apply batch: elections, lost calls
\* and a new leader's commits in between do not make it stale.
CurrentWhenConfirmedAfterwards ==
  \A r \in Reader :
    read[r].own /\ HasQuorum(read[r].fresh) /\ ~read[r].early => Current(r)

\* step_down_inner leaves no read behind, and neither does a read that ended: a
\* read is pending only in a node that leads, and only while its handler polls.
PendingOnlyWhilePolled ==
  \A n \in Node : \A r \in Waiting(n) :
    role[n] = "Leader" /\ read[r].pc = "poll" /\ read[r].node = n

\* "Once quorum confirms, the leader knows it's still the leader": reads in a
\* leader that has committed in its own term, served between batches, are current
\* whenever their acks were sent.
CurrentOnceConfirmed ==
  \A r \in Reader : read[r].own /\ ~read[r].early => Current(r)

\* "Leader records its current commit_index as the read index": a quorum that
\* answers afterwards makes the read current, in a new leader too.
CurrentInNewLeader ==
  \A r \in Reader : HasQuorum(read[r].fresh) /\ ~read[r].early => Current(r)

\* "Leader waits for its state machine to advance past read_index": a read finds
\* the entries up to its read index in the store.
StateMachineAdvanced ==
  \A r \in Reader : read[r].pc = "done" => read[r].seen >= read[r].read_index

=============================================================================
