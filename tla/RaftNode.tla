------------------------------ MODULE RaftNode ------------------------------
(***************************************************************************)
(* A cluster of raftrust nodes: the state behind RaftNode's mutex, the RPC *)
(* handlers that change it, and the event loop of raft-server that drives  *)
(* elections and replication.                                              *)
(*                                                                         *)
(* Each handler holds the mutex for its whole body, so it is one step.     *)
(* The event loop is one task per node.  It releases the mutex whenever it *)
(* awaits an RPC, so other handlers interleave between its steps; `phase'  *)
(* is its program counter.  A vote round awaits its peers one at a time, a *)
(* replication round all of them at once.                                  *)
(*                                                                         *)
(* An RPC can fail before or after its handler ran, and a request whose    *)
(* caller gave up can still arrive later (`late_...').  A node can crash and   *)
(* restart from its state file and its write-ahead log.                    *)
(*                                                                         *)
(* Log compaction, leadership transfer, membership changes, read index and *)
(* the apply loop are not part of this module.                             *)
(***************************************************************************)
EXTENDS Integers, FiniteSets, Sequences

CONSTANTS Node,      \* the ids of the cluster's nodes
          None,      \* Rust's Option::None, for voted_for and leader_id
          Command,   \* what clients propose
          Noop,      \* the payload of the entry a new leader appends
          MaxTerm,   \* bound: no election is started beyond this term
          MaxIndex,  \* bound: no client command is appended beyond this index
          MaxLate,   \* bound: requests in the network without a caller
          MaxCrash,  \* bound: crashes in one behaviour
          MaxPreVote,\* bound: pre-vote rounds in one behaviour
          MaxAppend  \* bound: replication rounds in one behaviour

ASSUME NodeAssumption == IsFiniteSet(Node) /\ Node # {}
ASSUME NoneAssumption == None \notin Node
ASSUME BoundAssumption == /\ MaxTerm \in Nat
                          /\ MaxIndex \in Nat
                          /\ MaxLate \in Nat
                          /\ MaxCrash \in Nat
                          /\ MaxPreVote \in Nat
                          /\ MaxAppend \in Nat

VARIABLES
  \* RaftNodeInner: the persistent part
  current_term, voted_for, log,
  \* RaftNodeInner: the volatile part
  role, leader_id, commit_index, election_state, leader_state,
  \* whether truncate_after dropped entries that the WAL file still holds
  wal_ahead,
  \* the event loop: what it is doing, the vote request it is distributing,
  \* the peers it has not asked yet, the answer it has not handled yet,
  \* and the AppendEntries call outstanding to each peer
  phase, ballot, todo, vote_response, appends,
  \* requests whose caller has given up and that may still arrive
  late_votes, late_appends,
  \* how many crashes, pre-vote rounds and replication rounds there have been
  spent,
  \* history: who became leader in which term with which votes, and what
  \* leaders committed
  elected, decided

persistent == <<current_term, voted_for>>
volatile == <<role, leader_id, election_state, leader_state>>
loop == <<phase, ballot, todo, vote_response, appends>>
network == <<late_votes, late_appends>>
history == <<elected, decided>>
vars == <<current_term, voted_for, log, role, leader_id, commit_index,
          election_state, leader_state, wal_ahead, phase, ballot, todo,
          vote_response, appends, late_votes, late_appends, spent, elected,
          decided>>

-----------------------------------------------------------------------------
(* Types.  The index of an entry is its position in the log.               *)

Term == Nat

Entry == [term : Term, data : Command \cup {Noop}]

VoteRequest == [term : Term, candidate_id : Node, last_log_index : Nat,
                last_log_term : Term, is_pre_vote : BOOLEAN]

VoteResponse == [from : Node, term : Term, vote_granted : BOOLEAN]

AppendRequest == [kind : {"request"}, term : Term, leader_id : Node,
                  prev_log_index : Nat, prev_log_term : Term,
                  entries : Seq(Entry), leader_commit : Nat]

AppendResponse == [kind : {"response"}, term : Term, success : BOOLEAN,
                   match_index : Nat]

\* No RPC outstanding, no vote request being distributed, no answer to handle.
NoRpc == [kind |-> "none"]
NoBallot == [kind |-> "none"]
NoAnswer == [kind |-> "none"]

\* The Option<LeaderState> of a node that does not lead.
NoLeaderState == [next_index |-> [p \in Node |-> 0],
                  match_index |-> [p \in Node |-> 0]]

-----------------------------------------------------------------------------
(* Helpers.                                                                *)

Peers(n) == Node \ {n}

Lower(a, b) == IF a < b THEN a ELSE b

\* ElectionState::has_quorum and, outside a membership change,
\* MembershipState::has_quorum.
HasQuorum(votes) == Cardinality(votes) >= (Cardinality(Node) \div 2) + 1

TermAt(lg, i) == IF i \in 1..Len(lg) THEN lg[i].term ELSE 0

LastTerm(lg) == TermAt(lg, Len(lg))

IsLogUpToDate(lg, req) ==
  \/ req.last_log_term > LastTerm(lg)
  \/ /\ req.last_log_term = LastTerm(lg)
     /\ req.last_log_index >= Len(lg)

LeaderStateNew(n, lastIndex) ==
  [next_index |-> [p \in Node |-> IF p = n THEN 0 ELSE lastIndex + 1],
   match_index |-> [p \in Node |-> 0]]

\* leader.match_index.insert(p, i)
WithMatch(ls, p, i) ==
  [next_index |-> ls.next_index, match_index |-> [ls.match_index EXCEPT ![p] = i]]

\* Variant: step_down_inner without clearing leader_id.
StepDownKeepsLeader(n, t) ==
  /\ current_term' = [current_term EXCEPT ![n] = t]
  /\ voted_for' = [voted_for EXCEPT ![n] = None]
  /\ role' = [role EXCEPT ![n] = "Follower"]
  /\ election_state' = [election_state EXCEPT ![n] = {}]
  /\ leader_state' = [leader_state EXCEPT ![n] = NoLeaderState]
  /\ UNCHANGED leader_id

\* step_down_inner: adopt a higher term seen in a request or a response.
StepDown(n, t) ==
  /\ current_term' = [current_term EXCEPT ![n] = t]
  /\ voted_for' = [voted_for EXCEPT ![n] = None]
  /\ role' = [role EXCEPT ![n] = "Follower"]
  /\ leader_id' = [leader_id EXCEPT ![n] = None]
  /\ election_state' = [election_state EXCEPT ![n] = {}]
  /\ leader_state' = [leader_state EXCEPT ![n] = NoLeaderState]

-----------------------------------------------------------------------------
Init ==
  /\ current_term = [n \in Node |-> 0]
  /\ voted_for = [n \in Node |-> None]
  /\ log = [n \in Node |-> <<>>]
  /\ role = [n \in Node |-> "Follower"]
  /\ leader_id = [n \in Node |-> None]
  /\ commit_index = [n \in Node |-> 0]
  /\ election_state = [n \in Node |-> {}]
  /\ leader_state = [n \in Node |-> NoLeaderState]
  /\ wal_ahead = [n \in Node |-> FALSE]
  /\ phase = [n \in Node |-> "idle"]
  /\ ballot = [n \in Node |-> NoBallot]
  /\ todo = [n \in Node |-> {}]
  /\ vote_response = [n \in Node |-> NoAnswer]
  /\ appends = [n \in Node |-> [p \in Node |-> NoRpc]]
  /\ late_votes = {}
  /\ late_appends = {}
  /\ spent = [crash |-> 0, pre_vote |-> 0, append |-> 0]
  /\ elected = {}
  /\ decided = {}

-----------------------------------------------------------------------------
(* RPC handlers.  Each is the state change of one node plus an operator    *)
(* for the response it returns.                                            *)

\* Variant: a voter that does not look at voted_for.
GrantsVoteTwice(p, req) ==
  /\ req.term > current_term[p] \/ (~req.is_pre_vote /\ req.term = current_term[p])
  /\ IsLogUpToDate(log[p], req)

\* Variant: a voter that does not compare logs.
GrantsVoteIgnoringLog(p, req) ==
  \/ req.term > current_term[p]
  \/ /\ ~req.is_pre_vote /\ req.term = current_term[p]
     /\ voted_for[p] \in {None, req.candidate_id}

\* should_grant_vote after the handler adopted a higher term, or the
\* pre-vote rule, which compares with the hypothetical term only.
GrantsVote(p, req) ==
  /\ IF req.is_pre_vote
     THEN req.term > current_term[p]
     ELSE \/ req.term > current_term[p]
          \/ /\ req.term = current_term[p]
             /\ voted_for[p] \in {None, req.candidate_id}
  /\ IsLogUpToDate(log[p], req)

HandleVoteRequest(p, req) ==
  /\ IF ~req.is_pre_vote /\ req.term > current_term[p]
     THEN /\ current_term' = [current_term EXCEPT ![p] = req.term]
          /\ role' = [role EXCEPT ![p] = "Follower"]
          /\ leader_id' = [leader_id EXCEPT ![p] = None]
          /\ election_state' = [election_state EXCEPT ![p] = {}]
          /\ leader_state' = [leader_state EXCEPT ![p] = NoLeaderState]
          /\ voted_for' = [voted_for EXCEPT ![p] =
                             IF GrantsVote(p, req) THEN req.candidate_id ELSE None]
     ELSE /\ voted_for' = [voted_for EXCEPT ![p] =
                             IF ~req.is_pre_vote /\ GrantsVote(p, req)
                             THEN req.candidate_id ELSE @]
          /\ UNCHANGED <<current_term, volatile>>
  /\ UNCHANGED <<log, commit_index, wal_ahead>>

VoteResponseTo(p, req) ==
  [from |-> p,
   term |-> IF ~req.is_pre_vote /\ req.term > current_term[p]
            THEN req.term ELSE current_term[p],
   vote_granted |-> GrantsVote(p, req)]

\* Positions of the request's entries that clash with an entry of the log.
Conflicts(lg, req) ==
  {k \in 1..Len(req.entries) :
     /\ req.prev_log_index + k <= Len(lg)
     /\ lg[req.prev_log_index + k].term # req.entries[k].term}

FirstConflict(lg, req) ==
  CHOOSE k \in Conflicts(lg, req) : \A j \in Conflicts(lg, req) : k <= j

\* Variant: no truncation at a clash.
StoreEntriesKeepsConflicts(lg, req) ==
  lg \o SubSeq(req.entries, Len(lg) - req.prev_log_index + 1, Len(req.entries))

\* Variant: always truncate behind prev_log_index.
StoreEntriesReplaces(lg, req) == SubSeq(lg, 1, req.prev_log_index) \o req.entries

\* The loop over the request's entries: a clash truncates the log in front of
\* it and everything from there on is appended; otherwise only what the log
\* does not hold yet is appended.
StoreEntries(lg, req) ==
  IF Conflicts(lg, req) # {}
  THEN LET k == FirstConflict(lg, req)
       IN SubSeq(lg, 1, req.prev_log_index + k - 1)
            \o SubSeq(req.entries, k, Len(req.entries))
  ELSE lg \o SubSeq(req.entries, Len(lg) - req.prev_log_index + 1,
                    Len(req.entries))

PrevMatches(lg, req) ==
  \/ req.prev_log_index = 0
  \/ /\ req.prev_log_index <= Len(lg)
     /\ lg[req.prev_log_index].term = req.prev_log_term

\* The commit index of a follower after a request it accepted.
FollowerCommit(commit, leaderCommit, lastIndex) ==
  IF leaderCommit > commit THEN Lower(leaderCommit, lastIndex) ELSE commit

HandleAppendEntries(p, req) ==
  IF req.term < current_term[p]
  THEN UNCHANGED <<persistent, volatile, log, commit_index, wal_ahead>>
  ELSE
    /\ role' = [role EXCEPT ![p] = "Follower"]
    /\ leader_id' = [leader_id EXCEPT ![p] = req.leader_id]
    /\ IF req.term > current_term[p]
       THEN /\ current_term' = [current_term EXCEPT ![p] = req.term]
            /\ voted_for' = [voted_for EXCEPT ![p] = None]
            /\ election_state' = [election_state EXCEPT ![p] = {}]
            /\ leader_state' = [leader_state EXCEPT ![p] = NoLeaderState]
       ELSE UNCHANGED <<persistent, election_state, leader_state>>
    /\ IF PrevMatches(log[p], req)
       THEN LET stored == StoreEntries(log[p], req) IN
            /\ log' = [log EXCEPT ![p] = stored]
            /\ wal_ahead' = [wal_ahead EXCEPT ![p] = @ \/ Conflicts(log[p], req) # {}]
            /\ commit_index' = [commit_index EXCEPT ![p] =
                 FollowerCommit(@, req.leader_commit, Len(stored))]
       ELSE UNCHANGED <<log, commit_index, wal_ahead>>

AppendResponseTo(p, req) ==
  LET accepted == req.term >= current_term[p] /\ PrevMatches(log[p], req) IN
  [kind |-> "response",
   term |-> IF req.term > current_term[p] THEN req.term ELSE current_term[p],
   success |-> accepted,
   match_index |-> IF req.term < current_term[p] THEN 0
                   ELSE IF accepted THEN Len(StoreEntries(log[p], req))
                   ELSE Len(log[p])]

-----------------------------------------------------------------------------
(* The event loop: elections.                                              *)

\* Variant: the last index is computed as a length minus one.
BallotOffByOne(n, t, pre) ==
  [term |-> t, candidate_id |-> n, last_log_index |-> Len(log[n]) - 1,
   last_log_term |-> LastTerm(log[n]), is_pre_vote |-> pre]

BallotOf(n, t, pre) ==
  [term |-> t, candidate_id |-> n, last_log_index |-> Len(log[n]),
   last_log_term |-> LastTerm(log[n]), is_pre_vote |-> pre]

\* The election deadline passes in a node that follows no live leader.
StartPreVote(n) ==
  /\ phase[n] = "idle"
  /\ role[n] \in {"Follower", "PreCandidate"}
  /\ spent.pre_vote < MaxPreVote
  /\ spent' = [spent EXCEPT !.pre_vote = @ + 1]
  /\ role' = [role EXCEPT ![n] = "PreCandidate"]
  /\ election_state' = [election_state EXCEPT ![n] = {n}]
  /\ phase' = [phase EXCEPT ![n] = "pre_vote"]
  /\ ballot' = [ballot EXCEPT ![n] = BallotOf(n, current_term[n] + 1, TRUE)]
  /\ todo' = [todo EXCEPT ![n] = Peers(n)]
  /\ UNCHANGED <<persistent, log, leader_id, commit_index, leader_state, wal_ahead,
                 vote_response, appends, network, history>>

\* The deadline passes in a candidate.  The loop has read the role and goes on
\* to start_election without looking again.
CandidateTimeout(n) ==
  /\ phase[n] = "idle"
  /\ role[n] = "Candidate"
  /\ phase' = [phase EXCEPT ![n] = "elect"]
  /\ UNCHANGED <<persistent, volatile, log, commit_index, wal_ahead, ballot, todo,
                 vote_response, appends, network, spent, history>>

StartElection(n) ==
  /\ phase[n] = "elect"
  /\ current_term[n] < MaxTerm
  /\ current_term' = [current_term EXCEPT ![n] = @ + 1]
  /\ voted_for' = [voted_for EXCEPT ![n] = n]
  /\ role' = [role EXCEPT ![n] = "Candidate"]
  /\ leader_id' = [leader_id EXCEPT ![n] = None]
  /\ election_state' = [election_state EXCEPT ![n] = {n}]
  /\ phase' = [phase EXCEPT ![n] = "vote"]
  /\ ballot' = [ballot EXCEPT ![n] = BallotOf(n, current_term[n] + 1, FALSE)]
  /\ todo' = [todo EXCEPT ![n] = Peers(n)]
  /\ UNCHANGED <<log, commit_index, leader_state, wal_ahead, vote_response, appends,
                 network, spent, history>>

\* The vote request reaches peer p, whose answer is on its way back.
DeliverVoteRequest(n, p) ==
  /\ p \in todo[n]
  /\ vote_response[n] = NoAnswer
  /\ HandleVoteRequest(p, ballot[n])
  /\ vote_response' = [vote_response EXCEPT ![n] = VoteResponseTo(p, ballot[n])]
  /\ todo' = [todo EXCEPT ![n] = @ \ {p}]
  /\ UNCHANGED <<phase, ballot, appends, network, spent, history>>

BecomeLeader(n, votes) ==
  /\ role' = [role EXCEPT ![n] = "Leader"]
  /\ leader_id' = [leader_id EXCEPT ![n] = n]
  /\ election_state' = [election_state EXCEPT ![n] = {}]
  /\ log' = [log EXCEPT ![n] = Append(@, [term |-> current_term[n], data |-> Noop])]
  /\ leader_state' = [leader_state EXCEPT ![n] =
       WithMatch(LeaderStateNew(n, Len(log[n])), n, Len(log[n]) + 1)]
  /\ elected' = elected \cup {[node |-> n, term |-> current_term[n], votes |-> votes]}
  /\ UNCHANGED persistent

HandleVoteResponse(n) ==
  LET resp == vote_response[n]
      votes == election_state[n] \cup {resp.from}
  IN
  /\ resp # NoAnswer
  /\ vote_response' = [vote_response EXCEPT ![n] = NoAnswer]
  /\ \/ /\ resp.term > current_term[n]
        /\ StepDown(n, resp.term)
        /\ UNCHANGED <<log, todo, elected>>
     \/ /\ resp.term <= current_term[n]
        /\ resp.vote_granted /\ election_state[n] # {}
        /\ HasQuorum(votes) /\ ~ballot[n].is_pre_vote
        /\ BecomeLeader(n, votes)
        /\ todo' = [todo EXCEPT ![n] = {}]
     \/ /\ resp.term <= current_term[n]
        /\ resp.vote_granted /\ election_state[n] # {}
        /\ ~HasQuorum(votes) \/ ballot[n].is_pre_vote
        /\ election_state' = [election_state EXCEPT ![n] = votes]
        /\ UNCHANGED <<persistent, log, role, leader_id, leader_state, todo, elected>>
     \/ /\ resp.term <= current_term[n]
        /\ ~resp.vote_granted \/ election_state[n] = {}
        /\ UNCHANGED <<persistent, log, volatile, todo, elected>>
  /\ UNCHANGED <<commit_index, wal_ahead, phase, ballot, appends, network, spent,
                 decided>>

\* There is room in the network for one more request without a caller.
RoomForLate == Cardinality(late_votes) + Cardinality(late_appends) < MaxLate

\* The call to p fails before its request was handled.  The request is lost,
\* or it is still under way.
VoteRequestFails(n, p) ==
  /\ p \in todo[n]
  /\ vote_response[n] = NoAnswer
  /\ todo' = [todo EXCEPT ![n] = @ \ {p}]
  /\ \/ UNCHANGED late_votes
     \/ /\ RoomForLate /\ ~ballot[n].is_pre_vote
        /\ late_votes' = late_votes \cup {[to |-> p, request |-> ballot[n]]}
  /\ UNCHANGED <<persistent, volatile, log, commit_index, wal_ahead, phase, ballot,
                 vote_response, appends, late_appends, spent, history>>

\* The answer of a handled vote request is lost.
VoteResponseLost(n) ==
  /\ vote_response[n] # NoAnswer
  /\ vote_response' = [vote_response EXCEPT ![n] = NoAnswer]
  /\ UNCHANGED <<persistent, volatile, log, commit_index, wal_ahead, phase, ballot,
                 todo, appends, network, spent, history>>

\* The round is over.  A pre-vote round that pre_vote_has_quorum approves goes on
\* to start_election, under a lock of its own.
EndVoteRound(n) ==
  /\ phase[n] \in {"pre_vote", "vote"}
  /\ todo[n] = {} /\ vote_response[n] = NoAnswer
  /\ phase' = [phase EXCEPT ![n] =
       IF @ = "pre_vote" /\ Peers(n) # {} /\ HasQuorum(election_state[n])
       THEN "elect" ELSE "idle"]
  /\ ballot' = [ballot EXCEPT ![n] = NoBallot]
  /\ UNCHANGED <<persistent, volatile, log, commit_index, wal_ahead, todo,
                 vote_response, appends, network, spent, history>>

-----------------------------------------------------------------------------
(* The event loop: replication.                                            *)

\* create_append_requests: what the leader sends to p.
AppendRequestFor(n, p) ==
  LET next == leader_state[n].next_index[p] IN
  [kind |-> "request",
   term |-> current_term[n],
   leader_id |-> n,
   prev_log_index |-> next - 1,
   prev_log_term |-> TermAt(log[n], next - 1),
   entries |-> SubSeq(log[n], next, Len(log[n])),
   leader_commit |-> commit_index[n]]

\* The heartbeat interval passes in a leader.
SendAppendEntries(n) ==
  /\ phase[n] = "idle"
  /\ role[n] = "Leader"
  /\ spent.append < MaxAppend
  /\ spent' = [spent EXCEPT !.append = @ + 1]
  /\ phase' = [phase EXCEPT ![n] = "append"]
  /\ appends' = [appends EXCEPT ![n] =
       [p \in Node |-> IF p = n THEN NoRpc ELSE AppendRequestFor(n, p)]]
  /\ UNCHANGED <<persistent, volatile, log, commit_index, wal_ahead, ballot, todo,
                 vote_response, network, history>>

DeliverAppendEntries(n, p) ==
  /\ appends[n][p].kind = "request"
  /\ HandleAppendEntries(p, appends[n][p])
  /\ appends' = [appends EXCEPT ![n][p] = AppendResponseTo(p, appends[n][p])]
  /\ UNCHANGED <<phase, ballot, todo, vote_response, network, spent, history>>

\* The indexes try_advance_commit accepts in leader n, whose peers hold what
\* `matched' says.
Committable(n, matched) ==
  {i \in 1..Len(log[n]) :
     /\ i > commit_index[n]
     /\ \E p \in Node : matched[p] = i
     /\ HasQuorum({p \in Node : matched[p] >= i})
     /\ log[n][i].term = current_term[n]}

AdvancedCommit(n, matched) ==
  LET c == Committable(n, matched) IN
  IF c = {} THEN commit_index[n] ELSE CHOOSE i \in c : \A j \in c : j <= i

\* The answer of p moves its next and match index, and perhaps the commit index.
AdvancePeer(n, p, resp) ==
  LET next == IF resp.success THEN resp.match_index + 1
              ELSE IF leader_state[n].next_index[p] > 1
                   THEN leader_state[n].next_index[p] - 1 ELSE 1
      matched == IF resp.success
                 THEN [leader_state[n].match_index EXCEPT ![p] = resp.match_index]
                 ELSE leader_state[n].match_index
      commit == AdvancedCommit(n, matched)
  IN
  /\ leader_state' = [leader_state EXCEPT ![n] =
       [next_index |-> [@.next_index EXCEPT ![p] = next], match_index |-> matched]]
  /\ commit_index' = [commit_index EXCEPT ![n] = commit]
  /\ decided' = decided \cup
       {[index |-> i, entry |-> log[n][i], at |-> current_term[n]] :
          i \in (commit_index[n] + 1)..commit}

HandleAppendResponse(n, p) ==
  LET resp == appends[n][p] IN
  /\ resp.kind = "response"
  /\ appends' = [appends EXCEPT ![n][p] = NoRpc]
  /\ \/ /\ resp.term > current_term[n]
        /\ StepDown(n, resp.term)
        /\ UNCHANGED <<commit_index, decided>>
     \/ /\ resp.term <= current_term[n] /\ role[n] = "Leader"
        /\ AdvancePeer(n, p, resp)
        /\ UNCHANGED <<persistent, role, leader_id, election_state>>
     \/ /\ resp.term <= current_term[n] /\ role[n] # "Leader"
        /\ UNCHANGED <<persistent, volatile, commit_index, decided>>
  /\ UNCHANGED <<log, wal_ahead, phase, ballot, todo, vote_response, network, spent,
                 elected>>

\* The call to p fails or times out: its request is lost or still under way, or
\* its response is lost.
AppendEntriesFails(n, p) ==
  /\ appends[n][p] # NoRpc
  /\ appends' = [appends EXCEPT ![n][p] = NoRpc]
  /\ \/ UNCHANGED late_appends
     \/ /\ RoomForLate /\ appends[n][p].kind = "request"
        /\ late_appends' = late_appends \cup {[to |-> p, request |-> appends[n][p]]}
  /\ UNCHANGED <<persistent, volatile, log, commit_index, wal_ahead, phase, ballot,
                 todo, vote_response, late_votes, spent, history>>

\* All calls of the round are joined.
EndAppendRound(n) ==
  /\ phase[n] = "append"
  /\ \A p \in Node : appends[n][p] = NoRpc
  /\ phase' = [phase EXCEPT ![n] = "idle"]
  /\ UNCHANGED <<persistent, volatile, log, commit_index, wal_ahead, ballot, todo,
                 vote_response, appends, network, spent, history>>

-----------------------------------------------------------------------------
(* Clients, late requests and crashes.                                     *)

Propose(n, cmd) ==
  /\ role[n] = "Leader"
  /\ Len(log[n]) < MaxIndex
  /\ log' = [log EXCEPT ![n] = Append(@, [term |-> current_term[n], data |-> cmd])]
  /\ leader_state' = [leader_state EXCEPT ![n] = WithMatch(@, n, Len(log[n]) + 1)]
  /\ UNCHANGED <<persistent, role, leader_id, commit_index, election_state, wal_ahead,
                 loop, network, spent, history>>

DeliverLateVote(m) ==
  /\ m \in late_votes
  /\ HandleVoteRequest(m.to, m.request)
  /\ late_votes' = late_votes \ {m}
  /\ UNCHANGED <<loop, late_appends, spent, history>>

DeliverLateAppend(m) ==
  /\ m \in late_appends
  /\ HandleAppendEntries(m.to, m.request)
  /\ late_appends' = late_appends \ {m}
  /\ UNCHANGED <<loop, late_votes, spent, history>>

\* Variant: voted_for is not persisted.
RestartForgetsVote(n) ==
  /\ spent.crash < MaxCrash
  /\ ~wal_ahead[n]
  /\ spent' = [spent EXCEPT !.crash = @ + 1]
  /\ voted_for' = [voted_for EXCEPT ![n] = None]
  /\ role' = [role EXCEPT ![n] = "Follower"]
  /\ leader_id' = [leader_id EXCEPT ![n] = None]
  /\ commit_index' = [commit_index EXCEPT ![n] = 0]
  /\ election_state' = [election_state EXCEPT ![n] = {}]
  /\ leader_state' = [leader_state EXCEPT ![n] = NoLeaderState]
  /\ phase' = [phase EXCEPT ![n] = "idle"]
  /\ ballot' = [ballot EXCEPT ![n] = NoBallot]
  /\ todo' = [todo EXCEPT ![n] = {}]
  /\ vote_response' = [vote_response EXCEPT ![n] = NoAnswer]
  /\ appends' = [appends EXCEPT ![n] = [p \in Node |-> NoRpc]]
  /\ UNCHANGED <<current_term, log, wal_ahead, network, history>>

\* RaftNode::new after a crash: the term, the vote and the log come back from
\* disk.  The WAL file is never truncated, so this step is the restart of a node
\* whose file holds exactly its log.
Restart(n) ==
  /\ spent.crash < MaxCrash
  /\ ~wal_ahead[n]
  /\ spent' = [spent EXCEPT !.crash = @ + 1]
  /\ role' = [role EXCEPT ![n] = "Follower"]
  /\ leader_id' = [leader_id EXCEPT ![n] = None]
  /\ commit_index' = [commit_index EXCEPT ![n] = 0]
  /\ election_state' = [election_state EXCEPT ![n] = {}]
  /\ leader_state' = [leader_state EXCEPT ![n] = NoLeaderState]
  /\ phase' = [phase EXCEPT ![n] = "idle"]
  /\ ballot' = [ballot EXCEPT ![n] = NoBallot]
  /\ todo' = [todo EXCEPT ![n] = {}]
  /\ vote_response' = [vote_response EXCEPT ![n] = NoAnswer]
  /\ appends' = [appends EXCEPT ![n] = [p \in Node |-> NoRpc]]
  /\ UNCHANGED <<persistent, log, wal_ahead, network, history>>

Next ==
  \/ \E n \in Node :
       \/ StartPreVote(n)
       \/ CandidateTimeout(n)
       \/ StartElection(n)
       \/ HandleVoteResponse(n)
       \/ VoteResponseLost(n)
       \/ EndVoteRound(n)
       \/ SendAppendEntries(n)
       \/ EndAppendRound(n)
       \/ Restart(n)
       \/ \E cmd \in Command : Propose(n, cmd)
       \/ \E p \in Node : \/ DeliverVoteRequest(n, p)
                          \/ VoteRequestFails(n, p)
                          \/ DeliverAppendEntries(n, p)
                          \/ HandleAppendResponse(n, p)
                          \/ AppendEntriesFails(n, p)
  \/ \E m \in late_votes : DeliverLateVote(m)
  \/ \E m \in late_appends : DeliverLateAppend(m)

Spec == Init /\ [][Next]_vars

-----------------------------------------------------------------------------
(* Properties.                                                             *)

InnerTypeOK ==
  /\ current_term \in [Node -> Term]
  /\ voted_for \in [Node -> Node \cup {None}]
  /\ log \in [Node -> Seq(Entry)]
  /\ role \in [Node -> {"Follower", "PreCandidate", "Candidate", "Leader"}]
  /\ leader_id \in [Node -> Node \cup {None}]
  /\ commit_index \in [Node -> Nat]
  /\ election_state \in [Node -> SUBSET Node]
  /\ leader_state \in [Node -> [next_index : [Node -> Nat],
                                match_index : [Node -> Nat]]]
  /\ wal_ahead \in [Node -> BOOLEAN]

LoopTypeOK ==
  /\ phase \in [Node -> {"idle", "pre_vote", "elect", "vote", "append"}]
  /\ ballot \in [Node -> VoteRequest \cup {NoBallot}]
  /\ todo \in [Node -> SUBSET Node]
  /\ vote_response \in [Node -> VoteResponse \cup {NoAnswer}]
  /\ appends \in [Node -> [Node -> AppendRequest \cup AppendResponse \cup {NoRpc}]]

RestTypeOK ==
  /\ late_votes \in SUBSET [to : Node, request : VoteRequest]
  /\ late_appends \in SUBSET [to : Node, request : AppendRequest]
  /\ spent \in [crash : Nat, pre_vote : Nat, append : Nat]
  /\ elected \in SUBSET [node : Node, term : Term, votes : SUBSET Node]
  /\ decided \in SUBSET [index : Nat, entry : Entry, at : Term]

\* Every variable of RaftNodeInner, of the event loop and of the network has
\* the type its Rust declaration gives it.
TypeOK == InnerTypeOK /\ LoopTypeOK /\ RestTypeOK

\* The event loop's own bookkeeping: it distributes a vote request exactly while
\* it is in a vote round, the request is the node's own and says which kind of
\* round it is, AppendEntries calls are outstanding only in a replication round, it
\* never calls its own node, and a leader's next_index for a peer never falls to 0.
LoopOK ==
  \A n \in Node :
    /\ phase[n] \in {"pre_vote", "vote"} =>
         /\ ballot[n] \in VoteRequest
         /\ ballot[n].candidate_id = n
         /\ ballot[n].is_pre_vote = (phase[n] = "pre_vote")
    /\ phase[n] \notin {"pre_vote", "vote"} =>
         todo[n] = {} /\ vote_response[n] = NoAnswer
    /\ phase[n] # "append" => \A p \in Node : appends[n][p] = NoRpc
    /\ n \notin todo[n] /\ appends[n][n] = NoRpc
    /\ role[n] = "Leader" =>
         \A p \in Peers(n) : leader_state[n].next_index[p] >= 1

\* v has voted for c in term t or has moved on to a later term.
Backs(v, c, t) ==
  \/ current_term[v] > t
  \/ current_term[v] = t /\ voted_for[v] = c

\* The votes n counts or is about to count in its vote round.
CountedBy(n) ==
  election_state[n] \cup
    {v \in Node : /\ vote_response[n] # NoAnswer
                  /\ vote_response[n].vote_granted
                  /\ vote_response[n].from = v}

\* v's vote is being counted for c in term t, or has made c the leader of term t.
Counts(v, c, t) ==
  \/ phase[c] = "vote" /\ ballot[c].term = t /\ v \in CountedBy(c)
  \/ \E e \in elected : e.node = c /\ e.term = t /\ v \in e.votes

\* The terms in which votes count.
VoteTerms == {ballot[n].term : n \in {m \in Node : phase[m] = "vote"}}
               \cup {e.term : e \in elected}

\* handle_vote_response looks neither at the term of an answer nor at the role,
\* and still counts only votes of the term it is about to lead: an election_state
\* present in a vote round is of the node's current term, every vote counted is
\* backed by its voter, no voter's vote counts for two candidates of a term, and
\* a quorum stands behind every leader.
VotesBacked ==
  /\ \A n \in Node : phase[n] = "vote" /\ election_state[n] # {} =>
       ballot[n].term = current_term[n]
  /\ \A t \in VoteTerms : \A v, c \in Node : Counts(v, c, t) =>
       /\ Backs(v, c, t)
       /\ \A d \in Node : Counts(v, d, t) => d = c
  /\ \A e \in elected : HasQuorum(e.votes)

\* n was elected in term t.
Elected(n, t) == \E e \in elected : e.node = n /\ e.term = t

\* Only an elected node leads, and every AppendEntries request, late ones
\* included, was sent by the node elected in its term and to another node.
RequestsFromElected ==
  /\ \A n \in Node : role[n] = "Leader" => Elected(n, current_term[n])
  /\ \A n, p \in Node : appends[n][p].kind = "request" =>
       /\ appends[n][p].leader_id = n
       /\ Elected(n, appends[n][p].term)
  /\ \A m \in late_appends :
       /\ m.to # m.request.leader_id
       /\ Elected(m.request.leader_id, m.request.term)

\* become_leader_inner runs in at most one node for any one term, whatever votes
\* arrive late, twice asked for or across restarts (handle_vote_response does
\* not compare the term of an answer with the term of the election it counts).
ElectionSafety ==
  \A e1, e2 \in elected : e1.term = e2.term => e1.node = e2.node

\* A leader_id that handle_append_entries or become_leader_inner has recorded
\* names the node elected in that very term, so that two nodes of one term never
\* send a client to different leaders.
LeaderIdIsElected ==
  \A n \in Node : leader_id[n] # None => Elected(leader_id[n], current_term[n])

\* Two logs that hold an entry of the same term at an index are equal up to it:
\* what match_term in handle_append_entries relies on.
LogMatching ==
  \A n, m \in Node : \A i \in 1..Lower(Len(log[n]), Len(log[m])) :
    log[n][i].term = log[m][i].term =>
      SubSeq(log[n], 1, i) = SubSeq(log[m], 1, i)

\* A leader holds every entry that a leader of its own or an earlier term has
\* committed: the up-to-date check of should_grant_vote and the term check of
\* try_advance_commit together.
LeaderCompleteness ==
  \A n \in Node : role[n] = "Leader" =>
    \A d \in decided : d.at <= current_term[n] =>
      /\ d.index <= Len(log[n])
      /\ log[n][d.index] = d.entry

\* What any node regards as committed is in its log and was committed by a
\* leader, and no index is ever committed with two entries: followers advance by
\* min(leader_commit, last_index) without a look at the terms.
StateMachineSafety ==
  /\ \A n \in Node : \A i \in 1..commit_index[n] :
       /\ i <= Len(log[n])
       /\ \E d \in decided : d.index = i /\ d.entry = log[n][i]
  /\ \A d1, d2 \in decided : d1.index = d2.index => d1.entry = d2.entry

\* The match_index a leader keeps for a peer is a prefix the peer's log really
\* shares with its own, unless the peer has moved to a later term: the follower
\* reports its whole last_index, entries the leader never sent included.
MatchIndexSound ==
  \A n, p \in Node : role[n] = "Leader" /\ current_term[p] = current_term[n] =>
    LET k == leader_state[n].match_index[p] IN
    /\ k <= Len(log[n]) /\ k <= Len(log[p])
    /\ SubSeq(log[p], 1, k) = SubSeq(log[n], 1, k)

\* A step of n's own or of others that leaves n in its term and does not crash
\* anyone leaves it leader and keeps what its log holds.
StaysLeader(n) ==
  /\ role[n] = "Leader"
  /\ current_term'[n] = current_term[n]
  /\ spent'.crash = spent.crash
  => /\ role'[n] = "Leader"
     /\ Len(log'[n]) >= Len(log[n])
     /\ SubSeq(log'[n], 1, Len(log[n])) = log[n]

\* Within its term a leader is only stopped by a crash, and until then it never
\* loses or replaces an entry: handle_append_entries makes a node of the same
\* term a follower and may truncate its log without asking whether it leads.
LeaderAppendOnly == [][\A n \in Node : StaysLeader(n)]_vars

\* n's commit index falls in a restart only, and what is at or below it stays.
KeepsCommitted(n) ==
  /\ commit_index'[n] < commit_index[n] => spent'.crash = spent.crash + 1
  /\ Len(log'[n]) >= commit_index[n]
  /\ SubSeq(log'[n], 1, commit_index[n]) = SubSeq(log[n], 1, commit_index[n])

\* No step but a restart moves a node's commit index back, and none removes or
\* replaces an entry at or below it: handle_append_entries truncates wherever
\* the request disagrees, without a look at the commit index.
CommittedStays == [][\A n \in Node : KeepsCommitted(n)]_vars

=============================================================================
