--------------------------- MODULE RaftLogProofs ----------------------------
(***************************************************************************)
(* What a step of RaftNode can do to logs, requests, answers and votes:    *)
(* every step polls honestly (Polls) and is one of six kinds (StepKind).   *)
(* Nodes follow none but elected leaders (Heeds), which is why requests    *)
(* come from elected leaders only and nothing else stops a leader.  And    *)
(* every step keeps the logs, the requests in flight and the answers to    *)
(* them in line with a ledger of the leaders' logs (LogInv); and how up to *)
(* date logs are.                                                          *)
(***************************************************************************)
EXTENDS RaftHandlerProofs

-----------------------------------------------------------------------------
(* Messages.                                                               *)

\* A step whose calls and late messages are not new adds no request.
LEMMA RequestsShrink ==
  ASSUME \A n, p \in Node : appends'[n][p].kind = "request" => appends'[n][p] = appends[n][p],
         \A m \in late_appends' : m \in late_appends \/ m.request \in Requests
  PROVE  Requests' \subseteq Requests
<1>. SUFFICES ASSUME NEW r \in Requests' PROVE r \in Requests
  OBVIOUS
<1>1. CASE \E n, p \in Node : r = appends'[n][p] /\ r.kind = "request"
  BY <1>1 DEF Requests
<1>2. CASE \E m \in late_appends' : r = m.request
  BY <1>2 DEF Requests
<1>. QED  BY <1>1, <1>2 DEF Requests

\* What the comparisons of the handlers say of each other.
LEMMA NatOrder ==
  \A a, b \in Nat : (a >= b <=> ~(a < b)) /\ (~(a < b) /\ ~(a > b) => a = b)
OBVIOUS

\* A call that has ended holds no message.
LEMMA NoRpcKind == NoRpc.kind = "none"
BY Zenon DEF NoRpc

\* Calls only end and late messages only arrive: nothing new is in flight.
LEMMA CallsEnd ==
  ASSUME \A n, p \in Node : appends'[n][p] = appends[n][p] \/ appends'[n][p] = NoRpc,
         late_appends' \subseteq late_appends
  PROVE  NoNewMessage
<1>1. NoRpc.kind # "request" /\ ~Succeeded(NoRpc)
  BY Zenon DEF NoRpc, Succeeded
<1>2. \A n, p \in Node : appends'[n][p].kind = "request" \/ Succeeded(appends'[n][p]) =>
        appends'[n][p] = appends[n][p]
  BY <1>1, Zenon
<1>. QED  BY <1>2, RequestsShrink, Zenon DEF NoNewMessage

\* Nothing at all moves in the network.
LEMMA CallsStay ==
  ASSUME UNCHANGED appends, late_appends' \subseteq late_appends
  PROVE  NoNewMessage
BY CallsEnd, Zenon

-----------------------------------------------------------------------------
(* Votes.                                                                  *)

\* The handlers of requests and of answers with a higher term poll honestly.
LEMMA ReceivesPolls ==
  ASSUME Receives, UNCHANGED <<phase, ballot>>,
         \A n \in Node : vote_response'[n] \in {vote_response[n], NoAnswer}
  PROVE  Polls
BY Zenon DEF Receives, Polls, CountedBy

\* So does a step that leaves terms, votes and vote rounds alone or ends rounds.
LEMMA UnchangedPolls ==
  ASSUME TypeOK, UNCHANGED <<current_term, election_state>>,
         \A n \in Node : phase'[n] = "vote" => phase[n] = "vote" /\ ballot'[n] = ballot[n],
         \A n \in Node : vote_response'[n] \in {vote_response[n], NoAnswer}
  PROVE  Polls
<1>1. \A n \in Node : current_term'[n] >= current_term[n]
  BY DEF TypeOK, InnerTypeOK, Term
<1>2. \A n \in Node : CountedBy(n)' \subseteq CountedBy(n)
  BY Zenon DEF CountedBy
<1>. QED  BY <1>1, <1>2, Zenon DEF Polls

-----------------------------------------------------------------------------
(* Every step is of a kind.                                                *)

\* A handler that touches neither log nor commit index is quiet.
LEMMA ReceivesQuiet ==
  ASSUME Receives, NoNewMessage, UNCHANGED <<log, commit_index, elected, decided>>
  PROVE  Quiet
BY Zenon DEF Receives, Quiet

\* So is a step that leaves what the logs depend on alone.
LEMMA UnchangedQuiet ==
  ASSUME NoNewMessage,
         UNCHANGED <<log, commit_index, elected, decided, role, leader_state, current_term>>
  PROVE  Quiet
BY Zenon DEF Quiet

\* start_pre_vote and start_election.
LEMMA StartStep ==
  ASSUME TypeOK, LoopOK, NEW n \in Node, StartPreVote(n) \/ StartElection(n)
  PROVE  Polls /\ Quiet
<1>1. NoNewMessage /\ UNCHANGED <<log, commit_index, elected, decided, leader_state>>
  BY CallsStay, Zenon DEF StartPreVote, StartElection, network, history
<1>2. /\ role'[n] # "Leader" /\ current_term[n] \in Nat /\ current_term'[n] \in Nat
      /\ current_term'[n] >= current_term[n]
      /\ \A m \in Node \ {n} :
           /\ role'[m] = role[m] /\ current_term'[m] = current_term[m]
           /\ current_term[m] \in Nat /\ election_state'[m] = election_state[m]
           /\ phase'[m] = phase[m] /\ ballot'[m] = ballot[m]
  <2>1. CASE StartPreVote(n)
    BY <2>1 DEF StartPreVote, persistent, TypeOK, InnerTypeOK, LoopTypeOK, Term
  <2>2. CASE StartElection(n)
    BY <2>2 DEF StartElection, TypeOK, InnerTypeOK, LoopTypeOK, Term
  <2>. QED  BY <2>1, <2>2, Zenon
<1>3. Quiet
  BY <1>1, <1>2, Zenon DEF Quiet
<1>4. vote_response' = vote_response
  BY Zenon DEF StartPreVote, StartElection
<1>5. CASE StartPreVote(n)
  <2>1. phase'[n] # "vote"
    BY <1>5, Zenon DEF StartPreVote, TypeOK, LoopTypeOK
  <2>. QED  BY <1>2, <1>3, <1>4, <2>1 DEF Polls, CountedBy
<1>6. CASE StartElection(n)
  <2>1. vote_response'[n] = NoAnswer
    BY <1>4, <1>6, Zenon DEF StartElection, LoopOK
  <2>2. election_state'[n] = {n}
    BY <1>6, Zenon DEF StartElection, TypeOK, InnerTypeOK
  <2>3. \A v \in CountedBy(n)' : v = n
    BY <2>1, <2>2, Zenon DEF CountedBy
  <2>4. ballot'[n] = BallotOf(n, current_term[n] + 1, FALSE)
    BY <1>6, Zenon DEF StartElection, TypeOK, LoopTypeOK
  <2>5. /\ ballot'[n].last_log_term = LastTerm(log[n])
        /\ ballot'[n].last_log_index = Len(log[n])
    BY <2>4 DEF BallotOf
  <2>6. current_term'[n] > current_term[n]
    BY <1>6 DEF StartElection, TypeOK, InnerTypeOK, Term
  <2>7. \A m \in Node \ {n} : CountedBy(m)' = CountedBy(m)
    BY <1>2, <1>4, Zenon DEF CountedBy
  <2>. QED  BY <1>2, <1>3, <2>3, <2>5, <2>6, <2>7 DEF Polls
<1>. QED  BY <1>5, <1>6, Zenon

\* A vote request that is handled: only a log no more up to date grants it.
LEMMA DeliverVoteStep ==
  ASSUME TypeOK, LoopOK, NEW n \in Node, NEW p \in Node, DeliverVoteRequest(n, p)
  PROVE  Polls /\ Quiet
<1>1. ballot[n] \in VoteRequest
  BY InVoteRound, Zenon DEF DeliverVoteRequest
<1>2. Receives
  BY <1>1, HandleVoteRequestReceives, Zenon DEF DeliverVoteRequest
<1>3. Quiet
  BY <1>2, CallsStay, ReceivesQuiet, Zenon DEF DeliverVoteRequest, HandleVoteRequest,
     network, history
<1>4. /\ phase' = phase /\ ballot' = ballot
      /\ vote_response'[n] = VoteResponseTo(p, ballot[n])
      /\ \A m \in Node \ {n} : vote_response'[m] = vote_response[m]
  BY Zenon DEF DeliverVoteRequest, TypeOK, LoopTypeOK
<1>5. /\ VoteResponseTo(p, ballot[n]).from = p
      /\ VoteResponseTo(p, ballot[n]).vote_granted => IsLogUpToDate(log[p], ballot[n])
  BY Zenon DEF VoteResponseTo, GrantsVote
<1>6. \A q \in Node : \A v \in CountedBy(q)' :
        v \in CountedBy(q) \/ (v \in Node /\ IsLogUpToDate(log[v], ballot[q]))
  <2>. SUFFICES ASSUME NEW q \in Node, NEW v \in CountedBy(q)'
                PROVE  v \in CountedBy(q) \/ (v \in Node /\ IsLogUpToDate(log[v], ballot[q]))
    OBVIOUS
  <2>1. CASE v \in election_state'[q]
    BY <1>2, <2>1, Zenon DEF Receives, CountedBy
  <2>2. CASE v \notin election_state'[q] /\ q = n
    <3>1. vote_response'[n].vote_granted /\ vote_response'[n].from = v
      BY <2>2, Zenon DEF CountedBy
    <3>. QED  BY <1>4, <1>5, <2>2, <3>1, Zenon
  <2>3. CASE v \notin election_state'[q] /\ q # n
    BY <1>4, <2>3, Zenon DEF CountedBy
  <2>. QED  BY <2>1, <2>2, <2>3, Zenon
<1>. QED  BY <1>2, <1>3, <1>4, <1>6, Zenon DEF Polls, Receives

\* handle_vote_response: it ends the node's role, counts a vote that was already on
\* its way, or makes the node a leader.
LEMMA VoteResponseStep ==
  ASSUME TypeOK, LoopOK, NEW n \in Node, HandleVoteResponse(n)
  PROVE  Polls /\ (Quiet \/ Leads(n))
<1>. DEFINE resp == vote_response[n]
            votes == election_state[n] \cup {resp.from}
<1>1. /\ resp \in VoteResponse /\ resp.term \in Term /\ resp.from \in Node
      /\ phase[n] \in {"pre_vote", "vote"}
      /\ ballot[n].is_pre_vote = (phase[n] = "pre_vote")
  <2>1. resp \in VoteResponse
    BY Zenon DEF HandleVoteResponse, TypeOK, LoopTypeOK
  <2>. QED  BY <2>1, InVoteRound, Zenon DEF HandleVoteResponse, VoteResponse
<1>2. /\ phase' = phase /\ ballot' = ballot /\ appends' = appends
      /\ late_appends' = late_appends /\ commit_index' = commit_index
      /\ decided' = decided /\ resp # NoAnswer /\ vote_response'[n] = NoAnswer
      /\ \A m \in Node \ {n} : vote_response'[m] = vote_response[m]
  BY Zenon DEF HandleVoteResponse, network, TypeOK, LoopTypeOK
<1>3. \A m \in Node : vote_response'[m] \in {vote_response[m], NoAnswer}
  BY <1>2, Zenon
<1>4. NoNewMessage
  BY <1>2, CallsStay, Zenon
<1>5. resp.vote_granted => CountedBy(n) = votes
  BY <1>1, <1>2, ZenonT(20) DEF CountedBy, TypeOK, InnerTypeOK
<1>6. CASE resp.term > current_term[n] /\ StepDown(n, resp.term) /\ UNCHANGED <<log, elected>>
  <2>1. Receives
    BY <1>1, <1>6, StepDownReceives, Zenon
  <2>. QED  BY <1>2, <1>3, <1>4, <1>6, <2>1, ReceivesPolls, ReceivesQuiet, Zenon
<1>7. CASE /\ resp.vote_granted /\ election_state[n] # {} /\ HasQuorum(votes)
           /\ ~ballot[n].is_pre_vote /\ BecomeLeader(n, votes)
  <2>1. phase[n] = "vote"
    BY <1>1, <1>7, Zenon
  <2>2. Leads(n)
    BY <1>2, <1>5, <1>7, <2>1, Zenon DEF Leads
  <2>3. /\ election_state'[n] = {} /\ current_term' = current_term
        /\ \A m \in Node \ {n} : election_state'[m] = election_state[m]
    BY <1>7, Zenon DEF BecomeLeader, persistent, TypeOK, InnerTypeOK
  <2>4. \A m \in Node : CountedBy(m)' \subseteq CountedBy(m)
    BY <1>2, <2>3, Zenon DEF CountedBy
  <2>5. \A m \in Node : current_term'[m] >= current_term[m]
    BY <2>3 DEF TypeOK, InnerTypeOK, Term
  <2>6. Polls
    BY <1>2, <2>3, <2>4, <2>5, Zenon DEF Polls
  <2>. QED  BY <2>2, <2>6, Zenon
<1>8. CASE /\ resp.vote_granted /\ election_state[n] # {}
           /\ election_state' = [election_state EXCEPT ![n] = votes]
           /\ UNCHANGED <<persistent, log, role, leader_state, elected>>
  <2>1. Quiet
    BY <1>2, <1>4, <1>8, UnchangedQuiet, Zenon DEF persistent
  <2>2. /\ election_state'[n] = votes /\ current_term' = current_term
        /\ \A m \in Node \ {n} : election_state'[m] = election_state[m]
    BY <1>8, Zenon DEF persistent, TypeOK, InnerTypeOK
  <2>3. \A m \in Node : CountedBy(m)' \subseteq CountedBy(m)
    BY <1>2, <1>5, <1>8, <2>2 DEF CountedBy
  <2>4. \A m \in Node : current_term'[m] >= current_term[m]
    BY <2>2 DEF TypeOK, InnerTypeOK, Term
  <2>5. Polls
    BY <1>2, <1>8, <2>2, <2>3, <2>4, Zenon DEF Polls
  <2>. QED  BY <2>1, <2>5, Zenon
<1>9. CASE UNCHANGED <<persistent, log, volatile, elected>>
  <2>1. Quiet
    BY <1>2, <1>4, <1>9, UnchangedQuiet, Zenon DEF persistent, volatile
  <2>. QED  BY <1>2, <1>3, <1>9, <2>1, UnchangedPolls, Zenon DEF persistent, volatile
<1>. QED  BY <1>6, <1>7, <1>8, <1>9, Zenon DEF HandleVoteResponse

\* A response is no request, and an answer reports success only if the request was
\* accepted.
LEMMA AppendResponseToFacts ==
  ASSUME NEW p \in Node, NEW req
  PROVE  /\ AppendResponseTo(p, req).kind = "response"
         /\ Succeeded(AppendResponseTo(p, req)) =>
              req.term >= current_term[p] /\ PrevMatches(log[p], req)
BY Zenon DEF AppendResponseTo, Succeeded

\* handle_append_entries, called by a leader or by a late message: it stores the
\* request's entries or changes no log.
LEMMA AppendEntriesStep ==
  ASSUME TypeOK, NEW p \in Node, NEW r \in Requests, HandleAppendEntries(p, r),
         Requests' \subseteq Requests,
         \A n, q \in Node :
           \/ appends'[n][q] = appends[n][q]
           \/ q = p /\ appends[n][q] = r /\ appends'[n][q] = AppendResponseTo(p, r),
         UNCHANGED <<phase, ballot, vote_response, elected, decided>>
  PROVE  Polls /\ (Quiet \/ Stores(p, r))
<1>1. r \in AppendRequest
  BY RequestsType, Zenon
<1>2. Receives
  BY <1>1, HandleAppendEntriesReceives, Zenon
<1>3. Polls
  BY <1>2, ReceivesPolls, Zenon
<1>4. r.term \in Nat /\ current_term[p] \in Nat
  BY <1>1, Zenon DEF AppendRequest, TypeOK, InnerTypeOK, Term
<1>5. \A n, q \in Node : appends'[n][q].kind = "request" => appends'[n][q] = appends[n][q]
  BY AppendResponseToFacts, Zenon
<1>6. CASE ~(r.term >= current_term[p] /\ PrevMatches(log[p], r))
  <2>0. r.term < current_term[p] \/ ~PrevMatches(log[p], r)
    BY <1>4, <1>6, NatOrder, Zenon
  <2>1. UNCHANGED <<log, commit_index>>
    BY <2>0, Zenon DEF HandleAppendEntries
  <2>2. NoNewMessage
    BY <1>5, <1>6, AppendResponseToFacts, Zenon DEF NoNewMessage
  <2>. QED  BY <1>2, <1>3, <2>1, <2>2, ReceivesQuiet, Zenon
<1>7. CASE r.term >= current_term[p] /\ PrevMatches(log[p], r)
  <2>0. /\ ~(r.term < current_term[p])
        /\ ~(r.term > current_term[p]) => r.term = current_term[p]
    BY <1>4, <1>7, NatOrder, Zenon
  <2>1. /\ log' = [log EXCEPT ![p] = StoreEntries(log[p], r)]
        /\ commit_index' = [commit_index EXCEPT ![p] =
             FollowerCommit(@, r.leader_commit, Len(StoreEntries(log[p], r)))]
        /\ role' = [role EXCEPT ![p] = "Follower"]
    BY <1>7, <2>0, Zenon DEF HandleAppendEntries
  <2>2. current_term'[p] = r.term /\ \A q \in Node \ {p} : current_term'[q] = current_term[q]
    <3>1. \/ current_term' = [current_term EXCEPT ![p] = r.term]
          \/ current_term' = current_term /\ r.term = current_term[p]
      BY <2>0, Zenon DEF HandleAppendEntries, persistent
    <3>. QED  BY <3>1, Zenon DEF TypeOK, InnerTypeOK
  <2>3. \A q \in Node : role'[q] = "Leader" =>
          q # p /\ role[q] = "Leader" /\ leader_state'[q] = leader_state[q]
    BY <1>2, <2>1, Zenon DEF Receives, TypeOK, InnerTypeOK
  <2>4. AppendResponseTo(p, r).match_index = Len(log'[p])
    <3>1. log'[p] = StoreEntries(log[p], r)
      BY <2>1, Zenon DEF TypeOK, InnerTypeOK
    <3>2. AppendResponseTo(p, r).match_index = Len(StoreEntries(log[p], r))
      BY <1>7, <2>0, Zenon DEF AppendResponseTo
    <3>. QED  BY <3>1, <3>2, Zenon
  <2>5. Stores(p, r)
    BY <1>5, <1>7, <2>1, <2>2, <2>3, <2>4, ZenonT(20) DEF Stores
  <2>. QED  BY <1>3, <2>5, Zenon
<1>. QED  BY <1>6, <1>7, Zenon

\* handle_append_response.
LEMMA AppendResponseStep ==
  ASSUME TypeOK, NEW n \in Node, NEW p \in Node, HandleAppendResponse(n, p)
  PROVE  Polls /\ (Quiet \/ Advances(n, p))
<1>. DEFINE resp == appends[n][p]
<1>1. resp.kind = "response" /\ resp.term \in Term
  BY AppendsKind, Zenon DEF HandleAppendResponse, AppendResponse
<1>2. \A m, q \in Node : appends'[m][q] = appends[m][q] \/ appends'[m][q] = NoRpc
  BY Zenon DEF HandleAppendResponse, TypeOK, LoopTypeOK
<1>3. /\ UNCHANGED <<log, phase, ballot, vote_response, elected>>
      /\ late_appends' = late_appends
  BY Zenon DEF HandleAppendResponse, network
<1>4. NoNewMessage
  BY <1>2, <1>3, CallsEnd, Zenon
<1>5. CASE resp.term > current_term[n] /\ StepDown(n, resp.term)
           /\ UNCHANGED <<commit_index, decided>>
  <2>1. Receives
    BY <1>1, <1>5, StepDownReceives, Zenon
  <2>. QED  BY <1>3, <1>4, <1>5, <2>1, ReceivesPolls, ReceivesQuiet, Zenon
<1>6. CASE role[n] = "Leader" /\ AdvancePeer(n, p, resp)
           /\ UNCHANGED <<persistent, role, leader_id, election_state>>
  <2>1. Polls
    BY <1>3, <1>6, UnchangedPolls, Zenon DEF persistent
  <2>. QED  BY <1>1, <1>3, <1>4, <1>6, <2>1, Zenon DEF Advances, persistent
<1>7. CASE UNCHANGED <<persistent, volatile, commit_index, decided>>
  <2>1. Polls
    BY <1>3, <1>7, UnchangedPolls, Zenon DEF persistent, volatile
  <2>. QED  BY <1>3, <1>4, <1>7, <2>1, UnchangedQuiet, Zenon DEF persistent, volatile
<1>. QED  BY <1>5, <1>6, <1>7, Zenon DEF HandleAppendResponse

\* A crash and restart: the log stays, the rest of the node's volatile state goes.
LEMMA RestartStep ==
  ASSUME TypeOK, NEW n \in Node, Restart(n)
  PROVE  Polls /\ Quiet
<1>1. /\ role'[n] # "Leader" /\ phase'[n] # "vote" /\ commit_index'[n] = 0
      /\ \A m \in Node \ {n} :
           /\ role'[m] = role[m] /\ leader_state'[m] = leader_state[m]
           /\ commit_index'[m] = commit_index[m] /\ phase'[m] = phase[m]
           /\ ballot'[m] = ballot[m] /\ election_state'[m] = election_state[m]
           /\ vote_response'[m] = vote_response[m]
  BY Zenon DEF Restart, TypeOK, InnerTypeOK, LoopTypeOK
<1>2. \A m, q \in Node : appends'[m][q] = appends[m][q] \/ appends'[m][q] = NoRpc
  BY Zenon DEF Restart, TypeOK, LoopTypeOK
<1>3. UNCHANGED <<log, elected, decided, current_term, late_appends>>
  BY Zenon DEF Restart, persistent, network, history
<1>4. NoNewMessage
  BY <1>2, <1>3, CallsEnd, Zenon
<1>5. Quiet
  <2>1. spent'.crash = spent.crash + 1
    BY Zenon DEF Restart, TypeOK, RestTypeOK
  <2>. QED  BY <1>1, <1>3, <1>4, <2>1, Zenon DEF Quiet
<1>6. \A m \in Node : current_term'[m] >= current_term[m]
  BY <1>3 DEF TypeOK, InnerTypeOK, Term
<1>7. \A m \in Node \ {n} : CountedBy(m)' = CountedBy(m)
  BY <1>1, Zenon DEF CountedBy
<1>. QED  BY <1>1, <1>3, <1>5, <1>6, <1>7, Zenon DEF Polls

\* Every step of the system polls honestly and is of one of the six kinds.
LEMMA StepKinds ==
  TypeOK /\ LoopOK /\ [Next]_vars => Polls /\ StepKind
<1>. SUFFICES ASSUME TypeOK, LoopOK, [Next]_vars PROVE Polls /\ StepKind
  OBVIOUS
<1>1. ASSUME NEW n \in Node, StartPreVote(n) \/ StartElection(n) PROVE Polls /\ StepKind
  BY <1>1, StartStep, Zenon DEF StepKind
<1>2. ASSUME NEW n \in Node, CandidateTimeout(n) \/ VoteResponseLost(n) \/ EndVoteRound(n)
                               \/ EndAppendRound(n)
      PROVE  Polls /\ StepKind
  <2>1. /\ UNCHANGED <<persistent, volatile, log, commit_index, elected, decided, appends>>
        /\ late_appends' = late_appends
    BY <1>2, Zenon DEF CandidateTimeout, VoteResponseLost, EndVoteRound, EndAppendRound,
       network,
                history
  <2>2. /\ \A m \in Node : phase'[m] = "vote" => phase[m] = "vote" /\ ballot'[m] = ballot[m]
        /\ \A m \in Node : vote_response'[m] \in {vote_response[m], NoAnswer}
    BY <1>2, Zenon DEF CandidateTimeout, VoteResponseLost, EndVoteRound, EndAppendRound,
                TypeOK, LoopTypeOK
  <2>3. Polls
    BY <2>1, <2>2, UnchangedPolls, Zenon DEF persistent, volatile
  <2>4. Quiet
    BY <2>1, CallsStay, UnchangedQuiet, Zenon DEF persistent, volatile
  <2>. QED  BY <2>3, <2>4, Zenon DEF StepKind
<1>3. ASSUME NEW n \in Node, HandleVoteResponse(n) PROVE Polls /\ StepKind
  BY <1>3, VoteResponseStep, Zenon DEF StepKind
<1>4. ASSUME NEW n \in Node, SendAppendEntries(n) PROVE Polls /\ StepKind
  <2>1. /\ UNCHANGED <<current_term, election_state, ballot, vote_response>>
        /\ \A m \in Node : phase'[m] = "vote" => phase[m] = "vote"
    BY <1>4, Zenon DEF SendAppendEntries, persistent, volatile, TypeOK, LoopTypeOK
  <2>2. Polls
    BY <2>1, UnchangedPolls, Zenon
  <2>. QED  BY <1>4, <2>2, Zenon DEF StepKind
<1>5. ASSUME NEW n \in Node, NEW cmd \in Command, Propose(n, cmd) PROVE Polls /\ StepKind
  <2>1. Polls
    BY <1>5, UnchangedPolls, Zenon DEF Propose, persistent, loop
  <2>. QED  BY <1>5, <2>1, Zenon DEF StepKind
<1>6. ASSUME NEW n \in Node, Restart(n) PROVE Polls /\ StepKind
  BY <1>6, RestartStep, Zenon DEF StepKind
<1>7. ASSUME NEW n \in Node, NEW p \in Node, DeliverVoteRequest(n, p) PROVE Polls /\ StepKind
  BY <1>7, DeliverVoteStep, Zenon DEF StepKind
<1>8. ASSUME NEW n \in Node, NEW p \in Node, VoteRequestFails(n, p) PROVE Polls /\ StepKind
  <2>1. /\ UNCHANGED <<persistent, volatile, log, commit_index, elected, decided, appends>>
        /\ UNCHANGED <<phase, ballot, vote_response, late_appends>>
    BY <1>8, Zenon DEF VoteRequestFails, history
  <2>2. Polls
    BY <2>1, UnchangedPolls, Zenon DEF persistent, volatile
  <2>3. Quiet
    BY <2>1, CallsStay, UnchangedQuiet, Zenon DEF persistent, volatile
  <2>. QED  BY <2>2, <2>3, Zenon DEF StepKind
<1>9. ASSUME NEW n \in Node, NEW p \in Node, DeliverAppendEntries(n, p)
      PROVE  Polls /\ StepKind
  <2>. DEFINE r == appends[n][p]
  <2>1. r \in Requests /\ HandleAppendEntries(p, r)
    BY <1>9 DEF DeliverAppendEntries, Requests
  <2>2. \A m, q \in Node :
           \/ appends'[m][q] = appends[m][q]
           \/ q = p /\ appends[m][q] = r /\ appends'[m][q] = AppendResponseTo(p, r)
    BY <1>9, Zenon DEF DeliverAppendEntries, TypeOK, LoopTypeOK
  <2>3. UNCHANGED <<phase, ballot, vote_response, elected, decided, late_appends>>
    BY <1>9, Zenon DEF DeliverAppendEntries, network, history
  <2>4. Requests' \subseteq Requests
    BY <2>2, <2>3, AppendResponseToFacts, RequestsShrink, Zenon
  <2>. HIDE DEF r
  <2>5. Polls /\ (Quiet \/ Stores(p, r))
    BY <2>1, <2>2, <2>3, <2>4, AppendEntriesStep, Zenon
  <2>. QED  BY <2>1, <2>5, Zenon DEF StepKind
<1>10. ASSUME NEW n \in Node, NEW p \in Node, HandleAppendResponse(n, p)
       PROVE  Polls /\ StepKind
  BY <1>10, AppendResponseStep, Zenon DEF StepKind
<1>11. ASSUME NEW n \in Node, NEW p \in Node, AppendEntriesFails(n, p) PROVE Polls /\ StepKind
  <2>1. /\ UNCHANGED <<persistent, volatile, log, commit_index, elected, decided>>
        /\ UNCHANGED <<phase, ballot, vote_response>>
    BY <1>11, Zenon DEF AppendEntriesFails, history
  <2>2. \A m, q \in Node : appends'[m][q] = appends[m][q] \/ appends'[m][q] = NoRpc
    BY <1>11, Zenon DEF AppendEntriesFails, TypeOK, LoopTypeOK
  <2>3. \A m \in late_appends' : m \in late_appends \/ m.request \in Requests
    BY <1>11 DEF AppendEntriesFails, Requests
  <2>4. NoRpc.kind # "request" /\ ~Succeeded(NoRpc)
    BY Zenon DEF NoRpc, Succeeded
  <2>5. \A m, q \in Node : appends'[m][q].kind = "request" \/ Succeeded(appends'[m][q]) =>
          appends'[m][q] = appends[m][q]
    BY <2>2, <2>4, Zenon
  <2>6. NoNewMessage
    BY <2>3, <2>5, RequestsShrink, Zenon DEF NoNewMessage
  <2>7. Polls
    BY <2>1, UnchangedPolls, Zenon DEF persistent, volatile
  <2>8. Quiet
    BY <2>1, <2>6, UnchangedQuiet, Zenon DEF persistent, volatile
  <2>. QED  BY <2>7, <2>8, Zenon DEF StepKind
<1>12. ASSUME NEW m \in late_votes, DeliverLateVote(m) PROVE Polls /\ StepKind
  <2>1. m.to \in Node /\ m.request \in VoteRequest
    BY Zenon DEF TypeOK, RestTypeOK
  <2>2. Receives
    BY <1>12, <2>1, HandleVoteRequestReceives, Zenon DEF DeliverLateVote
  <2>3. Polls
    BY <1>12, <2>2, ReceivesPolls, Zenon DEF DeliverLateVote, loop
  <2>4. Quiet
    BY <1>12, <2>2, CallsStay, ReceivesQuiet, Zenon
    DEF DeliverLateVote, HandleVoteRequest, loop, history
  <2>. QED  BY <2>3, <2>4, Zenon DEF StepKind
<1>13. ASSUME NEW m \in late_appends, DeliverLateAppend(m) PROVE Polls /\ StepKind
  <2>1. m.to \in Node /\ m.request \in Requests
    BY DEF TypeOK, RestTypeOK, Requests
  <2>2. /\ UNCHANGED <<phase, ballot, vote_response, elected, decided, appends>>
        /\ late_appends' \subseteq late_appends /\ HandleAppendEntries(m.to, m.request)
    BY <1>13, Zenon DEF DeliverLateAppend, loop, history
  <2>3. Requests' \subseteq Requests
    BY <2>2, RequestsShrink, Zenon
  <2>4. Polls /\ (Quiet \/ Stores(m.to, m.request))
    BY <2>1, <2>2, <2>3, AppendEntriesStep, Zenon
  <2>. QED  BY <2>1, <2>4, Zenon DEF StepKind
<1>14. CASE UNCHANGED vars
  <2>1. Polls
    BY <1>14, UnchangedPolls, Zenon DEF vars
  <2>2. Quiet
    BY <1>14, CallsStay, UnchangedQuiet, Zenon DEF vars
  <2>. QED  BY <2>1, <2>2, Zenon DEF StepKind
<1>. QED
  BY <1>1, <1>2, <1>3, <1>4, <1>5, <1>6, <1>7, <1>8, <1>9, <1>10, <1>11, <1>12,
     <1>13, <1>14, Zenon DEF Next

-----------------------------------------------------------------------------
(* Whom the nodes follow.                                                  *)

\* A node that no request reaches keeps its leader id with its term or forgets it,
\* and leads on in its term unless it crashes.
Keeps(q) ==
  /\ \/ leader_id'[q] = None
     \/ leader_id'[q] = leader_id[q] /\ current_term'[q] = current_term[q]
  /\ role[q] = "Leader" => \/ role'[q] = "Leader"
                           \/ current_term'[q] # current_term[q]
                           \/ spent'.crash # spent.crash

\* When all nodes do so nobody follows anyone new.
LEMMA KeepsHeeds ==
  ASSUME \A q \in Node : Keeps(q), elected' = elected, late_appends' \subseteq late_appends
  PROVE  Heeds
BY Zenon DEF Keeps, Heeds

\* As in a step that touches none of it.
LEMMA UnchangedHeeds ==
  ASSUME UNCHANGED <<role, leader_id, current_term, elected>>,
         late_appends' \subseteq late_appends
  PROVE  Heeds
BY Zenon DEF Heeds

\* In step_down_inner for a higher term the node forgets its leader.
LEMMA StepDownHeeds ==
  ASSUME TypeOK, NEW n \in Node, NEW t \in Term, t > current_term[n], StepDown(n, t),
         elected' = elected, late_appends' \subseteq late_appends
  PROVE  Heeds
<1>1. /\ leader_id'[n] = None /\ current_term'[n] # current_term[n]
      /\ \A q \in Node \ {n} : /\ leader_id'[q] = leader_id[q] /\ role'[q] = role[q]
                               /\ current_term'[q] = current_term[q]
  BY DEF StepDown, TypeOK, InnerTypeOK, Term
<1>. QED  BY <1>1, KeepsHeeds, Zenon DEF Keeps

\* As it does in handle_vote_request, for a higher term.
LEMMA VoteRequestHeeds ==
  ASSUME TypeOK, NEW p \in Node, NEW req \in VoteRequest, HandleVoteRequest(p, req),
         elected' = elected, late_appends' \subseteq late_appends
  PROVE  Heeds
<1>1. CASE ~req.is_pre_vote /\ req.term > current_term[p]
  <2>1. /\ current_term' = [current_term EXCEPT ![p] = req.term]
        /\ role' = [role EXCEPT ![p] = "Follower"]
        /\ leader_id' = [leader_id EXCEPT ![p] = None]
    BY <1>1, Zenon DEF HandleVoteRequest
  <2>2. req.term # current_term[p]
    BY <1>1 DEF VoteRequest, Term, TypeOK, InnerTypeOK
  <2>3. /\ leader_id'[p] = None /\ current_term'[p] # current_term[p]
        /\ \A q \in Node \ {p} : /\ leader_id'[q] = leader_id[q] /\ role'[q] = role[q]
                                 /\ current_term'[q] = current_term[q]
    BY <2>1, <2>2, Zenon DEF TypeOK, InnerTypeOK
  <2>. QED  BY <2>3, KeepsHeeds, Zenon DEF Keeps
<1>2. CASE ~(~req.is_pre_vote /\ req.term > current_term[p])
  BY <1>2, UnchangedHeeds, Zenon DEF HandleVoteRequest, volatile
<1>. QED  BY <1>1, <1>2, Zenon

\* handle_append_entries records the sender of a request in the node's inbox.
LEMMA AppendEntriesHeeds ==
  ASSUME TypeOK, NEW p \in Node, NEW r \in Inbox(p), r \in AppendRequest,
         HandleAppendEntries(p, r), elected' = elected, late_appends' \subseteq late_appends
  PROVE  Heeds
<1>1. r.term \in Nat /\ current_term[p] \in Nat
  BY Zenon DEF AppendRequest, Term, TypeOK, InnerTypeOK
<1>2. CASE r.term < current_term[p]
  BY <1>2, UnchangedHeeds, Zenon DEF HandleAppendEntries, persistent, volatile
<1>3. CASE ~(r.term < current_term[p])
  <2>1. /\ leader_id' = [leader_id EXCEPT ![p] = r.leader_id]
        /\ role' = [role EXCEPT ![p] = "Follower"]
        /\ \/ current_term' = [current_term EXCEPT ![p] = r.term]
           \/ current_term' = current_term /\ ~(r.term > current_term[p])
    BY <1>3, Zenon DEF HandleAppendEntries, persistent
  <2>2. leader_id'[p] = r.leader_id /\ current_term'[p] = r.term
    BY <1>1, <1>3, <2>1 DEF TypeOK, InnerTypeOK
  <2>3. \A q \in Node \ {p} : /\ leader_id'[q] = leader_id[q] /\ role'[q] = role[q]
                              /\ current_term'[q] = current_term[q]
    BY <2>1, Zenon DEF TypeOK, InnerTypeOK
  <2>4. \A m \in late_appends' : m \in late_appends
    OBVIOUS
  <2>. QED  BY <2>2, <2>3, <2>4, Zenon DEF Heeds
<1>. QED  BY <1>2, <1>3, Zenon

\* Every step of the system follows nobody but leaders.
LEMMA HeedsNext == TypeOK /\ LoopOK /\ [Next]_vars => Heeds
<1>. SUFFICES ASSUME TypeOK, LoopOK, [Next]_vars PROVE Heeds
  OBVIOUS
<1>1. ASSUME NEW n \in Node, CandidateTimeout(n) \/ VoteResponseLost(n) \/ EndVoteRound(n)
               \/ SendAppendEntries(n) \/ EndAppendRound(n)
               \/ \E cmd \in Command : Propose(n, cmd)
      PROVE  Heeds
  <2>1. UNCHANGED <<role, leader_id, current_term, elected, late_appends>>
    BY <1>1, ZenonT(30)
    DEF CandidateTimeout, VoteResponseLost, EndVoteRound, SendAppendEntries,
        EndAppendRound, Propose, persistent, volatile, network, history
  <2>. QED  BY <2>1, UnchangedHeeds, Zenon
<1>2. ASSUME NEW n \in Node, StartPreVote(n) \/ StartElection(n) \/ Restart(n) PROVE Heeds
  <2>1. UNCHANGED <<elected, late_appends>>
    BY <1>2, ZenonT(30) DEF StartPreVote, StartElection, Restart, network, history
  <2>2. \A q \in Node : Keeps(q)
    <3>1. CASE StartPreVote(n)
      BY <3>1, Zenon DEF StartPreVote, Keeps, persistent, TypeOK, InnerTypeOK
    <3>2. CASE StartElection(n)
      <4>1. /\ leader_id'[n] = None /\ current_term'[n] # current_term[n]
            /\ \A q \in Node \ {n} : /\ leader_id'[q] = leader_id[q] /\ role'[q] = role[q]
                                     /\ current_term'[q] = current_term[q]
        BY <3>2 DEF StartElection, TypeOK, InnerTypeOK, Term
      <4>. QED  BY <4>1, Zenon DEF Keeps
    <3>3. CASE Restart(n)
      <4>1. spent'.crash # spent.crash
        BY <3>3 DEF Restart, TypeOK, RestTypeOK
      <4>2. /\ leader_id'[n] = None /\ current_term' = current_term
            /\ \A q \in Node \ {n} : leader_id'[q] = leader_id[q]
        BY <3>3, Zenon DEF Restart, persistent, TypeOK, InnerTypeOK
      <4>. QED  BY <4>1, <4>2, Zenon DEF Keeps
    <3>. QED  BY <1>2, <3>1, <3>2, <3>3, Zenon
  <2>. QED  BY <2>1, <2>2, KeepsHeeds, Zenon
<1>3. ASSUME NEW n \in Node, HandleVoteResponse(n) PROVE Heeds
  <2>1. vote_response[n] \in VoteResponse
    BY <1>3, Zenon DEF HandleVoteResponse, TypeOK, LoopTypeOK
  <2>2. vote_response[n].term \in Term /\ late_appends' = late_appends
    BY <1>3, <2>1, Zenon DEF VoteResponse, HandleVoteResponse, network
  <2>3. CASE BecomeLeader(n, election_state[n] \cup {vote_response[n].from})
    <3>. DEFINE e == [node |-> n, term |-> current_term[n],
                      votes |-> election_state[n] \cup {vote_response[n].from}]
    <3>1. /\ elected' = elected \cup {e} /\ current_term' = current_term
          /\ leader_id'[n] = n /\ role'[n] = "Leader"
          /\ \A m \in Node \ {n} : leader_id'[m] = leader_id[m] /\ role'[m] = role[m]
      BY <2>3, Zenon DEF BecomeLeader, persistent, TypeOK, InnerTypeOK
    <3>2. e.node = n /\ e.term = current_term[n]
      BY Zenon
    <3>. HIDE DEF e
    <3>. QED  BY <2>2, <3>1, <3>2, Zenon DEF Heeds
  <2>4. CASE /\ vote_response[n].term > current_term[n] /\ elected' = elected
             /\ StepDown(n, vote_response[n].term)
    BY <2>2, <2>4, StepDownHeeds, Zenon
  <2>5. CASE UNCHANGED <<persistent, role, leader_id, elected>>
    BY <2>2, <2>5, UnchangedHeeds, Zenon DEF persistent
  <2>. QED  BY <1>3, <2>3, <2>4, <2>5, Zenon DEF HandleVoteResponse, volatile
<1>4. ASSUME NEW n \in Node, NEW p \in Node, DeliverVoteRequest(n, p) PROVE Heeds
  BY <1>4, InVoteRound, VoteRequestHeeds, Zenon DEF DeliverVoteRequest, network, history
<1>5. ASSUME NEW n \in Node, NEW p \in Node, VoteRequestFails(n, p) PROVE Heeds
  BY <1>5, UnchangedHeeds, Zenon DEF VoteRequestFails, persistent, volatile, history
<1>6. ASSUME NEW n \in Node, NEW p \in Node, DeliverAppendEntries(n, p) PROVE Heeds
  <2>1. appends[n][p] \in AppendRequest /\ appends[n][p] \in Inbox(p)
    BY <1>6, AppendsKind, Zenon DEF DeliverAppendEntries, Inbox
  <2>. QED  BY <1>6, <2>1, AppendEntriesHeeds, Zenon DEF DeliverAppendEntries, network, history
<1>7. ASSUME NEW n \in Node, NEW p \in Node, HandleAppendResponse(n, p) PROVE Heeds
  <2>1. appends[n][p].term \in Term
    BY <1>7, AppendsKind, Zenon DEF HandleAppendResponse, AppendResponse
  <2>2. UNCHANGED <<elected, late_appends>>
    BY <1>7, Zenon DEF HandleAppendResponse, network
  <2>3. CASE appends[n][p].term > current_term[n] /\ StepDown(n, appends[n][p].term)
    BY <2>1, <2>2, <2>3, StepDownHeeds, Zenon
  <2>4. CASE UNCHANGED <<persistent, role, leader_id>>
    BY <2>2, <2>4, UnchangedHeeds, Zenon DEF persistent
  <2>. QED  BY <1>7, <2>3, <2>4, Zenon DEF HandleAppendResponse, volatile
<1>8. ASSUME NEW n \in Node, NEW p \in Node, AppendEntriesFails(n, p) PROVE Heeds
  <2>1. UNCHANGED <<role, leader_id, current_term, elected>>
    BY <1>8, Zenon DEF AppendEntriesFails, persistent, volatile, history
  <2>2. \A m \in late_appends' : m \in late_appends \/
          (appends[n][p].kind = "request" /\ m = [to |-> p, request |-> appends[n][p]])
    BY <1>8, Zenon DEF AppendEntriesFails
  <2>. QED  BY <2>1, <2>2, Zenon DEF Heeds
<1>9. ASSUME NEW m \in late_votes, DeliverLateVote(m) PROVE Heeds
  <2>1. m.to \in Node /\ m.request \in VoteRequest
    BY Zenon DEF TypeOK, RestTypeOK
  <2>. QED  BY <1>9, <2>1, VoteRequestHeeds, Zenon DEF DeliverLateVote, history
<1>10. ASSUME NEW m \in late_appends, DeliverLateAppend(m) PROVE Heeds
  <2>1. m.to \in Node /\ m.request \in AppendRequest /\ m.request \in Inbox(m.to)
    BY Zenon DEF TypeOK, RestTypeOK, Inbox
  <2>. QED  BY <1>10, <2>1, AppendEntriesHeeds, Zenon DEF DeliverLateAppend, history
<1>11. CASE UNCHANGED vars
  BY <1>11, UnchangedHeeds, Zenon DEF vars
<1>. QED
  BY <1>1, <1>2, <1>3, <1>4, <1>5, <1>6, <1>7, <1>8, <1>9, <1>10, <1>11, Zenon DEF Next

-----------------------------------------------------------------------------
(* Leaders and what they send.                                             *)

\* The term and the sender of what create_append_requests builds.
LEMMA AppendRequestForFields ==
  ASSUME NEW n \in Node, NEW p \in Node
  PROVE  AppendRequestFor(n, p).term = current_term[n] /\ AppendRequestFor(n, p).leader_id = n
BY Zenon DEF AppendRequestFor

\* A leader has been one in its term or has just won it, and a request that a call
\* carries was there or has just been made.
LEMMA KindsLead ==
  ASSUME TypeOK, StepKind, NEW n \in Node
  PROVE  /\ role'[n] = "Leader" =>
              \/ role[n] = "Leader" /\ current_term'[n] = current_term[n]
              \/ \E e \in elected' : e.node = n /\ e.term = current_term'[n]
         /\ \A p \in Node : appends'[n][p].kind = "request" =>
              \/ appends'[n][p] = appends[n][p]
              \/ role[n] = "Leader" /\ appends'[n][p] = AppendRequestFor(n, p)
<1>1. CASE Quiet
  BY <1>1, Zenon DEF Quiet, NoNewMessage
<1>2. ASSUME NEW m \in Node, Leads(m)
      PROVE  /\ role'[n] = "Leader" =>
                  \/ role[n] = "Leader" /\ current_term'[n] = current_term[n]
                  \/ \E e \in elected' : e.node = n /\ e.term = current_term'[n]
             /\ appends' = appends
  <2>. DEFINE e == [node |-> m, term |-> current_term[m], votes |-> CountedBy(m)]
  <2>1. /\ appends' = appends /\ current_term' = current_term /\ e \in elected'
        /\ \A q \in Node \ {m} : role'[q] = role[q]
    BY <1>2, Zenon DEF Leads, BecomeLeader, persistent, TypeOK, InnerTypeOK
  <2>2. e.node = m /\ e.term = current_term[m]
    OBVIOUS
  <2>. HIDE DEF e
  <2>. QED  BY <2>1, <2>2, Zenon
<1>3. ASSUME NEW m \in Node, SendAppendEntries(m)
      PROVE  /\ role' = role /\ current_term' = current_term /\ role[m] = "Leader"
             /\ n # m => appends'[n] = appends[n]
             /\ \A p \in Node : appends'[m][p] = NoRpc \/ appends'[m][p] = AppendRequestFor(m, p)
  BY <1>3, Zenon DEF SendAppendEntries, persistent, volatile, TypeOK, LoopTypeOK
<1>4. NoRpc.kind # "request"
  BY NoRpcKind, Zenon
<1>5. ASSUME NEW m \in Node, NEW cmd \in Command, Propose(m, cmd)
      PROVE  UNCHANGED <<role, current_term, appends>>
  BY <1>5, Zenon DEF Propose, persistent, loop
<1>6. ASSUME NEW m \in Node, NEW p \in Node, Advances(m, p)
      PROVE  /\ UNCHANGED <<role, current_term>>
             /\ \A q \in Node : appends'[n][q].kind = "request" => appends'[n][q] = appends[n][q]
  BY <1>6, Zenon DEF Advances, NoNewMessage
<1>7. ASSUME NEW p \in Node, NEW r \in Requests, Stores(p, r)
      PROVE  /\ role'[n] = "Leader" => role[n] = "Leader" /\ current_term'[n] = current_term[n]
             /\ \A q \in Node : appends'[n][q].kind = "request" => appends'[n][q] = appends[n][q]
  BY <1>7, Zenon DEF Stores
<1>. QED  BY <1>1, <1>2, <1>3, <1>4, <1>5, <1>6, <1>7, Zenon DEF StepKind

\* A step keeps RequestsFromElected: a request that goes astray is the one its
\* sender made for another node.
LEMMA RequestsNext ==
  ASSUME TypeOK, LoopOK, RequestsFromElected, Heeds, StepKind
  PROVE  RequestsFromElected'
<1>0. elected \subseteq elected'
  BY Zenon DEF Heeds
<1>1. \A n \in Node : role'[n] = "Leader" => Elected(n, current_term[n])'
  <2>. SUFFICES ASSUME NEW n \in Node, role'[n] = "Leader"
                PROVE  \E e \in elected' : e.node = n /\ e.term = current_term'[n]
    BY Zenon DEF Elected
  <2>1. CASE role[n] = "Leader" /\ current_term'[n] = current_term[n]
    <3>1. Elected(n, current_term[n])
      BY <2>1, Zenon DEF RequestsFromElected
    <3>. QED  BY <1>0, <2>1, <3>1, Zenon DEF Elected
  <2>. QED  BY <2>1, KindsLead, Zenon
<1>2. \A n, p \in Node : appends'[n][p].kind = "request" =>
        appends'[n][p].leader_id = n /\ Elected(n, appends[n][p].term)'
  <2>. SUFFICES ASSUME NEW n \in Node, NEW p \in Node, appends'[n][p].kind = "request"
                PROVE  appends'[n][p].leader_id = n /\ Elected(n, appends[n][p].term)'
    OBVIOUS
  <2>1. CASE appends'[n][p] = appends[n][p]
    <3>1. appends'[n][p].leader_id = n
      BY <2>1 DEF RequestsFromElected
    <3>2. \E e \in elected' : e.node = n /\ e.term = appends'[n][p].term
      <4>1. Elected(n, appends'[n][p].term)
        BY <2>1, Zenon DEF RequestsFromElected
      <4>. QED  BY <1>0, <4>1, Zenon DEF Elected
    <3>. QED  BY <3>1, <3>2, Zenon DEF Elected
  <2>2. CASE role[n] = "Leader" /\ appends'[n][p] = AppendRequestFor(n, p)
    <3>1. appends'[n][p].leader_id = n /\ appends'[n][p].term = current_term[n]
      BY <2>2, AppendRequestForFields
    <3>2. \E e \in elected' : e.node = n /\ e.term = current_term[n]
      <4>1. Elected(n, current_term[n])
        BY <2>2, Zenon DEF RequestsFromElected
      <4>. QED  BY <1>0, <4>1, Zenon DEF Elected
    <3>. QED  BY <3>1, <3>2, Zenon DEF Elected
  <2>. QED  BY <2>1, <2>2, KindsLead, Zenon
<1>3. \A m \in late_appends' : /\ m.to # m.request.leader_id
                               /\ Elected(m.request.leader_id, m.request.term)
  <2>. SUFFICES ASSUME NEW m \in late_appends'
                PROVE  /\ m.to # m.request.leader_id
                       /\ Elected(m.request.leader_id, m.request.term)
    OBVIOUS
  <2>1. CASE m \in late_appends
    BY <2>1, Zenon DEF RequestsFromElected
  <2>2. ASSUME NEW n \in Node, NEW p \in Node, appends[n][p].kind = "request",
               m = [to |-> p, request |-> appends[n][p]]
        PROVE  /\ m.to # m.request.leader_id
               /\ Elected(m.request.leader_id, m.request.term)
    <3>1. m.to = p /\ m.request = appends[n][p]
      BY <2>2, Zenon
    <3>2. p # n
      BY <2>2, NoRpcKind, Zenon DEF LoopOK
    <3>3. appends[n][p].leader_id = n /\ Elected(n, appends[n][p].term)
      BY <2>2, Zenon DEF RequestsFromElected
    <3>. QED  BY <3>1, <3>2, <3>3, Zenon
  <2>. QED  BY <2>1, <2>2, Zenon DEF Heeds
<1>4. \A m \in late_appends' : /\ m.to # m.request.leader_id
                               /\ Elected(m.request.leader_id, m.request.term)'
  BY <1>0, <1>3, Zenon DEF Elected
<1>. QED  BY <1>1, <1>2, <1>4, Zenon DEF RequestsFromElected

\* Requests that are on their way to q come from the elected node of their term.
LEMMA InboxFromElected ==
  ASSUME LoopOK, RequestsFromElected, NEW q \in Node, NEW r \in Inbox(q)
  PROVE  Elected(r.leader_id, r.term) /\ r.leader_id # q
<1>1. CASE \E n \in Node : r = appends[n][q] /\ r.kind = "request"
  <2>1. PICK n \in Node : r = appends[n][q] /\ r.kind = "request"
    BY <1>1, Zenon
  <2>2. n # q
    BY <2>1, NoRpcKind, Zenon DEF LoopOK
  <2>. QED  BY <2>1, <2>2, Zenon DEF RequestsFromElected
<1>2. CASE \E m \in late_appends : m.to = q /\ r = m.request
  BY <1>2, Zenon DEF RequestsFromElected
<1>. QED  BY <1>1, <1>2, Zenon DEF Inbox

\* A step keeps LeaderIdIsElected: handle_append_entries takes its leader from a
\* request, become_leader_inner from the election it has won.
LEMMA LeaderIdNext ==
  ASSUME LoopOK, RequestsFromElected, LeaderIdIsElected, Heeds
  PROVE  LeaderIdIsElected'
<1>. SUFFICES ASSUME NEW q \in Node, leader_id'[q] # None
              PROVE  \E e \in elected' : e.node = leader_id'[q] /\ e.term = current_term'[q]
  BY Zenon DEF LeaderIdIsElected, Elected
<1>1. elected \subseteq elected'
  BY Zenon DEF Heeds
<1>2. CASE leader_id'[q] = leader_id[q] /\ current_term'[q] = current_term[q]
  BY <1>1, <1>2, Zenon DEF LeaderIdIsElected, Elected
<1>3. CASE \E r \in Inbox(q) : leader_id'[q] = r.leader_id /\ current_term'[q] = r.term
  <2>1. PICK r \in Inbox(q) : leader_id'[q] = r.leader_id /\ current_term'[q] = r.term
    BY <1>3, Zenon
  <2>2. Elected(r.leader_id, r.term)
    BY InboxFromElected, Zenon
  <2>. QED  BY <1>1, <2>1, <2>2, Zenon DEF Elected
<1>. QED  BY <1>2, <1>3 DEF Heeds

\* Within its term only a crash stops a leader: a request of its term in its inbox
\* would come from another node elected in that term.
LEMMA LeadsOn ==
  ASSUME LoopOK, ElectionSafety, RequestsFromElected, Heeds, NEW q \in Node,
         role[q] = "Leader", current_term'[q] = current_term[q], spent'.crash = spent.crash
  PROVE  role'[q] = "Leader"
<1>1. ASSUME NEW r \in Inbox(q), r.term = current_term[q] PROVE FALSE
  <2>1. Elected(r.leader_id, current_term[q]) /\ r.leader_id # q
    BY <1>1, InboxFromElected, Zenon
  <2>2. Elected(q, current_term[q])
    BY Zenon DEF RequestsFromElected
  <2>. QED  BY <2>1, <2>2, Zenon DEF Elected, ElectionSafety
<1>. QED  BY <1>1, Zenon DEF Heeds

\* A longer or equal log holds what the log held.
LEMMA LongerLog ==
  ASSUME NEW s \in Seq(Entry), NEW t \in Seq(Entry), Len(s) <= Len(t),
         \A i \in 1..Len(s) : t[i] = s[i]
  PROVE  SubSeq(t, 1, Len(s)) = s
OBVIOUS

\* The log of a leader that leads on only grows.
LEMMA StaysLeaderNext ==
  ASSUME TypeOK, TypeOK', LoopOK, ElectionSafety, RequestsFromElected, Heeds, StepKind,
         NEW q \in Node
  PROVE  StaysLeader(q)
<1>. SUFFICES ASSUME role[q] = "Leader", current_term'[q] = current_term[q],
                     spent'.crash = spent.crash
              PROVE  /\ role'[q] = "Leader" /\ Len(log'[q]) >= Len(log[q])
                     /\ SubSeq(log'[q], 1, Len(log[q])) = log[q]
  BY Zenon DEF StaysLeader
<1>1. role'[q] = "Leader"
  BY LeadsOn, Zenon
<1>2. log[q] \in Seq(Entry) /\ log'[q] \in Seq(Entry)
  BY Zenon DEF TypeOK, InnerTypeOK
<1>3. log'[q] = log[q] \/ \E e \in Entry : log'[q] = Append(log[q], e)
  <2>1. CASE Quiet
    BY <2>1, Zenon DEF Quiet
  <2>2. ASSUME NEW n \in Node, SendAppendEntries(n) PROVE log' = log
    BY <2>2, Zenon DEF SendAppendEntries
  <2>3. ASSUME NEW n \in Node, NEW p \in Node, Advances(n, p) PROVE log' = log
    BY <2>3, Zenon DEF Advances
  <2>4. ASSUME NEW n \in Node, NEW e \in Entry, log' = [log EXCEPT ![n] = Append(@, e)]
        PROVE  log'[q] = log[q] \/ log'[q] = Append(log[q], e)
    BY <2>4, Zenon DEF TypeOK, InnerTypeOK
  <2>5. ASSUME NEW n \in Node, NEW d \in Command \cup {Noop},
               log' = [log EXCEPT ![n] = Append(@, [term |-> current_term[n], data |-> d])]
        PROVE  log'[q] = log[q] \/ \E e \in Entry : log'[q] = Append(log[q], e)
    <3>1. [term |-> current_term[n], data |-> d] \in Entry
      BY Zenon DEF Entry, TypeOK, InnerTypeOK
    <3>. QED  BY <2>4, <2>5, <3>1, Zenon
  <2>6. ASSUME NEW n \in Node, Leads(n)
        PROVE  log'[q] = log[q] \/ \E e \in Entry : log'[q] = Append(log[q], e)
    <3>1. log' = [log EXCEPT ![n] = Append(@, [term |-> current_term[n], data |-> Noop])]
      BY <2>6, Zenon DEF Leads, BecomeLeader
    <3>. QED  BY <2>5, <3>1, Zenon
  <2>7. ASSUME NEW n \in Node, NEW cmd \in Command, Propose(n, cmd)
        PROVE  log'[q] = log[q] \/ \E e \in Entry : log'[q] = Append(log[q], e)
    <3>1. log' = [log EXCEPT ![n] = Append(@, [term |-> current_term[n], data |-> cmd])]
      BY <2>7, Zenon DEF Propose
    <3>. QED  BY <2>5, <3>1, Zenon
  <2>8. ASSUME NEW p \in Node, NEW r \in Requests, Stores(p, r) PROVE log'[q] = log[q]
    BY <1>1, <2>8, Zenon DEF Stores, TypeOK, InnerTypeOK
  <2>. QED  BY <2>1, <2>2, <2>3, <2>6, <2>7, <2>8, Zenon DEF StepKind
<1>4. /\ Len(log'[q]) >= Len(log[q]) /\ Len(log[q]) <= Len(log'[q])
      /\ \A i \in 1..Len(log[q]) : log'[q][i] = log[q][i]
  BY <1>2, <1>3, AppendToLog
<1>5. SubSeq(log'[q], 1, Len(log[q])) = log[q]
  BY <1>2, <1>4, LongerLog, Zenon
<1>. QED  BY <1>1, <1>4, <1>5, Zenon

\* At first nobody leads, sends requests or knows a leader.
LEMMA LeadersInit == Init => RequestsFromElected /\ LeaderIdIsElected
<1>1. ASSUME Init PROVE RequestsFromElected
  BY <1>1, NoRpcKind, Zenon DEF Init, RequestsFromElected
<1>2. ASSUME Init PROVE LeaderIdIsElected
  BY <1>2, Zenon DEF Init, LeaderIdIsElected
<1>. QED  BY <1>1, <1>2, Zenon


-----------------------------------------------------------------------------
(* Steps that do not extend the ledger.                                    *)

\* Nobody wins a term again: elections are of new terms.
LEMMA ElectionsStep ==
  ASSUME TypeOK, TypeOK', ElectionsOK, Polls,
         elected' = elected \/ \E n \in Node : Leads(n)
  PROVE  ElectionsOK'
<1>0. \A q \in Node : /\ current_term[q] \in Nat /\ current_term'[q] \in Nat
                      /\ current_term'[q] >= current_term[q]
  BY Zenon DEF TypeOK, InnerTypeOK, Term, Polls
<1>1. \A e \in elected : e.node \in Node /\ e.term \in Nat
  BY Zenon DEF TypeOK, RestTypeOK, Term
<1>2. \A e \in elected : e.term <= current_term'[e.node]
  BY <1>0, <1>1 DEF ElectionsOK
<1>3. \A q \in Node : phase'[q] = "vote" /\ election_state'[q] # {} =>
        \A e \in elected : ~(e.node = q /\ e.term = current_term'[q])
  <2>. SUFFICES ASSUME NEW q \in Node, phase'[q] = "vote", election_state'[q] # {},
                       NEW e \in elected, e.node = q, e.term = current_term'[q]
                PROVE  FALSE
    OBVIOUS
  <2>1. current_term'[q] <= current_term[q]
    BY Zenon DEF ElectionsOK
  <2>2. /\ phase[q] = "vote" /\ election_state[q] # {} /\ current_term'[q] = current_term[q]
    BY <1>0, <2>1 DEF Polls
  <2>. QED  BY <2>2, Zenon DEF ElectionsOK, Elected
<1>4. CASE elected' = elected
  BY <1>2, <1>3, <1>4, Zenon DEF ElectionsOK, Elected
<1>5. ASSUME NEW n \in Node, Leads(n) PROVE ElectionsOK'
  <2>. DEFINE e0 == [node |-> n, term |-> current_term[n], votes |-> CountedBy(n)]
  <2>1. /\ elected' = elected \cup {e0} /\ current_term' = current_term
        /\ election_state'[n] = {}
    <3>1. /\ elected' = elected \cup {e0} /\ current_term' = current_term
          /\ election_state' = [election_state EXCEPT ![n] = {}]
      BY <1>5, Zenon DEF Leads, BecomeLeader, persistent
    <3>2. DOMAIN election_state = Node
      BY Zenon DEF TypeOK, InnerTypeOK
    <3>. QED  BY <3>1, <3>2, Zenon
  <2>2. e0.node = n /\ e0.term = current_term[n]
    OBVIOUS
  <2>. HIDE DEF e0
  <2>3. \A e \in elected' : e.term <= current_term'[e.node]
    BY <1>0, <1>2, <2>1, <2>2, Zenon
  <2>. QED  BY <1>3, <2>1, <2>2, <2>3, Zenon DEF ElectionsOK, Elected
<1>. QED  BY <1>4, <1>5, Zenon

\* A quiet step keeps LogInv.
LEMMA QuietLogInv ==
  ASSUME TypeOK, TypeOK', NEW L \in Ledger, LogInv(L), Polls, Quiet
  PROVE  LogInv(L)'
<1>1. LedgerOK(L)'
  BY Zenon DEF LogInv, LedgerOK, Quiet
<1>2. LogsOK(L)'
  <2>1. \A n \in Node : /\ LastTerm(log[n]) \in Nat /\ current_term[n] \in Nat
                        /\ current_term'[n] \in Nat /\ current_term'[n] >= current_term[n]
    BY LastTermOfEntry, Zenon DEF TypeOK, InnerTypeOK, Term, Polls
  <2>. QED  BY <2>1 DEF LogInv, LogsOK, Quiet
<1>3. RequestsOK(L)'
  BY Zenon DEF LogInv, RequestsOK, Quiet, NoNewMessage
<1>4. ElectionsOK'
  BY ElectionsStep, Zenon DEF LogInv, Quiet
<1>5. AcksOK'
  <2>. SUFFICES ASSUME NEW n \in Node, NEW p \in Node, role'[n] = "Leader"
                PROVE  /\ leader_state'[n].next_index[p] <= Len(log'[n]) + 1
                       /\ appends'[n][p].kind = "request" =>
                            appends'[n][p].term = current_term'[n]
                       /\ AckOK(n, leader_state[n].match_index[p])'
                       /\ Succeeded(appends'[n][p]) => AckOK(n, appends[n][p].match_index)'
    BY Zenon DEF AcksOK
  <2>1. /\ role[n] = "Leader" /\ leader_state'[n] = leader_state[n]
        /\ current_term'[n] = current_term[n] /\ log' = log
    BY Zenon DEF Quiet
  <2>2. /\ leader_state[n].next_index[p] <= Len(log[n]) + 1
        /\ appends[n][p].kind = "request" => appends[n][p].term = current_term[n]
        /\ AckOK(n, leader_state[n].match_index[p])
        /\ Succeeded(appends[n][p]) => AckOK(n, appends[n][p].match_index)
    BY <2>1, Zenon DEF LogInv, AcksOK
  <2>3. appends'[n][p].kind = "request" \/ Succeeded(appends'[n][p]) =>
          appends'[n][p] = appends[n][p]
    BY Zenon DEF Quiet, NoNewMessage
  <2>. QED  BY <2>1, <2>2, <2>3, Zenon DEF AckOK
<1>. QED  BY <1>1, <1>2, <1>3, <1>4, <1>5, Zenon DEF LogInv

\* What create_append_requests makes of a leader's log.
LEMMA AppendRequestForOK ==
  ASSUME TypeOK, LoopOK, NEW L \in Ledger, LogInv(L),
         NEW n \in Node, NEW p \in Peers(n), role[n] = "Leader"
  PROVE  /\ RequestOK(L, AppendRequestFor(n, p))
         /\ End(AppendRequestFor(n, p)) = Len(log[n])
<1>. DEFINE next == leader_state[n].next_index[p]
            r == AppendRequestFor(n, p)
<1>1. /\ next \in Nat /\ next >= 1 /\ next <= Len(log[n]) + 1
      /\ log[n] \in Seq(Entry) /\ current_term[n] \in Term /\ Len(log[n]) \in Nat
  BY DEF TypeOK, InnerTypeOK, LoopOK, Peers, LogInv, AcksOK
<1>2. /\ log[n] # <<>> /\ log[n] = L[current_term[n]]
      /\ LastTerm(log[n]) = current_term[n]
  BY <1>1, Zenon DEF LogInv, LogsOK, LedgerOK
<1>3. /\ Len(log[n]) >= 1 /\ log[n][Len(log[n])].term = current_term[n]
  BY <1>1, <1>2, LastTermOfEntry, Zenon
<1>4. /\ r.term = current_term[n] /\ r.prev_log_index = next - 1
      /\ r.prev_log_term = TermAt(log[n], next - 1)
      /\ r.entries = SubSeq(log[n], next, Len(log[n]))
  BY Zenon DEF AppendRequestFor
<1>. HIDE DEF next, r
<1>5. /\ Len(r.entries) = Len(log[n]) - next + 1
      /\ \A k \in 1..(Len(log[n]) - next + 1) : r.entries[k] = log[n][next + k - 1]
  BY <1>1, <1>4, SubLog
<1>6. End(r) = Len(log[n])
  BY <1>1, <1>4, <1>5 DEF End
<1>7. \A k \in 1..Len(r.entries) : r.entries[k] = log[n][r.prev_log_index + k]
  BY <1>1, <1>4, <1>5
<1>8. r.prev_log_index >= 1 => r.prev_log_term = log[n][r.prev_log_index].term
  BY <1>1, <1>4 DEF TermAt
<1>. QED  BY <1>1, <1>2, <1>3, <1>4, <1>6, <1>7, <1>8 DEF RequestOK, r

\* A replication round adds only such requests.
LEMMA SendRequests ==
  ASSUME TypeOK, NEW n \in Node, SendAppendEntries(n)
  PROVE  /\ \A r \in Requests' : r \in Requests \/ \E p \in Peers(n) : r = AppendRequestFor(n, p)
         /\ \A m \in Node \ {n} : appends'[m] = appends[m]
         /\ \A p \in Node : ~Succeeded(appends'[n][p]) /\
              (appends'[n][p].kind = "request" => appends'[n][p].term = current_term[n])
<1>1. /\ \A p \in Peers(n) : appends'[n][p] = AppendRequestFor(n, p)
      /\ appends'[n][n] = NoRpc
      /\ \A m \in Node \ {n} : appends'[m] = appends[m]
      /\ late_appends' = late_appends
  BY Zenon DEF SendAppendEntries, network, TypeOK, LoopTypeOK, Peers
<1>2. /\ NoRpc.kind = "none"
      /\ \A p \in Peers(n) : /\ AppendRequestFor(n, p).kind = "request"
                             /\ AppendRequestFor(n, p).term = current_term[n]
  BY Zenon DEF NoRpc, AppendRequestFor
<1>3. \A p \in Node : ~Succeeded(appends'[n][p]) /\
        (appends'[n][p].kind = "request" => appends'[n][p].term = current_term[n])
  BY <1>1, <1>2 DEF Succeeded, Peers
<1>4. ASSUME NEW m \in Node, NEW p \in Node, appends'[m][p].kind = "request"
      PROVE  \/ appends'[m][p] \in Requests
             \/ \E q \in Peers(n) : appends'[m][p] = AppendRequestFor(n, q)
  BY <1>1, <1>2, <1>4 DEF Requests, Peers
<1>5. \A r \in Requests' : r \in Requests \/ \E p \in Peers(n) : r = AppendRequestFor(n, p)
  BY <1>1, <1>4 DEF Requests
<1>. QED  BY <1>1, <1>3, <1>5, Zenon

\* A replication round keeps LogInv.
LEMMA SendLogInv ==
  ASSUME TypeOK, LoopOK, TypeOK', NEW L \in Ledger, LogInv(L), Polls,
         NEW n \in Node, SendAppendEntries(n)
  PROVE  LogInv(L)'
<1>1. /\ UNCHANGED <<log, role, leader_state, current_term, elected>>
      /\ role[n] = "Leader"
  BY Zenon DEF SendAppendEntries, persistent, volatile, history
<1>2. LedgerOK(L)' /\ LogsOK(L)'
  BY <1>1, Zenon DEF LogInv, LedgerOK, LogsOK
<1>3. RequestsOK(L)'
  BY <1>1, SendRequests, AppendRequestForOK, Zenon DEF LogInv, RequestsOK
<1>4. ElectionsOK'
  BY <1>1, ElectionsStep, Zenon DEF LogInv
<1>5. AcksOK'
  <2>. SUFFICES ASSUME NEW m \in Node, NEW p \in Node, role[m] = "Leader"
                PROVE  /\ leader_state[m].next_index[p] <= Len(log[m]) + 1
                       /\ appends'[m][p].kind = "request" =>
                            appends'[m][p].term = current_term[m]
                       /\ AckOK(m, leader_state[m].match_index[p])
                       /\ Succeeded(appends'[m][p]) => AckOK(m, appends'[m][p].match_index)
    BY <1>1, Zenon DEF AcksOK, AckOK
  <2>1. CASE m = n
    BY <2>1, SendRequests, Zenon DEF LogInv, AcksOK
  <2>2. CASE m # n
    BY <2>2, SendRequests DEF LogInv, AcksOK
  <2>. QED  BY <2>1, <2>2, Zenon
<1>. QED  BY <1>2, <1>3, <1>4, <1>5, Zenon DEF LogInv

\* What handle_append_response does in a leader, clause by clause.
LEMMA AdvancesFacts ==
  ASSUME TypeOK, NEW n \in Node, NEW p \in Node, Advances(n, p),
         NEW matched, matched = leader_state'[n].match_index
  PROVE  /\ appends[n][p] \in AppendResponse /\ matched \in [Node -> Nat]
         /\ \A m \in Node \ {n} : leader_state'[m] = leader_state[m]
         /\ \A q \in Node \ {p} :
              /\ leader_state'[n].next_index[q] = leader_state[n].next_index[q]
              /\ matched[q] = leader_state[n].match_index[q]
         /\ leader_state'[n].next_index[p] =
              IF appends[n][p].success THEN appends[n][p].match_index + 1
              ELSE IF leader_state[n].next_index[p] > 1
                   THEN leader_state[n].next_index[p] - 1 ELSE 1
         /\ matched[p] = IF appends[n][p].success THEN appends[n][p].match_index
                         ELSE leader_state[n].match_index[p]
         /\ commit_index' = [commit_index EXCEPT ![n] = AdvancedCommit(n, matched)]
         /\ decided' = decided \cup
              {[index |-> i, entry |-> log[n][i], at |-> current_term[n]] :
                 i \in (commit_index[n] + 1)..AdvancedCommit(n, matched)}
<1>. DEFINE resp == appends[n][p]
            next == IF resp.success THEN resp.match_index + 1
                    ELSE IF leader_state[n].next_index[p] > 1
                         THEN leader_state[n].next_index[p] - 1 ELSE 1
            m1 == IF resp.success
                  THEN [leader_state[n].match_index EXCEPT ![p] = resp.match_index]
                  ELSE leader_state[n].match_index
<1>1. resp \in AppendResponse
  BY AppendsKind, Zenon DEF Advances
<1>2. /\ leader_state' = [leader_state EXCEPT ![n] =
           [next_index |-> [@.next_index EXCEPT ![p] = next], match_index |-> m1]]
      /\ commit_index' = [commit_index EXCEPT ![n] = AdvancedCommit(n, m1)]
      /\ decided' = decided \cup
           {[index |-> i, entry |-> log[n][i], at |-> current_term[n]] :
              i \in (commit_index[n] + 1)..AdvancedCommit(n, m1)}
  BY Zenon DEF Advances, AdvancePeer
<1>3. /\ leader_state \in [Node -> [next_index : [Node -> Nat], match_index : [Node -> Nat]]]
      /\ leader_state[n].next_index \in [Node -> Nat]
      /\ leader_state[n].match_index \in [Node -> Nat]
      /\ resp.match_index \in Nat
  BY <1>1, Zenon DEF TypeOK, InnerTypeOK, AppendResponse
<1>4. /\ m1 \in [Node -> Nat]
      /\ \A q \in Node \ {p} : m1[q] = leader_state[n].match_index[q]
      /\ m1[p] = IF resp.success THEN resp.match_index ELSE leader_state[n].match_index[p]
  BY <1>3, Zenon
<1>5. leader_state'[n] = [next_index |-> [leader_state[n].next_index EXCEPT ![p] = next],
                          match_index |-> m1]
  BY <1>2, <1>3, Zenon
<1>. HIDE DEF next, m1
<1>6. \A m \in Node \ {n} : leader_state'[m] = leader_state[m]
  BY <1>2, <1>3, Zenon
<1>7. /\ leader_state'[n].match_index = m1
      /\ leader_state'[n].next_index = [leader_state[n].next_index EXCEPT ![p] = next]
  BY <1>5, SMT
<1>8. /\ leader_state'[n].next_index[p] = next
      /\ \A q \in Node \ {p} : leader_state'[n].next_index[q] = leader_state[n].next_index[q]
  BY <1>3, <1>7, Zenon
<1>9. matched = m1
  BY <1>7, Zenon
<1>. QED  BY <1>1, <1>2, <1>4, <1>6, <1>8, <1>9, Zenon DEF next

\* A leader that handles an answer keeps LogInv.
LEMMA AdvancesLogInv ==
  ASSUME TypeOK, LoopOK, TypeOK', NEW L \in Ledger, LogInv(L), Polls,
         NEW n \in Node, NEW p \in Node, Advances(n, p)
  PROVE  LogInv(L)'
<1>. DEFINE resp == appends[n][p]
            next == leader_state[n].next_index[p]
<1>a. /\ resp \in AppendResponse
      /\ \A m \in Node \ {n} : leader_state'[m] = leader_state[m]
      /\ \A q \in Node \ {p} :
           /\ leader_state'[n].next_index[q] = leader_state[n].next_index[q]
           /\ leader_state'[n].match_index[q] = leader_state[n].match_index[q]
      /\ leader_state'[n].match_index[p] =
           IF resp.success THEN resp.match_index ELSE leader_state[n].match_index[p]
      /\ leader_state'[n].next_index[p] =
           IF resp.success THEN resp.match_index + 1 ELSE IF next > 1 THEN next - 1 ELSE 1
  BY AdvancesFacts
<1>. HIDE DEF resp, next
<1>0. UNCHANGED <<log, role, current_term, elected>> /\ NoNewMessage
  BY Zenon DEF Advances
<1>1. LedgerOK(L)' /\ LogsOK(L)'
  BY <1>0, Zenon DEF LogInv, LedgerOK, LogsOK
<1>2. RequestsOK(L)'
  BY <1>0, Zenon DEF LogInv, RequestsOK, NoNewMessage
<1>3. ElectionsOK'
  BY <1>0, ElectionsStep, Zenon DEF LogInv
<1>4. AcksOK'
  <2>. SUFFICES ASSUME NEW m \in Node, NEW q \in Node, role[m] = "Leader"
                PROVE  /\ leader_state'[m].next_index[q] <= Len(log[m]) + 1
                       /\ appends'[m][q].kind = "request" =>
                            appends'[m][q].term = current_term[m]
                       /\ AckOK(m, leader_state'[m].match_index[q])
                       /\ Succeeded(appends'[m][q]) => AckOK(m, appends'[m][q].match_index)
    BY <1>0, ZenonT(20) DEF AcksOK, AckOK
  <2>1. /\ leader_state[m].next_index[q] <= Len(log[m]) + 1
        /\ appends[m][q].kind = "request" => appends[m][q].term = current_term[m]
        /\ AckOK(m, leader_state[m].match_index[q])
        /\ Succeeded(appends[m][q]) => AckOK(m, appends[m][q].match_index)
    BY Zenon DEF LogInv, AcksOK
  <2>2. appends'[m][q].kind = "request" \/ Succeeded(appends'[m][q]) =>
          appends'[m][q] = appends[m][q]
    BY <1>0, Zenon DEF NoNewMessage
  <2>3. CASE m # n \/ q # p
    <3>1. /\ leader_state'[m].next_index[q] = leader_state[m].next_index[q]
          /\ leader_state'[m].match_index[q] = leader_state[m].match_index[q]
      BY <1>a, <2>3, Zenon
    <3>. QED  BY <2>1, <2>2, <3>1, Zenon
  <2>4. CASE m = n /\ q = p
    <3>1. /\ next \in Nat /\ Len(log[n]) \in Nat /\ resp.match_index \in Nat
          /\ resp.kind = "response"
      <4>1. /\ log[n] \in Seq(Entry)
            /\ leader_state[n] \in [next_index : [Node -> Nat], match_index : [Node -> Nat]]
        BY Zenon DEF TypeOK, InnerTypeOK
      <4>2. next \in Nat
        BY <4>1, Zenon DEF next
      <4>3. resp.match_index \in Nat /\ resp.kind = "response"
        BY <1>a, Zenon DEF AppendResponse
      <4>4. Len(log[n]) \in Nat
        BY <4>1
      <4>. QED  BY <4>2, <4>3, <4>4, Zenon
    <3>3. resp.success => AckOK(n, resp.match_index)
      BY <2>1, <2>4, <3>1, Zenon DEF Succeeded, resp
    <3>4. AckOK(m, leader_state'[m].match_index[q])
      BY <1>a, <2>1, <2>4, <3>3, Zenon
    <3>5. resp.success => resp.match_index <= Len(log[n])
      BY <3>1, <3>3 DEF AckOK
    <3>6. leader_state'[m].next_index[q] <= Len(log[m]) + 1
      BY <1>a, <2>1, <2>4, <3>1, <3>5 DEF next
    <3>. QED  BY <2>1, <2>2, <3>4, <3>6, Zenon
  <2>. QED  BY <2>3, <2>4, Zenon
<1>. QED  BY <1>1, <1>2, <1>3, <1>4, Zenon DEF LogInv

-----------------------------------------------------------------------------
(* Steps that extend the ledger.                                           *)

\* What is true of the logs and requests so far stays true.
LEMMA ExtendsKeeps ==
  ASSUME NEW L \in Ledger, NEW L2 \in Ledger, Extends(L, L2)
  PROVE  /\ \A s \in Seq(Entry) : Follows(s, L) => Follows(s, L2)
         /\ \A r \in AppendRequest : RequestOK(L, r) => RequestOK(L2, r)
<1>0. \A t \in Term : Len(L[t]) \in Nat /\ Len(L2[t]) \in Nat
  BY DEF Ledger
<1>1. ASSUME NEW s \in Seq(Entry), Follows(s, L) PROVE Follows(s, L2)
  <2>. SUFFICES ASSUME NEW i \in 1..Len(s)
                PROVE  /\ i <= Len(L2[s[i].term])
                       /\ \A j \in 1..i : s[j] = L2[s[i].term][j]
    BY Zenon DEF Follows
  <2>1. s[i].term \in Term /\ Len(s) \in Nat
    BY LastTermOfEntry, Zenon DEF Term
  <2>2. i <= Len(L[s[i].term]) /\ \A j \in 1..i : s[j] = L[s[i].term][j]
    BY <1>1, Zenon DEF Follows
  <2>3. /\ Len(L[s[i].term]) <= Len(L2[s[i].term])
        /\ \A j \in 1..Len(L[s[i].term]) : L2[s[i].term][j] = L[s[i].term][j]
    BY <2>1, Zenon DEF Extends
  <2>4. Len(L[s[i].term]) \in Nat /\ Len(L2[s[i].term]) \in Nat
    BY <1>0, <2>1, Zenon
  <2>5. i <= Len(L2[s[i].term]) /\ \A j \in 1..i : j \in 1..Len(L[s[i].term])
    BY <2>1, <2>2, <2>3, <2>4
  <2>. QED  BY <2>2, <2>3, <2>5, Zenon
<1>2. ASSUME NEW r \in AppendRequest, RequestOK(L, r) PROVE RequestOK(L2, r)
  <2>1. /\ r.term \in Term /\ r.prev_log_index \in Nat /\ Len(r.entries) \in Nat
    BY DEF AppendRequest
  <2>2. /\ Len(L[r.term]) <= Len(L2[r.term])
        /\ \A j \in 1..Len(L[r.term]) : L2[r.term][j] = L[r.term][j]
    BY <2>1, Zenon DEF Extends
  <2>3. /\ End(r) \in 1..Len(L[r.term]) /\ End(r) = r.prev_log_index + Len(r.entries)
    BY <1>2, Zenon DEF RequestOK, End
  <2>4. /\ \A k \in 1..Len(r.entries) : r.prev_log_index + k \in 1..Len(L[r.term])
        /\ r.prev_log_index >= 1 => r.prev_log_index \in 1..Len(L[r.term])
    <3>1. Len(L[r.term]) \in Nat /\ r.prev_log_index + Len(r.entries) <= Len(L[r.term])
      BY <1>0, <2>1, <2>3
    <3>2. \A a, b, c \in Nat : a + b <= c =>
            /\ \A k \in 1..b : a + k \in 1..c
            /\ a >= 1 => a \in 1..c
      OBVIOUS
    <3>. QED  BY <2>1, <3>1, <3>2, Zenon
  <2>5. End(r) \in 1..Len(L2[r.term]) /\ L2[r.term][End(r)].term = r.term
    BY <1>0, <1>2, <2>1, <2>2, <2>3 DEF RequestOK
  <2>6. \A k \in 1..Len(r.entries) : r.entries[k] = L2[r.term][r.prev_log_index + k]
    BY <1>2, <2>2, <2>4, Zenon DEF RequestOK
  <2>7. r.prev_log_index >= 1 => r.prev_log_term = L2[r.term][r.prev_log_index].term
    BY <1>2, <2>2, <2>4, Zenon DEF RequestOK
  <2>. QED  BY <2>5, <2>6, <2>7, Zenon DEF RequestOK
<1>. QED  BY <1>1, <1>2, Zenon

\* What become_leader_inner or propose appends makes the leader's log, and with it
\* the ledger, one entry longer.
LEMMA GrowsExtends ==
  ASSUME TypeOK, NEW L \in Ledger, NEW n \in Node, NEW e, NEW L2, Grows(n, e, L, L2)
  PROVE  /\ L2 \in Ledger /\ Extends(L, L2) /\ L2[current_term[n]] = log'[n]
         /\ \A t \in Term \ {current_term[n]} : L2[t] = L[t]
         /\ \A m \in Node \ {n} : log'[m] = log[m]
         /\ log'[n] \in Seq(Entry) /\ log[n] \in Seq(Entry)
         /\ Len(log'[n]) = Len(log[n]) + 1 /\ Len(log[n]) \in Nat
         /\ log'[n][Len(log[n]) + 1] = e /\ \A j \in 1..Len(log[n]) : log'[n][j] = log[n][j]
<1>. DEFINE s == Append(log[n], e)
<1>0. /\ log[n] \in Seq(Entry) /\ e \in Entry /\ current_term[n] \in Term
      /\ log \in [Node -> Seq(Entry)]
  BY Zenon DEF TypeOK, InnerTypeOK, Grows
<1>1. /\ s \in Seq(Entry) /\ Len(s) = Len(log[n]) + 1 /\ Len(log[n]) \in Nat
      /\ s[Len(log[n]) + 1] = e /\ \A j \in 1..Len(log[n]) : s[j] = log[n][j]
  BY <1>0, AppendToLog
<1>2. log'[n] = s /\ \A m \in Node \ {n} : log'[m] = log[m]
  BY <1>0, Zenon DEF Grows
<1>. HIDE DEF s
<1>3. /\ L2 = [L EXCEPT ![current_term[n]] = s] /\ L[current_term[n]] \in {<<>>, log[n]}
  BY Zenon DEF Grows, s
<1>4. /\ L2 \in Ledger /\ L2[current_term[n]] = s
      /\ \A t \in Term \ {current_term[n]} : L2[t] = L[t]
  BY <1>0, <1>1, <1>3, Zenon DEF Ledger
<1>5. Extends(L, L2)
  <2>1. Len(<<>>) = 0
    OBVIOUS
  <2>2. \A t \in Term : Len(L[t]) \in Nat
    BY DEF Ledger
  <2>3. /\ Len(L[current_term[n]]) <= Len(s)
        /\ \A j \in 1..Len(L[current_term[n]]) : s[j] = L[current_term[n]][j]
    BY <1>0, <1>1, <1>3, <2>1
  <2>. QED  BY <1>0, <1>4, <2>2, <2>3 DEF Extends
<1>. QED  BY <1>0, <1>1, <1>2, <1>4, <1>5, Zenon

\* The longer ledger accounts for the logs and the requests.
LEMMA GrowsLogs ==
  ASSUME TypeOK, TypeOK', NEW L \in Ledger, LogInv(L), NEW n \in Node, NEW e, NEW L2,
         Grows(n, e, L, L2)
  PROVE  LedgerOK(L2)' /\ LogsOK(L2)' /\ RequestsOK(L2)'
<1>. DEFINE T == current_term[n]
            s == log'[n]
            k == Len(log[n])
<1>1. /\ L2 \in Ledger /\ Extends(L, L2) /\ L2[T] = s
      /\ \A t \in Term \ {T} : L2[t] = L[t]
      /\ \A m \in Node \ {n} : log'[m] = log[m]
      /\ s \in Seq(Entry) /\ log[n] \in Seq(Entry)
      /\ Len(s) = k + 1 /\ k \in Nat
      /\ s[k + 1] = e /\ \A j \in 1..k : s[j] = log[n][j]
  BY GrowsExtends, Zenon
<1>2. /\ e \in Entry /\ e.term = T /\ T \in Term /\ T \in Nat
      /\ current_term' = current_term /\ Requests' = Requests
  BY DEF Grows, TypeOK, InnerTypeOK, Requests, Term
<1>3. \A m \in Node : Follows(log[m], L) /\ LastTerm(log[m]) <= current_term[m]
  BY Zenon DEF LogInv, LogsOK
<1>4. \A m \in Node : log[m] \in Seq(Entry) /\ Follows(log[m], L2)
  BY <1>1, <1>3, ExtendsKeeps, Zenon DEF TypeOK, InnerTypeOK
<1>. HIDE DEF s, k, T
<1>5. Follows(s, L2)
  <2>. SUFFICES ASSUME NEW i \in 1..Len(s)
                PROVE  /\ i <= Len(L2[s[i].term])
                       /\ \A j \in 1..i : s[j] = L2[s[i].term][j]
    BY Zenon DEF Follows
  <2>1. CASE i \in 1..k
    <3>1. i <= Len(L2[log[n][i].term]) /\ \A j \in 1..i : log[n][j] = L2[log[n][i].term][j]
      BY <1>4, <2>1, Zenon DEF Follows, k
    <3>2. \A j \in 1..i : j \in 1..k
      BY <1>1, <2>1
    <3>3. s[i] = log[n][i] /\ \A j \in 1..i : s[j] = log[n][j]
      BY <1>1, <2>1, <3>2, Zenon
    <3>. QED  BY <3>1, <3>3, Zenon
  <2>2. CASE i = k + 1
    BY <1>1, <1>2, <2>2
  <2>. QED  BY <1>1, <2>1, <2>2
<1>6. LastTerm(s) = T /\ s # <<>>
  <2>1. s # <<>>
    BY <1>1
  <2>. QED  BY <1>1, <1>2, <2>1, LastTermOfEntry, Zenon
<1>7. Ascending(s)
  <2>1. Ascending(log[n]) /\ LastTerm(log[n]) <= T
    BY <1>1, <1>3, FollowsAscending, Zenon DEF LogInv, T
  <2>2. \A i \in 1..k : log[n][i].term \in Nat /\ log[n][i].term <= T
    <3>. SUFFICES ASSUME NEW i \in 1..k PROVE log[n][i].term \in Nat /\ log[n][i].term <= T
      OBVIOUS
    <3>1. log[n] # <<>> /\ k \in 1..k
      BY <1>1 DEF k
    <3>2. log[n][i].term \in Nat /\ log[n][k].term \in Nat /\ LastTerm(log[n]) = log[n][k].term
      BY <1>1, <3>1, LastTermOfEntry, Zenon DEF k
    <3>3. log[n][i].term <= log[n][k].term
      BY <1>1, <2>1, <3>1 DEF Ascending, k
    <3>. QED  BY <1>2, <2>1, <3>2, <3>3
  <2>. SUFFICES ASSUME NEW i \in 1..Len(s), NEW j \in 1..Len(s), i <= j
                PROVE  s[i].term <= s[j].term
    BY Zenon DEF Ascending
  <2>3. CASE j \in 1..k
    BY <1>1, <2>1, <2>3, SMTT(20) DEF Ascending, k
  <2>4. CASE j = k + 1
    BY <1>1, <1>2, <2>2, <2>4
  <2>. QED  BY <1>1, <2>3, <2>4
<1>8. LedgerOK(L2)'
  <2>. SUFFICES ASSUME NEW t \in Term
                PROVE  /\ Ascending(L2[t]) /\ Follows(L2[t], L2)
                       /\ L2[t] # <<>> => LastTerm(L2[t]) = t /\ \E x \in elected' : x.term = t
    BY Zenon DEF LedgerOK
  <2>1. CASE t = T
    BY <1>1, <1>5, <1>6, <1>7, <2>1, Zenon DEF Grows, T
  <2>2. CASE t # T
    <3>1. L2[t] = L[t] /\ L[t] \in Seq(Entry)
      BY <1>1, <2>2, Zenon DEF Ledger
    <3>2. /\ Ascending(L[t]) /\ Follows(L[t], L)
          /\ L[t] # <<>> => LastTerm(L[t]) = t /\ \E x \in elected : x.term = t
      BY Zenon DEF LogInv, LedgerOK
    <3>3. Follows(L[t], L2)
      BY <1>1, <3>1, <3>2, ExtendsKeeps, Zenon
    <3>. QED  BY <3>1, <3>2, <3>3, Zenon DEF Grows
  <2>. QED  BY <2>1, <2>2, Zenon
<1>9. LogsOK(L2)'
  <2>. SUFFICES ASSUME NEW m \in Node
                PROVE  /\ Follows(log'[m], L2)
                       /\ LastTerm(log'[m]) <= current_term[m]
                       /\ role'[m] = "Leader" => log'[m] # <<>> /\ log'[m] = L2[current_term[m]]
    BY <1>2, Zenon DEF LogsOK
  <2>1. CASE m = n
    BY <1>1, <1>2, <1>5, <1>6, <2>1 DEF s, T
  <2>2. CASE m # n
    <3>1. role'[m] = "Leader" => role[m] = "Leader" /\ current_term[m] # T
      BY <2>2, Zenon DEF Grows, T
    <3>2. role[m] = "Leader" => log[m] # <<>> /\ log[m] = L[current_term[m]]
      BY Zenon DEF LogInv, LogsOK
    <3>3. current_term[m] \in Term
      BY Zenon DEF TypeOK, InnerTypeOK
    <3>. QED  BY <1>1, <1>3, <1>4, <2>2, <3>1, <3>2, <3>3, Zenon
  <2>. QED  BY <2>1, <2>2, Zenon
<1>10. RequestsOK(L2)'
  BY <1>1, <1>2, RequestsType, ExtendsKeeps, Zenon DEF LogInv, RequestsOK
<1>. QED  BY <1>8, <1>9, <1>10, Zenon

\* If n's own books are in order, the larger ledger accounts for the logs.
LEMMA GrowsLogInv ==
  ASSUME TypeOK, TypeOK', NEW L \in Ledger, LogInv(L), Polls, NEW n \in Node, NEW e, NEW L2,
         Grows(n, e, L, L2), elected' = elected \/ Leads(n),
         \A q \in Node :
           /\ leader_state'[n].next_index[q] <= Len(log[n]) + 2
           /\ appends[n][q].kind = "request" => appends[n][q].term = current_term[n]
           /\ leader_state'[n].match_index[q] # Len(log[n]) + 1 =>
                AckOK(n, leader_state'[n].match_index[q])
           /\ Succeeded(appends[n][q]) => AckOK(n, appends[n][q].match_index)
  PROVE  LogInv(L2)'
<1>1. LedgerOK(L2)' /\ LogsOK(L2)' /\ RequestsOK(L2)'
  BY GrowsLogs, Zenon
<1>2. ElectionsOK'
  BY ElectionsStep, Zenon DEF LogInv
<1>3. /\ current_term' = current_term /\ appends' = appends
      /\ \A m \in Node \ {n} : role'[m] = "Leader" =>
           role[m] = "Leader" /\ leader_state'[m] = leader_state[m]
      /\ e.term = current_term[n]
  BY Zenon DEF Grows
<1>4. /\ \A m \in Node \ {n} : log'[m] = log[m]
      /\ Len(log'[n]) = Len(log[n]) + 1 /\ Len(log[n]) \in Nat
      /\ log'[n][Len(log[n]) + 1] = e /\ \A j \in 1..Len(log[n]) : log'[n][j] = log[n][j]
  BY GrowsExtends
<1>5. \A i : AckOK(n, i) => AckOK(n, i)'
  <2>1. \A k \in Nat : \A i \in 1..k : i \in 1..(k + 1)
    OBVIOUS
  <2>. QED  BY <1>3, <1>4, <2>1, Zenon DEF AckOK
<1>6. \A i : i = Len(log[n]) + 1 => AckOK(n, i)'
  <2>1. \A k \in Nat : k + 1 \in 1..(k + 1)
    OBVIOUS
  <2>. QED  BY <1>3, <1>4, <2>1, Zenon DEF AckOK
<1>7. AcksOK'
  <2>. SUFFICES ASSUME NEW m \in Node, NEW q \in Node, role'[m] = "Leader"
                PROVE  /\ leader_state'[m].next_index[q] <= Len(log'[m]) + 1
                       /\ appends'[m][q].kind = "request" =>
                            appends'[m][q].term = current_term'[m]
                       /\ AckOK(m, leader_state[m].match_index[q])'
                       /\ Succeeded(appends'[m][q]) => AckOK(m, appends[m][q].match_index)'
    BY Zenon DEF AcksOK
  <2>1. CASE m = n
    <3>1. leader_state'[n].next_index[q] <= Len(log'[n]) + 1
      BY <1>4
    <3>2. AckOK(n, leader_state[n].match_index[q])'
      BY <1>5, <1>6, Zenon DEF AckOK
    <3>3. Succeeded(appends[n][q]) => AckOK(n, appends[n][q].match_index)'
      BY <1>3, <1>5, Zenon DEF AckOK
    <3>. QED  BY <1>3, <2>1, <3>1, <3>2, <3>3, Zenon
  <2>2. CASE m # n
    <3>1. /\ role[m] = "Leader" /\ leader_state'[m] = leader_state[m] /\ log'[m] = log[m]
      BY <1>3, <1>4, <2>2, Zenon
    <3>2. /\ leader_state[m].next_index[q] <= Len(log[m]) + 1
          /\ appends[m][q].kind = "request" => appends[m][q].term = current_term[m]
          /\ AckOK(m, leader_state[m].match_index[q])
          /\ Succeeded(appends[m][q]) => AckOK(m, appends[m][q].match_index)
      BY <3>1, Zenon DEF LogInv, AcksOK
    <3>. QED  BY <1>3, <3>1, <3>2, Zenon DEF AckOK
  <2>. QED  BY <2>1, <2>2, Zenon
<1>. QED  BY <1>1, <1>2, <1>7, Zenon DEF LogInv

\* A new leader starts its term's log with all it has and a no-op.
LEMMA LeadsLogInv ==
  ASSUME TypeOK, TypeOK', LoopOK, NEW L \in Ledger, LogInv(L), Polls,
         RequestsFromElected, ElectionSafety', NEW n \in Node, Leads(n),
         NEW e, e = [term |-> current_term[n], data |-> Noop],
         NEW L2, L2 = [L EXCEPT ![current_term[n]] = Append(log[n], e)]
  PROVE  Grows(n, e, L, L2) /\ LogInv(L2)'
<1>. DEFINE x == [node |-> n, term |-> current_term[n], votes |-> CountedBy(n)]
<1>1. /\ role' = [role EXCEPT ![n] = "Leader"]
      /\ log' = [log EXCEPT ![n] = Append(@, e)]
      /\ leader_state' = [leader_state EXCEPT ![n] =
           WithMatch(LeaderStateNew(n, Len(log[n])), n, Len(log[n]) + 1)]
      /\ elected' = elected \cup {x}
      /\ UNCHANGED <<current_term, appends, late_appends>>
      /\ phase[n] = "vote" /\ election_state[n] # {}
  BY Zenon DEF Leads, BecomeLeader, persistent
<1>2. x.node = n /\ x.term = current_term[n] /\ x \in elected'
  BY <1>1, Zenon
<1>. HIDE DEF x
<1>3. ~Elected(n, current_term[n])
  BY <1>1, Zenon DEF LogInv, ElectionsOK
<1>4. \A y \in elected : y.term # current_term[n]
  <2>. SUFFICES ASSUME NEW y \in elected, y.term = current_term[n]
                PROVE  FALSE
    BY Zenon
  <2>1. y \in elected'
    BY <1>1, Zenon
  <2>2. y.node = n
    BY <1>2, <2>1, Zenon DEF ElectionSafety
  <2>. QED  BY <1>3, <2>2, Zenon DEF Elected
<1>5. L[current_term[n]] = <<>>
  BY <1>4, Zenon DEF LogInv, LedgerOK, TypeOK, InnerTypeOK
<1>6. e \in Entry /\ e.term = current_term[n]
  BY Zenon DEF Entry, TypeOK, InnerTypeOK
<1>7. \A m \in Node \ {n} : role'[m] = "Leader" =>
        /\ role[m] = "Leader" /\ current_term[m] # current_term[n]
        /\ leader_state'[m] = leader_state[m]
  <2>1. \A m \in Node \ {n} : role'[m] = role[m] /\ leader_state'[m] = leader_state[m]
    BY <1>1 DEF TypeOK, InnerTypeOK
  <2>2. \A m \in Node : role[m] = "Leader" => current_term[m] # current_term[n]
    BY <1>4 DEF RequestsFromElected, Elected
  <2>. QED  BY <2>1, <2>2, Zenon
<1>8. Grows(n, e, L, L2)
  BY <1>1, <1>2, <1>5, <1>6, <1>7, Zenon DEF Grows, TypeOK, InnerTypeOK
<1>9. ASSUME NEW q \in Node
      PROVE  /\ leader_state'[n].next_index[q] <= Len(log[n]) + 2
             /\ leader_state'[n].match_index[q] # Len(log[n]) + 1 =>
                  leader_state'[n].match_index[q] = 0
             /\ appends[n][q] = NoRpc
  <2>1. appends[n][q] = NoRpc
    BY <1>1, Zenon DEF LoopOK
  <2>2. leader_state'[n] = WithMatch(LeaderStateNew(n, Len(log[n])), n, Len(log[n]) + 1)
    BY <1>1, Zenon DEF TypeOK, InnerTypeOK
  <2>3. /\ leader_state'[n].next_index = [p \in Node |-> IF p = n THEN 0 ELSE Len(log[n]) + 1]
        /\ leader_state'[n].match_index = [[p \in Node |-> 0] EXCEPT ![n] = Len(log[n]) + 1]
    BY <2>2 DEF WithMatch, LeaderStateNew
  <2>4. Len(log[n]) \in Nat
    BY DEF TypeOK, InnerTypeOK
  <2>. QED  BY <2>1, <2>3, <2>4
<1>10. NoRpc.kind # "request" /\ ~Succeeded(NoRpc)
  BY Zenon DEF NoRpc, Succeeded
<1>11. LogInv(L2)'
  <2>1. \A q \in Node :
           /\ leader_state'[n].next_index[q] <= Len(log[n]) + 2
           /\ appends[n][q].kind = "request" => appends[n][q].term = current_term[n]
           /\ leader_state'[n].match_index[q] # Len(log[n]) + 1 =>
                AckOK(n, leader_state'[n].match_index[q])
           /\ Succeeded(appends[n][q]) => AckOK(n, appends[n][q].match_index)
    BY <1>9, <1>10, Zenon DEF AckOK
  <2>. QED  BY <1>8, <2>1, GrowsLogInv, Zenon
<1>. QED  BY <1>8, <1>11, Zenon

\* A proposal extends its leader's log.
LEMMA ProposeLogInv ==
  ASSUME TypeOK, TypeOK', NEW L \in Ledger, LogInv(L), Polls,
         RequestsFromElected, ElectionSafety, NEW n \in Node, NEW cmd \in Command, Propose(n, cmd),
         NEW e, e = [term |-> current_term[n], data |-> cmd],
         NEW L2, L2 = [L EXCEPT ![current_term[n]] = Append(log[n], e)]
  PROVE  Grows(n, e, L, L2) /\ LogInv(L2)'
<1>1. /\ log' = [log EXCEPT ![n] = Append(@, e)]
      /\ leader_state' = [leader_state EXCEPT ![n] = WithMatch(@, n, Len(log[n]) + 1)]
      /\ UNCHANGED <<current_term, appends, late_appends, role, elected>>
      /\ role[n] = "Leader"
  BY Zenon DEF Propose, persistent, loop, network, history
<1>2. Elected(n, current_term[n]) /\ L[current_term[n]] = log[n]
  BY <1>1, Zenon DEF RequestsFromElected, LogInv, LogsOK
<1>3. e \in Entry /\ e.term = current_term[n]
  BY Zenon DEF Entry, TypeOK, InnerTypeOK
<1>4. \A m \in Node \ {n} : role'[m] = "Leader" =>
        /\ role[m] = "Leader" /\ current_term[m] # current_term[n]
        /\ leader_state'[m] = leader_state[m]
  <2>1. \A m \in Node \ {n} : role'[m] = role[m] /\ leader_state'[m] = leader_state[m]
    BY <1>1, Zenon DEF TypeOK, InnerTypeOK
  <2>2. \A m \in Node \ {n} : role[m] = "Leader" => current_term[m] # current_term[n]
    BY <1>2 DEF RequestsFromElected, Elected, ElectionSafety
  <2>. QED  BY <2>1, <2>2, Zenon
<1>5. Grows(n, e, L, L2)
  BY <1>1, <1>2, <1>3, <1>4, Zenon DEF Grows, Elected
<1>6. ASSUME NEW q \in Node
      PROVE  /\ leader_state'[n].next_index[q] <= Len(log[n]) + 2
             /\ leader_state'[n].match_index[q] # Len(log[n]) + 1 =>
                  leader_state'[n].match_index[q] = leader_state[n].match_index[q]
  <2>0. /\ leader_state[n].match_index \in [Node -> Nat]
        /\ leader_state[n].next_index \in [Node -> Nat] /\ log[n] \in Seq(Entry)
    BY Zenon DEF TypeOK, InnerTypeOK
  <2>1. leader_state'[n] = WithMatch(leader_state[n], n, Len(log[n]) + 1)
    BY <1>1, Zenon DEF TypeOK, InnerTypeOK
  <2>2. /\ leader_state'[n].next_index = leader_state[n].next_index
        /\ leader_state'[n].match_index = [leader_state[n].match_index EXCEPT ![n] = Len(log[n]) + 1]
    BY <2>1 DEF WithMatch
  <2>3. leader_state[n].next_index[q] <= Len(log[n]) + 1
    BY <1>1, Zenon DEF LogInv, AcksOK
  <2>. QED  BY <2>0, <2>2, <2>3
<1>7. LogInv(L2)'
  <2>1. \A q \in Node :
           /\ leader_state'[n].next_index[q] <= Len(log[n]) + 2
           /\ appends[n][q].kind = "request" => appends[n][q].term = current_term[n]
           /\ leader_state'[n].match_index[q] # Len(log[n]) + 1 =>
                AckOK(n, leader_state'[n].match_index[q])
           /\ Succeeded(appends[n][q]) => AckOK(n, appends[n][q].match_index)
    BY <1>1, <1>6, Zenon DEF LogInv, AcksOK
  <2>. QED  BY <1>1, <1>5, <2>1, GrowsLogInv, Zenon
<1>. QED  BY <1>5, <1>7, Zenon

-----------------------------------------------------------------------------
(* handle_append_entries.                                                  *)

\* What a node holds after it has accepted a request.
LEMMA StoresFollows ==
  ASSUME WellOrdered, TypeOK, NEW L \in Ledger, LogInv(L),
         NEW p \in Node, NEW r \in Requests, Stores(p, r)
  PROVE  /\ r \in AppendRequest /\ RequestOK(L, r)
         /\ log[p] \in Seq(Entry) /\ log'[p] \in Seq(Entry)
         /\ \A q \in Node \ {p} : log'[q] = log[q]
         /\ End(r) \in 1..Len(log'[p]) /\ Len(log'[p]) \in 1..Len(L[r.term])
         /\ \A j \in 1..Len(log'[p]) : log'[p][j] = L[r.term][j]
         /\ LastTerm(log'[p]) = r.term /\ Follows(log'[p], L)
         /\ LastTerm(log[p]) <= r.term
         /\ LastTerm(log[p]) = r.term => Len(log[p]) <= Len(log'[p])
<1>. DEFINE s == StoreEntries(log[p], r)
<1>1. /\ r \in AppendRequest /\ RequestOK(L, r) /\ log[p] \in Seq(Entry)
      /\ r.term \in Term /\ r.term \in Nat /\ L[r.term] \in Seq(Entry)
      /\ current_term[p] \in Nat
  BY RequestsType, Zenon DEF LogInv, RequestsOK, TypeOK, InnerTypeOK, AppendRequest, Term,
     Ledger
<1>2. /\ Follows(log[p], L) /\ LastTerm(log[p]) \in Nat /\ LastTerm(log[p]) <= current_term[p]
  BY <1>1, LastTermOfEntry, Zenon DEF LogInv, LogsOK
<1>3. LastTerm(log[p]) <= r.term /\ PrevMatches(log[p], r) /\ r.term >= current_term[p]
  <2>1. PrevMatches(log[p], r) /\ r.term >= current_term[p]
    BY Zenon DEF Stores
  <2>2. \A i, j, k \in Nat : i <= j /\ k >= j => i <= k
    OBVIOUS
  <2>. QED  BY <1>1, <1>2, <2>1, <2>2, Zenon
<1>4. /\ s \in Seq(Entry)
      /\ End(r) <= Len(s) /\ Len(s) <= Len(L[r.term])
      /\ \A j \in 1..Len(s) : s[j] = L[r.term][j]
      /\ LastTerm(log[p]) = r.term => Len(log[p]) <= Len(s)
  BY <1>1, <1>2, <1>3, StoreEntriesFollows, Zenon DEF LogInv
<1>5. log'[p] = s /\ \A q \in Node \ {p} : log'[q] = log[q]
  BY Zenon DEF Stores, TypeOK, InnerTypeOK
<1>. HIDE DEF s
<1>6. /\ End(r) \in Nat /\ End(r) >= 1 /\ Len(s) \in Nat /\ Len(L[r.term]) \in Nat
      /\ L[r.term][End(r)].term = r.term /\ End(r) <= Len(L[r.term])
  <2>1. End(r) \in 1..Len(L[r.term]) /\ L[r.term][End(r)].term = r.term
    BY <1>1, Zenon DEF RequestOK
  <2>2. Len(s) \in Nat /\ Len(L[r.term]) \in Nat
    BY <1>1, <1>4
  <2>3. \A m \in Nat : \A k \in 1..m : k \in Nat /\ k >= 1 /\ k <= m
    OBVIOUS
  <2>. QED  BY <2>1, <2>2, <2>3, Zenon
<1>7. Follows(s, L)
  BY <1>1, <1>4, PrefixFollows, Zenon DEF LogInv
<1>8. LastTerm(s) = r.term
  <2>1. Ascending(L[r.term]) /\ LastTerm(L[r.term]) = r.term /\ L[r.term] # <<>>
    BY <1>1, <1>6 DEF LogInv, LedgerOK
  <2>2. /\ Len(s) \in 1..Len(L[r.term]) /\ End(r) \in 1..Len(L[r.term])
        /\ Len(L[r.term]) \in 1..Len(L[r.term]) /\ Len(s) \in 1..Len(s)
    BY <1>4, <1>6
  <2>3. L[r.term][Len(L[r.term])].term = r.term
    BY <1>1, <2>1, LastTermOfEntry, Zenon
  <2>4. /\ L[r.term][End(r)].term <= L[r.term][Len(s)].term
        /\ L[r.term][Len(s)].term <= L[r.term][Len(L[r.term])].term
        /\ L[r.term][Len(s)].term \in Nat
    BY <1>1, <1>4, <2>1, <2>2, LastTermOfEntry, Zenon DEF Ascending
  <2>5. s # <<>> /\ s[Len(s)] = L[r.term][Len(s)]
    BY <1>4, <1>6, <2>2
  <2>. QED  BY <1>1, <1>4, <1>6, <2>3, <2>4, <2>5, LastTermOfEntry
<1>9. End(r) \in 1..Len(s) /\ Len(s) \in 1..Len(L[r.term])
  BY <1>4, <1>6
<1>. QED  BY <1>1, <1>3, <1>4, <1>5, <1>7, <1>8, <1>9, Zenon

\* A request that is accepted keeps LogInv.
LEMMA StoresLogInv ==
  ASSUME WellOrdered, TypeOK, TypeOK', NEW L \in Ledger, LogInv(L), Polls,
         NEW p \in Node, NEW r \in Requests, Stores(p, r)
  PROVE  LogInv(L)'
<1>1. /\ r \in AppendRequest
      /\ \A q \in Node \ {p} : log'[q] = log[q]
      /\ Len(log'[p]) \in 1..Len(L[r.term])
      /\ \A j \in 1..Len(log'[p]) : log'[p][j] = L[r.term][j]
      /\ log'[p] \in Seq(Entry) /\ LastTerm(log'[p]) = r.term /\ Follows(log'[p], L)
  BY StoresFollows, Zenon
<1>2. /\ current_term'[p] = r.term /\ r.term \in Nat
      /\ \A q \in Node \ {p} : current_term'[q] = current_term[q]
      /\ \A q \in Node : role'[q] = "Leader" =>
           q # p /\ role[q] = "Leader" /\ leader_state'[q] = leader_state[q]
      /\ Requests' \subseteq Requests /\ elected' = elected
  BY <1>1, Zenon DEF Stores, AppendRequest, Term
<1>3. LedgerOK(L)'
  BY <1>2, Zenon DEF LogInv, LedgerOK
<1>4. LogsOK(L)'
  <2>. SUFFICES ASSUME NEW m \in Node
                PROVE  /\ Follows(log'[m], L)
                       /\ LastTerm(log'[m]) <= current_term'[m]
                       /\ role'[m] = "Leader" => log'[m] # <<>> /\ log'[m] = L[current_term'[m]]
    BY Zenon DEF LogsOK
  <2>1. CASE m = p
    BY <1>1, <1>2, <2>1
  <2>2. CASE m # p
    BY <1>1, <1>2, <2>2, Zenon DEF LogInv, LogsOK
  <2>. QED  BY <2>1, <2>2, Zenon
<1>5. RequestsOK(L)'
  BY <1>2, Zenon DEF LogInv, RequestsOK
<1>6. ElectionsOK'
  BY <1>2, ElectionsStep, Zenon DEF LogInv
<1>7. AcksOK'
  <2>. SUFFICES ASSUME NEW m \in Node, NEW q \in Node, role'[m] = "Leader"
                PROVE  /\ leader_state'[m].next_index[q] <= Len(log'[m]) + 1
                       /\ appends'[m][q].kind = "request" =>
                            appends'[m][q].term = current_term'[m]
                       /\ AckOK(m, leader_state[m].match_index[q])'
                       /\ Succeeded(appends'[m][q]) => AckOK(m, appends[m][q].match_index)'
    BY Zenon DEF AcksOK
  <2>1. /\ role[m] = "Leader" /\ leader_state'[m] = leader_state[m] /\ m # p
        /\ log'[m] = log[m] /\ current_term'[m] = current_term[m]
    BY <1>1, <1>2, Zenon
  <2>2. /\ leader_state[m].next_index[q] <= Len(log[m]) + 1
        /\ appends[m][q].kind = "request" => appends[m][q].term = current_term[m]
        /\ AckOK(m, leader_state[m].match_index[q])
        /\ Succeeded(appends[m][q]) => AckOK(m, appends[m][q].match_index)
    BY <2>1, Zenon DEF LogInv, AcksOK
  <2>3. /\ appends'[m][q].kind = "request" => appends'[m][q] = appends[m][q]
        /\ Succeeded(appends'[m][q]) =>
             \/ appends'[m][q] = appends[m][q]
             \/ q = p /\ appends[m][q] = r /\ appends'[m][q].match_index = Len(log'[p])
    BY Zenon DEF Stores
  <2>4. appends[m][q] = r => /\ Len(log'[p]) \in 1..Len(log[m])
                             /\ log[m][Len(log'[p])].term = current_term[m]
    <3>. SUFFICES ASSUME appends[m][q] = r
                  PROVE  /\ Len(log'[p]) \in 1..Len(log[m])
                         /\ log[m][Len(log'[p])].term = current_term[m]
      OBVIOUS
    <3>1. r.term = current_term[m]
      BY <1>1, <2>2, Zenon DEF AppendRequest
    <3>2. log[m] = L[r.term]
      BY <2>1, <3>1, Zenon DEF LogInv, LogsOK
    <3>3. log'[p] # <<>>
      BY <1>1
    <3>4. log'[p][Len(log'[p])].term = r.term
      BY <1>1, <3>3, LastTermOfEntry, Zenon
    <3>5. log'[p][Len(log'[p])] = L[r.term][Len(log'[p])]
      BY <1>1
    <3>. QED  BY <1>1, <3>1, <3>2, <3>4, <3>5, Zenon
  <2>5. ASSUME Succeeded(appends'[m][q]) PROVE AckOK(m, appends[m][q].match_index)'
    BY <2>1, <2>2, <2>3, <2>4, <2>5, Zenon DEF AckOK
  <2>6. AckOK(m, leader_state[m].match_index[q])'
    BY <2>1, <2>2, Zenon DEF AckOK
  <2>. QED  BY <2>1, <2>2, <2>3, <2>5, <2>6, Zenon
<1>. QED  BY <1>3, <1>4, <1>5, <1>6, <1>7, Zenon DEF LogInv

-----------------------------------------------------------------------------
(* How up to date logs are.                                                *)

\* is_log_up_to_date compares by a total order.
LEMMA UpToDateTransitive ==
  ASSUME NEW t1 \in Nat, NEW i1 \in Nat, NEW t2 \in Nat, NEW i2 \in Nat, NEW t3 \in Nat,
         NEW i3 \in Nat, UpToDate(t1, i1, t2, i2), UpToDate(t2, i2, t3, i3)
  PROVE  UpToDate(t1, i1, t3, i3)
BY DEF UpToDate

\* A log that is at least as up to date as a secured entry holds it, and holds what
\* its leader's log had below it.
LEMMA HoldsPrefix ==
  ASSUME NEW L \in Ledger, \A u \in Term : Ascending(L[u]),
         NEW lg \in Seq(Entry), Follows(lg, L), NEW t \in Term,
         NEW a \in 1..Len(L[t]), L[t][a].term = t, Kept(L, t, a), AtLeast(lg, t, a)
  PROVE  a <= Len(lg) /\ \A j \in 1..a : lg[j] = L[t][j]
<1>. DEFINE u == LastTerm(lg)
<1>1. /\ t \in Nat /\ L[t] \in Seq(Entry) /\ Len(L[t]) \in Nat /\ a \in Nat /\ a >= 1
  BY DEF Term, Ledger
<1>2. lg # <<>>
  BY <1>1, LastTermOfEntry DEF AtLeast, UpToDate
<1>3. /\ u \in Term /\ u \in Nat /\ Len(lg) \in 1..Len(L[u]) /\ Len(lg) \in Nat
      /\ \A j \in 1..Len(lg) : lg[j] = L[u][j]
      /\ lg[Len(lg)].term = u /\ L[u] \in Seq(Entry) /\ Len(L[u]) \in Nat
  BY <1>2, FollowsLast, LastTermOfEntry, Zenon DEF Term, Ledger
<1>4. u > t \/ (u = t /\ Len(lg) >= a)
  BY Zenon DEF AtLeast, UpToDate
<1>. HIDE DEF u
<1>5. CASE u = t /\ Len(lg) >= a
  BY <1>1, <1>3, <1>5
<1>6. CASE u > t
  <2>1. L[u] # <<>>
    BY <1>3
  <2>2. a \in 1..Len(L[u]) /\ L[u][a].term = t
    BY <1>3, <1>6, <2>1, Zenon DEF Kept
  <2>3. a <= Len(lg)
    <3>. SUFFICES ASSUME Len(lg) <= a PROVE FALSE
      <4>1. a <= Len(lg) \/ Len(lg) <= a
        BY <1>1, <1>3
      <4>. QED  BY <4>1, Zenon
    <3>1. L[u][Len(lg)].term <= L[u][a].term
      BY <1>3, <2>2, Zenon DEF Ascending
    <3>2. L[u][Len(lg)].term = u
      BY <1>3
    <3>. QED  BY <1>1, <1>3, <1>6, <2>2, <3>1, <3>2
  <2>4. a \in 1..Len(lg) /\ lg[a].term = t
    BY <1>1, <1>3, <2>2, <2>3
  <2>. QED  BY <2>3, <2>4, Zenon DEF Follows
<1>. QED  BY <1>4, <1>5, <1>6, Zenon

\* Logs that do not change are no less up to date,
LEMMA SameLogsAdvance ==
  ASSUME TypeOK, log' = log
  PROVE  LogsAdvance
BY LastTermOfEntry DEF LogsAdvance, AtLeast, UpToDate, TypeOK, InnerTypeOK

\* nor is one that become_leader_inner or propose appends to,
LEMMA GrowsAdvance ==
  ASSUME TypeOK, NEW L \in Ledger, LogInv(L), NEW n \in Node, NEW e, NEW L2, Grows(n, e, L, L2)
  PROVE  LogsAdvance /\ LastTerm(log'[n]) = current_term[n]
<1>1. /\ \A m \in Node \ {n} : log'[m] = log[m]
      /\ log'[n] \in Seq(Entry) /\ log[n] \in Seq(Entry)
      /\ Len(log'[n]) = Len(log[n]) + 1 /\ Len(log[n]) \in Nat
      /\ log'[n][Len(log[n]) + 1] = e
  BY GrowsExtends
<1>a. e.term = current_term[n]
  BY Zenon DEF Grows
<1>2. \A m \in Node : LastTerm(log[m]) \in Nat /\ Len(log[m]) \in Nat
  BY LastTermOfEntry, Zenon DEF TypeOK, InnerTypeOK
<1>3. LastTerm(log[n]) <= current_term[n] /\ current_term[n] \in Nat
  BY Zenon DEF LogInv, LogsOK, TypeOK, InnerTypeOK, Term
<1>4. LastTerm(log'[n]) = current_term[n]
  <2>1. log'[n] # <<>>
    BY <1>1
  <2>. QED  BY <1>1, <1>a, <2>1, LastTermOfEntry, Zenon
<1>5. AtLeast(log'[n], LastTerm(log[n]), Len(log[n]))
  BY <1>1, <1>2, <1>3, <1>4 DEF AtLeast, UpToDate
<1>6. \A m \in Node \ {n} : AtLeast(log'[m], LastTerm(log[m]), Len(log[m]))
  <2>1. \A k \in Nat : k >= k
    OBVIOUS
  <2>. QED  BY <1>1, <1>2, <2>1, Zenon DEF AtLeast, UpToDate
<1>. QED  BY <1>4, <1>5, <1>6, Zenon DEF LogsAdvance

\* nor one that handle_append_entries may have truncated: it ends in a later term
\* than before, or in the same term and is no shorter.
LEMMA StoresAdvance ==
  ASSUME WellOrdered, TypeOK, NEW L \in Ledger, LogInv(L), NEW p \in Node,
         NEW r \in Requests, Stores(p, r)
  PROVE  LogsAdvance
<1>1. /\ \A q \in Node \ {p} : log'[q] = log[q]
      /\ log[p] \in Seq(Entry) /\ log'[p] \in Seq(Entry)
      /\ LastTerm(log'[p]) = r.term /\ LastTerm(log[p]) <= r.term
      /\ LastTerm(log[p]) = r.term => Len(log[p]) <= Len(log'[p])
  BY StoresFollows, Zenon
<1>2. \A m \in Node : LastTerm(log[m]) \in Nat /\ Len(log[m]) \in Nat
  BY LastTermOfEntry, Zenon DEF TypeOK, InnerTypeOK
<1>3. LastTerm(log'[p]) \in Nat /\ Len(log'[p]) \in Nat
  BY <1>1, LastTermOfEntry, Zenon
<1>. QED  BY <1>1, <1>2, <1>3 DEF LogsAdvance, AtLeast, UpToDate

\* Who has reached an entry has it for good, and candidates keep to their requests.
LEMMA ReachedStays ==
  ASSUME TypeOK, TypeOK', LoopOK, Polls, LogsAdvance
  PROVE  /\ \A v \in Node, t \in Term, i \in Nat : Reached(v, t, i) => Reached(v, t, i)'
         /\ BallotsOK => BallotsOK'
<1>1. \A q \in Node : /\ LastTerm(log[q]) \in Nat /\ Len(log[q]) \in Nat
                      /\ LastTerm(log'[q]) \in Nat /\ Len(log'[q]) \in Nat
  BY LastTermOfEntry, Zenon DEF TypeOK, InnerTypeOK
<1>2. \A q \in Node : phase[q] = "vote" =>
        ballot[q].last_log_term \in Nat /\ ballot[q].last_log_index \in Nat
  BY Zenon DEF LoopOK, VoteRequest, Term
<1>3. \A q \in Node, t \in Nat, i \in Nat : AtLeast(log[q], t, i) => AtLeast(log'[q], t, i)
  BY <1>1, UpToDateTransitive, Zenon DEF LogsAdvance, AtLeast
<1>4. ASSUME NEW v \in Node, NEW t \in Term, NEW i \in Nat, Reached(v, t, i)
      PROVE  Reached(v, t, i)'
  <2>0. t \in Nat
    BY Zenon DEF Term
  <2>1. AtLeast(log[v], t, i) /\ AtLeast(log'[v], t, i)
    BY <1>3, <1>4, <2>0, Zenon DEF Reached
  <2>. SUFFICES ASSUME NEW c \in Node, phase'[c] = "vote", ballot'[c].term > t,
                       v \in CountedBy(c)'
                PROVE  UpToDate(ballot'[c].last_log_term, ballot'[c].last_log_index, t, i)
    BY <2>1, Zenon DEF Reached
  <2>2. CASE /\ ballot'[c].last_log_term = LastTerm(log[c])
             /\ ballot'[c].last_log_index = Len(log[c])
             /\ \A w \in CountedBy(c)' : w = c
    BY <2>1, <2>2, Zenon DEF AtLeast
  <2>3. CASE /\ phase[c] = "vote" /\ ballot'[c] = ballot[c]
             /\ \A w \in CountedBy(c)' :
                  w \in CountedBy(c) \/ (w \in Node /\ IsLogUpToDate(log[w], ballot[c]))
    <3>1. CASE v \in CountedBy(c)
      BY <1>4, <2>3, <3>1, Zenon DEF Reached
    <3>2. CASE IsLogUpToDate(log[v], ballot[c])
      <4>1. UpToDate(ballot[c].last_log_term, ballot[c].last_log_index,
                     LastTerm(log[v]), Len(log[v]))
        BY <3>2, Zenon DEF IsLogUpToDate, UpToDate
      <4>. QED  BY <1>1, <1>2, <2>0, <2>1, <2>3, <4>1, UpToDateTransitive, Zenon DEF AtLeast
    <3>. QED  BY <2>3, <3>1, <3>2, Zenon
  <2>. QED  BY <2>2, <2>3, Zenon DEF Polls
<1>5. ASSUME BallotsOK PROVE BallotsOK'
  <2>. SUFFICES ASSUME NEW c \in Node, phase'[c] = "vote"
                PROVE  AtLeast(log'[c], ballot'[c].last_log_term, ballot'[c].last_log_index)
    BY Zenon DEF BallotsOK
  <2>1. CASE /\ ballot'[c].last_log_term = LastTerm(log[c])
             /\ ballot'[c].last_log_index = Len(log[c])
    BY <2>1, Zenon DEF LogsAdvance
  <2>2. CASE phase[c] = "vote" /\ ballot'[c] = ballot[c]
    BY <1>2, <1>3, <1>5, <2>2, Zenon DEF BallotsOK
  <2>. QED  BY <2>1, <2>2, Zenon DEF Polls
<1>. QED  BY <1>4, <1>5, Zenon

=============================================================================
