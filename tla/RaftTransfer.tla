---------------------------- MODULE RaftTransfer ----------------------------
(***************************************************************************)
(* Leadership transfer on top of RaftNode: the leader stops taking         *)
(* proposals, waits until its target holds its whole log and sends it      *)
(* TimeoutNow, on which the target starts an election in the RPC handler,  *)
(* while its event loop may still be in an older vote round.               *)
(*                                                                         *)
(* The steps of RaftNode are taken over; transfer_state is added to what   *)
(* they change (step_down_inner clears it, propose asks for it), and the   *)
(* end of a replication round goes through check_transfer.                 *)
(*                                                                         *)
(* The entries of a membership change do not go through propose, so the    *)
(* leader appends them during a transfer too.  What a change does to       *)
(* quorums is Membership's matter: here a commit needs a majority of Node, *)
(* which the quorums of a change of one member contain.                    *)
(***************************************************************************)
EXTENDS RaftNode

CONSTANTS Joint, Final,  \* the payloads of C_old,new and of C_new
          MaxTransfer    \* bound: transfers requested in one behaviour

ASSUME ConfigAssumption == {Joint, Final} \subseteq Command
ASSUME TransferBoundAssumption == MaxTransfer \in Nat

VARIABLES
  \* RaftNodeInner.transfer_state
  transfer_state,
  \* the event loop: the target it is about to send TimeoutNow to, or None
  handoff,
  \* TimeoutNow messages under way
  timeouts,
  \* how many transfers have been requested
  transfers,
  \* MembershipState.change_in_progress
  change_in_progress,
  \* the apply loop: the last entry of a membership change that it applied
  config_applied

changeVars == <<change_in_progress, config_applied>>
transferVars == <<transfer_state, handoff, timeouts, transfers, changeVars>>
allVars == <<vars, transferVars>>

TransferState == [target : Node, timeout_now_sent : BOOLEAN]
NoTransfer == [target |-> None, timeout_now_sent |-> FALSE]
TimeoutNow == [to : Node, term : Term, leader_id : Node]

TransferInit ==
  /\ Init
  /\ transfer_state = [n \in Node |-> NoTransfer]
  /\ handoff = [n \in Node |-> None]
  /\ timeouts = {}
  /\ transfers = 0
  /\ change_in_progress = [n \in Node |-> FALSE]
  /\ config_applied = [n \in Node |-> 0]

-----------------------------------------------------------------------------
(* Steps of RaftNode.                                                      *)

\* The steps that run step_down_inner in the nodes whose term they raise, and
\* change no term otherwise.
Receive ==
  /\ \/ \E n \in Node :
          \/ StartPreVote(n) \/ CandidateTimeout(n) \/ HandleVoteResponse(n)
          \/ VoteResponseLost(n) \/ EndVoteRound(n) \/ SendAppendEntries(n)
          \/ \E p \in Node : \/ DeliverVoteRequest(n, p) \/ VoteRequestFails(n, p)
                             \/ DeliverAppendEntries(n, p) \/ HandleAppendResponse(n, p)
                             \/ AppendEntriesFails(n, p)
     \/ \E m \in late_votes : DeliverLateVote(m)
     \/ \E m \in late_appends : DeliverLateAppend(m)
  /\ transfer_state' = [n \in Node |-> IF current_term'[n] # current_term[n]
                                       THEN NoTransfer ELSE transfer_state[n]]
  /\ change_in_progress' = [n \in Node |-> /\ current_term'[n] = current_term[n]
                                           /\ change_in_progress[n]]
  /\ UNCHANGED <<handoff, timeouts, transfers, config_applied>>

\* start_election leaves transfer_state alone.
Campaign(n) == StartElection(n) /\ UNCHANGED transferVars

\* Variant: propose without the check.
ProposeUnblocked(n) ==
  /\ \E cmd \in Command \ {Joint, Final} : Propose(n, cmd)
  /\ UNCHANGED transferVars

\* propose turns clients away while a transfer is in progress.
ProposeInTransfer(n) ==
  /\ transfer_state[n] = NoTransfer
  /\ \E cmd \in Command \ {Joint, Final} : Propose(n, cmd)
  /\ UNCHANGED transferVars

RestartInTransfer(n) ==
  /\ Restart(n)
  /\ transfer_state' = [transfer_state EXCEPT ![n] = NoTransfer]
  /\ handoff' = [handoff EXCEPT ![n] = None]
  /\ change_in_progress' = [change_in_progress EXCEPT ![n] = FALSE]
  /\ config_applied' = [config_applied EXCEPT ![n] = 0]
  /\ UNCHANGED <<timeouts, transfers>>

-----------------------------------------------------------------------------
(* The entries of a membership change.  Neither of the two steps that       *)
(* append one looks at transfer_state.                                      *)

\* propose_config_change; begin_change refuses a second change.
ProposeConfigChange(n) ==
  /\ ~change_in_progress[n]
  /\ Propose(n, Joint)
  /\ change_in_progress' = [change_in_progress EXCEPT ![n] = TRUE]
  /\ UNCHANGED <<transfer_state, handoff, timeouts, transfers, config_applied>>

\* The apply loop comes to the next committed entry of a change: apply_config_change.
\* A leader that applies a joint entry appends the final one.
ApplyConfigChange(n) ==
  LET due == {i \in config_applied[n] + 1 .. commit_index[n] : log[n][i].data \in {Joint, Final}}
      i == CHOOSE x \in due : \A y \in due : x <= y
  IN
  /\ phase[n] = "idle" /\ due # {}
  /\ config_applied' = [config_applied EXCEPT ![n] = i]
  /\ \/ /\ log[n][i].data = Joint /\ role[n] = "Leader"
        /\ Propose(n, Final)
        /\ change_in_progress' = [change_in_progress EXCEPT ![n] = FALSE]
     \/ /\ log[n][i].data = Joint /\ role[n] # "Leader"
        /\ UNCHANGED <<vars, change_in_progress>>
     \/ /\ log[n][i].data = Final
        /\ change_in_progress' = [change_in_progress EXCEPT ![n] = FALSE]
        /\ UNCHANGED vars
  /\ UNCHANGED <<transfer_state, handoff, timeouts, transfers>>

-----------------------------------------------------------------------------
(* The transfer.                                                           *)

TransferLeadership(n, target) ==
  /\ role[n] = "Leader" /\ target # n
  /\ transfer_state[n] = NoTransfer
  /\ transfers < MaxTransfer
  /\ transfers' = transfers + 1
  /\ transfer_state' = [transfer_state EXCEPT ![n] =
                          [target |-> target, timeout_now_sent |-> FALSE]]
  /\ UNCHANGED <<vars, handoff, timeouts, changeVars>>

\* check_transfer, after a replication round: a transfer that took too long is
\* dropped (whether it did is the clock's choice) ...
CheckTransferTimeout(n) ==
  /\ phase[n] = "append" /\ handoff[n] = None
  /\ \A p \in Node : appends[n][p] = NoRpc
  /\ transfer_state[n] # NoTransfer
  /\ transfer_state' = [transfer_state EXCEPT ![n] = NoTransfer]
  /\ UNCHANGED <<vars, handoff, timeouts, transfers, changeVars>>

\* TimeoutNow is due: the target is known to hold as much as the node's own log.
TimeoutNowDue(n) ==
  /\ transfer_state[n] # NoTransfer
  /\ ~transfer_state[n].timeout_now_sent
  /\ leader_state[n].match_index[transfer_state[n].target] >= Len(log[n])

\* ... and one whose target has caught up goes on to TimeoutNow.  Neither looks
\* at the role.
CheckTransferProgress(n) ==
  /\ phase[n] = "append" /\ handoff[n] = None
  /\ \A p \in Node : appends[n][p] = NoRpc
  /\ \/ /\ TimeoutNowDue(n)
        /\ transfer_state' = [transfer_state EXCEPT ![n].timeout_now_sent = TRUE]
        /\ handoff' = [handoff EXCEPT ![n] = transfer_state[n].target]
        /\ UNCHANGED phase
     \/ /\ ~TimeoutNowDue(n)
        /\ phase' = [phase EXCEPT ![n] = "idle"]
        /\ UNCHANGED <<transfer_state, handoff>>
  /\ UNCHANGED <<persistent, volatile, log, commit_index, wal_ahead, ballot, todo,
                 vote_response, appends, network, spent, history, timeouts, transfers,
                 changeVars>>

\* The term of the message is read under a lock of its own.  The call may fail with
\* the message still under way, so the loop does not wait for its delivery.
SendTimeoutNow(n) ==
  /\ handoff[n] # None
  /\ timeouts' = timeouts \cup
       {[to |-> handoff[n], term |-> current_term[n], leader_id |-> n]}
  /\ handoff' = [handoff EXCEPT ![n] = None]
  /\ phase' = [phase EXCEPT ![n] = "idle"]
  /\ UNCHANGED <<persistent, volatile, log, commit_index, wal_ahead, ballot, todo,
                 vote_response, appends, network, spent, history, transfer_state,
                 transfers, changeVars>>

\* handle_timeout_now starts an election.  The RPC handler that calls it drops the
\* vote requests it returns.
HandleTimeoutNow(p, t) ==
  IF t < current_term[p]
  THEN UNCHANGED <<current_term, voted_for, role, leader_id, election_state>>
  ELSE /\ current_term[p] < MaxTerm
       /\ current_term' = [current_term EXCEPT ![p] = @ + 1]
       /\ voted_for' = [voted_for EXCEPT ![p] = p]
       /\ role' = [role EXCEPT ![p] = "Candidate"]
       /\ leader_id' = [leader_id EXCEPT ![p] = None]
       /\ election_state' = [election_state EXCEPT ![p] = {p}]

DeliverTimeoutNow(m) ==
  /\ HandleTimeoutNow(m.to, m.term)
  /\ timeouts' = timeouts \ {m}
  /\ UNCHANGED <<log, commit_index, leader_state, wal_ahead, loop, network, spent,
                 history, transfer_state, handoff, transfers, changeVars>>

TimeoutNowLost(m) ==
  /\ timeouts' = timeouts \ {m}
  /\ UNCHANGED <<vars, transfer_state, handoff, transfers, changeVars>>

TransferNext ==
  \/ Receive
  \/ \E n \in Node :
       \/ Campaign(n)
       \/ ProposeInTransfer(n)
       \/ ProposeConfigChange(n)
       \/ ApplyConfigChange(n)
       \/ RestartInTransfer(n)
       \/ CheckTransferTimeout(n)
       \/ CheckTransferProgress(n)
       \/ SendTimeoutNow(n)
       \/ \E target \in Node : TransferLeadership(n, target)
  \/ \E m \in timeouts : DeliverTimeoutNow(m) \/ TimeoutNowLost(m)

TransferSpec == TransferInit /\ [][TransferNext]_allVars

-----------------------------------------------------------------------------
(* Properties.                                                             *)

\* Every variable of the transfer has the type its Rust declaration gives it.
TransferTypeOK ==
  /\ TypeOK
  /\ transfer_state \in [Node -> TransferState \cup {NoTransfer}]
  /\ handoff \in [Node -> Node \cup {None}]
  /\ timeouts \subseteq TimeoutNow
  /\ transfers \in 0..MaxTransfer
  /\ change_in_progress \in [Node -> BOOLEAN]
  /\ config_applied \in [Node -> Nat]

\* What check_transfer_progress waits for lasts: from the check until the transfer
\* ends or the term changes the target holds the leader's log as it was at the check,
\* and every client command in it, although clients go on proposing, a membership
\* change goes on appending and replication rounds go on failing.  What the leader has
\* and the target lacks is entries of a membership change, which do not ask for
\* transfer_state.  Stated for histories with one leader per term.
TargetHoldsLog ==
  ElectionSafety =>
    \A n, p \in Node :
      /\ transfer_state[n] = [target |-> p, timeout_now_sent |-> TRUE]
      /\ role[n] = "Leader" /\ current_term[p] = current_term[n]
      => /\ Len(log[p]) <= Len(log[n])
         /\ log[p] = SubSeq(log[n], 1, Len(log[p]))
         /\ \A i \in Len(log[p]) + 1 .. Len(log[n]) : log[n][i].data \in {Joint, Final}

\* leadership_transfer.rs, "Once the target's log matches the leader's, leader sends a
\* TimeoutNow message": the two logs stay the same while the hand-over lasts.
TargetMatchesLog ==
  \A n, p \in Node :
    /\ transfer_state[n] = [target |-> p, timeout_now_sent |-> TRUE]
    /\ role[n] = "Leader" /\ current_term[p] = current_term[n]
    => log[p] = log[n]

\* "Only handle if it's from a legitimate leader at current or higher term": the
\* TimeoutNow messages under way were sent by the node elected in their term.
TimeoutNowFromLeader ==
  \A m \in timeouts : Elected(m.leader_id, m.term)

\* "Won the real election": each vote behind a leader was given to it in the
\* term it leads.
WonRealElection ==
  \A e \in elected : \A v \in e.votes : Backs(v, e.node, e.term)

=============================================================================
