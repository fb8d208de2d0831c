------------------------------ MODULE VoteState ------------------------------
(***************************************************************************)
(* The term and the vote of one node, and the file that keeps them.  The   *)
(* handlers run under the node's lock and save before they answer; a save  *)
(* writes a temporary file and renames it over raft_state.json, ignoring   *)
(* the error of either.  Nothing is synced.  The node may crash between    *)
(* any two of these steps, alone or with its machine.                      *)
(***************************************************************************)
EXTENDS Integers

CONSTANTS Candidate,  \* the nodes that ask for votes
          Self,       \* this node, one of them
          MaxTerm,    \* bound: the term
          MayFail,    \* a write or a rename can fail
          MayLosePower

ASSUME VoteStateConstants ==
  /\ Self \in Candidate /\ MaxTerm \in Nat /\ {MayFail, MayLosePower} \subseteq BOOLEAN

VARIABLES
  up, current_term, voted_for,   \* the node; its vote is a set of at most one
  file, tmp,                     \* raft_state.json and raft_state.tmp
  stable,                        \* what the disk is sure to keep of raft_state.json
  step, after,                   \* where the handler is, and where its save leads
  ask, yes,                      \* its request, and whether it grants the vote
  granted,                       \* history: the votes answered, own ones included
  told,                          \* history: the highest term of an answer
  fault                          \* history: an error or a loss of power hit the file

node == <<current_term, voted_for>>
disk == <<file, tmp, stable>>
handler == <<step, after, ask, yes>>
history == <<granted, told>>
vars == <<up, node, disk, handler, history, fault>>

File == [kind : {"none", "torn", "json"}, term : 0..MaxTerm, vote : SUBSET Candidate]
Ask == [term : 0..MaxTerm, from : Candidate]
Grant == [term : 0..MaxTerm, to : Candidate]
NoFile == [kind |-> "none", term |-> 0, vote |-> {}]
Torn == [kind |-> "torn", term |-> 0, vote |-> {}]
Json(t, v) == [kind |-> "json", term |-> t, vote |-> v]

Init ==
  /\ up = TRUE /\ current_term = 0 /\ voted_for = {}
  /\ file = NoFile /\ tmp = NoFile /\ stable = NoFile
  /\ step = "idle" /\ after = "answer" /\ ask = [term |-> 0, from |-> Self] /\ yes = FALSE
  /\ granted = {} /\ told = 0 /\ fault = FALSE

\* No handler runs: its locals are gone.
Idle == step' = "idle" /\ after' = "answer" /\ ask' = [term |-> 0, from |-> Self] /\ yes' = FALSE

-----------------------------------------------------------------------------
(* PersistentState::save.                                                  *)

\* The write replaces the temporary file; when it fails it leaves part of the text
\* or, if the file could not be opened, what was there before.
Write ==
  /\ up /\ step = "write" /\ step' = "rename"
  /\ \/ tmp' = Json(current_term, voted_for) /\ UNCHANGED fault
     \/ MayFail /\ tmp' \in {tmp, Torn} /\ fault' = TRUE
  /\ UNCHANGED <<up, node, file, stable, after, ask, yes, history>>

\* The rename moves whatever temporary file there is.
Rename ==
  /\ up /\ step = "rename" /\ step' = after
  /\ \/ /\ tmp # NoFile /\ file' = tmp /\ tmp' = NoFile
        /\ UNCHANGED fault
     \/ /\ tmp = NoFile \/ MayFail
        /\ fault' = TRUE /\ UNCHANGED <<file, tmp>>
  /\ UNCHANGED <<up, node, stable, after, ask, yes, history>>

-----------------------------------------------------------------------------
(* The handlers.                                                           *)

\* Variant: step_down_inner does not save.
ReceiveUnsaved(c, t) ==
  /\ up /\ step = "idle"
  /\ ask' = [term |-> t, from |-> c] /\ yes' = FALSE /\ after' = "decide"
  /\ IF t > current_term
     THEN current_term' = t /\ voted_for' = {} /\ step' = "decide"
     ELSE UNCHANGED node /\ step' = "decide"
  /\ UNCHANGED <<up, disk, history, fault>>

\* A vote request, not a pre-vote, arrives.  A higher term is adopted by
\* step_down_inner, which saves.
Receive(c, t) ==
  /\ up /\ step = "idle"
  /\ ask' = [term |-> t, from |-> c] /\ yes' = FALSE /\ after' = "decide"
  /\ IF t > current_term
     THEN current_term' = t /\ voted_for' = {} /\ step' = "write"
     ELSE UNCHANGED node /\ step' = "decide"
  /\ UNCHANGED <<up, disk, history, fault>>

\* should_grant_vote, without the comparison of the logs.
Allowed == ask.term >= current_term /\ voted_for \subseteq {ask.from}

\* Variant: the answer is given before the vote is saved.
DecideUnsaved ==
  /\ up /\ step = "decide" /\ step' = "answer"
  /\ \/ Allowed /\ voted_for' = {ask.from} /\ yes' = TRUE
     \/ UNCHANGED <<voted_for, yes>>
  /\ UNCHANGED <<up, current_term, disk, after, ask, history, fault>>

\* The vote is granted and saved, or refused: also for the candidate's log.
Decide ==
  /\ up /\ step = "decide"
  /\ \/ /\ Allowed /\ voted_for' = {ask.from} /\ yes' = TRUE
        /\ step' = "write" /\ after' = "answer"
     \/ /\ step' = "answer" /\ UNCHANGED <<voted_for, yes, after>>
  /\ UNCHANGED <<up, current_term, disk, ask, history, fault>>

\* start_election: the node votes for itself and saves, then it sends its requests.
StartElection ==
  /\ up /\ step = "idle" /\ current_term < MaxTerm
  /\ current_term' = current_term + 1 /\ voted_for' = {Self}
  /\ ask' = [term |-> current_term + 1, from |-> Self] /\ yes' = TRUE
  /\ step' = "write" /\ after' = "answer"
  /\ UNCHANGED <<up, disk, history, fault>>

\* The answer, or the candidate's requests, leave the node.
Answer ==
  /\ up /\ step = "answer" /\ Idle
  /\ told' = IF told > current_term THEN told ELSE current_term
  /\ granted' = granted \cup (IF yes THEN {[term |-> current_term, to |-> ask.from]} ELSE {})
  /\ UNCHANGED <<up, node, disk, fault>>

-----------------------------------------------------------------------------
(* Crashes.                                                                *)

\* The process ends; its files are as it left them.
Crash ==
  /\ up /\ up' = FALSE /\ Idle
  /\ UNCHANGED <<node, disk, history, fault>>

\* The machine writes its cache back at a time of its own.
Sync ==
  /\ stable # file /\ stable' = file
  /\ UNCHANGED <<up, node, file, tmp, handler, history, fault>>

\* The machine stops: of a file that was not synced it keeps the new text, the old
\* one, or the new name without its text.
LosePower ==
  /\ MayLosePower
  /\ up' = FALSE /\ Idle
  /\ file' \in IF file = stable THEN {file} ELSE {file, stable, Torn}
  /\ stable' = file' /\ tmp' \in {tmp, NoFile}
  /\ fault' = (fault \/ file' # file)
  /\ UNCHANGED <<node, history>>

\* PersistentState::load: no file, or one that does not parse, is a new state.
LoadedTerm == IF file.kind = "json" THEN file.term ELSE 0
LoadedVote == IF file.kind = "json" THEN file.vote ELSE {}

Restart ==
  /\ ~up /\ up' = TRUE
  /\ current_term' = LoadedTerm /\ voted_for' = LoadedVote
  /\ UNCHANGED <<disk, handler, history, fault>>

Next ==
  \/ \E c \in Candidate \ {Self}, t \in 1..MaxTerm : Receive(c, t)
  \/ Decide \/ StartElection \/ Answer
  \/ Write \/ Rename
  \/ Crash \/ Sync \/ LosePower \/ Restart

Spec == Init /\ [][Next]_vars

-----------------------------------------------------------------------------
(* Properties.                                                             *)

\* Every variable has the type its Rust declaration gives it, and a node that is down
\* is in no handler.
VoteStateTypeOK ==
  /\ up \in BOOLEAN /\ current_term \in 0..MaxTerm
  /\ voted_for \subseteq Candidate
  /\ file \in File /\ tmp \in File /\ stable \in File
  /\ step \in {"idle", "write", "rename", "decide", "answer"}
  /\ after \in {"decide", "answer"}
  /\ ask \in Ask /\ yes \in BOOLEAN
  /\ granted \subseteq Grant /\ told \in 0..MaxTerm
  /\ fault \in BOOLEAN
  /\ ~up => step = "idle"

\* handle_vote_request and start_election give one vote in a term, whatever happens.
VotesOnce == \A g, h \in granted : g.term = h.term => g.to = h.to

\* They do so across crashes of the process between any two steps of a save, as long
\* as no write or rename failed and no loss of power reached the file.
VotesOnceUnlessFault == ~fault => VotesOnce

\* Nor does a node come back in a term before one it has answered in.
TermKeptUnlessFault == ~fault /\ up => told <= current_term

=============================================================================
