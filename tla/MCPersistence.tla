---------------------------- MODULE MCPersistence ----------------------------
(***************************************************************************)
(* What a restarted node remembers, for TLC: its term and vote (VoteState) *)
(* and its log (RaftCompaction).  The two share no state: a behaviour is   *)
(* one of the component that `part' names.                                 *)
(***************************************************************************)
EXTENDS VoteState, TLC

CONSTANTS Node, NoEntry

VARIABLES part,
          node_term, role, log, commit_index, last_applied, next_index, match_index,
          handed, lagged, misplaced, snaps, crashes, lost

log_vars == <<node_term, role, log, commit_index, last_applied, next_index, match_index,
              handed, lagged, misplaced, snaps, crashes, lost>>

Log == INSTANCE RaftCompaction WITH
         MaxTerm <- 2, MaxIndex <- 2, MaxSnap <- 1, MaxCrash <- 1, MaxLost <- 1,
         current_term <- node_term

PersistenceInit == part \in {"votes", "log"} /\ Init /\ Log!Init

PersistenceNext ==
  \/ part = "votes" /\ Next /\ UNCHANGED <<part, log_vars>>
  \/ part = "log" /\ Log!Next /\ UNCHANGED <<part, vars>>

PersistenceSpec == PersistenceInit /\ [][PersistenceNext]_<<part, vars, log_vars>>

Symmetry == Permutations(Node)

\* The states behind a fault are not expanded: no property but the types says
\* anything of them.
NoFaultYet == ~fault /\ Log!Sound

-----------------------------------------------------------------------------
(* The properties of RaftCompaction, in its behaviours.                    *)

\* Type invariant: the persisted vote (PersistentState), and the log of each node with
\* its base (RaftLog).
PersistenceTypeOK == VoteStateTypeOK /\ (part = "log" => Log!CompactionTypeOK)

\* RaftLog::get and term_at: position and index agree, also on the index of a snapshot.
ReadsByIndexIfSound ==
  part = "log" => Log!GetByIndexIfSound /\ Log!SnapshotTermIfSound

\* take_committed_entries and handle_append_response: no two state machines are handed
\* different entries, and what the leader counts as replicated is there.
AgreementIfSound ==
  part = "log" => Log!HandedAgreeIfSound /\ Log!ReplicatedMatchesIfSound

=============================================================================
