------------------------------ MODULE RaftLog -------------------------------
(***************************************************************************)
(* RaftLog of raft-consensus as a value: the in-memory entries behind a     *)
(* snapshot, and the records of the write-ahead log, which only ever grows. *)
(* An entry carries the index it was appended with; the log finds entries   *)
(* by their position.                                                       *)
(***************************************************************************)
EXTENDS Naturals, Sequences, SequencesExt

CONSTANT NoEntry  \* Rust's Option::None, for a lookup that finds nothing

\* RaftLog::open: every record of the WAL, and no memory of a snapshot.
OpenLog(wal) == [entries |-> wal, snapshot_index |-> 0, snapshot_term |-> 0, wal |-> wal]

\* RaftLog::append: each entry to the WAL, one sync, then the in-memory entries.
AppendEntries(log, es) ==
  [log EXCEPT !.entries = @ \o es, !.wal = @ \o es]

\* RaftLog::get: by position behind the snapshot.
Get(log, index) ==
  LET position == index - log.snapshot_index IN
  IF index > log.snapshot_index /\ position <= Len(log.entries)
  THEN log.entries[position] ELSE NoEntry

\* RaftLog::last_index and last_term: what the last entry says of itself.
LastIndex(log) ==
  IF log.entries = <<>> THEN log.snapshot_index ELSE Last(log.entries).index

LastTerm(log) ==
  IF log.entries = <<>> THEN log.snapshot_term ELSE Last(log.entries).term

\* RaftLog::term_at
TermAt(log, index) ==
  IF index = 0 THEN 0
  ELSE IF index = log.snapshot_index THEN log.snapshot_term
  ELSE IF Get(log, index) # NoEntry THEN Get(log, index).term ELSE NoEntry

\* RaftLog::match_term
MatchTerm(log, index, term) == TermAt(log, index) = term

\* RaftLog::entries_from: from below the snapshot, all there is.
EntriesFrom(log, start) ==
  IF start <= log.snapshot_index THEN log.entries
  ELSE SubSeq(log.entries, start - log.snapshot_index, Len(log.entries))

\* RaftLog::truncate_after: in memory only, the WAL keeps what is cut off.
TruncateAfter(log, index) ==
  [log EXCEPT !.entries = IF index <= log.snapshot_index THEN <<>>
                          ELSE SubSeq(@, 1, Min({index - log.snapshot_index, Len(@)}))]

\* RaftLog::compact
Compact(log, index, term) ==
  IF index <= log.snapshot_index THEN log
  ELSE [log EXCEPT !.entries = SubSeq(@, index - log.snapshot_index + 1, Len(@)),
                   !.snapshot_index = index,
                   !.snapshot_term = term]

=============================================================================
