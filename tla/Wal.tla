-------------------------------- MODULE Wal ---------------------------------
(***************************************************************************)
(* One write-ahead-log file across crashes: WalWriter appends to a buffer   *)
(* and syncs it to the file, a crash leaves any beginning of the buffered   *)
(* bytes in the file, and opening replays the file with WalReader and goes  *)
(* on appending behind whatever the file holds.                             *)
(*                                                                          *)
(* Records are numbered in the order of append, so that every record is     *)
(* told apart from every other.                                             *)
(***************************************************************************)
EXTENDS WalFile, SequencesExt

CONSTANTS MaxRecord,  \* bound: records appended in one behaviour
          MaxCrash    \* bound: crashes in one behaviour

VARIABLES file,       \* the fragments in the file
          buffer,     \* records in the BufWriter
          is_open,    \* whether a process has the file open
          recovered,  \* what the last opening replayed
          appended,   \* how many records have been appended
          crashes,
          synced,     \* history: records whose sync has returned
          first_tear  \* history: records appended before the first torn one

vars == <<file, buffer, is_open, recovered, appended, crashes, synced, first_tear>>

Init ==
  /\ file = <<>>
  /\ buffer = <<>>
  /\ is_open = TRUE
  /\ recovered = <<>>
  /\ appended = 0
  /\ crashes = 0
  /\ synced = {}
  /\ first_tear = MaxRecord

\* WalWriter::append
AppendRecord ==
  /\ is_open
  /\ appended < MaxRecord
  /\ appended' = appended + 1
  /\ buffer' = Append(buffer, appended + 1)
  /\ UNCHANGED <<file, is_open, recovered, crashes, synced, first_tear>>

\* Variant: fsync without a flush of the buffer first.
SyncWithoutFlush ==
  /\ is_open
  /\ buffer # <<>>
  /\ synced' = synced \cup {buffer[i] : i \in 1..Len(buffer)}
  /\ UNCHANGED <<file, buffer, is_open, recovered, appended, crashes, first_tear>>

\* WalWriter::sync: flush and fsync
Sync ==
  /\ is_open
  /\ buffer # <<>>
  /\ file' = file \o [i \in 1..Len(buffer) |-> Whole(buffer[i])]
  /\ synced' = synced \cup {buffer[i] : i \in 1..Len(buffer)}
  /\ buffer' = <<>>
  /\ UNCHANGED <<is_open, recovered, appended, crashes, first_tear>>

\* The process dies: some beginning of the buffered bytes has reached the file.
Crash ==
  /\ is_open
  /\ crashes < MaxCrash
  /\ crashes' = crashes + 1
  /\ is_open' = FALSE
  /\ buffer' = <<>>
  /\ \E k \in 0..Len(buffer) :
       LET complete == file \o [i \in 1..k |-> Whole(buffer[i])] IN
       \/ file' = complete /\ UNCHANGED first_tear
       \/ /\ k < Len(buffer)
          /\ \E part \in TornParts : file' = Append(complete, Torn(part))
          /\ first_tear' = Min({first_tear, buffer[k + 1] - 1})
  /\ UNCHANGED <<recovered, appended, synced>>

\* WalReader::open and read_all, then WalWriter::open in append mode.
Open ==
  /\ ~is_open
  /\ is_open' = TRUE
  /\ recovered' = ReadAll(file)
  /\ UNCHANGED <<file, buffer, appended, crashes, synced, first_tear>>

Next == AppendRecord \/ Sync \/ Crash \/ Open

Spec == Init /\ [][Next]_vars

-----------------------------------------------------------------------------
(* Properties.                                                             *)

\* Fragments in the file, records in the buffer, and the counters of both.
WalTypeOK ==
  /\ \A i \in DOMAIN file : \/ file[i] \in [part : {"whole"}, data : 1..MaxRecord]
                            \/ file[i] \in [part : TornParts]
  /\ buffer \in Seq(1..MaxRecord)
  /\ recovered \in Seq(1..MaxRecord)
  /\ is_open \in BOOLEAN
  /\ appended \in 0..MaxRecord
  /\ crashes \in 0..MaxCrash
  /\ synced \subseteq 1..MaxRecord
  /\ first_tear \in 0..MaxRecord

\* Every record whose sync returned is replayed, through any number of crashes,
\* as long as no crash has torn a record in front of it: read_all stops at a tear
\* and WalWriter::open appends behind one.
SyncedInFrontOfTearSurvive ==
  \A r \in synced : r <= first_tear => r \in Range(ReadAll(file))

\* Whatever the crashes, a replay yields records in the order of their appends
\* and none twice: a record cut short never shifts or repeats the ones around it.
ReplayInOrder ==
  \A i, j \in DOMAIN recovered : i < j => recovered[i] < recovered[j]

\* writer.rs: sync is there for `ensuring durability'.  Every record whose sync
\* returned is replayed.
SyncedSurvive == synced \subseteq Range(ReadAll(file))

=============================================================================
