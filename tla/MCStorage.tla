------------------------------ MODULE MCStorage ------------------------------
(***************************************************************************)
(* The files of raft-storage and raft-wal for TLC: the LSM tree (Lsm), the *)
(* format of its files (SSTable), the snapshot directory (Snapshots) and a *)
(* write-ahead log (Wal).  They share no state: a behaviour is one of the  *)
(* component that `part' names, and the others stay as they were opened.   *)
(***************************************************************************)
EXTENDS Lsm

CONSTANT Corruption

VARIABLES
  part,
  phase, entries, writer, hash, sst_file,                   \* SSTable
  data, meta, commit_index, snapshot_index, job, backup,    \* Snapshots
  backups, spent, taken, rewritten,
  wal_file, buffer, is_open, recovered, appended, crashes,  \* Wal
  synced, first_tear

sst_vars == <<phase, entries, writer, hash, sst_file>>
snap_vars == <<data, meta, commit_index, snapshot_index, job, backup, backups, spent, taken,
               rewritten>>
wal_vars == <<wal_file, buffer, is_open, recovered, appended, crashes, synced, first_tear>>

\* A long behaviour with a crash, shorter ones with crashes and a file operation that
\* fails, and short ones with a read, without and with such a failure.
MCBudgets ==
  {[writes |-> 5, crashes |-> 1, faults |-> 0, reads |-> 0],
   [writes |-> 3, crashes |-> 1, faults |-> 1, reads |-> 0],
   [writes |-> 2, crashes |-> 2, faults |-> 1, reads |-> 0],
   [writes |-> 3, crashes |-> 0, faults |-> 0, reads |-> 1],
   [writes |-> 2, crashes |-> 0, faults |-> 1, reads |-> 1]}

\* Byte strings: the empty one, a prefix of another, and neighbours.
Sst == INSTANCE SSTable WITH
         Key <- {<<1>>, <<1, 7>>, <<2>>}, Value <- {<<>>, <<9, 9>>},
         Hashes <- {<<3, 0>>, <<65530, 7>>}, BlockSizes <- {1, 20, 200},
         Cuts <- {1, 2, 4, 5, 20, 39, 40, 41, 48, 49, 60, 80, 110}, MaxEntries <- 3,
         file <- sst_file
Snap == INSTANCE Snapshots WITH
          MaxIndex <- 3, MaxTrigger <- 3, MaxBackup <- 1, MaxRestore <- 1, MaxFault <- 2
Log == INSTANCE Wal WITH MaxRecord <- 5, MaxCrash <- 3, file <- wal_file

StorageInit ==
  /\ part \in {"lsm", "sstable", "snapshots", "wal"}
  /\ Init /\ Sst!Init /\ Snap!Init /\ Log!Init
  /\ part # "lsm" => left.writes = 5
  /\ part # "sstable" => writer = Sst!NewWriter(1, 1) /\ \A key \in DOMAIN hash : hash[key] = <<3, 0>>

StorageNext ==
  \/ part = "lsm" /\ Next /\ UNCHANGED <<part, sst_vars, snap_vars, wal_vars>>
  \/ part = "sstable" /\ Sst!Next /\ UNCHANGED <<part, vars, snap_vars, wal_vars>>
  \/ part = "snapshots" /\ Snap!Next /\ UNCHANGED <<part, vars, sst_vars, wal_vars>>
  \/ part = "wal" /\ Log!Next /\ UNCHANGED <<part, vars, sst_vars, snap_vars>>

StorageSpec ==
  StorageInit /\ [][StorageNext]_<<part, vars, sst_vars, snap_vars, wal_vars>>

-----------------------------------------------------------------------------
(* The properties of the components, in the behaviours of each.            *)

\* Type invariant: the tree (LsmEngine), the writer and its file (SSTableWriter), the
\* snapshot directory (SnapshotManager) and the write-ahead log (WalWriter, WalReader).
StorageTypeOK ==
  /\ LsmTypeOK
  /\ part = "sstable" => Sst!SSTableTypeOK
  /\ part = "snapshots" => Snap!SnapshotTypeOK
  /\ part = "wal" => Log!WalTypeOK

\* SSTableReader::get, scan and iter return what was added to a finished file, and
\* open rejects a file that a crash cut short.
FileReadsAsWritten ==
  part = "sstable" => Sst!GetsWhatWasAdded /\ Sst!ScansWhatWasAdded /\ Sst!TornFileRejected

\* create_snapshot: a complete snapshot covers what the log was compacted to.
CoveredUnlessRewritten == part = "snapshots" => Snap!CoveredUnlessRewritten

\* load_latest for create_backup: whole data of a snapshot that is not outdated.
BackupFromLatest == part = "snapshots" => Snap!BackupFromLatest

\* WalWriter::sync and WalReader::read_all: records come back in order and once, and
\* none that was synced in front of the first tear is missing.
ReplaySound == part = "wal" => Log!ReplayInOrder /\ Log!SyncedInFrontOfTearSurvive

=============================================================================
