------------------------------ MODULE Snapshots ------------------------------
(***************************************************************************)
(* The snapshot directory of a node, and the backups that are made from it *)
(* and restored into it.  A snapshot is two files named after an index, a  *)
(* data file and a metadata file with the checksum of the data.            *)
(*                                                                         *)
(* trigger_snapshot and handle_install_snapshot hold the node's mutex, so  *)
(* one of them runs at a time (`job').  create_backup looks for the latest *)
(* snapshot without the mutex and reads its files while they are written   *)
(* or removed.  std::fs::write empties a file before it fills it: a crash, *)
(* an error or a reader in between finds a torn file.                      *)
(*                                                                         *)
(* The bytes of a snapshot are abstracted to the index it was created at   *)
(* and whether the file is whole; the checksum tells whole from torn.      *)
(***************************************************************************)
EXTENDS Integers, FiniteSets, FiniteSetsExt

CONSTANTS MaxIndex,    \* bound: the commit index
          MaxTrigger,  \* bound: snapshots triggered
          MaxBackup,   \* bound: backups begun
          MaxRestore,  \* bound: restores begun
          MaxFault     \* bound: crashes and failing writes

VARIABLES
  data, meta,     \* the files, by index
  commit_index,   \* RaftNodeInner.commit_index
  snapshot_index, \* of the log: what it has been compacted up to
  job,            \* the snapshot that is being written under the mutex
  backup,         \* the backup that is being made
  backups,        \* the backups that clients were given
  spent,          \* how often each bounded thing has happened
  taken,          \* history: highest index a finished job has written
  rewritten       \* history: a write to files of an existing snapshot was cut short

files == <<data, meta>>
node == <<commit_index, snapshot_index>>
vars == <<data, meta, commit_index, snapshot_index, job, backup, backups, spent, taken,
          rewritten>>

Index == 1..MaxIndex
Missing == [state |-> "missing", at |-> 0]
Torn(i) == [state |-> "torn", at |-> i]
Whole(i) == [state |-> "whole", at |-> i]
File == [state : {"missing", "torn", "whole"}, at : 0..MaxIndex]

\* A job writes the data created at `at' under `index', then removes `old'; `over'
\* says that it writes over a complete snapshot.
NoJob == [pc |-> "none", index |-> 0, at |-> 0, old |-> {}, over |-> FALSE]
NoBackup == [pc |-> "none", index |-> 0, expects |-> 0, got |-> Missing, floor |-> 0]

Init ==
  /\ data = [i \in Index |-> Missing] /\ meta = [i \in Index |-> Missing]
  /\ commit_index = 0 /\ snapshot_index = 0
  /\ job = NoJob /\ backup = NoBackup /\ backups = {}
  /\ spent = [trigger |-> 0, backup |-> 0, restore |-> 0, fault |-> 0]
  /\ taken = 0 /\ rewritten = FALSE

-----------------------------------------------------------------------------
(* What a reader finds in the directory.                                   *)

\* A snapshot that load_latest would accept: both files are there, the metadata
\* can be parsed and the checksum is the one of the data.
Complete(i) == /\ meta[i].state = "whole" /\ data[i].state = "whole"
               /\ meta[i].at = data[i].at

Named == {i \in Index : meta[i].state # "missing"}

\* find_latest_snapshot: the highest index that has a metadata file, whatever is
\* in it; 0 for none.
FindLatest == IF Named = {} THEN 0 ELSE Max(Named)

-----------------------------------------------------------------------------
(* Writing a snapshot: create_snapshot and receive_snapshot.               *)

\* trigger_snapshot, from trigger_compaction: at the commit index, if there is one.
TriggerSnapshot ==
  /\ job.pc = "none" /\ commit_index > 0
  /\ spent.trigger < MaxTrigger
  /\ spent' = [spent EXCEPT !.trigger = @ + 1]
  /\ job' = [pc |-> "data", index |-> commit_index, at |-> commit_index, old |-> {},
             over |-> Complete(commit_index)]
  /\ UNCHANGED <<files, node, backup, backups, taken, rewritten>>

\* restore with backup b: handle_install_snapshot for the commit index the backup
\* names, unless the log is compacted that far already.  The checksum is computed
\* from the received data, so it matches.
Restore(b) ==
  /\ job.pc = "none" /\ b.commit_index > snapshot_index
  /\ spent.restore < MaxRestore
  /\ spent' = [spent EXCEPT !.restore = @ + 1]
  /\ job' = [pc |-> "data", index |-> b.commit_index, at |-> b.data.at, old |-> {},
             over |-> Complete(b.commit_index)]
  /\ UNCHANGED <<files, node, backup, backups, taken, rewritten>>

\* std::fs::write of the data file, in two steps.
WriteData ==
  /\ \/ /\ job.pc = "data"
        /\ data' = [data EXCEPT ![job.index] = Torn(job.at)]
        /\ job' = [job EXCEPT !.pc = "data2"]
     \/ /\ job.pc = "data2"
        /\ data' = [data EXCEPT ![job.index] = Whole(job.at)]
        /\ job' = [job EXCEPT !.pc = "meta"]
  /\ UNCHANGED <<meta, node, backup, backups, spent, taken, rewritten>>

\* std::fs::write of the metadata file.
WriteMeta ==
  /\ \/ /\ job.pc = "meta"
        /\ meta' = [meta EXCEPT ![job.index] = Torn(job.at)]
        /\ job' = [job EXCEPT !.pc = "meta2"]
     \/ /\ job.pc = "meta2"
        /\ meta' = [meta EXCEPT ![job.index] = Whole(job.at)]
        /\ job' = [job EXCEPT !.pc = "list"]
  /\ UNCHANGED <<data, node, backup, backups, spent, taken, rewritten>>

FilesBelow(i) ==
  {<<"data", k>> : k \in {k \in Index : k < i /\ data[k].state # "missing"}}
    \cup {<<"meta", k>> : k \in {k \in Index : k < i /\ meta[k].state # "missing"}}

\* Variant: the snapshot that was just written counts as old.
CleanupAll ==
  /\ \/ /\ job.pc = "list"
        /\ job' = [job EXCEPT !.pc = "clean", !.old = FilesBelow(job.index + 1)]
        /\ UNCHANGED files
     \/ \E f \in job.old :
          /\ job.pc = "clean"
          /\ IF f[1] = "data"
             THEN data' = [data EXCEPT ![f[2]] = Missing] /\ UNCHANGED meta
             ELSE meta' = [meta EXCEPT ![f[2]] = Missing] /\ UNCHANGED data
          /\ job' = [job EXCEPT !.old = @ \ {f}]
  /\ UNCHANGED <<node, backup, backups, spent, taken, rewritten>>

\* cleanup_old_snapshots: the files of lower indexes are listed and removed in any
\* order.
Cleanup ==
  /\ \/ /\ job.pc = "list"
        /\ job' = [job EXCEPT !.pc = "clean", !.old = FilesBelow(job.index)]
        /\ UNCHANGED files
     \/ \E f \in job.old :
          /\ job.pc = "clean"
          /\ IF f[1] = "data"
             THEN data' = [data EXCEPT ![f[2]] = Missing] /\ UNCHANGED meta
             ELSE meta' = [meta EXCEPT ![f[2]] = Missing] /\ UNCHANGED data
          /\ job' = [job EXCEPT !.old = @ \ {f}]
  /\ UNCHANGED <<node, backup, backups, spent, taken, rewritten>>

\* The files are written: the log is compacted and, after a restore, the commit
\* index follows.
Finish ==
  /\ job.pc = "clean" /\ job.old = {}
  /\ snapshot_index' = Max({snapshot_index, job.index})
  /\ commit_index' = Max({commit_index, job.index})
  /\ taken' = Max({taken, job.index})
  /\ job' = NoJob
  /\ UNCHANGED <<files, backup, backups, spent, rewritten>>

\* The job has left a snapshot torn that was complete before it.
Rewrites == job.over /\ job.pc \in {"data2", "meta", "meta2"}

\* A write fails: the caller gets an error, what was written stays.
WriteFails ==
  /\ job.pc \in {"data", "data2", "meta", "meta2"}
  /\ spent.fault < MaxFault
  /\ spent' = [spent EXCEPT !.fault = @ + 1]
  /\ rewritten' = (rewritten \/ Rewrites)
  /\ job' = NoJob
  /\ UNCHANGED <<files, node, backup, backups, taken>>

\* The process dies and starts again: the files stay, RaftNode::new starts from a
\* commit index of 0 and a log that has not been compacted.
Crash ==
  /\ spent.fault < MaxFault
  /\ spent' = [spent EXCEPT !.fault = @ + 1]
  /\ rewritten' = (rewritten \/ Rewrites)
  /\ job' = NoJob /\ backup' = NoBackup
  /\ commit_index' = 0 /\ snapshot_index' = 0
  /\ UNCHANGED <<files, backups, taken>>

\* The node learns of a commit; between jobs, since both need the mutex.
Commit ==
  /\ job.pc = "none" /\ commit_index < MaxIndex
  /\ commit_index' = commit_index + 1
  /\ UNCHANGED <<files, snapshot_index, job, backup, backups, spent, taken, rewritten>>

-----------------------------------------------------------------------------
(* Making a backup: load_latest without the mutex.                         *)

BackupEnds == backup' = NoBackup /\ UNCHANGED backups

FindSnapshot ==
  /\ backup.pc = "none" /\ spent.backup < MaxBackup
  /\ spent' = [spent EXCEPT !.backup = @ + 1]
  /\ IF FindLatest = 0 THEN BackupEnds
     ELSE /\ backup' = [pc |-> "meta", index |-> FindLatest, expects |-> 0,
                        got |-> Missing, floor |-> taken]
          /\ UNCHANGED backups
  /\ UNCHANGED <<files, node, job, taken, rewritten>>

LoadMetadata ==
  /\ backup.pc = "meta"
  /\ IF meta[backup.index].state = "whole"
     THEN /\ backup' = [backup EXCEPT !.pc = "data", !.expects = meta[backup.index].at]
          /\ UNCHANGED backups
     ELSE BackupEnds
  /\ UNCHANGED <<files, node, job, spent, taken, rewritten>>

\* Variant: the checksum is not compared.
LoadDataUnchecked ==
  /\ backup.pc = "data"
  /\ backup' = IF data[backup.index] # Missing
               THEN [backup EXCEPT !.pc = "pack", !.got = data[backup.index]]
               ELSE NoBackup
  /\ UNCHANGED <<files, node, job, backups, spent, taken, rewritten>>

\* The data is read and its checksum compared with the one in the metadata.
LoadData ==
  /\ backup.pc = "data"
  /\ backup' = IF data[backup.index] = Whole(backup.expects)
               THEN [backup EXCEPT !.pc = "pack", !.got = data[backup.index]]
               ELSE NoBackup
  /\ UNCHANGED <<files, node, job, backups, spent, taken, rewritten>>

\* create_backup puts the node's commit index next to the data it has read.
PackBackup ==
  /\ backup.pc = "pack" /\ job.pc = "none"
  /\ backups' = backups \cup
       {[commit_index |-> commit_index, data |-> backup.got, index |-> backup.index,
         floor |-> backup.floor]}
  /\ backup' = NoBackup
  /\ UNCHANGED <<files, node, job, spent, taken, rewritten>>

Next ==
  \/ TriggerSnapshot \/ (\E b \in backups : Restore(b))
  \/ WriteData \/ WriteMeta \/ Cleanup \/ Finish \/ WriteFails \/ Crash \/ Commit
  \/ FindSnapshot \/ LoadMetadata \/ LoadData \/ PackBackup

Spec == Init /\ [][Next]_vars

-----------------------------------------------------------------------------
(* Properties.                                                             *)

\* Files, jobs and backups have the fields their code gives them.
SnapshotTypeOK ==
  /\ data \in [Index -> File] /\ meta \in [Index -> File]
  /\ {commit_index, snapshot_index, taken} \subseteq 0..MaxIndex
  /\ job.pc \in {"none", "data", "data2", "meta", "meta2", "list", "clean"}
  /\ job.index \in 0..MaxIndex /\ job.old \subseteq {"data", "meta"} \X Index
  /\ backup.pc \in {"none", "meta", "data", "pack"} /\ backup.index \in 0..MaxIndex
  /\ \A b \in backups : b.commit_index \in 0..MaxIndex /\ b.data \in File

\* create_snapshot removes old snapshots only when the new one is on disk: from
\* the first success on there is always a complete snapshot that covers what the
\* log was compacted to, through crashes and failing writes at any point, unless
\* one of them hit the rewriting of a snapshot of the same index.
CoveredUnlessRewritten ==
  taken > 0 /\ ~rewritten =>
    \/ \E i \in Index : Complete(i) /\ i >= taken /\ i >= snapshot_index
    \/ Rewrites

\* "Load the latest snapshot": the data of a backup is whole and from a snapshot no
\* older than the last one that was finished when the backup began, although
\* load_latest reads the directory while it is being written and cleaned.
BackupFromLatest == \A b \in backups : b.data.state = "whole" /\ b.index >= b.floor

\* "Returns (metadata, data) or None if none exists": when no snapshot is being
\* written and a complete one is there, load_latest finds one it can load.
LatestLoads ==
  job.pc = "none" /\ (\E i \in Index : Complete(i)) => Complete(FindLatest)

\* "First, trigger a fresh snapshot": the data of a backup was made at the commit
\* index the backup names.
BackupFresh == \A b \in backups : b.data.at = b.commit_index

=============================================================================
