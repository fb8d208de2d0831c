-------------------------------- MODULE Lsm ---------------------------------
(***************************************************************************)
(* The LSM tree of raft-storage: one writer (the apply loop of the server), *)
(* whose puts and deletes flush the memtable and compact the levels on the  *)
(* way, one reader (a KV request) that takes its locks one after the other, *)
(* crashes between any two steps of the writer, and file operations that    *)
(* fail.                                                                     *)
(*                                                                           *)
(* A table, in memory or in a file, is a function from some keys to cells:   *)
(* values or the tombstone.  What a file looks like inside is SSTable's      *)
(* matter, what is left of a WAL record that was not written to its end is   *)
(* Wal's: here it is a tear, and no replay reads past it.  A level of the    *)
(* manifest is a set of files: its Vec has them in the order of their ids,   *)
(* for add_sstable appends, ids grow and remove_sstables keeps the order.    *)
(***************************************************************************)
EXTENDS Naturals, Sequences, FiniteSetsExt

CONSTANTS MaxKey,       \* keys are numbers, for their order
          Value, Tombstone, Absent,
          MemLimit,     \* memtable_size_limit; a key counts 1 and a value counts 1
          NumLevels,    \* bound: levels of the tree (NUM_LEVELS is 7)
          Trigger,      \* l0_compaction_trigger
          Ratio,        \* level_size_ratio
          Budgets       \* bound: how many writes, crashes, failing file operations and
                        \* reads a behaviour may have

Budget == [{"writes", "crashes", "faults", "reads"} -> Nat]

ASSUME LsmBounds ==
  /\ {MaxKey, MemLimit, NumLevels, Trigger, Ratio} \subseteq Nat
  /\ NumLevels >= 2 /\ Trigger >= 1 /\ \A l \in 1..NumLevels : Ratio^l \in Nat
  /\ Budgets \subseteq Budget
  /\ Tombstone \notin Value /\ Absent \notin Value \cup {Tombstone}

VARIABLES active, immutables,       \* active_memtable, immutable_memtables
          frozen,                   \* the memtable that flush_memtable is writing
          manifest, disk_manifest,  \* in memory and in the MANIFEST file
          files,                    \* the .sst files: id -> table
          cache,                    \* sstable_cache
          wal,                      \* the operations that were logged since wal.log was reset
          readable,                 \* the first of them, which a replay of wal.log reads
          tail,                     \* what is written next: "whole", behind a tear ("torn"), or
                                    \* to a file that is no longer in the directory ("removed")
          pc, op, obsolete,         \* where the writer is, its operation, files to delete
          reader,                   \* the reader's request
          damaged,                  \* history: data was lost, or hidden by older data
          left                      \* what is left of the behaviour's budget

vars == <<active, immutables, frozen, manifest, disk_manifest, files, cache, wal, readable, tail,
          pc, op, obsolete, reader, damaged, left>>

Key == 1..MaxKey
Cell == Value \cup {Tombstone}
Empty == [k \in {} |-> Absent]  \* a table without keys
Level == 0..(NumLevels - 1)

\* MemTable::put and MemTable::delete
With(table, k, cell) == [x \in DOMAIN table \cup {k} |-> IF x = k THEN cell ELSE table[x]]

\* MemTable::size_bytes
Size(table) ==
  Cardinality(DOMAIN table) + Cardinality({k \in DOMAIN table : table[k] # Tombstone})

IsFull(table) == Size(table) >= MemLimit

\* MemTable::get
Lookup(table, k) == IF k \in DOMAIN table THEN table[k] ELSE Absent

\* A table whose cells hide those of another.
Over(upper, lower) ==
  [k \in DOMAIN upper \cup DOMAIN lower |-> IF k \in DOMAIN upper THEN upper[k] ELSE lower[k]]

Visible(cell) == IF cell = Tombstone THEN Absent ELSE cell

\* The order in which get goes through the cache: by level, newest file first.
Before(a, b) == a.level < b.level \/ (a.level = b.level /\ a.id >= b.id)

\* What the cache holds: for each key, the first file in that order that knows it.
CacheTable(c) ==
  [k \in UNION {DOMAIN e.table : e \in c} |->
     LET known == {e \in c : k \in DOMAIN e.table} IN
     (CHOOSE e \in known : \A f \in known : Before(e, f)).table[k]]

\* WalOp::decode and the replay in LsmTree::open: the last operation on a key counts.
Replay(ops) ==
  [k \in {ops[i].key : i \in DOMAIN ops} |->
     ops[Max({i \in DOMAIN ops : ops[i].key = k})].cell]

Listed(m) == UNION {m.levels[l] : l \in Level}

\* The readers that SSTableReader::open makes of files.
Readers(entries, fs) ==
  {[id |-> e.id, level |-> e.level, table |-> fs[e.id]] : e \in entries}

\* The cache that open and maybe_compact build: the files that exist.
Opened(m, fs) == Readers({e \in Listed(m) : e.id \in DOMAIN fs}, fs)

\* What get finds in the immutable memtables, newest first, and scan, newest last.
Newest(tables) ==
  [k \in UNION {DOMAIN tables[i] : i \in DOMAIN tables} |->
     tables[Max({i \in DOMAIN tables : k \in DOMAIN tables[i]})][k]]

\* What the tree holds: in memory while it runs, on disk while it does not.
Held ==
  IF pc = "down" THEN Over(Replay(wal), CacheTable(Opened(disk_manifest, files)))
  ELSE Over(active, Over(IF pc = "rotated" THEN frozen ELSE Empty,
                         Over(Newest(immutables), CacheTable(cache))))

Contents(k) == Visible(Lookup(Held, k))

NoManifest == [levels |-> [l \in Level |-> {}], next_sst_id |-> 0]
NoOp == [key |-> 0, cell |-> Absent]
NoReader == [at |-> "idle"]

\* LsmTree::open on an empty directory.
Init ==
  /\ active = Empty /\ immutables = <<>> /\ frozen = Empty
  /\ manifest = NoManifest /\ disk_manifest = NoManifest
  /\ files = Empty /\ cache = {}
  /\ wal = <<>> /\ readable = <<>> /\ tail = "whole"
  /\ pc = "idle" /\ op = NoOp /\ obsolete = {}
  /\ reader = NoReader /\ damaged = FALSE
  /\ left \in Budgets

tree == <<active, immutables, frozen, cache>>
disk == <<manifest, disk_manifest, files>>
log == <<wal, readable, tail>>

Spend(what) == left[what] > 0 /\ left' = [left EXCEPT ![what] = @ - 1]

-----------------------------------------------------------------------------
(* The writer.                                                              *)

\* Variant: the memtable is written without the log.
LogOpInMemoryOnly(k, cell) ==
  /\ pc = "idle" /\ pc' = "logged"
  /\ Spend("writes")
  /\ op' = [key |-> k, cell |-> cell]
  /\ UNCHANGED <<tree, disk, log, obsolete, reader, damaged>>

\* WalWriter::append and sync.  What is written behind a tear, or to a file that was
\* removed, is there for no replay.
Logs(o) ==
  /\ wal' = Append(wal, o)
  /\ readable' = IF tail = "whole" THEN Append(readable, o) ELSE readable
  /\ UNCHANGED tail

\* put and delete: the operation is appended to the WAL and synced.
LogOp(k, cell) ==
  /\ pc = "idle" /\ pc' = "logged"
  /\ Spend("writes")
  /\ op' = [key |-> k, cell |-> cell]
  /\ Logs(op')
  /\ UNCHANGED <<tree, disk, obsolete, reader, damaged>>

\* put and delete fail at the WAL, and the memtable never sees the operation.  Its record
\* is cut short, and what is appended later lies behind it; or it is in the buffer or the
\* file, whole, and the operation that failed takes effect at the next start.
LogFails(k, cell) ==
  /\ pc = "idle"
  /\ Spend("faults")
  /\ \/ tail = "whole" /\ tail' = "torn" /\ UNCHANGED <<wal, readable, damaged>>
     \/ Logs([key |-> k, cell |-> cell]) /\ damaged' = TRUE
  /\ UNCHANGED <<tree, disk, pc, op, obsolete, reader>>

\* A reader on its way may return what the key holds from now on.
SeenNow(r, k, cell) ==
  IF r.at = "idle" THEN r
  ELSE [r EXCEPT !.seen[k] = @ \cup {Visible(cell)}]

\* put and delete: the memtable, and whether it is full now.
WriteMemtable ==
  /\ pc = "logged"
  /\ active' = With(active, op.key, op.cell)
  /\ pc' = IF IsFull(active') THEN "full" ELSE "idle"
  /\ op' = IF IsFull(active') THEN op ELSE NoOp
  /\ reader' = SeenNow(reader, op.key, op.cell)
  /\ UNCHANGED <<immutables, frozen, cache, disk, log, obsolete, damaged, left>>

\* LsmTree::flush
Flush ==
  /\ pc = "idle" /\ active # Empty
  /\ Spend("writes")
  /\ pc' = "full"
  /\ UNCHANGED <<tree, disk, log, op, obsolete, reader, damaged>>

\* A scan that has the immutable memtables behind it and the active one before
\* it passes by what is rotated now.
Rotate ==
  /\ pc = "full" /\ pc' = "rotated"
  /\ frozen' = active
  /\ active' = Empty
  /\ reader' = IF reader.at = "s_active" THEN [reader EXCEPT !.raced = TRUE] ELSE reader
  /\ UNCHANGED <<immutables, cache, disk, log, op, obsolete, damaged, left>>

PushImmutable ==
  /\ pc = "rotated" /\ pc' = "pushed"
  /\ immutables' = Append(immutables, frozen)
  /\ UNCHANGED <<active, frozen, cache, disk, log, op, obsolete, reader, damaged, left>>

\* next_sst_filename and SSTableWriter::finish
WriteSst ==
  /\ pc = "pushed" /\ pc' = "written"
  /\ files' = With(files, manifest.next_sst_id, frozen)
  /\ manifest' = [manifest EXCEPT !.next_sst_id = @ + 1]
  /\ UNCHANGED <<tree, disk_manifest, log, op, obsolete, reader, damaged, left>>

\* SSTableEntry, without its counters
SstEntry(id, level, table) ==
  [id |-> id, level |-> level, min_key |-> Min(DOMAIN table), max_key |-> Max(DOMAIN table)]

\* Variant: every file goes to the first level.
AddSstToFirst(m, e) == [m EXCEPT !.levels[0] = @ \cup {e}]

\* Manifest::add_sstable
AddSst(m, e) == [m EXCEPT !.levels[e.level] = @ \cup {e}]

\* Variant: the frozen memtable is dropped before its file is in the cache.
SaveManifestAndDrop ==
  /\ pc = "written" /\ pc' = "saved"
  /\ manifest' = AddSst(manifest, SstEntry(manifest.next_sst_id - 1, 0, frozen))
  /\ disk_manifest' = manifest'
  /\ immutables' = <<>>
  /\ UNCHANGED <<active, frozen, cache, files, log, op, obsolete, reader, damaged, left>>

SaveManifest ==
  /\ pc = "written" /\ pc' = "saved"
  /\ manifest' = AddSst(manifest, SstEntry(manifest.next_sst_id - 1, 0, frozen))
  /\ disk_manifest' = manifest'
  /\ UNCHANGED <<tree, files, log, op, obsolete, reader, damaged, left>>

PushCache ==
  /\ pc = "saved" /\ pc' = "cached"
  /\ cache' = cache \cup {[id |-> manifest.next_sst_id - 1, level |-> 0, table |-> frozen]}
  /\ UNCHANGED <<active, immutables, frozen, disk, log, op, obsolete, reader, damaged, left>>

\* SSTableWriter::finish, Manifest::save or SSTableReader::open fails, and put, delete or
\* flush with it: the frozen memtable stays among the immutable ones and nobody will
\* write it again.  The number of its file is given out; the file may be there without
\* its end, or listed in memory only, or listed and not in the cache.
FlushFails ==
  /\ Spend("faults")
  /\ \/ /\ pc = "pushed"
        /\ manifest' = [manifest EXCEPT !.next_sst_id = @ + 1]
        /\ \/ UNCHANGED files
           \/ files' = With(files, manifest.next_sst_id, Empty)
     \/ /\ pc = "written"
        /\ manifest' = AddSst(manifest, SstEntry(manifest.next_sst_id - 1, 0, frozen))
        /\ UNCHANGED files
     \/ pc = "saved" /\ UNCHANGED <<manifest, files>>
  /\ pc' = "idle" /\ op' = NoOp /\ frozen' = Empty
  /\ UNCHANGED <<active, immutables, cache, disk_manifest, log, obsolete, reader, damaged>>

\* retain drops the memtable that was pushed, which is the last: there is one writer.
\* A scan that has the cache behind it and the immutable memtables before it
\* passes by what is dropped now.  A memtable that an earlier flush has left comes
\* before the files, and hides the newer cells that are only there from now on.
DropImmutable ==
  /\ pc = "cached" /\ pc' = "dropped"
  /\ immutables' = SubSeq(immutables, 1, Len(immutables) - 1)
  /\ frozen' = Empty
  /\ reader' = IF reader.at = "s_immutables" THEN [reader EXCEPT !.raced = TRUE] ELSE reader
  /\ damaged' = (damaged \/ immutables' # <<>>)
  /\ UNCHANGED <<active, cache, disk, log, op, obsolete, left>>

\* The WAL file is removed and opened again.  LsmTree::flush ends here.
ResetWal ==
  /\ pc = "dropped"
  /\ wal' = <<>> /\ readable' = <<>> /\ tail' = "whole"
  /\ pc' = IF op = NoOp THEN "idle" ELSE "flushed"
  /\ UNCHANGED <<tree, disk, op, obsolete, reader, damaged, left>>

\* The removal fails, which nobody looks at, and the file is opened again as it is.
KeepWal ==
  /\ pc = "dropped"
  /\ Spend("faults")
  /\ pc' = IF op = NoOp THEN "idle" ELSE "flushed"
  /\ UNCHANGED <<tree, disk, log, op, obsolete, reader, damaged>>

\* The file is removed and WalWriter::open fails: the old writer stays, and what it
\* writes goes to the file that is no longer in the directory.
ResetWalFails ==
  /\ pc = "dropped" /\ pc' = "idle" /\ op' = NoOp
  /\ Spend("faults")
  /\ wal' = <<>> /\ readable' = <<>> /\ tail' = "removed"
  /\ UNCHANGED <<tree, disk, obsolete, reader, damaged>>

\* LeveledCompaction::needs_compaction
CompactionLevels(m) ==
  IF Cardinality(m.levels[0]) >= Trigger THEN {0}
  ELSE {l \in 1..(NumLevels - 2) : Cardinality(m.levels[l]) > Trigger * Ratio^l}

\* maybe_compact with nothing to do
NothingToCompact ==
  /\ pc = "flushed" /\ CompactionLevels(manifest) = {}
  /\ pc' = "idle" /\ op' = NoOp
  /\ UNCHANGED <<tree, disk, log, obsolete, reader, damaged, left>>

\* The files of the level below whose keys overlap those of a level.
Overlapping(m, level) ==
  LET min_key == Min({e.min_key : e \in m.levels[level]})
      max_key == Max({e.max_key : e \in m.levels[level]})
  IN {e \in m.levels[level + 1] : e.min_key <= max_key /\ e.max_key >= min_key}

Inputs(m, level) == m.levels[level] \cup Overlapping(m, level)

\* The order in which compact reads its inputs: by level, in the order of the Vec.
ReadBefore(a, b) == a.level < b.level \/ (a.level = b.level /\ a.id <= b.id)

\* The stable sort and dedup_by of compact: of several entries for a key, the
\* first in the order in which the files were read.
Merged(readers) ==
  [k \in UNION {DOMAIN e.table : e \in readers} |->
     LET known == {e \in readers : k \in DOMAIN e.table} IN
     (CHOOSE e \in known : \A f \in known : ReadBefore(e, f)).table[k]]

WithoutTombstones(table) ==
  [k \in {x \in DOMAIN table : table[x] # Tombstone} |-> table[k]]

\* What compact writes to the target level.
CompactedTable(readers, target) ==
  IF target >= NumLevels - 1 THEN WithoutTombstones(Merged(readers)) ELSE Merged(readers)

\* Manifest::remove_sstables
RemoveSsts(m, ids) ==
  [m EXCEPT !.levels = [l \in Level |-> {e \in @[l] : e.id \notin ids}]]

\* The files to be merged, read one after the other, do not give every key the cell
\* that the tree held for it before.
KeepsOlder(readers) == Merged(readers) # CacheTable(readers)

\* LeveledCompaction::compact up to the deletion of its input files.  A result
\* without entries leaves the input files where they are.
MergeLevel ==
  /\ pc = "flushed"
  /\ CompactionLevels(manifest) # {}
  /\ LET level == Min(CompactionLevels(manifest))
         inputs == Inputs(manifest, level)
         ids == {e.id : e \in inputs}
         id == manifest.next_sst_id
         table == CompactedTable(Readers(inputs, files), level + 1)
         bumped == [RemoveSsts(manifest, ids) EXCEPT !.next_sst_id = @ + 1]
     IN
     /\ ids \subseteq DOMAIN files
     /\ pc' = "merged"
     /\ damaged' = (damaged \/ KeepsOlder(Readers(inputs, files)))
     /\ IF table = Empty
        THEN manifest' = bumped /\ obsolete' = {} /\ UNCHANGED files
        ELSE /\ manifest' = AddSst(bumped, SstEntry(id, level + 1, table))
             /\ files' = With(files, id, table)
             /\ obsolete' = ids
  /\ UNCHANGED <<tree, disk_manifest, log, op, reader, left>>

\* compact fails when an input file is gone, and put fails with it.
MergeFails ==
  /\ pc = "flushed"
  /\ CompactionLevels(manifest) # {}
  /\ \E e \in Inputs(manifest, Min(CompactionLevels(manifest))) : e.id \notin DOMAIN files
  /\ pc' = "idle" /\ op' = NoOp
  /\ UNCHANGED <<tree, disk, log, obsolete, reader, damaged, left>>

\* compact fails at writer.finish: a number is given out, and the file may be there
\* without its end.
MergeWriteFails ==
  /\ pc = "flushed"
  /\ CompactionLevels(manifest) # {}
  /\ Spend("faults")
  /\ manifest' = [manifest EXCEPT !.next_sst_id = @ + 1]
  /\ \/ UNCHANGED files
     \/ files' = With(files, manifest.next_sst_id, Empty)
  /\ pc' = "idle" /\ op' = NoOp
  /\ UNCHANGED <<tree, disk_manifest, log, obsolete, reader, damaged>>

\* The last loop of compact.
DeleteInputs ==
  /\ pc = "merged" /\ pc' = "deleted"
  /\ files' = [id \in DOMAIN files \ obsolete |-> files[id]]
  /\ obsolete' = {}
  /\ UNCHANGED <<tree, manifest, disk_manifest, log, op, reader, damaged, left>>

SaveCompacted ==
  /\ pc = "deleted" /\ pc' = "compacted"
  /\ disk_manifest' = manifest
  /\ UNCHANGED <<tree, manifest, files, log, op, obsolete, reader, damaged, left>>

\* Manifest::save fails: the MANIFEST file lists the files that were just deleted.
SaveCompactedFails ==
  /\ pc = "deleted" /\ pc' = "idle" /\ op' = NoOp
  /\ Spend("faults")
  /\ damaged' = TRUE
  /\ UNCHANGED <<tree, disk, log, obsolete, reader>>

RebuildCache ==
  /\ pc = "compacted" /\ pc' = "idle" /\ op' = NoOp
  /\ cache' = Opened(manifest, files)
  /\ UNCHANGED <<active, immutables, frozen, disk, log, obsolete, reader, damaged, left>>

\* SSTableReader::open fails: the cache was cleared and has the files before that one.
RebuildCacheFails ==
  /\ pc = "compacted" /\ pc' = "idle" /\ op' = NoOp
  /\ Spend("faults")
  /\ \E e \in Opened(manifest, files) :
       cache' = {f \in Opened(manifest, files) : f # e /\ ReadBefore(f, e)}
  /\ damaged' = TRUE
  /\ UNCHANGED <<active, immutables, frozen, disk, log, obsolete, reader>>

-----------------------------------------------------------------------------
(* Crashes.                                                                 *)

\* The process dies.  What it had in memory is gone.  An .sst file that it was writing
\* may be there without its end, unreadable, and so may the WAL record of an operation.
\* Between the deletion of the compacted files and the saving of the manifest, data is
\* lost, and so is what was logged where no replay reads it.
Crash ==
  /\ pc # "down"
  /\ Spend("crashes")
  /\ pc' = "down"
  /\ active' = Empty /\ immutables' = <<>> /\ frozen' = Empty /\ cache' = {}
  /\ manifest' = NoManifest
  /\ op' = NoOp /\ obsolete' = {} /\ reader' = NoReader
  /\ \/ UNCHANGED files
     \/ pc \in {"pushed", "flushed"} /\ files' = With(files, manifest.next_sst_id, Empty)
  /\ wal' = readable
  /\ \/ tail' = IF tail = "removed" THEN "whole" ELSE tail
     \/ pc = "idle" /\ tail = "whole" /\ tail' = "torn"
  /\ damaged' = (damaged \/ pc = "deleted" \/ wal # readable)
  /\ UNCHANGED <<disk_manifest, readable>>

\* Variant: the file counter starts again at zero.
OpenFromZero ==
  /\ pc = "down" /\ pc' = "idle"
  /\ manifest' = [disk_manifest EXCEPT !.next_sst_id = 0]
  /\ active' = Replay(wal)
  /\ cache' = Opened(disk_manifest, files)
  /\ UNCHANGED <<immutables, frozen, disk_manifest, files, log, op, obsolete, reader, damaged, left>>

\* LsmTree::open: the manifest, the WAL into a memtable, and the files that exist.  The
\* WAL stays as it is: WalWriter::open appends to it, behind a tear if there is one.
Open ==
  /\ pc = "down" /\ pc' = "idle"
  /\ manifest' = disk_manifest
  /\ active' = Replay(wal)
  /\ cache' = Opened(disk_manifest, files)
  /\ UNCHANGED <<immutables, frozen, disk_manifest, files, log, op, obsolete, reader, damaged, left>>

-----------------------------------------------------------------------------
(* The reader.  `seen' are the values a key has held since the read began,   *)
(* `raced' whether the writer moved data past it; a scan has key 0.          *)

BeginRead(at, k) ==
  /\ pc # "down" /\ reader.at = "idle"
  /\ reader' = [at |-> at, key |-> k, found |-> Empty, raced |-> FALSE,
                seen |-> [x \in Key |-> {Contents(x)}]]
  /\ Spend("reads")
  /\ UNCHANGED <<tree, disk, log, pc, op, obsolete, damaged>>

\* LsmTree::get, one lock after the other, until a table knows the key.
GetFrom(at, table, next, gap) ==
  /\ reader.at = at
  /\ LET cell == Lookup(table, reader.key) IN
     reader' = [reader EXCEPT
       !.at = IF cell # Absent THEN "done" ELSE next,
       !.found = IF cell # Absent THEN With(@, reader.key, cell) ELSE @,
       !.raced = @ \/ gap]
  /\ UNCHANGED <<tree, disk, log, pc, op, obsolete, damaged, left>>

GetActive == GetFrom("g_active", active, "g_immutables", FALSE)

\* Between the rotation and the push, the frozen memtable is nowhere to be found.
GetImmutables == GetFrom("g_immutables", Newest(immutables), "g_cache", pc = "rotated")

GetCache == GetFrom("g_cache", CacheTable(cache), "done", FALSE)

\* LsmTree::scan over all keys: the deepest source first, later ones overwrite.
ScanFrom(at, table, next, gap) ==
  /\ reader.at = at
  /\ reader' = [reader EXCEPT !.at = next, !.found = Over(table, @), !.raced = @ \/ gap]
  /\ UNCHANGED <<tree, disk, log, pc, op, obsolete, damaged, left>>

ScanCache == ScanFrom("s_cache", CacheTable(cache), "s_immutables", FALSE)

ScanImmutables == ScanFrom("s_immutables", Newest(immutables), "s_active", pc = "rotated")

ScanActive == ScanFrom("s_active", active, "done", FALSE)

EndRead ==
  /\ reader.at = "done"
  /\ reader' = NoReader
  /\ UNCHANGED <<tree, disk, log, pc, op, obsolete, damaged, left>>

-----------------------------------------------------------------------------

Writer ==
  \/ \E k \in Key, cell \in Cell : LogOp(k, cell) \/ LogFails(k, cell)
  \/ WriteMemtable \/ Flush
  \/ Rotate \/ PushImmutable \/ WriteSst \/ SaveManifest \/ PushCache \/ FlushFails
  \/ DropImmutable \/ ResetWal \/ KeepWal \/ ResetWalFails
  \/ NothingToCompact \/ MergeLevel \/ MergeFails \/ MergeWriteFails \/ DeleteInputs
  \/ SaveCompacted \/ SaveCompactedFails \/ RebuildCache \/ RebuildCacheFails

Reader ==
  \/ BeginRead("s_cache", 0) \/ \E k \in Key : BeginRead("g_active", k)
  \/ GetActive \/ GetImmutables \/ GetCache
  \/ ScanCache \/ ScanImmutables \/ ScanActive
  \/ EndRead

Next == Writer \/ Reader \/ Crash \/ Open

Spec == Init /\ [][Next]_vars

-----------------------------------------------------------------------------
(* Properties.                                                             *)

Table == UNION {[K -> Cell] : K \in SUBSET Key}

\* Tables of cells everywhere, a manifest that lists files by level, and a
\* writer and a reader at places they have.
LsmTypeOK ==
  /\ active \in Table /\ frozen \in Table /\ immutables \in Seq(Table)
  /\ \A m \in {manifest, disk_manifest} : \A l \in Level : \A e \in m.levels[l] :
       e.level = l /\ e.id < m.next_sst_id /\ e.min_key \in Key /\ e.max_key \in Key
  /\ \A id \in DOMAIN files : files[id] \in Table
  /\ \A e \in cache : e.table \in Table /\ e.level \in Level
  /\ op = NoOp \/ op \in [key : Key, cell : Cell]
  /\ {wal, readable} \subseteq Seq([key : Key, cell : Cell]) 
  /\ readable = SubSeq(wal, 1, Len(readable))
  /\ tail \in {"whole", "torn", "removed"}
  /\ pc \in {"idle", "logged", "full", "rotated", "pushed", "written", "saved", "cached", "dropped",
             "flushed", "merged", "deleted", "compacted", "down"}
  /\ reader.at \in {"idle", "g_active", "g_immutables", "g_cache", "s_cache", "s_immutables",
                    "s_active", "done"}

Map == INSTANCE KvMap WITH
         kv <- [k \in Key |-> Contents(k)],
         pending <- IF pc = "logged" THEN op ELSE NoOp,
         intact <- ~damaged

\* The tree implements the map: every put and delete takes effect once, and no step of a
\* flush or a compaction, failing or not, and no crash with the recovery after it changes
\* what the tree holds, up to the first of these losses: a compaction that prefers an older
\* cell of a key; a crash or a failing save between the deletion of compacted files and the
\* saving of the manifest; a crash after operations were logged behind a tear or to a log
\* that was removed; a flush after one that failed, whose memtable hides the newer file; a
\* put that failed with its record in the log; and a cache that could not be rebuilt.
ImplementsMap == Map!Spec

\* manifest.rs: `Levels 1+ have non-overlapping, sorted key ranges'.  Through any
\* compactions and crashes, no key is in the range of two files of such a level.
LevelsDisjoint ==
  \A l \in Level \ {0} : \A a, b \in manifest.levels[l] :
    a # b => a.max_key < b.min_key \/ b.max_key < a.min_key

\* A crash and a reopening never leave a file that is both listed and broken, or
\* a listed file whose number a later flush would write over.
ListedFilesWhole ==
  \A e \in Listed(disk_manifest) :
    /\ e.id < disk_manifest.next_sst_id
    /\ e.id \in DOMAIN files => files[e.id] # Empty

\* Manifest: the files of a level below the first are disjoint, and every file that the
\* saved manifest lists has a number of its own and, if it is there, is whole.
ManifestSound == LevelsDisjoint /\ ListedFilesWhole

\* What a read returns for a key.
Result(k) == Visible(Lookup(reader.found, k))

\* A read past which the writer moved no data returns, for every key, what the
\* key held at some moment of the read, whatever flush or compaction is going on.
ReadsCurrentUnlessRaced ==
  reader.at = "done" /\ ~reader.raced /\ ~damaged =>
    \A k \in (IF reader.key = 0 THEN Key ELSE {reader.key}) : Result(k) \in reader.seen[k]

\* engine.rs on get: `Returns None if the key does not exist'.
GetsCurrent ==
  reader.at = "done" /\ reader.key # 0 => Result(reader.key) \in reader.seen[reader.key]

\* engine.rs on scan: `Scan all keys in the range'.
ScansCurrent ==
  reader.at = "done" /\ reader.key = 0 => \A k \in Key : Result(k) \in reader.seen[k]

\* leveled.rs: compaction merges `keeping only the latest version of each key'.
CompactionKeepsLatest ==
  [][pc = "compacted" => \A k \in Key : Contents(k)' = Contents(k)]_vars

\* manifest.rs: the manifest is `persisted as JSON for crash recovery' and is the
\* `source of truth': every file that it lists is there to be opened.
ListedFilesExist ==
  pc = "down" => \A e \in Listed(disk_manifest) : e.id \in DOMAIN files

=============================================================================
