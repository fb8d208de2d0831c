------------------------------ MODULE LsmProofs ------------------------------
(***************************************************************************)
(* The theorems about the LSM tree, for all keys, values, levels and       *)
(* limits: its manifest is sound, it implements a map (KvMap), and reads   *)
(* return what a key held while they ran.                                  *)
(***************************************************************************)
EXTENDS LsmInvProofs

-----------------------------------------------------------------------------
(* What the tree holds.                                                    *)

ContentsFact ==
  \A k :
    /\ pc = "down" => Contents(k) =
         Visible(IF k \in DOMAIN Replay(wal) THEN Replay(wal)[k]
                 ELSE Lookup(CacheTable(Opened(disk_manifest, files)), k))
    /\ pc # "down" => Contents(k) = Now(k)

\* What get would find, source by source,
LEMMA ContentsNow == ContentsFact
  BY ContentsAre, Zenon DEF ContentsFact

\* and what it would find after a step.
LEMMA ContentsNext == ContentsFact'
  BY ContentsNow, PTL

\* The tree in memory, before and after a step.
LEMMA ContentsInMemory ==
  ASSUME pc # "down", pc' # "down"
  PROVE  \A k : Contents(k) = Now(k) /\ Contents(k)' = Now(k)'
<1>1. \A k : Contents(k) = Now(k)
  BY ContentsNow, Zenon DEF ContentsFact
<1>2. \A k : Contents(k)' = Now(k)'
  BY ContentsNext, Zenon DEF ContentsFact
<1>. QED  BY <1>1, <1>2, Zenon

\* put and delete change one key, in the active memtable.
LEMMA WriteMemtableEffect ==
  ASSUME WriteMemtable
  PROVE  /\ Rest' = Rest /\ DOMAIN active \subseteq DOMAIN active'
         /\ \A k : /\ Below(k)' = Below(k)
                   /\ Contents(k)' = IF k = op.key THEN Visible(op.cell) ELSE Contents(k)
<1>1. /\ pc # "down" /\ pc' # "down" /\ pc # "rotated" /\ pc' # "rotated"
      /\ active' = With(active, op.key, op.cell) /\ immutables' = immutables /\ cache' = cache
  BY DEF WriteMemtable
<1>2. \A k : /\ k \in DOMAIN active' <=> k = op.key \/ k \in DOMAIN active
             /\ k \in DOMAIN active' => active'[k] = IF k = op.key THEN op.cell ELSE active[k]
  BY <1>1, Zenon DEF With
<1>3. Rest' = Rest
  BY <1>1, Zenon DEF Rest
<1>4. \A k : Below(k)' = Below(k)
  BY <1>1, <1>3, Zenon DEF Below
<1>5. \A k : Now(k)' = IF k = op.key THEN Visible(op.cell) ELSE Now(k)
  BY <1>2, <1>4, Zenon DEF Now
<1>. QED  BY <1>1, <1>2, <1>3, <1>4, <1>5, ContentsInMemory, Zenon

\* LsmTree::open finds what the log and the files have.
LEMMA OpenKeeps ==
  ASSUME LsmInv, Open
  PROVE  \A k : Contents(k)' = Contents(k)
<1>1. /\ pc = "down" /\ pc' # "down" /\ pc' # "rotated" /\ active' = Replay(wal)
      /\ immutables' = <<>> /\ cache' = Opened(disk_manifest, files)
  BY DEF Open, LsmInv, OneFlush
<1>2. \A k : Contents(k) = Visible(IF k \in DOMAIN Replay(wal) THEN Replay(wal)[k]
                                   ELSE Lookup(CacheTable(Opened(disk_manifest, files)), k))
  BY <1>1, ContentsNow, Zenon DEF ContentsFact
<1>3. \A k : Contents(k)' = Now(k)'
  BY <1>1, ContentsNext, Zenon DEF ContentsFact
<1>4. Rest' = Over(Empty, Empty)
  BY <1>1, NewestOfNone, Zenon DEF Rest
<1>5. \A k : k \notin DOMAIN Rest'
  BY <1>4, EmptyTable, Zenon DEF Over
<1>6. \A k : Below(k)' = Visible(Lookup(CacheTable(Opened(disk_manifest, files)), k))
  BY <1>1, <1>5, Zenon DEF Below
<1>7. \A k : Now(k)' = IF k \in DOMAIN Replay(wal) THEN Visible(Replay(wal)[k])
                       ELSE Visible(Lookup(CacheTable(Opened(disk_manifest, files)), k))
  BY <1>1, <1>6, Zenon DEF Now
<1>. QED  BY <1>2, <1>3, <1>7, Zenon

\* A crash loses nothing, between any two steps but those two of a compaction, if a replay
\* reads all that was logged; an operation that was logged takes effect.
LEMMA CrashEffect ==
  ASSUME LsmInv, Crash, ~damaged', NEW k \in Key
  PROVE  Contents(k)' = IF pc = "logged" /\ k = op.key THEN Visible(op.cell) ELSE Contents(k)
<1>. DEFINE o == Opened(disk_manifest, files)
<1>1. /\ pc # "down" /\ pc' = "down" /\ disk_manifest' = disk_manifest
      /\ ~damaged /\ pc # "deleted" /\ wal = readable /\ wal' = readable
  BY Zenon DEF Crash
<1>2. Opened(disk_manifest, files') = o
  BY CrashFiles, Zenon
<1>3. Contents(k)' = Visible(IF k \in DOMAIN Replay(wal) THEN Replay(wal)[k]
                             ELSE Lookup(CacheTable(o), k))
  BY <1>1, <1>2, ContentsNext, Zenon DEF ContentsFact
<1>4. Contents(k) = Now(k)
  BY <1>1, ContentsNow, Zenon DEF ContentsFact
<1>5. /\ DOMAIN active \subseteq DOMAIN Replay(wal) /\ DOMAIN Rest \subseteq DOMAIN Replay(wal)
      /\ pc = "logged" => op.key \in DOMAIN Replay(wal)
      /\ \A x \in DOMAIN Replay(wal) :
           Visible(Replay(wal)[x]) = IF pc = "logged" /\ x = op.key THEN Visible(op.cell) ELSE Now(x)
  BY <1>1, Zenon DEF LsmInv, WalCovers
<1>6. SameOn(Key \ DOMAIN Replay(wal), cache, o)
  BY <1>1, Zenon DEF LsmInv, CacheOK
<1>. HIDE DEF o
<1>7. CASE k \in DOMAIN Replay(wal)
  BY <1>3, <1>4, <1>5, <1>7, Zenon
<1>8. CASE k \notin DOMAIN Replay(wal)
  <2>1. k \notin DOMAIN active /\ k \notin DOMAIN Rest /\ ~(pc = "logged" /\ k = op.key)
    BY <1>5, <1>8, Zenon
  <2>2. Visible(Lookup(CacheTable(o), k)) = Visible(Lookup(CacheTable(cache), k))
    BY <1>6, <1>8, Zenon DEF SameOn
  <2>. QED  BY <1>3, <1>4, <1>8, <2>1, <2>2, Zenon DEF Now, Below
<1>. QED  BY <1>7, <1>8, Zenon

-----------------------------------------------------------------------------
(* The refinement.                                                         *)

\* What a step does to the map: an operation is begun or takes effect, or nothing.
MapStep ==
  \/ /\ pc = "idle" /\ pc' = "logged" /\ op' \in Operation
     /\ \A k \in Key : Contents(k)' = Contents(k)
  \/ /\ pc = "logged" /\ pc' # "logged" /\ op \in Operation
     /\ \A k \in Key : Contents(k)' = IF k = op.key THEN Visible(op.cell) ELSE Contents(k)
  \/ /\ (pc = "logged" <=> pc' = "logged") /\ (pc = "logged" => op' = op)
     /\ \A k \in Key : Contents(k)' = Contents(k)

\* Damage is not undone.
LEMMA DamageStays ==
  ASSUME [Next]_vars, ~damaged'
  PROVE  ~damaged
<1>1. CASE UNCHANGED vars
  BY <1>1, Zenon DEF vars
<1>2. CASE \E k \in Key, cell \in Cell : LogOp(k, cell) \/ LogFails(k, cell)
  BY <1>2, Zenon DEF LogOp, LogFails
<1>3. CASE \/ WriteMemtable \/ Flush \/ Rotate \/ PushImmutable \/ WriteSst \/ SaveManifest \/ PushCache
           \/ FlushFails \/ DropImmutable \/ ResetWal \/ KeepWal \/ ResetWalFails
  BY <1>3, Zenon DEF WriteMemtable, Flush, Rotate, PushImmutable, WriteSst, SaveManifest,
     PushCache, FlushFails, DropImmutable, ResetWal, KeepWal, ResetWalFails
<1>4. CASE \/ NothingToCompact \/ MergeLevel \/ MergeFails \/ MergeWriteFails \/ DeleteInputs
           \/ SaveCompacted \/ SaveCompactedFails \/ RebuildCache \/ RebuildCacheFails
  BY <1>4, Zenon DEF NothingToCompact, MergeLevel, MergeFails, MergeWriteFails, DeleteInputs,
     SaveCompacted, SaveCompactedFails, RebuildCache, RebuildCacheFails
<1>5. CASE Reader \/ Open
  BY <1>5, ReaderFrame, Zenon DEF Open
<1>6. CASE Crash
  BY <1>6, Zenon DEF Crash
<1>. QED  BY <1>1, <1>2, <1>3, <1>4, <1>5, <1>6, Zenon DEF Next, Writer

\* The steps of the writer that leave alone what the tree holds.
Quiet ==
  \/ \E k \in Key, cell \in Cell : LogOp(k, cell) \/ LogFails(k, cell)
  \/ Flush \/ WriteSst \/ SaveManifest \/ FlushFails \/ ResetWal \/ KeepWal \/ ResetWalFails
  \/ NothingToCompact \/ MergeLevel \/ MergeFails \/ MergeWriteFails \/ DeleteInputs \/ SaveCompacted
  \/ SaveCompactedFails

\* They change neither the memtables nor the cache, but for the name of one that failed.
LEMMA QuietSteps ==
  ASSUME Quiet
  PROVE  /\ pc # "down" /\ pc' # "down" /\ pc # "rotated" /\ pc' # "rotated"
         /\ active' = active /\ immutables' = immutables /\ cache' = cache /\ reader' = reader
<1>1. CASE \E k \in Key, cell \in Cell : LogOp(k, cell) \/ LogFails(k, cell)
  BY <1>1 DEF LogOp, LogFails, tree
<1>2. CASE Flush \/ WriteSst \/ SaveManifest \/ FlushFails
  BY <1>2 DEF Flush, WriteSst, SaveManifest, FlushFails, tree
<1>3. CASE ResetWal \/ KeepWal \/ ResetWalFails \/ NothingToCompact \/ MergeFails
  BY <1>3 DEF ResetWal, KeepWal, ResetWalFails, NothingToCompact, MergeFails, tree
<1>4. CASE MergeLevel
  <2>1. pc = "flushed" /\ pc' = "merged" /\ UNCHANGED <<tree, reader>>
    BY <1>4, Zenon DEF MergeLevel
  <2>. QED  BY <2>1 DEF tree
<1>5. CASE MergeWriteFails \/ DeleteInputs \/ SaveCompacted \/ SaveCompactedFails
  BY <1>5 DEF MergeWriteFails, DeleteInputs, SaveCompacted, SaveCompactedFails, tree
<1>. QED  BY <1>1, <1>2, <1>3, <1>4, <1>5, Zenon DEF Quiet

\* Every step of LsmTree that does no damage is a step of the map.
LEMMA StepOfTheMap ==
  ASSUME Library, LsmInv, [Next]_vars, ~damaged'
  PROVE  MapStep
<1>1. ~damaged
  BY DamageStays
<1>2. CASE UNCHANGED vars
  <2>1. \A k \in Key : Contents(k)' = Contents(k)
    BY <1>2, Zenon DEF vars, Contents, Held
  <2>. QED  BY <1>2, <2>1, Zenon DEF MapStep, vars
<1>3. CASE WriteMemtable
  <2>1. pc = "logged" /\ pc' # "logged" /\ op \in Operation
    BY <1>3 DEF WriteMemtable, LsmInv, OneFlush
  <2>2. \A k \in Key : Contents(k)' = IF k = op.key THEN Visible(op.cell) ELSE Contents(k)
    BY <1>3, WriteMemtableEffect, Zenon
  <2>. QED  BY <2>1, <2>2, Zenon DEF MapStep
<1>4. CASE Quiet
  <2>1. \A k \in Key : Contents(k)' = Contents(k)
    <3>1. /\ pc # "down" /\ pc' # "down" /\ pc # "rotated" /\ pc' # "rotated"
          /\ active' = active /\ immutables' = immutables /\ cache' = cache
      BY <1>4, QuietSteps, Zenon
    <3>2. \A k : Now(k)' = Now(k)
      BY <3>1, NowFrame, Zenon
    <3>. QED  BY <3>1, <3>2, ContentsInMemory, Zenon
  <2>2. CASE \E k \in Key, cell \in Cell : LogOp(k, cell)
    <3>1. pc = "idle" /\ pc' = "logged" /\ op' \in Operation
      BY <2>2 DEF LogOp, Operation
    <3>. QED  BY <2>1, <3>1, Zenon DEF MapStep
  <2>3. CASE ~(\E k \in Key, cell \in Cell : LogOp(k, cell))
    <3>1. pc # "logged" /\ pc' # "logged"
      <4>1. CASE \E k \in Key, cell \in Cell : LogFails(k, cell)
        BY <4>1 DEF LogFails
      <4>2. CASE Flush \/ WriteSst \/ SaveManifest \/ FlushFails \/ ResetWal \/ KeepWal \/ ResetWalFails
        BY <4>2 DEF Flush, WriteSst, SaveManifest, FlushFails, ResetWal, KeepWal, ResetWalFails
      <4>3. CASE MergeLevel
        <5>1. pc = "flushed" /\ pc' = "merged"
          BY <4>3, Zenon DEF MergeLevel
        <5>. QED  BY <5>1
      <4>4. CASE \/ NothingToCompact \/ MergeFails \/ MergeWriteFails \/ DeleteInputs \/ SaveCompacted
                 \/ SaveCompactedFails
        BY <4>4 DEF NothingToCompact, MergeFails, MergeWriteFails, DeleteInputs, SaveCompacted,
           SaveCompactedFails
      <4>. QED  BY <1>4, <2>3, <4>1, <4>2, <4>3, <4>4, Zenon DEF Quiet
    <3>. QED  BY <2>1, <3>1, Zenon DEF MapStep
  <2>. QED  BY <2>2, <2>3, Zenon
<1>5. CASE Rotate \/ PushImmutable \/ PushCache \/ DropImmutable \/ RebuildCache
  <2>1. pc # "logged" /\ pc' # "logged" /\ pc # "down" /\ pc' # "down"
    BY <1>5 DEF Rotate, PushImmutable, PushCache, DropImmutable, RebuildCache
  <2>2. \A k \in Key : Now(k)' = Now(k)
    BY <1>1, <1>5, RotateNow, PushImmutableNow, PushCacheNow, DropImmutableNow, RebuildCacheNow, Zenon
  <2>3. \A k \in Key : Contents(k)' = Contents(k)
    BY <2>1, <2>2, ContentsInMemory, Zenon
  <2>. QED  BY <2>1, <2>3, Zenon DEF MapStep
<1>6. CASE Open
  <2>1. pc # "logged" /\ pc' # "logged"
    BY <1>6 DEF Open
  <2>. QED  BY <1>6, <2>1, OpenKeeps, Zenon DEF MapStep
<1>7. CASE RebuildCacheFails
  BY <1>7 DEF RebuildCacheFails
<1>8. CASE Reader
  <2>1. /\ UNCHANGED <<active, immutables, frozen, disk_manifest, files, cache, wal, pc, op>>
    BY <1>8, ReaderFrame, Zenon
  <2>2. \A k \in Key : Contents(k)' = Contents(k)
    BY <2>1, Zenon DEF Contents, Held
  <2>. QED  BY <2>1, <2>2, Zenon DEF MapStep
<1>9. CASE Crash
  <2>1. pc' # "logged" /\ (pc = "logged" => op \in Operation)
    BY <1>9 DEF Crash, LsmInv, OneFlush
  <2>2. \A k \in Key :
          Contents(k)' = IF pc = "logged" /\ k = op.key THEN Visible(op.cell) ELSE Contents(k)
    BY <1>9, CrashEffect, Zenon
  <2>. QED  BY <2>1, <2>2, Zenon DEF MapStep
<1>. QED
  BY <1>2, <1>3, <1>4, <1>5, <1>6, <1>7, <1>8, <1>9, Zenon DEF Next, Writer, Quiet

\* The tree of an empty directory is the empty map.
LEMMA MapInit == Init => Map!Init
<1>. SUFFICES ASSUME Init PROVE Map!Init
  OBVIOUS
<1>1. /\ pc = "idle" /\ active = Empty /\ immutables = <<>> /\ cache = {} /\ damaged = FALSE
      /\ pc # "down" /\ pc # "rotated"
  BY DEF Init
<1>2. Rest = Empty
  BY <1>1, NoRest, Zenon
<1>3. \A k : Contents(k) = Now(k)
  BY <1>1, ContentsNow, Zenon DEF ContentsFact
<1>4. \A k : Lookup(CacheTable({}), k) = Absent
  BY CacheMiss, Zenon
<1>5. Visible(Absent) = Absent
  BY Bounds, Zenon DEF Visible
<1>6. \A k \in Key : Contents(k) = Absent
  BY <1>1, <1>2, <1>3, <1>4, <1>5, EmptyTable, Zenon DEF Now, Below
<1>7. [k \in Key |-> Contents(k)] = [k \in Key |-> Absent]
  BY <1>6, Zenon
<1>8. (IF pc = "logged" THEN op ELSE NoOp) = NoOp /\ (~damaged) = TRUE
  BY <1>1
<1>. QED  BY <1>7, <1>8, Zenon DEF Map!Init

\* Every step of LsmTree is a step of the map's specification, or changes nothing of it.
LEMMA MapNext ==
  ASSUME Library, LsmInv, [Next]_vars
  PROVE  [Map!Next]_<<[k \in Key |-> Contents(k)], IF pc = "logged" THEN op ELSE NoOp, ~damaged>>
<1>1. CASE damaged'
  BY <1>1, Zenon DEF Map!Next
<1>2. CASE ~damaged'
  <2>1. ~damaged /\ MapStep
    BY <1>2, DamageStays, StepOfTheMap, Zenon
  <2>2. \A o \in Operation : o # NoOp /\ o.key \in Key
    BY DEF Operation, NoOp, Key
  <2>3. Operation = Map!Operation
    BY Zenon DEF Operation, Cell, Map!Operation
  <2>. DEFINE kv == [k \in Key |-> Contents(k)]
  <2>4. CASE /\ pc = "idle" /\ pc' = "logged" /\ op' \in Operation
             /\ \A k \in Key : Contents(k)' = Contents(k)
    <3>1. kv' = kv
      BY <2>4, Zenon
    <3>2. Map!Begin(op')
      BY <2>4, <3>1 DEF Map!Begin
    <3>. QED  BY <1>2, <2>1, <2>3, <2>4, <3>2, Zenon DEF Map!Next
  <2>5. CASE /\ pc = "logged" /\ pc' # "logged" /\ op \in Operation
             /\ \A k \in Key : Contents(k)' = IF k = op.key THEN Visible(op.cell) ELSE Contents(k)
    <3>1. kv' = [kv EXCEPT ![op.key] = Visible(op.cell)]
      BY <2>2, <2>5, Zenon
    <3>2. Map!TakeEffect
      BY <2>2, <2>5, <3>1, Zenon DEF Map!TakeEffect, Visible
    <3>. QED  BY <1>2, <2>1, <3>2, Zenon DEF Map!Next
  <2>6. CASE /\ (pc = "logged" <=> pc' = "logged") /\ (pc = "logged" => op' = op)
             /\ \A k \in Key : Contents(k)' = Contents(k)
    <3>1. kv' = kv
      BY <2>6, Zenon
    <3>2. (IF pc = "logged" THEN op ELSE NoOp)' = (IF pc = "logged" THEN op ELSE NoOp)
      BY <2>6, Zenon
    <3>3. (~damaged)' = (~damaged)
      BY <1>2, <2>1, Zenon
    <3>. QED  BY <3>1, <3>2, <3>3, Zenon
  <2>. QED  BY <2>1, <2>4, <2>5, <2>6, Zenon DEF MapStep
<1>. QED  BY <1>1, <1>2, Zenon

-----------------------------------------------------------------------------
(* The invariant of reads.                                                 *)

\* A read on its way.
ReadPlace == {"g_active", "g_immutables", "g_cache", "s_cache", "s_immutables", "s_active", "done"}
ReadState == [at : ReadPlace, key : Key \cup {0}, found : Table, raced : BOOLEAN,
              seen : [Key -> SUBSET (Value \cup {Absent})]]

OnItsWay(r) ==
  /\ r.at \in {"g_active", "g_immutables", "g_cache"} => r.key \in Key /\ r.found = Empty
  /\ r.at \in {"s_cache", "s_immutables", "s_active"} => r.key = 0
  /\ r.at = "s_cache" => r.found = Empty

\* A get passes on what was below it; a scan has what is not in the tables before it.
FindsSeen(r) ==
  /\ \A k \in Key : Contents(k) \in r.seen[k]
  /\ r.at \in {"g_immutables", "g_cache"} => Below(r.key) \in r.seen[r.key]
  /\ r.at = "g_cache" /\ ~r.raced => Visible(Lookup(CacheTable(cache), r.key)) \in r.seen[r.key]
  /\ r.at = "s_immutables" /\ ~r.raced =>
       \A k \in Key : k \notin DOMAIN active /\ k \notin DOMAIN Rest =>
         Visible(Lookup(r.found, k)) \in r.seen[k]
  /\ r.at = "s_active" /\ ~r.raced =>
       \A k \in Key : k \notin DOMAIN active => Visible(Lookup(r.found, k)) \in r.seen[k]
  /\ r.at = "done" /\ ~r.raced =>
       \A k \in (IF r.key = 0 THEN Key ELSE {r.key}) : Visible(Lookup(r.found, k)) \in r.seen[k]

ReadOK ==
  \/ reader = NoReader
  \/ /\ reader \in ReadState /\ pc # "down" /\ OnItsWay(reader)
     /\ ~damaged => FindsSeen(reader)

-----------------------------------------------------------------------------
(* Reads: the steps of the writer.                                         *)

\* get on a table: the cell of a key it has, and what the caller sees of it.
LEMMA LookupCell ==
  ASSUME NEW t \in Table, NEW k
  PROVE  /\ Lookup(t, k) = Absent <=> k \notin DOMAIN t
         /\ Lookup(t, k) # Absent => Lookup(t, k) \in Cell /\ Lookup(t, k) = t[k]
         /\ Visible(Lookup(t, k)) \in Value \cup {Absent}
  BY TableFacts, Zenon DEF Lookup, Visible, Cell

\* What the tree holds for a key is a value, or that there is none.
LEMMA ContentsValue ==
  ASSUME Library, LsmInv, pc # "down", NEW k
  PROVE  Contents(k) \in Value \cup {Absent}
<1>1. /\ active \in Table /\ frozen \in Table /\ CacheTable(cache) \in Table
      /\ Newest(immutables) \in Table
  BY CacheIsTable, NewestTable, Zenon DEF LsmInv, LsmTypes
<1>2. Contents(k) = Now(k)
  BY ContentsNow, Zenon DEF ContentsFact
<1>3. \A t \in Table : k \in DOMAIN t => Visible(t[k]) \in Value \cup {Absent}
  BY LookupCell, Zenon DEF Lookup
<1>4. k \in DOMAIN Rest => Visible(Rest[k]) \in Value \cup {Absent}
  BY <1>1, <1>3, RestIs, Zenon
<1>5. Below(k) \in Value \cup {Absent}
  BY <1>1, <1>4, LookupCell, Zenon DEF Below
<1>. QED  BY <1>1, <1>2, <1>3, <1>5, Zenon DEF Now

\* A step of the writer that the reader, if there is one, does not notice.
LEMMA ReadKept ==
  ASSUME ReadOK, reader' = reader, pc' # "down",
         reader # NoReader /\ ~damaged /\ ~damaged' /\ FindsSeen(reader) => FindsSeen(reader)',
         damaged => damaged'
  PROVE  ReadOK'
<1>1. CASE reader = NoReader
  BY <1>1, Zenon DEF ReadOK
<1>2. CASE reader # NoReader
  <2>1. reader \in ReadState /\ OnItsWay(reader) /\ (~damaged => FindsSeen(reader))
    BY <1>2, Zenon DEF ReadOK
  <2>2. reader' \in ReadState /\ OnItsWay(reader)'
    BY <2>1, Zenon DEF OnItsWay
  <2>3. ~damaged' => FindsSeen(reader)'
    BY <1>2, <2>1, Zenon
  <2>. QED  BY <2>2, <2>3, Zenon DEF ReadOK
<1>. QED  BY <1>1, <1>2, Zenon

\* Nothing in memory changes, or the cache is built anew with the same cells, or memtables
\* change their places.
LEMMA ReadOverSame ==
  ASSUME ReadOK, reader' = reader, pc # "down", pc' # "down", damaged => damaged',
         ~damaged' => /\ active' = active /\ Rest' = Rest
                      /\ \A k \in Key : Below(k)' = Below(k) /\ Now(k)' = Now(k)
                      /\ cache' = cache \/ SameOn(Key, cache, cache')
  PROVE  ReadOK'
<1>1. ASSUME reader # NoReader, ~damaged', FindsSeen(reader) PROVE FindsSeen(reader)'
  <2>1. \A k \in Key : Visible(Lookup(CacheTable(cache'), k)) = Visible(Lookup(CacheTable(cache), k))
    BY <1>1, Zenon DEF SameOn
  <2>2. \A k \in Key : Contents(k)' = Contents(k)
    BY <1>1, ContentsInMemory, Zenon
  <2>3. reader.at \in {"g_immutables", "g_cache"} => reader.key \in Key
    BY <1>1, Zenon DEF ReadOK, OnItsWay
  <2>. QED  BY <1>1, <2>1, <2>2, <2>3, Zenon DEF FindsSeen
<1>. QED  BY <1>1, ReadKept, Zenon

\* A read's history with one more value for a key, and a read that was overtaken.
Seen(r, k, v) == [r EXCEPT !.seen[k] = @ \cup {v}]
Raced(r) == [r EXCEPT !.raced = TRUE]

\* SeenNow adds to the values a key has held and changes nothing else of the read.
LEMMA SeenFacts ==
  ASSUME NEW r \in ReadState, NEW k \in Key, NEW v \in Value \cup {Absent}
  PROVE  /\ Seen(r, k, v) \in ReadState
         /\ Seen(r, k, v).at = r.at /\ Seen(r, k, v).key = r.key
         /\ Seen(r, k, v).found = r.found /\ Seen(r, k, v).raced = r.raced
         /\ v \in Seen(r, k, v).seen[k]
         /\ \A x \in Key : r.seen[x] \subseteq Seen(r, k, v).seen[x]
<1>1. /\ r = [at |-> r.at, key |-> r.key, found |-> r.found, raced |-> r.raced, seen |-> r.seen]
      /\ r.at \in ReadPlace /\ r.key \in Key \cup {0} /\ r.found \in Table /\ r.raced \in BOOLEAN
      /\ r.seen \in [Key -> SUBSET (Value \cup {Absent})]
  BY DEF ReadState
<1>. DEFINE s == [r.seen EXCEPT ![k] = r.seen[k] \cup {v}]
<1>2. s \in [Key -> SUBSET (Value \cup {Absent})] /\ v \in s[k] /\ \A x \in Key : r.seen[x] \subseteq s[x]
  BY <1>1
<1>3. Seen(r, k, v) = [r EXCEPT !.seen = s]
  BY Zenon DEF Seen
<1>. HIDE DEF s
<1>4. [r EXCEPT !.seen = s] =
        [at |-> r.at, key |-> r.key, found |-> r.found, raced |-> r.raced, seen |-> s]
  BY <1>1
<1>. QED  BY <1>1, <1>2, <1>3, <1>4 DEF ReadState

\* An overtaken read is where it was.
LEMMA RacedFacts ==
  ASSUME NEW r \in ReadState
  PROVE  /\ Raced(r) \in ReadState
         /\ Raced(r).at = r.at /\ Raced(r).key = r.key /\ Raced(r).found = r.found
         /\ Raced(r).raced = TRUE /\ Raced(r).seen = r.seen
  BY Zenon DEF Raced, ReadState

\* NoReader is told from a read by its place.
LEMMA IdleIsNoReader ==
  /\ NoReader.at = "idle"
  /\ \A r \in ReadState : r.at # "idle"
  BY DEF NoReader, ReadState, ReadPlace

\* put and delete while a read is on its way: it may return the new value.
LEMMA ReadOverWrite ==
  ASSUME LsmInv, ReadOK, WriteMemtable
  PROVE  ReadOK'
<1>1. /\ pc = "logged" /\ pc # "down" /\ pc' # "down" /\ active' = With(active, op.key, op.cell)
      /\ cache' = cache /\ damaged' = damaged
      /\ reader' = SeenNow(reader, op.key, op.cell)
  BY DEF WriteMemtable
<1>2. CASE reader = NoReader
  BY <1>1, <1>2, IdleIsNoReader, Zenon DEF SeenNow, ReadOK
<1>3. CASE reader # NoReader
  <2>1. reader \in ReadState /\ OnItsWay(reader) /\ (~damaged => FindsSeen(reader))
    BY <1>3, Zenon DEF ReadOK
  <2>2. op \in Operation
    BY <1>1, Zenon DEF LsmInv, OneFlush
  <2>3. op.key \in Key /\ op.cell \in Cell
    BY <2>2 DEF Operation
  <2>4. PICK k \in Key : k = op.key
    BY <2>3, Zenon
  <2>5. Visible(op.cell) \in Value \cup {Absent}
    BY <2>3, Zenon DEF Visible, Cell
  <2>6. PICK v \in Value \cup {Absent} : v = Visible(op.cell)
    BY <2>5, Zenon
  <2>7. reader' = Seen(reader, k, v)
    BY <1>1, <2>1, <2>4, <2>6, IdleIsNoReader, Zenon DEF SeenNow, Seen
  <2>8. /\ reader' \in ReadState /\ reader'.at = reader.at /\ reader'.key = reader.key
        /\ reader'.found = reader.found /\ reader'.raced = reader.raced
        /\ v \in reader'.seen[k] /\ \A x \in Key : reader.seen[x] \subseteq reader'.seen[x]
    BY <2>1, <2>7, SeenFacts, Zenon
  <2>9. OnItsWay(reader)'
    BY <2>1, <2>8, Zenon DEF OnItsWay
  <2>10. ASSUME FindsSeen(reader) PROVE FindsSeen(reader)'
    <3>1. \A x \in Key : Contents(x)' = IF x = k THEN v ELSE Contents(x)
      BY <2>4, <2>6, WriteMemtableEffect, Zenon
    <3>2. \A x \in Key : Contents(x)' \in reader'.seen[x]
      BY <2>8, <2>10, <3>1, Zenon DEF FindsSeen
    <3>3. DOMAIN active \subseteq DOMAIN active' /\ Rest' = Rest
      BY WriteMemtableEffect, Zenon
    <3>4. \A x : Below(x)' = Below(x)
      BY WriteMemtableEffect, Zenon
    <3>5. /\ reader.at \in {"g_immutables", "g_cache"} => reader.key \in Key
          /\ reader.key # 0 => reader.key \in Key
      BY <2>1, Zenon DEF OnItsWay, ReadState
    <3>. QED  BY <1>1, <2>8, <2>10, <3>2, <3>3, <3>4, <3>5, Zenon DEF FindsSeen
  <2>. QED  BY <1>1, <2>1, <2>8, <2>9, <2>10, Zenon DEF ReadOK
<1>. QED  BY <1>2, <1>3, Zenon

\* A read that a step overtakes: only what the keys hold is left to show.
LEMMA ReadRaced ==
  ASSUME ReadOK, reader # NoReader, reader' = Raced(reader), pc' # "down", damaged => damaged',
         reader.at \in {"s_immutables", "s_active"},
         ~damaged' => \A k \in Key : Contents(k)' = Contents(k)
  PROVE  ReadOK'
<1>1. reader \in ReadState /\ OnItsWay(reader) /\ (~damaged => FindsSeen(reader))
  BY Zenon DEF ReadOK
<1>2. /\ reader' \in ReadState /\ reader'.at = reader.at /\ reader'.key = reader.key
      /\ reader'.found = reader.found /\ reader'.raced = TRUE /\ reader'.seen = reader.seen
  BY <1>1, RacedFacts, Zenon
<1>3. OnItsWay(reader)'
  BY <1>1, <1>2, Zenon DEF OnItsWay
<1>4. reader'.at # "g_immutables" /\ reader'.at # "g_cache"
  BY <1>2
<1>5. ~damaged' /\ FindsSeen(reader) => FindsSeen(reader)'
  BY <1>2, <1>4, Zenon DEF FindsSeen
<1>. QED  BY <1>1, <1>2, <1>3, <1>5, Zenon DEF ReadOK

\* flush_memtable rotates: a get behind the active memtable finds there what it passed.
LEMMA ReadOverRotate ==
  ASSUME ReadOK, Rotate
  PROVE  ReadOK'
<1>1. pc # "down" /\ pc' # "down" /\ active' = Empty /\ cache' = cache /\ damaged' = damaged
  BY DEF Rotate
<1>2. reader' = IF reader.at = "s_active" THEN Raced(reader) ELSE reader
  BY Zenon DEF Rotate, Raced
<1>3. \A k : Contents(k)' = Contents(k) /\ Below(k)' = Contents(k)
  BY <1>1, ContentsInMemory, RotateNow, Zenon
<1>4. CASE reader # NoReader /\ reader.at = "s_active"
  <2>1. reader' = Raced(reader) /\ reader.at \in {"s_immutables", "s_active"}
    BY <1>2, <1>4
  <2>. QED  BY <1>1, <1>3, <1>4, <2>1, ReadRaced, Zenon
<1>5. CASE reader = NoReader \/ reader.at # "s_active"
  <2>1. reader' = reader
    BY <1>2, <1>5, IdleIsNoReader
  <2>2. ASSUME reader # NoReader, FindsSeen(reader) PROVE FindsSeen(reader)'
    <3>1. reader.at \in {"g_immutables", "g_cache"} => reader.key \in Key
      BY <2>2, Zenon DEF ReadOK, OnItsWay
    <3>2. \A k : k \notin DOMAIN active' /\ k \notin DOMAIN Rest' =>
            k \notin DOMAIN active /\ k \notin DOMAIN Rest
      BY RotateNow, Zenon
    <3>3. reader'.at # "s_active"
      BY <1>5, <2>1, <2>2, Zenon
    <3>. QED  BY <1>1, <1>3, <2>1, <2>2, <3>1, <3>2, <3>3, Zenon DEF FindsSeen
  <2>. QED  BY <1>1, <2>1, <2>2, ReadKept, Zenon
<1>. QED  BY <1>4, <1>5, Zenon

\* flush_memtable puts the new file in the cache while the memtable is still listed.
LEMMA ReadOverPushCache ==
  ASSUME Library, LsmInv, ReadOK, PushCache
  PROVE  ReadOK'
<1>1. /\ pc # "down" /\ pc' # "down" /\ active' = active /\ reader' = reader /\ damaged' = damaged
  BY DEF PushCache
<1>2. Rest' = Rest /\ \A k : Below(k)' = Below(k) /\ Now(k)' = Now(k)
  BY PushCacheNow, Zenon
<1>3. \A k : \/ Visible(Lookup(CacheTable(cache'), k)) = Below(k)
             \/ Visible(Lookup(CacheTable(cache'), k)) = Visible(Lookup(CacheTable(cache), k))
  BY PushCacheNow, Zenon
<1>4. \A k : Contents(k)' = Contents(k)
  BY <1>1, <1>2, ContentsInMemory, Zenon
<1>5. FindsSeen(reader) => FindsSeen(reader)'
  BY <1>1, <1>2, <1>3, <1>4, Zenon DEF FindsSeen
<1>. QED  BY <1>1, <1>5, ReadKept, Zenon

\* flush_memtable drops the memtable: its cells are those of the new file.
LEMMA ReadOverDrop ==
  ASSUME Library, LsmInv, ReadOK, DropImmutable
  PROVE  ReadOK'
<1>1. /\ pc # "down" /\ pc' # "down" /\ active' = active /\ cache' = cache /\ (damaged => damaged')
  BY DEF DropImmutable
<1>2. reader' = IF reader.at = "s_immutables" THEN Raced(reader) ELSE reader
  BY Zenon DEF DropImmutable, Raced
<1>3. ASSUME ~damaged' PROVE \A k \in Key : Contents(k)' = Contents(k) /\ Below(k)' = Below(k)
  BY <1>1, <1>3, ContentsInMemory, DropImmutableNow, Zenon
<1>4. CASE reader # NoReader /\ reader.at = "s_immutables"
  <2>1. reader' = Raced(reader) /\ reader.at \in {"s_immutables", "s_active"}
    BY <1>2, <1>4
  <2>. QED  BY <1>1, <1>3, <1>4, <2>1, ReadRaced, Zenon
<1>5. CASE reader = NoReader \/ reader.at # "s_immutables"
  <2>1. reader' = reader
    BY <1>2, <1>5, IdleIsNoReader
  <2>2. ASSUME reader # NoReader, ~damaged', FindsSeen(reader) PROVE FindsSeen(reader)'
    <3>1. \A k \in Key : Contents(k)' = Contents(k) /\ Below(k)' = Below(k)
      BY <1>3, <2>2, Zenon
    <3>2. reader.at \in {"g_immutables", "g_cache"} => reader.key \in Key
      BY <2>2, Zenon DEF ReadOK, OnItsWay
    <3>3. reader'.at # "s_immutables"
      BY <1>5, <2>1, <2>2, Zenon
    <3>. QED  BY <1>1, <2>1, <2>2, <3>1, <3>2, <3>3, Zenon DEF FindsSeen
  <2>. QED  BY <1>1, <2>1, <2>2, ReadKept, Zenon
<1>. QED  BY <1>4, <1>5, Zenon

\* What the file cache is rebuilt from gives every key the same value.
LEMMA ReadOverRebuild ==
  ASSUME LsmInv, ReadOK, RebuildCache
  PROVE  ReadOK'
<1>1. /\ pc = "compacted" /\ pc # "down" /\ pc' # "down" /\ active' = active
      /\ cache' = Opened(manifest, files) /\ reader' = reader /\ damaged' = damaged
  BY DEF RebuildCache
<1>2. pc \in Flushed
  BY <1>1 DEF Flushed
<1>3. ~damaged => SameOn(Key, cache, cache')
  BY <1>1, <1>2, AllInFiles, Zenon
<1>4. ~damaged => Rest' = Rest /\ \A k \in Key : Below(k)' = Below(k) /\ Now(k)' = Now(k)
  BY RebuildCacheNow, Zenon
<1>. QED  BY <1>1, <1>3, <1>4, ReadOverSame, Zenon

-----------------------------------------------------------------------------
(* Reads: the steps of the reader.                                         *)

Got(r, table, next, gap) ==
  [r EXCEPT !.at = IF Lookup(table, r.key) # Absent THEN "done" ELSE next,
            !.found = IF Lookup(table, r.key) # Absent
                      THEN With(@, r.key, Lookup(table, r.key)) ELSE @,
            !.raced = @ \/ gap]

Scanned(r, table, next, gap) ==
  [r EXCEPT !.at = next, !.found = Over(table, @), !.raced = @ \/ gap]

\* What a read becomes when its place, what it found and whether it was overtaken change.
Moved(r, at, found, raced) ==
  [r EXCEPT !.at = at, !.found = found, !.raced = raced]

\* A step of get or scan keeps the key and the history of the read.
LEMMA MovedFacts ==
  ASSUME NEW r \in ReadState, NEW at \in ReadPlace, NEW found \in Table, NEW raced \in BOOLEAN
  PROVE  /\ Moved(r, at, found, raced) \in ReadState
         /\ Moved(r, at, found, raced).at = at /\ Moved(r, at, found, raced).found = found
         /\ Moved(r, at, found, raced).raced = raced
         /\ Moved(r, at, found, raced).key = r.key /\ Moved(r, at, found, raced).seen = r.seen
  BY Zenon DEF Moved, ReadState

\* One step of LsmTree::get: it ends with the cell of the table, or goes on.
IsGot(g, r, table, next, gap) ==
  /\ g \in ReadState /\ g.key = r.key /\ g.seen = r.seen /\ g.raced = (r.raced \/ gap)
  /\ r.key \in DOMAIN table => g.at = "done" /\ Lookup(g.found, r.key) = table[r.key]
  /\ r.key \notin DOMAIN table => g.at = next /\ g.found = Empty

\* LsmTree::get goes through the sources one after the other.
LEMMA GotFacts ==
  ASSUME NEW r \in ReadState, r.key \in Key, r.found = Empty, NEW table \in Table,
         NEW next \in ReadPlace, NEW gap \in BOOLEAN
  PROVE  IsGot(Got(r, table, next, gap), r, table, next, gap)
<1>1. PICK b \in BOOLEAN : b = (r.raced \/ gap)
  BY Zenon
<1>2. CASE r.key \in DOMAIN table
  <2>1. Lookup(table, r.key) # Absent /\ Lookup(table, r.key) = table[r.key] /\ table[r.key] \in Cell
    BY <1>2, TableFacts, Zenon DEF Lookup
  <2>. DEFINE f == With(Empty, r.key, table[r.key])
  <2>2. Got(r, table, next, gap) = Moved(r, "done", f, b)
    BY <1>1, <2>1, Zenon DEF Got, Moved
  <2>3. f \in Table /\ Lookup(f, r.key) = table[r.key]
    <3>1. \A k \in Key : \A c \in Cell : With(Empty, k, c) \in Table
      BY EmptyTable, WithTable, Zenon
    <3>. QED  BY <2>1, <3>1, Zenon DEF With, Lookup
  <2>4. "done" \in ReadPlace
    BY DEF ReadPlace
  <2>. HIDE DEF f
  <2>5. /\ Moved(r, "done", f, b) \in ReadState
        /\ Moved(r, "done", f, b).at = "done" /\ Moved(r, "done", f, b).found = f
        /\ Moved(r, "done", f, b).raced = b
        /\ Moved(r, "done", f, b).key = r.key /\ Moved(r, "done", f, b).seen = r.seen
    BY <2>3, <2>4, MovedFacts
  <2>. QED  BY <1>1, <1>2, <2>2, <2>3, <2>5, Zenon DEF IsGot
<1>3. CASE r.key \notin DOMAIN table
  <2>1. Lookup(table, r.key) = Absent
    BY <1>3, Zenon DEF Lookup
  <2>2. Got(r, table, next, gap) = Moved(r, next, Empty, b)
    BY <1>1, <2>1, Zenon DEF Got, Moved
  <2>3. Empty \in Table
    BY EmptyTable, Zenon
  <2>4. /\ Moved(r, next, Empty, b) \in ReadState
        /\ Moved(r, next, Empty, b).at = next /\ Moved(r, next, Empty, b).found = Empty
        /\ Moved(r, next, Empty, b).raced = b
        /\ Moved(r, next, Empty, b).key = r.key /\ Moved(r, next, Empty, b).seen = r.seen
    BY <2>3, MovedFacts
  <2>. QED  BY <1>1, <1>3, <2>2, <2>4, Zenon DEF IsGot
<1>. QED  BY <1>2, <1>3, Zenon

\* One step of LsmTree::scan: the cells of the table hide those found before.
IsScanned(g, r, table, next, gap) ==
  /\ g \in ReadState /\ g.key = r.key /\ g.seen = r.seen /\ g.raced = (r.raced \/ gap)
  /\ g.at = next
  /\ \A k : Lookup(g.found, k) = IF k \in DOMAIN table THEN table[k] ELSE Lookup(r.found, k)

\* LsmTree::scan inserts the entries of each source over those of the ones before.
LEMMA ScannedFacts ==
  ASSUME NEW r \in ReadState, NEW table \in Table, NEW next \in ReadPlace, NEW gap \in BOOLEAN
  PROVE  IsScanned(Scanned(r, table, next, gap), r, table, next, gap)
<1>1. PICK b \in BOOLEAN : b = (r.raced \/ gap)
  BY Zenon
<1>2. r.found \in Table
  BY Zenon DEF ReadState
<1>3. PICK o \in Table : o = Over(table, r.found)
  BY <1>2, OverTable, Zenon
<1>4. Scanned(r, table, next, gap) = Moved(r, next, o, b)
  BY <1>1, <1>3, Zenon DEF Scanned, Moved
<1>5. /\ Moved(r, next, o, b) \in ReadState
      /\ Moved(r, next, o, b).at = next /\ Moved(r, next, o, b).found = o
      /\ Moved(r, next, o, b).raced = b
      /\ Moved(r, next, o, b).key = r.key /\ Moved(r, next, o, b).seen = r.seen
  BY MovedFacts
<1>6. \A k : Lookup(o, k) = IF k \in DOMAIN table THEN table[k] ELSE Lookup(r.found, k)
  BY <1>3, LookupOver, Zenon
<1>. QED  BY <1>1, <1>4, <1>5, <1>6, Zenon DEF IsScanned

\* The tree while a step of the reader is taken, and the read before it.
LEMMA ReadingFrame ==
  ASSUME Library, LsmInv, ReadOK, Reader, reader.at # "idle"
  PROVE  /\ reader \in ReadState /\ OnItsWay(reader) /\ (~damaged => FindsSeen(reader))
         /\ pc # "down" /\ pc' # "down" /\ damaged' = damaged
         /\ active' = active /\ Rest' = Rest /\ cache' = cache
         /\ active \in Table /\ CacheTable(cache) \in Table /\ Newest(immutables) \in Table
         /\ \A k : /\ Contents(k)' = Contents(k) /\ Below(k)' = Below(k)
                   /\ k \in DOMAIN active => Contents(k) = Visible(active[k])
                   /\ k \notin DOMAIN active => Contents(k) = Below(k)
                   /\ k \in DOMAIN Rest => Below(k) = Visible(Rest[k])
                   /\ k \notin DOMAIN Rest => Below(k) = Visible(Lookup(CacheTable(cache), k))
                   /\ k \in DOMAIN Newest(immutables) => k \in DOMAIN Rest
                   /\ pc # "rotated" /\ k \in DOMAIN Rest =>
                        k \in DOMAIN Newest(immutables) /\ Newest(immutables)[k] = Rest[k]
<1>1. reader # NoReader
  BY IdleIsNoReader, Zenon
<1>2. reader \in ReadState /\ pc # "down" /\ OnItsWay(reader) /\ (~damaged => FindsSeen(reader))
  BY <1>1, Zenon DEF ReadOK
<1>3. /\ active' = active /\ frozen' = frozen /\ immutables' = immutables /\ cache' = cache /\ pc' = pc
      /\ damaged' = damaged
  BY ReaderFrame, Zenon
<1>4. active \in Table /\ CacheTable(cache) \in Table /\ Newest(immutables) \in Table
  BY CacheIsTable, NewestTable, Zenon DEF LsmInv, LsmTypes
<1>5. Rest' = Rest
  BY <1>3, Zenon DEF Rest
<1>6. \A k : Below(k)' = Below(k)
  BY <1>3, <1>5, Zenon DEF Below
<1>7. \A k : Now(k)' = Now(k)
  BY <1>3, <1>6, Zenon DEF Now
<1>8. \A k : Contents(k) = Now(k) /\ Contents(k)' = Contents(k)
  BY <1>2, <1>3, <1>7, ContentsInMemory, Zenon
<1>9. \A k : /\ k \in DOMAIN active => Contents(k) = Visible(active[k])
             /\ k \notin DOMAIN active => Contents(k) = Below(k)
  BY <1>8, Zenon DEF Now
<1>10. \A k : /\ k \in DOMAIN Rest => Below(k) = Visible(Rest[k])
              /\ k \notin DOMAIN Rest => Below(k) = Visible(Lookup(CacheTable(cache), k))
  BY Zenon DEF Below
<1>11. \A k : /\ k \in DOMAIN Newest(immutables) => k \in DOMAIN Rest
              /\ pc # "rotated" /\ k \in DOMAIN Rest =>
                   k \in DOMAIN Newest(immutables) /\ Newest(immutables)[k] = Rest[k]
  BY RestIs, Zenon
<1>. QED  BY <1>2, <1>3, <1>4, <1>5, <1>6, <1>8, <1>9, <1>10, <1>11, Zenon

\* Places of a read.
LEMMA Places ==
  /\ {"g_active", "g_immutables", "g_cache", "s_cache", "s_immutables", "s_active", "done"} = ReadPlace
  /\ \A r \in ReadState : r.at \in ReadPlace /\ r.raced \in BOOLEAN /\ r.found \in Table
  /\ \A k \in Key : k # 0
  BY DEF ReadPlace, ReadState, Key

\* LsmTree::get at the active memtable.
LEMMA GetActiveOK ==
  ASSUME Library, LsmInv, ReadOK, GetActive
  PROVE  ReadOK'
<1>1. Reader /\ reader.at = "g_active" /\ reader.at # "idle"
  BY DEF Reader, GetActive, GetFrom
<1>2. reader \in ReadState /\ OnItsWay(reader) /\ active \in Table
  BY <1>1, ReadingFrame, Zenon
<1>3. reader.key \in Key /\ reader.found = Empty /\ reader.key # 0
  BY <1>1, <1>2, Places DEF OnItsWay
<1>4. reader' = Got(reader, active, "g_immutables", FALSE)
  BY Zenon DEF GetActive, GetFrom, Got
<1>5. "g_immutables" \in ReadPlace /\ FALSE \in BOOLEAN
  BY DEF ReadPlace
<1>6. /\ reader' \in ReadState /\ reader'.key = reader.key /\ reader'.seen = reader.seen
      /\ reader.key \in DOMAIN active =>
           reader'.at = "done" /\ Lookup(reader'.found, reader.key) = active[reader.key]
      /\ reader.key \notin DOMAIN active => reader'.at = "g_immutables" /\ reader'.found = Empty
  <2>1. IsGot(Got(reader, active, "g_immutables", FALSE), reader, active, "g_immutables", FALSE)
    BY <1>2, <1>3, <1>5, GotFacts, Zenon
  <2>. QED  BY <1>4, <2>1, Zenon DEF IsGot
<1>7. OnItsWay(reader)'
  <2>1. reader'.at = "done" \/ (reader'.at = "g_immutables" /\ reader'.key \in Key /\ reader'.found = Empty)
    BY <1>3, <1>6, Zenon
  <2>. QED  BY <2>1 DEF OnItsWay
<1>8. ASSUME ~damaged PROVE FindsSeen(reader)'
  <2>1. FindsSeen(reader)
    BY <1>1, <1>8, ReadingFrame, Zenon
  <2>2. \A k \in Key : Contents(k)' \in reader'.seen[k]
    BY <1>1, <1>6, <2>1, ReadingFrame, Zenon DEF FindsSeen
  <2>3. CASE reader.key \in DOMAIN active
    <3>1. Visible(Lookup(reader'.found, reader'.key)) \in reader'.seen[reader'.key]
      BY <1>1, <1>3, <1>6, <2>1, <2>3, ReadingFrame, Zenon DEF FindsSeen
    <3>2. reader'.at = "done" /\ reader'.key # 0
      BY <1>3, <1>6, <2>3, Zenon
    <3>. QED  BY <2>2, <3>1, <3>2 DEF FindsSeen
  <2>4. CASE reader.key \notin DOMAIN active
    <3>1. PICK k \in Key : k = reader.key
      BY <1>3, Zenon
    <3>2. Below(k)' \in reader'.seen[k] /\ reader'.key = k /\ reader'.at = "g_immutables"
      BY <1>1, <1>6, <2>1, <2>4, <3>1, ReadingFrame, Zenon DEF FindsSeen
    <3>3. Below(reader.key)' \in reader'.seen[reader'.key]
      BY <3>2, Zenon DEF Below
    <3>4. reader'.at = "g_immutables"
      BY <3>2, Zenon
    <3>. QED  BY <2>2, <3>3, <3>4 DEF FindsSeen
  <2>. QED  BY <2>3, <2>4, Zenon
<1>. QED  BY <1>1, <1>6, <1>7, <1>8, ReadingFrame, Zenon DEF ReadOK

\* LsmTree::get at the immutable memtables: past them, and unless it came between the
\* rotation and the push, the key is in none of them.
LEMMA GetImmutablesOK ==
  ASSUME Library, LsmInv, ReadOK, GetImmutables
  PROVE  ReadOK'
<1>1. Reader /\ reader.at = "g_immutables" /\ reader.at # "idle"
  BY DEF Reader, GetImmutables, GetFrom
<1>. DEFINE n == Newest(immutables)
<1>2. reader \in ReadState /\ OnItsWay(reader) /\ n \in Table
  BY <1>1, ReadingFrame, Zenon
<1>3. reader.key \in Key /\ reader.found = Empty /\ reader.key # 0
  BY <1>1, <1>2, Places DEF OnItsWay
<1>4. PICK gap \in BOOLEAN : gap = (pc = "rotated")
  BY Zenon
<1>5. reader' = Got(reader, n, "g_cache", gap)
  BY <1>4, Zenon DEF GetImmutables, GetFrom, Got
<1>6. /\ reader' \in ReadState /\ reader'.key = reader.key /\ reader'.seen = reader.seen
      /\ reader'.raced = (reader.raced \/ gap)
      /\ reader.key \in DOMAIN n => reader'.at = "done" /\ Lookup(reader'.found, reader.key) = n[reader.key]
      /\ reader.key \notin DOMAIN n => reader'.at = "g_cache" /\ reader'.found = Empty
  <2>. HIDE DEF n
  <2>1. "g_cache" \in ReadPlace
    BY DEF ReadPlace
  <2>2. IsGot(Got(reader, n, "g_cache", gap), reader, n, "g_cache", gap)
    BY <1>2, <1>3, <2>1, GotFacts, Zenon
  <2>. QED  BY <1>5, <2>2, Zenon DEF IsGot
<1>7. OnItsWay(reader)'
  <2>1. reader'.at = "done" \/ (reader'.at = "g_cache" /\ reader'.key \in Key /\ reader'.found = Empty)
    BY <1>3, <1>6, Zenon
  <2>. QED  BY <2>1 DEF OnItsWay
<1>8. ASSUME ~damaged PROVE FindsSeen(reader)'
  <2>1. FindsSeen(reader)
    BY <1>1, <1>8, ReadingFrame, Zenon
  <2>2. \A k \in Key : Contents(k)' \in reader'.seen[k]
    BY <1>1, <1>6, <2>1, ReadingFrame, Zenon DEF FindsSeen
  <2>3. PICK k \in Key : k = reader.key /\ k # 0
    BY <1>3, Zenon
  <2>4. Below(k) \in reader.seen[k]
    BY <1>1, <2>1, <2>3, Zenon DEF FindsSeen
  <2>5. CASE k \in DOMAIN n
    <3>1. ~reader'.raced => pc # "rotated"
      BY <1>4, <1>6, Zenon
    <3>2. pc # "rotated" => n[k] = Rest[k] /\ Below(k) = Visible(Rest[k])
      BY <1>1, <2>5, ReadingFrame, Zenon
    <3>3. /\ ~reader'.raced => Visible(Lookup(reader'.found, k)) \in reader'.seen[k]
          /\ reader'.key = k /\ reader'.at = "done" /\ k # 0
      BY <1>6, <2>3, <2>4, <2>5, <3>1, <3>2, Zenon
    <3>. QED  BY <2>2, <3>3 DEF FindsSeen
  <2>6. CASE k \notin DOMAIN n
    <3>1. /\ reader'.key = k /\ reader'.at = "g_cache" /\ reader'.seen = reader.seen
          /\ Below(k)' = Below(k) /\ cache' = cache
      BY <1>1, <1>6, <2>3, <2>6, ReadingFrame, Zenon
    <3>2. ~reader'.raced => Visible(Lookup(CacheTable(cache'), k)) \in reader'.seen[k]
      <4>1. ~reader'.raced => pc # "rotated"
        BY <1>4, <1>6, Zenon
      <4>2. pc # "rotated" => Below(k) = Visible(Lookup(CacheTable(cache), k))
        BY <1>1, <2>6, ReadingFrame, Zenon
      <4>. QED  BY <2>4, <3>1, <4>1, <4>2, Zenon
    <3>3. Below(reader.key)' \in reader'.seen[reader'.key]
      BY <2>4, <3>1, Zenon DEF Below
    <3>4. ~reader'.raced => Visible(Lookup(CacheTable(cache'), reader'.key)) \in reader'.seen[reader'.key]
      BY <3>1, <3>2, Zenon
    <3>5. reader'.at = "g_cache"
      BY <3>1, Zenon
    <3>. QED  BY <2>2, <3>3, <3>4, <3>5 DEF FindsSeen
  <2>. QED  BY <2>5, <2>6, Zenon
<1>. QED  BY <1>1, <1>6, <1>7, <1>8, ReadingFrame, Zenon DEF ReadOK

\* LsmTree::get at the files, the last place to look.
LEMMA GetCacheOK ==
  ASSUME Library, LsmInv, ReadOK, GetCache
  PROVE  ReadOK'
<1>1. Reader /\ reader.at = "g_cache" /\ reader.at # "idle"
  BY DEF Reader, GetCache, GetFrom
<1>. DEFINE n == CacheTable(cache)
<1>2. reader \in ReadState /\ OnItsWay(reader) /\ n \in Table
  BY <1>1, ReadingFrame, Zenon
<1>3. reader.key \in Key /\ reader.found = Empty /\ reader.key # 0
  BY <1>1, <1>2, Places DEF OnItsWay
<1>4. reader' = Got(reader, n, "done", FALSE)
  BY Zenon DEF GetCache, GetFrom, Got
<1>5. /\ reader' \in ReadState /\ reader'.key = reader.key /\ reader'.seen = reader.seen
      /\ reader'.raced = (reader.raced \/ FALSE) /\ reader'.at = "done"
      /\ Lookup(reader'.found, reader.key) = Lookup(n, reader.key)
  <2>. HIDE DEF n
  <2>1. "done" \in ReadPlace /\ FALSE \in BOOLEAN
    BY DEF ReadPlace
  <2>2. IsGot(Got(reader, n, "done", FALSE), reader, n, "done", FALSE)
    BY <1>2, <1>3, <2>1, GotFacts, Zenon
  <2>. QED  BY <1>4, <2>2, EmptyTable, Zenon DEF IsGot, Lookup
<1>6. OnItsWay(reader)'
  BY <1>5 DEF OnItsWay
<1>7. ASSUME ~damaged PROVE FindsSeen(reader)'
  <2>1. FindsSeen(reader)
    BY <1>1, <1>7, ReadingFrame, Zenon
  <2>2. \A k \in Key : Contents(k)' \in reader'.seen[k]
    BY <1>1, <1>5, <2>1, ReadingFrame, Zenon DEF FindsSeen
  <2>3. ~reader'.raced => ~reader.raced
    BY <1>5, Zenon
  <2>4. ~reader'.raced => Visible(Lookup(reader'.found, reader'.key)) \in reader'.seen[reader'.key]
    BY <1>1, <1>5, <2>1, <2>3, Zenon DEF FindsSeen
  <2>5. reader'.at = "done" /\ reader'.key # 0
    BY <1>3, <1>5, Zenon
  <2>. QED  BY <2>2, <2>4, <2>5 DEF FindsSeen
<1>. QED  BY <1>1, <1>5, <1>6, <1>7, ReadingFrame, Zenon DEF ReadOK

\* LsmTree::scan at the files.
LEMMA ScanCacheOK ==
  ASSUME Library, LsmInv, ReadOK, ScanCache
  PROVE  ReadOK'
<1>1. Reader /\ reader.at = "s_cache" /\ reader.at # "idle"
  BY DEF Reader, ScanCache, ScanFrom
<1>. DEFINE n == CacheTable(cache)
<1>2. reader \in ReadState /\ OnItsWay(reader) /\ n \in Table
  BY <1>1, ReadingFrame, Zenon
<1>3. reader.key = 0 /\ reader.found = Empty
  BY <1>1, <1>2 DEF OnItsWay
<1>4. reader' = Scanned(reader, n, "s_immutables", FALSE)
  BY Zenon DEF ScanCache, ScanFrom, Scanned
<1>5. /\ reader' \in ReadState /\ reader'.key = 0 /\ reader'.seen = reader.seen
      /\ reader'.at = "s_immutables"
      /\ \A k : Lookup(reader'.found, k) = Lookup(n, k)
  <2>. HIDE DEF n
  <2>1. "s_immutables" \in ReadPlace /\ FALSE \in BOOLEAN
    BY DEF ReadPlace
  <2>2. IsScanned(Scanned(reader, n, "s_immutables", FALSE), reader, n, "s_immutables", FALSE)
    BY <1>2, <2>1, ScannedFacts, Zenon
  <2>. QED  BY <1>3, <1>4, <2>2, EmptyTable, Zenon DEF IsScanned, Lookup
<1>6. OnItsWay(reader)'
  BY <1>5 DEF OnItsWay
<1>7. ASSUME ~damaged PROVE FindsSeen(reader)'
  <2>1. FindsSeen(reader)
    BY <1>1, <1>7, ReadingFrame, Zenon
  <2>2. \A k \in Key : Contents(k)' \in reader'.seen[k]
    BY <1>1, <1>5, <2>1, ReadingFrame, Zenon DEF FindsSeen
  <2>3. \A k \in Key : k \notin DOMAIN active' /\ k \notin DOMAIN Rest' =>
          Visible(Lookup(reader'.found, k)) \in reader'.seen[k]
    BY <1>1, <1>5, <2>1, ReadingFrame, Zenon DEF FindsSeen
  <2>4. reader'.at = "s_immutables"
    BY <1>5, Zenon
  <2>. QED  BY <2>2, <2>3, <2>4, Zenon DEF FindsSeen
<1>. QED  BY <1>1, <1>5, <1>6, <1>7, ReadingFrame, Zenon DEF ReadOK

\* LsmTree::scan at the immutable memtables.
LEMMA ScanImmutablesOK ==
  ASSUME Library, LsmInv, ReadOK, ScanImmutables
  PROVE  ReadOK'
<1>1. Reader /\ reader.at = "s_immutables" /\ reader.at # "idle"
  BY DEF Reader, ScanImmutables, ScanFrom
<1>. DEFINE n == Newest(immutables)
<1>2. reader \in ReadState /\ OnItsWay(reader) /\ n \in Table
  BY <1>1, ReadingFrame, Zenon
<1>3. reader.key = 0
  BY <1>1, <1>2 DEF OnItsWay
<1>4. PICK gap \in BOOLEAN : gap = (pc = "rotated")
  BY Zenon
<1>5. reader' = Scanned(reader, n, "s_active", gap)
  BY <1>4, Zenon DEF ScanImmutables, ScanFrom, Scanned
<1>6. /\ reader' \in ReadState /\ reader'.key = 0 /\ reader'.seen = reader.seen
      /\ reader'.at = "s_active" /\ reader'.raced = (reader.raced \/ gap)
      /\ \A k : Lookup(reader'.found, k) = IF k \in DOMAIN n THEN n[k] ELSE Lookup(reader.found, k)
  <2>. HIDE DEF n
  <2>1. "s_active" \in ReadPlace
    BY DEF ReadPlace
  <2>2. IsScanned(Scanned(reader, n, "s_active", gap), reader, n, "s_active", gap)
    BY <1>2, <2>1, ScannedFacts, Zenon
  <2>. QED  BY <1>3, <1>5, <2>2, Zenon DEF IsScanned
<1>7. OnItsWay(reader)'
  BY <1>6 DEF OnItsWay
<1>8. ASSUME ~damaged PROVE FindsSeen(reader)'
  <2>1. FindsSeen(reader)
    BY <1>1, <1>8, ReadingFrame, Zenon
  <2>2. \A k \in Key : Contents(k)' \in reader'.seen[k]
    BY <1>1, <1>6, <2>1, ReadingFrame, Zenon DEF FindsSeen
  <2>3. ASSUME ~reader'.raced, NEW k \in Key, k \notin DOMAIN active'
        PROVE  Visible(Lookup(reader'.found, k)) \in reader'.seen[k]
    <3>1. pc # "rotated" /\ ~reader.raced
      BY <1>4, <1>6, <2>3, Zenon
    <3>2. k \notin DOMAIN active
      BY <1>1, <2>3, ReadingFrame, Zenon
    <3>3. CASE k \in DOMAIN Rest
      <4>1. k \in DOMAIN n /\ n[k] = Rest[k] /\ Contents(k) = Visible(Rest[k])
        BY <1>1, <3>1, <3>2, <3>3, ReadingFrame, Zenon
      <4>. QED  BY <1>6, <2>1, <4>1, Zenon DEF FindsSeen
    <3>4. CASE k \notin DOMAIN Rest
      <4>1. k \notin DOMAIN n
        BY <1>1, <3>4, ReadingFrame, Zenon
      <4>2. Visible(Lookup(reader.found, k)) \in reader.seen[k]
        BY <1>1, <2>1, <3>1, <3>2, <3>4, Zenon DEF FindsSeen
      <4>. QED  BY <1>6, <4>1, <4>2, Zenon
    <3>. QED  BY <3>3, <3>4, Zenon
  <2>4. reader'.at = "s_active"
    BY <1>6, Zenon
  <2>. QED  BY <2>2, <2>3, <2>4 DEF FindsSeen
<1>. QED  BY <1>1, <1>6, <1>7, <1>8, ReadingFrame, Zenon DEF ReadOK

\* LsmTree::scan at the active memtable, the last source.
LEMMA ScanActiveOK ==
  ASSUME Library, LsmInv, ReadOK, ScanActive
  PROVE  ReadOK'
<1>1. Reader /\ reader.at = "s_active" /\ reader.at # "idle"
  BY DEF Reader, ScanActive, ScanFrom
<1>2. reader \in ReadState /\ OnItsWay(reader) /\ active \in Table
  BY <1>1, ReadingFrame, Zenon
<1>3. reader.key = 0
  BY <1>1, <1>2 DEF OnItsWay
<1>4. reader' = Scanned(reader, active, "done", FALSE)
  BY Zenon DEF ScanActive, ScanFrom, Scanned
<1>5. /\ reader' \in ReadState /\ reader'.key = 0 /\ reader'.seen = reader.seen
      /\ reader'.at = "done" /\ reader'.raced = (reader.raced \/ FALSE)
      /\ \A k : Lookup(reader'.found, k) = IF k \in DOMAIN active THEN active[k] ELSE Lookup(reader.found, k)
  <2>1. "done" \in ReadPlace /\ FALSE \in BOOLEAN
    BY DEF ReadPlace
  <2>2. IsScanned(Scanned(reader, active, "done", FALSE), reader, active, "done", FALSE)
    BY <1>2, <2>1, ScannedFacts, Zenon
  <2>. QED  BY <1>3, <1>4, <2>2, Zenon DEF IsScanned
<1>6. OnItsWay(reader)'
  BY <1>5 DEF OnItsWay
<1>7. ASSUME ~damaged PROVE FindsSeen(reader)'
  <2>1. FindsSeen(reader)
    BY <1>1, <1>7, ReadingFrame, Zenon
  <2>2. \A k \in Key : Contents(k)' \in reader'.seen[k]
    BY <1>1, <1>5, <2>1, ReadingFrame, Zenon DEF FindsSeen
  <2>3. ASSUME ~reader'.raced, NEW k \in Key
        PROVE  Visible(Lookup(reader'.found, k)) \in reader'.seen[k]
    <3>1. CASE k \in DOMAIN active
      <4>1. Contents(k) = Visible(active[k])
        BY <1>1, <3>1, ReadingFrame, Zenon
      <4>. QED  BY <1>5, <2>1, <3>1, <4>1, Zenon DEF FindsSeen
    <3>2. CASE k \notin DOMAIN active
      <4>1. ~reader.raced
        BY <1>5, <2>3, Zenon
      <4>2. Visible(Lookup(reader.found, k)) \in reader.seen[k]
        BY <1>1, <2>1, <3>2, <4>1, Zenon DEF FindsSeen
      <4>. QED  BY <1>5, <3>2, <4>2, Zenon
    <3>. QED  BY <3>1, <3>2, Zenon
  <2>4. reader'.at = "done" /\ reader'.key = 0
    BY <1>5, Zenon
  <2>. QED  BY <2>2, <2>3, <2>4, Zenon DEF FindsSeen
<1>. QED  BY <1>1, <1>5, <1>6, <1>7, ReadingFrame, Zenon DEF ReadOK

\* A read begins with what the tree holds now.
LEMMA BeginReadOK ==
  ASSUME Library, LsmInv, ReadOK, NEW at \in {"s_cache", "g_active"}, NEW k \in Key \cup {0},
         at = "s_cache" => k = 0, at = "g_active" => k \in Key,
         BeginRead(at, k), Reader
  PROVE  ReadOK'
<1>1. /\ pc # "down" /\ pc' # "down" /\ damaged' = damaged
      /\ \A x : Now(x)' = Now(x)
  <2>1. pc # "down" /\ UNCHANGED <<active, immutables, frozen, cache, pc, damaged>>
    BY ReaderFrame, Zenon DEF BeginRead
  <2>2. Rest' = Rest
    BY <2>1, Zenon DEF Rest
  <2>3. \A x : Below(x)' = Below(x)
    BY <2>1, <2>2, Zenon DEF Below
  <2>. QED  BY <2>1, <2>3, Zenon DEF Now
<1>2. PICK s : s = [x \in Key |-> {Contents(x)}]
  BY Zenon
<1>3. reader' = [at |-> at, key |-> k, found |-> Empty, raced |-> FALSE, seen |-> s]
  BY <1>2, Zenon DEF BeginRead
<1>4. /\ s \in [Key -> SUBSET (Value \cup {Absent})]
      /\ \A x \in Key : Contents(x) \in s[x]
  BY <1>1, <1>2, ContentsValue, Zenon
<1>5. at \in ReadPlace /\ FALSE \in BOOLEAN /\ Empty \in Table
  BY EmptyTable DEF ReadPlace
<1>6. /\ reader' \in ReadState /\ reader'.at = at /\ reader'.key = k /\ reader'.found = Empty
      /\ reader'.seen = s
  BY <1>3, <1>4, <1>5 DEF ReadState
<1>7. OnItsWay(reader)'
  BY <1>6 DEF OnItsWay
<1>8. \A x \in Key : Contents(x)' \in reader'.seen[x]
  BY <1>1, <1>4, <1>6, ContentsInMemory, Zenon
<1>9. FindsSeen(reader)'
  BY <1>6, <1>8, Zenon DEF FindsSeen
<1>. QED  BY <1>1, <1>6, <1>7, <1>9, Zenon DEF ReadOK

\* Every step of a read keeps what it has found among what the keys have held.
LEMMA ReaderStepOK ==
  ASSUME Library, LsmInv, ReadOK, Reader
  PROVE  ReadOK'
<1>1. CASE BeginRead("s_cache", 0)
  BY <1>1, BeginReadOK
<1>2. CASE \E k \in Key : BeginRead("g_active", k)
  <2>1. PICK k \in Key : BeginRead("g_active", k)
    BY <1>2, Zenon
  <2>. QED  BY <2>1, BeginReadOK
<1>3. CASE EndRead
  BY <1>3, Zenon DEF EndRead, ReadOK
<1>. QED  BY <1>1, <1>2, <1>3, GetActiveOK, GetImmutablesOK, GetCacheOK, ScanCacheOK, ScanImmutablesOK,
             ScanActiveOK, Zenon DEF Reader

\* Reads stay sound through every step of the tree.
LEMMA ReadStep ==
  ASSUME Library, LsmInv, ReadOK, [Next]_vars
  PROVE  ReadOK'
<1>1. damaged => damaged'
  BY DamageStays, Zenon
<1>2. CASE UNCHANGED vars
  <2>1. /\ active' = active /\ frozen' = frozen /\ immutables' = immutables /\ cache' = cache
        /\ reader' = reader /\ pc' = pc
    BY <1>2, Zenon DEF vars
  <2>2. CASE pc = "down"
    BY <2>1, <2>2, Zenon DEF ReadOK
  <2>3. CASE pc # "down"
    <3>1. Rest' = Rest
      BY <2>1, Zenon DEF Rest
    <3>2. \A k : Below(k)' = Below(k)
      BY <2>1, <3>1, Zenon DEF Below
    <3>3. \A k : Now(k)' = Now(k)
      BY <2>1, <3>2, Zenon DEF Now
    <3>. QED  BY <1>1, <2>1, <2>3, <3>1, <3>2, <3>3, ReadOverSame, Zenon
  <2>. QED  BY <2>2, <2>3, Zenon
<1>3. CASE Quiet
  <2>1. /\ pc # "down" /\ pc' # "down" /\ pc # "rotated" /\ pc' # "rotated"
        /\ active' = active /\ immutables' = immutables /\ cache' = cache /\ reader' = reader
    BY <1>3, QuietSteps, Zenon
  <2>2. Rest' = Rest /\ \A k : Below(k)' = Below(k) /\ Now(k)' = Now(k)
    BY <2>1, NowFrame, Zenon
  <2>. QED  BY <1>1, <2>1, <2>2, ReadOverSame, Zenon
<1>4. CASE PushImmutable
  <2>1. pc # "down" /\ pc' # "down" /\ active' = active /\ cache' = cache /\ reader' = reader
    BY <1>4 DEF PushImmutable
  <2>2. Rest' = Rest /\ \A k : Below(k)' = Below(k) /\ Now(k)' = Now(k)
    BY <1>4, PushImmutableNow, Zenon
  <2>. QED  BY <1>1, <2>1, <2>2, ReadOverSame, Zenon
<1>5. CASE RebuildCacheFails
  <2>1. pc # "down" /\ pc' # "down" /\ damaged' /\ reader' = reader
    BY <1>5 DEF RebuildCacheFails
  <2>. QED  BY <2>1, ReadOverSame, Zenon
<1>6. CASE WriteMemtable \/ Rotate \/ PushCache \/ DropImmutable \/ RebuildCache
  BY <1>6, ReadOverWrite, ReadOverRotate, ReadOverPushCache, ReadOverDrop, ReadOverRebuild, Zenon
<1>7. CASE Reader
  BY <1>7, ReaderStepOK, Zenon
<1>8. CASE Crash \/ Open
  BY <1>8, Zenon DEF Crash, Open, ReadOK
<1>. QED
  BY <1>2, <1>3, <1>4, <1>5, <1>6, <1>7, <1>8, Zenon DEF Next, Writer, Quiet

-----------------------------------------------------------------------------
(* The theorems.  What they need of numbers is in the library.             *)

\* No file of a level below the first shares a key with another, and the saved manifest
\* lists no broken file, in every state with the invariant.
LEMMA InvManifest == LsmInv => ManifestSound
<1>. SUFFICES ASSUME LsmInv PROVE ManifestSound
  OBVIOUS
<1>1. ManifestOK(manifest, files) /\ ManifestOK(disk_manifest, files)
  BY Zenon DEF LsmInv
<1>2. LevelsDisjoint
  BY <1>1, Zenon DEF ManifestOK, LevelsDisjoint
<1>3. ListedFilesWhole
  BY <1>1, Zenon DEF ManifestOK, ListedFilesWhole
<1>. QED  BY <1>2, <1>3, Zenon DEF ManifestSound

\* A read that has ended returns what it found.
LEMMA ReadResult == ReadOK => ReadsCurrentUnlessRaced
<1>. SUFFICES ASSUME ReadOK, reader.at = "done", ~reader.raced, ~damaged
              PROVE  \A k \in (IF reader.key = 0 THEN Key ELSE {reader.key}) :
                       Visible(Lookup(reader.found, k)) \in reader.seen[k]
  BY Zenon DEF ReadsCurrentUnlessRaced, Result
<1>1. reader # NoReader
  BY IdleIsNoReader
<1>2. FindsSeen(reader)
  BY <1>1, Zenon DEF ReadOK
<1>. QED  BY <1>2, Zenon DEF FindsSeen

\* The counts of needs_compaction begin at zero.
LEMMA NothingCounted == EmptyCounted
<1>. DEFINE Counts(CS) == CS = [T \in SUBSET {} |-> IF T = {} THEN 0 ELSE 1 + CS[T \ {CHOOSE x : x \in T}]]
<1>1. \A T \in SUBSET {} : T = {}
  BY Zenon
<1>2. Counts([T \in SUBSET {} |-> 0])
  BY <1>1, Zenon
<1>3. Counts(CHOOSE CS : Counts(CS))
  BY <1>2, Zenon
<1>4. \A CS : Counts(CS) => CS[{}] = 0
  <2>1. {} \in SUBSET {}
    BY Zenon
  <2>. QED  BY <2>1, Zenon
<1>5. Cardinality({}) = (CHOOSE CS : Counts(CS))[{}]
  BY Zenon DEF Cardinality
<1>. HIDE DEF Counts
<1>. QED  BY <1>3, <1>4, <1>5, Zenon DEF EmptyCounted

LOCAL INSTANCE WellFoundedInduction
LOCAL INSTANCE NaturalsInduction

\* The facts about numbers that the lemmas take as a hypothesis.
LEMMA LibraryHolds == Library
<1>1. ASSUME NEW S \in SUBSET Nat, S # {} PROVE \E x \in S : \A y \in S : x <= y
  <2>1. PICK x \in S : \A y \in S : ~(<<y, x>> \in OpToRel(<, Nat))
    BY <1>1, NatLessThanWellFounded, WFMin, Zenon
  <2>2. \A y \in S : ~(y < x)
    BY <2>1, Zenon DEF OpToRel
  <2>. QED  BY <2>2
<1>. QED  BY <1>1, NothingCounted, Zenon DEF Library, WellOrdered

\* LsmTree with its flushes, compactions, crashes and recoveries: the invariant.
LEMMA Invariance == Spec => [](LsmInv /\ ReadOK)
<1>1. Init => LsmInv /\ ReadOK
  BY InitInv, Zenon DEF Init, ReadOK
<1>2. LsmInv /\ ReadOK /\ [Next]_vars => LsmInv' /\ ReadOK'
  BY LibraryHolds, StepInv, ReadStep, Zenon
<1>. QED  BY <1>1, <1>2, PTL DEF Spec

\* Manifest::add_sstable and remove_sstables, called by flush_memtable and compact in
\* any number and with a crash anywhere: the levels below the first stay disjoint and
\* no listed file is broken or has a number that is given again.
THEOREM ManifestAlwaysSound == Spec => []ManifestSound
  BY Invariance, InvManifest, PTL

\* LsmTree::put, delete, flush_memtable, maybe_compact and open implement a map, with
\* crashes anywhere and failing file operations: each operation takes effect once and
\* nothing else changes what a key holds, up to the first of the losses that the comment
\* of ImplementsMap lists.
THEOREM TreeImplementsMap == Spec => ImplementsMap
<1>1. Init => Map!Init
  BY MapInit, Zenon
<1>2. (LsmInv /\ ReadOK) /\ (LsmInv /\ ReadOK)' /\ [Next]_vars =>
        [Map!Next]_<<[k \in Key |-> Contents(k)], IF pc = "logged" THEN op ELSE NoOp, ~damaged>>
  BY LibraryHolds, MapNext, Zenon
<1>. QED  BY <1>1, <1>2, Invariance, PTL DEF Spec, ImplementsMap, Map!Spec

\* LsmTree::get and scan take one lock after the other: unless the writer moved data past
\* them, they return for each key a value that it held while they ran.
THEOREM TreeReadsAreCurrent == Spec => []ReadsCurrentUnlessRaced
  BY Invariance, ReadResult, PTL
====
