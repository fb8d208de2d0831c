----------------------------- MODULE LsmInvProofs -----------------------------
(***************************************************************************)
(* The inductive invariant of the LSM tree, for all keys, values, levels   *)
(* and limits: where the cells are at every step of a flush, a compaction, *)
(* a crash and a recovery, and what the manifest and the files are then.   *)
(***************************************************************************)
EXTENDS Lsm, TLAPS

-----------------------------------------------------------------------------
(* The inductive invariant.                                                *)

\* SSTableEntry, Manifest, the readers of the cache and WalOp.
Entry == [id : Nat, level : Level, min_key : Key, max_key : Key]
Manifest == [levels : [Level -> SUBSET Entry], next_sst_id : Nat]
SstReader == [id : Nat, level : Level, table : Table]
Operation == [key : Key, cell : Cell]

FilesTyped(fs) == DOMAIN fs \subseteq Nat /\ \A id \in DOMAIN fs : fs[id] \in Table

\* Readers of files with numbers of their own.
GoodCache(c) ==
  /\ c \subseteq SstReader
  /\ \A e, f \in c : e.id = f.id => e = f
  /\ \E b \in Nat : \A e \in c : e.id <= b

LsmTypes ==
  /\ active \in Table /\ frozen \in Table /\ immutables \in Seq(Table)
  /\ manifest \in Manifest /\ disk_manifest \in Manifest
  /\ FilesTyped(files)
  /\ GoodCache(cache)
  /\ wal \in Seq(Operation) /\ readable \in Seq(Operation)
  /\ op \in Operation \cup {NoOp}
  /\ damaged \in BOOLEAN

\* Where the writer is between the rotation of the memtable and its removal, between its
\* removal and the end of a compaction, and where the manifest in memory is the one on
\* disk although earlier flushes may have failed.
Flushing == {"rotated", "pushed", "written", "saved", "cached"}
Flushed == {"dropped", "flushed", "merged", "deleted", "compacted"}
InStep == {"saved", "cached", "dropped", "flushed", "compacted"}

\* What lies between the active memtable and the files, and what the tree holds for a
\* key below the active memtable and in all.
Rest == Over(IF pc = "rotated" THEN frozen ELSE Empty, Newest(immutables))
Below(k) == Visible(IF k \in DOMAIN Rest THEN Rest[k] ELSE Lookup(CacheTable(cache), k))
Now(k) == IF k \in DOMAIN active THEN Visible(active[k]) ELSE Below(k)

\* One writer: a flush begins with a memtable that is not empty, and nothing is written
\* to the next one before it ends.  The memtable it writes is the last of the immutable
\* ones, of which a flush that succeeds leaves none unless an earlier one has failed.
OneFlush ==
  /\ pc \in Flushing \cup Flushed \cup {"idle", "logged", "full", "down"}
  /\ pc = "logged" => op \in Operation
  /\ pc = "full" => active # Empty
  /\ pc \notin {"idle", "logged", "full"} => active = Empty
  /\ IF pc \in Flushing THEN frozen # Empty ELSE frozen = Empty
  /\ pc \in Flushing \ {"rotated"} =>
       immutables # <<>> /\ immutables[Len(immutables)] = frozen
  /\ pc = "down" \/ (pc \in Flushed /\ ~damaged) => immutables = <<>>

\* The log has what is in memory and not in a file, and for each of its keys what the
\* tree holds, or will hold when the operation at hand is done.
WalCovers ==
  ~damaged /\ pc # "down" =>
    /\ DOMAIN active \subseteq DOMAIN Replay(wal) /\ DOMAIN Rest \subseteq DOMAIN Replay(wal)
    /\ pc = "logged" => op.key \in DOMAIN Replay(wal)
    /\ \A k \in DOMAIN Replay(wal) :
         Visible(Replay(wal)[k]) = IF pc = "logged" /\ k = op.key THEN Visible(op.cell) ELSE Now(k)

\* The files of a manifest have numbers below its counter, each its own, and their keys
\* are within the bounds it records; those of a level below the first are disjoint.
ManifestOK(m, fs) ==
  /\ \A l \in Level : \A e \in m.levels[l] : e.level = l
  /\ \A e \in Listed(m) : e.id < m.next_sst_id /\ e.min_key <= e.max_key
  /\ \A e, f \in Listed(m) : e.id = f.id => e = f
  /\ \A e \in Listed(m) : e.id \in DOMAIN fs =>
       fs[e.id] # Empty /\ \A k \in DOMAIN fs[e.id] : e.min_key <= k /\ k <= e.max_key
  /\ \A l \in Level \ {0} : \A a, b \in m.levels[l] :
       a # b => a.max_key < b.min_key \/ b.max_key < a.min_key

NewReader == [id |-> manifest.next_sst_id - 1, level |-> 0, table |-> frozen]

\* The counter of the manifest on disk is not ahead of the one in memory, whose last
\* number is that of the file being flushed.
Saved ==
  /\ pc \in InStep => manifest = disk_manifest
  /\ pc # "down" => disk_manifest.next_sst_id <= manifest.next_sst_id
  /\ pc = "written" => /\ manifest.next_sst_id - 1 \in DOMAIN files
                       /\ files[manifest.next_sst_id - 1] = frozen
                       /\ \A e \in Listed(manifest) : e.id < manifest.next_sst_id - 1
  /\ pc \in {"saved", "cached"} => NewReader \in Opened(manifest, files)
  /\ pc = "merged" => \A e \in Listed(manifest) : e.id \notin obsolete

Same(c, d) ==
  \A k \in Key : Visible(Lookup(CacheTable(c), k)) = Visible(Lookup(CacheTable(d), k))

SameOn(K, c, d) ==
  \A k \in K : Visible(Lookup(CacheTable(c), k)) = Visible(Lookup(CacheTable(d), k))

\* The cache has numbers that were given out, the last of them when the flush is through
\* with its file.
CacheIds ==
  /\ pc # "down" => \A e \in cache : e.id < manifest.next_sst_id
  /\ pc \in {"written", "saved"} => \A e \in cache : e.id < manifest.next_sst_id - 1
  /\ pc = "cached" => NewReader \in cache

\* The cache holds what the files listed in memory hold, but for keys of the immutable
\* memtables, and what the files listed on disk hold, but for keys of the log.
CacheOK ==
  ~damaged /\ pc # "down" =>
    /\ SameOn(Key \ DOMAIN Newest(immutables), cache, Opened(manifest, files))
    /\ pc # "deleted" =>
         SameOn(Key \ DOMAIN Replay(wal), cache, Opened(disk_manifest, files))

LsmInv ==
  /\ LsmTypes /\ OneFlush /\ ManifestOK(manifest, files) /\ ManifestOK(disk_manifest, files)
  /\ Saved /\ CacheIds /\ WalCovers /\ CacheOK

-----------------------------------------------------------------------------
(* Numbers.  LsmProofs proves the two facts, the first from the library.   *)

WellOrdered == \A S \in SUBSET Nat : S # {} => \E x \in S : \A y \in S : x <= y

EmptyCounted == Cardinality({}) = 0

Library == WellOrdered /\ EmptyCounted

\* The constants.
LEMMA Bounds ==
  /\ MaxKey \in Nat /\ NumLevels \in Nat /\ Trigger \in Nat
  /\ NumLevels >= 2 /\ Trigger >= 1
  /\ \A l \in 1..NumLevels : Ratio^l \in Nat
  /\ Tombstone \notin Value /\ Absent \notin Cell
  BY LsmBounds DEF Cell

\* Max of keys and of positions in the log.
LEMMA GreatestOf ==
  ASSUME Library, NEW n \in Nat, NEW S \in SUBSET (1..n), S # {}
  PROVE  Max(S) \in S /\ \A y \in S : Max(S) >= y
<1>1. \A y \in S : n - y \in Nat /\ y \in Nat
  OBVIOUS
<1>2. \E x \in S : \A y \in S : x >= y
  <2>. DEFINE T == {n - y : y \in S}
  <2>1. T \in SUBSET Nat /\ T # {}
    BY <1>1, Zenon
  <2>2. PICK m \in T : \A k \in T : m <= k
    BY <2>1, Zenon DEF Library, WellOrdered
  <2>3. PICK x \in S : m = n - x
    BY <2>2, Zenon
  <2>4. \A y \in S : n - x <= n - y
    BY <2>2, <2>3, Zenon
  <2>. HIDE DEF T
  <2>. QED  BY <1>1, <2>4
<1>. QED  BY <1>2, Zenon DEF Max

\* The greatest element of a set is its Max.
LEMMA MaxIs ==
  ASSUME NEW S \in SUBSET Nat, NEW m \in S, \A y \in S : m >= y
  PROVE  Max(S) = m
<1>1. \A x \in S : (\A y \in S : x >= y) => x = m
  OBVIOUS
<1>. QED  BY <1>1, Zenon DEF Max

\* Min of a non-empty set of levels or positions.
LEMMA LeastOf ==
  ASSUME Library, NEW S \in SUBSET Nat, S # {}
  PROVE  Min(S) \in S /\ \A y \in S : Min(S) <= y
<1>1. \E x \in S : \A y \in S : x <= y
  BY Zenon DEF Library, WellOrdered
<1>. QED  BY <1>1, Zenon DEF Min

\* Min and Max of keys, for the bounds of a file and of a level.
LEMMA KeyBounds ==
  ASSUME Library, NEW S \in SUBSET Key, S # {}
  PROVE  /\ Min(S) \in S /\ \A y \in S : Min(S) <= y
         /\ Max(S) \in S /\ \A y \in S : Max(S) >= y
<1>1. S \in SUBSET Nat /\ S \in SUBSET (1..MaxKey)
  BY Bounds DEF Key
<1>. QED  BY <1>1, Bounds, LeastOf, GreatestOf, Zenon

-----------------------------------------------------------------------------
(* Tables.                                                                 *)

\* A table is a function from keys to cells.
LEMMA TableFacts ==
  ASSUME NEW t \in Table
  PROVE  /\ DOMAIN t \subseteq Key /\ t = [k \in DOMAIN t |-> t[k]]
         /\ \A k \in DOMAIN t : t[k] \in Cell /\ t[k] # Absent
<1>1. PICK K \in SUBSET Key : t \in [K -> Cell]
  BY Zenon DEF Table
<1>. QED  BY <1>1, Bounds, Zenon

\* A function from some of the keys to cells is a memtable's or a file's table.
LEMMA TableIs ==
  ASSUME NEW t, NEW K \in SUBSET Key, t \in [K -> Cell]
  PROVE  t \in Table
  BY Zenon DEF Table

\* The memtable that MemTable::new makes has no keys, and is the only one without.
LEMMA EmptyTable ==
  /\ Empty \in Table /\ DOMAIN Empty = {}
  /\ \A t \in Table : DOMAIN t = {} => t = Empty
<1>1. DOMAIN Empty = {}
  BY Zenon DEF Empty
<1>2. Empty \in [{} -> Cell]
  BY Zenon DEF Empty
<1>3. Empty \in Table
  BY <1>2, TableIs, Zenon
<1>4. ASSUME NEW t \in Table, DOMAIN t = {} PROVE t = Empty
  <2>1. t = [k \in DOMAIN t |-> t[k]]
    BY TableFacts, Zenon
  <2>. QED  BY <2>1, <1>4, Zenon DEF Empty
<1>. QED  BY <1>1, <1>3, <1>4, Zenon

\* MemTable::put and delete.
LEMMA WithTable ==
  ASSUME NEW t \in Table, NEW k \in Key, NEW c \in Cell
  PROVE  /\ With(t, k, c) \in Table /\ With(t, k, c) # Empty
         /\ DOMAIN With(t, k, c) = DOMAIN t \cup {k}
         /\ \A x \in DOMAIN t \cup {k} : With(t, k, c)[x] = IF x = k THEN c ELSE t[x]
<1>1. /\ DOMAIN With(t, k, c) = DOMAIN t \cup {k}
      /\ \A x \in DOMAIN t \cup {k} : With(t, k, c)[x] = IF x = k THEN c ELSE t[x]
  BY Zenon DEF With
<1>2. DOMAIN t \cup {k} \in SUBSET Key
  BY TableFacts, Zenon
<1>3. With(t, k, c) \in [DOMAIN t \cup {k} -> Cell]
  BY TableFacts, Zenon DEF With
<1>4. With(t, k, c) \in Table
  BY <1>2, <1>3, TableIs, Zenon
<1>. QED  BY <1>1, <1>4, EmptyTable, Zenon


\* A table over another, and what is visible in it.
LEMMA OverTable ==
  ASSUME NEW t \in Table, NEW u \in Table
  PROVE  Over(t, u) \in Table
<1>1. DOMAIN t \cup DOMAIN u \in SUBSET Key
  BY TableFacts, Zenon
<1>2. Over(t, u) \in [DOMAIN t \cup DOMAIN u -> Cell]
  BY TableFacts, Zenon DEF Over
<1>. QED  BY <1>1, <1>2, TableIs, Zenon

\* get goes to the lower table for the keys that the upper one does not have.
LEMMA LookupOver ==
  ASSUME NEW t, NEW u, NEW k
  PROVE  /\ k \in DOMAIN Over(t, u) <=> k \in DOMAIN t \/ k \in DOMAIN u
         /\ Lookup(Over(t, u), k) = IF k \in DOMAIN t THEN t[k] ELSE Lookup(u, k)
  BY Zenon DEF Over, Lookup

\* get goes through four sources: the first that has the key gives its cell.
LEMMA LookupTree ==
  ASSUME NEW a, NEW b, NEW c, NEW d, NEW k
  PROVE  Lookup(Over(a, Over(b, Over(c, d))), k) =
           IF k \in DOMAIN a THEN a[k] ELSE IF k \in DOMAIN b THEN b[k]
           ELSE IF k \in DOMAIN c THEN c[k] ELSE Lookup(d, k)
<1>. DEFINE y == Over(c, d)
            x == Over(b, y)
<1>1. Lookup(y, k) = IF k \in DOMAIN c THEN c[k] ELSE Lookup(d, k)
  BY LookupOver, Zenon
<1>. HIDE DEF y
<1>2. Lookup(x, k) = IF k \in DOMAIN b THEN b[k] ELSE Lookup(y, k)
  BY LookupOver, Zenon
<1>. HIDE DEF x
<1>3. Lookup(Over(a, x), k) = IF k \in DOMAIN a THEN a[k] ELSE Lookup(x, k)
  BY LookupOver, Zenon
<1>. QED  BY <1>1, <1>2, <1>3, Zenon DEF x, y

\* Without immutable memtables, get and scan find nothing there.
LEMMA NewestOfNone == Newest(<<>>) = Empty
<1>. DEFINE n == Newest(<<>>)
<1>1. DOMAIN n = {}
  BY DEF Newest
<1>2. n = [k \in DOMAIN n |-> n[k]]
  BY Zenon DEF Newest
<1>. HIDE DEF n
<1>3. n = [k \in {} |-> Absent]
  BY <1>1, <1>2, Zenon
<1>. QED  BY <1>3, Zenon DEF n, Empty

\* The immutable memtables together: which keys, a function, and for a key of the last
\* one the cell that it has there.
LEMMA NewestFacts ==
  ASSUME NEW s \in Seq(Table)
  PROVE  /\ \A k : k \in DOMAIN Newest(s) <=> \E i \in DOMAIN s : k \in DOMAIN s[i]
         /\ Newest(s) = [k \in DOMAIN Newest(s) |-> Newest(s)[k]]
         /\ s # <<>> => \A k \in DOMAIN s[Len(s)] :
              k \in DOMAIN Newest(s) /\ Newest(s)[k] = s[Len(s)][k]
<1>1. \A k : k \in DOMAIN Newest(s) <=> \E i \in DOMAIN s : k \in DOMAIN s[i]
  BY Zenon DEF Newest
<1>2. Newest(s) = [k \in DOMAIN Newest(s) |-> Newest(s)[k]]
  BY Zenon DEF Newest
<1>3. ASSUME s # <<>>, NEW k \in DOMAIN s[Len(s)]
      PROVE  k \in DOMAIN Newest(s) /\ Newest(s)[k] = s[Len(s)][k]
  <2>. DEFINE S == {i \in DOMAIN s : k \in DOMAIN s[i]}
  <2>1. Len(s) \in DOMAIN s /\ DOMAIN s = 1..Len(s) /\ Len(s) \in Nat
    BY <1>3
  <2>2. S \in SUBSET Nat /\ Len(s) \in S /\ \A y \in S : Len(s) >= y
    BY <1>3, <2>1
  <2>3. Max(S) = Len(s)
    BY <2>2, MaxIs, Zenon
  <2>4. k \in DOMAIN Newest(s)
    BY <1>1, <1>3, <2>1, Zenon
  <2>5. Newest(s)[k] = s[Max(S)][k]
    BY <2>4, Zenon DEF Newest
  <2>. QED  BY <2>3, <2>4, <2>5, Zenon
<1>. QED  BY <1>1, <1>2, <1>3, Zenon

\* They are a table.
LEMMA NewestTable ==
  ASSUME Library, NEW s \in Seq(Table)
  PROVE  Newest(s) \in Table
<1>1. Len(s) \in Nat /\ DOMAIN s = 1..Len(s) /\ \A i \in DOMAIN s : s[i] \in Table
  OBVIOUS
<1>2. \A i \in DOMAIN s : \A k \in DOMAIN s[i] : k \in Key /\ s[i][k] \in Cell
  BY <1>1, TableFacts, Zenon
<1>3. ASSUME NEW k \in DOMAIN Newest(s) PROVE k \in Key /\ Newest(s)[k] \in Cell
  <2>. DEFINE S == {i \in DOMAIN s : k \in DOMAIN s[i]}
  <2>1. S \in SUBSET (1..Len(s)) /\ S # {}
    BY <1>1, <1>3, NewestFacts, Zenon
  <2>2. Max(S) \in S
    BY <1>1, <2>1, GreatestOf, Zenon
  <2>3. Newest(s)[k] = s[Max(S)][k]
    BY <1>3, Zenon DEF Newest
  <2>4. Max(S) \in DOMAIN s /\ k \in DOMAIN s[Max(S)]
    BY <2>2, Zenon
  <2>. QED  BY <1>2, <2>3, <2>4, Zenon
<1>4. DOMAIN Newest(s) \in SUBSET Key
  BY <1>3, Zenon
<1>5. Newest(s) \in [DOMAIN Newest(s) -> Cell]
  BY <1>3, NewestFacts, Zenon
<1>. QED  BY <1>4, <1>5, TableIs, Zenon

\* immutables.push: the memtable comes before the ones that are there.
LEMMA NewestAppend ==
  ASSUME Library, NEW s \in Seq(Table), NEW t \in Table
  PROVE  Newest(Append(s, t)) = Over(t, Newest(s))
<1>. DEFINE u == Append(s, t)
            n == Len(s)
<1>1. /\ u \in Seq(Table) /\ n \in Nat /\ DOMAIN s = 1..n /\ DOMAIN u = 1..(n + 1)
      /\ Len(u) = n + 1 /\ u[n + 1] = t /\ u # <<>>
      /\ \A i \in 1..n : u[i] = s[i]
  OBVIOUS
<1>2. DOMAIN u = DOMAIN s \cup {n + 1} /\ n + 1 \notin DOMAIN s
  BY <1>1
<1>. HIDE DEF u, n
<1>3. \A k : k \in DOMAIN Newest(u) <=> k \in DOMAIN t \/ k \in DOMAIN Newest(s)
  <2>1. \A i \in DOMAIN s : u[i] = s[i]
    BY <1>1, Zenon
  <2>2. \A k : k \in DOMAIN Newest(u) <=> \E i \in DOMAIN u : k \in DOMAIN u[i]
    BY <1>1, NewestFacts, Zenon
  <2>3. \A k : k \in DOMAIN Newest(s) <=> \E i \in DOMAIN s : k \in DOMAIN s[i]
    BY NewestFacts
  <2>4. \A k : (\E i \in DOMAIN u : k \in DOMAIN u[i]) <=>
               k \in DOMAIN u[n + 1] \/ \E i \in DOMAIN s : k \in DOMAIN u[i]
    BY <1>2, Zenon
  <2>. QED  BY <1>1, <2>1, <2>2, <2>3, <2>4, Zenon
<1>4. \A k \in DOMAIN t : Newest(u)[k] = t[k]
  <2>1. \A k \in DOMAIN u[Len(u)] : Newest(u)[k] = u[Len(u)][k]
    BY <1>1, NewestFacts
  <2>. QED  BY <1>1, <2>1, Zenon
<1>5. ASSUME NEW k \in DOMAIN Newest(s), k \notin DOMAIN t PROVE Newest(u)[k] = Newest(s)[k]
  <2>. DEFINE S == {i \in DOMAIN s : k \in DOMAIN s[i]}
              U == {i \in DOMAIN u : k \in DOMAIN u[i]}
  <2>1. \A i \in DOMAIN s : u[i] = s[i]
    BY <1>1, Zenon
  <2>2. \A i : i \in U <=> i \in S
    BY <1>1, <1>2, <1>5, <2>1, Zenon
  <2>3. U = S
    BY <2>2, Zenon
  <2>4. k \in DOMAIN Newest(u) /\ Newest(u)[k] = u[Max(U)][k]
    BY <1>3, <1>5, Zenon DEF Newest
  <2>5. Newest(s)[k] = s[Max(S)][k]
    BY <1>5, Zenon DEF Newest
  <2>6. S \in SUBSET (1..n) /\ S # {}
    BY <1>1, <1>5, NewestFacts, Zenon
  <2>7. Max(S) \in S
    BY <1>1, <2>6, GreatestOf, Zenon
  <2>. QED  BY <2>1, <2>3, <2>4, <2>5, <2>7, Zenon
<1>. DEFINE v == Newest(u)
            w == Over(t, Newest(s))
<1>6. v = [k \in DOMAIN v |-> v[k]]
  BY <1>1, NewestFacts, Zenon
<1>7. /\ w = [k \in DOMAIN w |-> w[k]]
      /\ \A k : k \in DOMAIN w <=> k \in DOMAIN t \/ k \in DOMAIN Newest(s)
      /\ \A k \in DOMAIN w : w[k] = IF k \in DOMAIN t THEN t[k] ELSE Newest(s)[k]
  BY Zenon DEF Over
<1>8. DOMAIN v = DOMAIN w /\ \A k \in DOMAIN v : v[k] = w[k]
  BY <1>3, <1>4, <1>5, <1>7, Zenon
<1>. HIDE DEF v, w
<1>9. v = w
  BY <1>6, <1>7, <1>8, Zenon
<1>. QED  BY <1>9, Zenon DEF u, v, w

\* With one immutable memtable, get and scan find what it holds.
LEMMA NewestOfOne ==
  ASSUME Library, NEW t \in Table
  PROVE  DOMAIN Newest(<<t>>) = DOMAIN t /\ \A k \in DOMAIN t : Newest(<<t>>)[k] = t[k]
<1>1. <<>> \in Seq(Table) /\ <<t>> = Append(<<>>, t)
  OBVIOUS
<1>2. Newest(<<t>>) = Over(t, Empty)
  BY <1>1, NewestAppend, NewestOfNone, Zenon
<1>. QED  BY <1>2, EmptyTable, Zenon DEF Over

\* What is between the active memtable and the files.
LEMMA RestIs ==
  /\ \A k : k \in DOMAIN Rest <=> \/ pc = "rotated" /\ k \in DOMAIN frozen
                                  \/ k \in DOMAIN Newest(immutables)
  /\ \A k \in DOMAIN Rest : Rest[k] = IF pc = "rotated" /\ k \in DOMAIN frozen THEN frozen[k]
                                      ELSE Newest(immutables)[k]
<1>1. CASE pc = "rotated"
  BY <1>1, Zenon DEF Rest, Over
<1>2. CASE pc # "rotated"
  BY <1>2, EmptyTable, Zenon DEF Rest, Over
<1>. QED  BY <1>1, <1>2, Zenon

\* What the tree holds for a key, in memory and on disk.
LEMMA ContentsAre ==
  ASSUME NEW k
  PROVE  /\ pc = "down" => Contents(k) =
              Visible(IF k \in DOMAIN Replay(wal) THEN Replay(wal)[k]
                      ELSE Lookup(CacheTable(Opened(disk_manifest, files)), k))
         /\ pc # "down" => Contents(k) = Now(k)
<1>1. CASE pc = "down"
  BY <1>1, LookupOver, Zenon DEF Contents, Held
<1>2. CASE pc # "down"
  <2>1. PICK x : x = IF pc = "rotated" THEN frozen ELSE Empty
    BY Zenon
  <2>2. PICK y : y = Newest(immutables)
    BY Zenon
  <2>3. Contents(k) = Visible(Lookup(Over(active, Over(x, Over(y, CacheTable(cache)))), k))
    BY <1>2, <2>1, <2>2, Zenon DEF Contents, Held
  <2>4. Lookup(Over(active, Over(x, Over(y, CacheTable(cache)))), k) =
          IF k \in DOMAIN active THEN active[k] ELSE IF k \in DOMAIN x THEN x[k]
          ELSE IF k \in DOMAIN y THEN y[k] ELSE Lookup(CacheTable(cache), k)
    BY LookupTree
  <2>5. Rest = Over(x, y)
    BY <2>1, <2>2, Zenon DEF Rest
  <2>6. /\ k \in DOMAIN Rest <=> k \in DOMAIN x \/ k \in DOMAIN y
        /\ k \in DOMAIN Rest => Rest[k] = IF k \in DOMAIN x THEN x[k] ELSE y[k]
    BY <2>5, Zenon DEF Over
  <2>. QED  BY <1>2, <2>3, <2>4, <2>6, Zenon DEF Now, Below
<1>. QED  BY <1>1, <1>2, Zenon

\* The WAL: reading it back gives the memtable that its operations were written to.
LEMMA ReplayTable ==
  ASSUME Library, NEW w \in Seq(Operation)
  PROVE  Replay(w) \in Table
<1>1. Len(w) \in Nat /\ DOMAIN w = 1..Len(w) /\ \A i \in DOMAIN w : w[i] \in Operation
  OBVIOUS
<1>2. \A i \in DOMAIN w : w[i].key \in Key /\ w[i].cell \in Cell
  BY <1>1, Zenon DEF Operation
<1>. DEFINE K == {w[i].key : i \in DOMAIN w}
            At(k) == {i \in DOMAIN w : w[i].key = k}
<1>3. ASSUME NEW k \in K PROVE Max(At(k)) \in DOMAIN w
  <2>1. At(k) \in SUBSET (1..Len(w)) /\ At(k) # {}
    BY <1>1, <1>3, Zenon
  <2>2. Max(At(k)) \in At(k)
    BY <1>1, <2>1, GreatestOf, Zenon
  <2>. QED  BY <2>2, Zenon
<1>4. K \in SUBSET Key
  BY <1>2, Zenon
<1>5. Replay(w) = [k \in K |-> w[Max(At(k))].cell]
  BY Zenon DEF Replay
<1>. HIDE DEF K, At
<1>6. Replay(w) \in [K -> Cell]
  BY <1>2, <1>3, <1>5, Zenon
<1>. QED  BY <1>4, <1>6, TableIs, Zenon

\* LsmTree::open with an empty log begins with an empty memtable.
LEMMA ReplayNothing == Replay(<<>>) = Empty
<1>1. DOMAIN <<>> = {}
  OBVIOUS
<1>2. {(<<>>[i]).key : i \in DOMAIN <<>>} = {}
  BY <1>1, Zenon
<1>. QED  BY <1>2, Zenon DEF Replay, Empty

\* One more record in the log does to its replay what put and delete do to the memtable.
LEMMA ReplayAppend ==
  ASSUME Library, NEW w \in Seq(Operation), NEW o \in Operation
  PROVE  Replay(Append(w, o)) = With(Replay(w), o.key, o.cell)
<1>. DEFINE W == Append(w, o)
            n == Len(w)
            Old(k) == {i \in DOMAIN w : w[i].key = k}
            New(k) == {i \in DOMAIN W : W[i].key = k}
<1>1. /\ n \in Nat /\ DOMAIN w = 1..n /\ DOMAIN W = 1..(n + 1)
      /\ W[n + 1] = o /\ \A i \in 1..n : W[i] = w[i]
  OBVIOUS
<1>. HIDE DEF W, n
<1>2. n + 1 \in DOMAIN W /\ \A i \in DOMAIN W : i = n + 1 \/ i \in DOMAIN w
  BY <1>1
<1>3. \A i \in DOMAIN w : i \in DOMAIN W /\ W[i] = w[i]
  BY <1>1
<1>4. {W[i].key : i \in DOMAIN W} = {w[i].key : i \in DOMAIN w} \cup {o.key}
  BY <1>1, <1>2, <1>3, Zenon
<1>5. W[Max(New(o.key))].cell = o.cell
  <2>1. New(o.key) \in SUBSET Nat /\ n + 1 \in New(o.key)
    BY <1>1, <1>2
  <2>2. \A y \in New(o.key) : n + 1 >= y
    BY <1>1
  <2>3. Max(New(o.key)) = n + 1
    BY <2>1, <2>2, MaxIs, Zenon
  <2>. QED  BY <1>1, <2>3, Zenon
<1>6. ASSUME NEW k \in {w[i].key : i \in DOMAIN w}, k # o.key
      PROVE  W[Max(New(k))].cell = w[Max(Old(k))].cell
  <2>1. New(k) = Old(k)
    BY <1>1, <1>2, <1>3, <1>6, Zenon
  <2>2. Old(k) \in SUBSET (1..n) /\ Old(k) # {}
    BY <1>1, <1>6, Zenon
  <2>3. Max(Old(k)) \in Old(k)
    BY <1>1, <2>2, GreatestOf, Zenon
  <2>. QED  BY <1>3, <2>1, <2>3, Zenon
<1>7. Replay(w) = [k \in {w[i].key : i \in DOMAIN w} |-> w[Max(Old(k))].cell]
  BY Zenon DEF Replay
<1>8. Replay(W) = [k \in {W[i].key : i \in DOMAIN W} |-> W[Max(New(k))].cell]
  BY Zenon DEF Replay
<1>. DEFINE D == {w[i].key : i \in DOMAIN w} \cup {o.key}
<1>9. ASSUME NEW k \in D
      PROVE  W[Max(New(k))].cell = IF k = o.key THEN o.cell ELSE Replay(w)[k]
  BY <1>5, <1>6, <1>7, <1>9, Zenon
<1>10. With(Replay(w), o.key, o.cell) =
         [k \in D |-> IF k = o.key THEN o.cell ELSE Replay(w)[k]]
  BY <1>7, Zenon DEF With
<1>11. Replay(W) = [k \in D |-> W[Max(New(k))].cell]
  BY <1>4, <1>8, Zenon
<1>. HIDE DEF D, New
<1>12. Replay(W) = With(Replay(w), o.key, o.cell)
  BY <1>9, <1>10, <1>11, Zenon
<1>. QED  BY <1>12, Zenon DEF W

-----------------------------------------------------------------------------
(* The cache.                                                              *)

\* The file in which get finds a key.
FirstIn(c, k, e) ==
  /\ e \in c /\ k \in DOMAIN e.table
  /\ \A f \in c : k \in DOMAIN f.table => Before(e, f)

\* The fields of an open file.
LEMMA ReaderFacts ==
  ASSUME NEW e \in SstReader
  PROVE  /\ e.id \in Nat /\ e.level \in Nat /\ e.level \in Level /\ e.table \in Table
         /\ e = [id |-> e.id, level |-> e.level, table |-> e.table]
<1>1. Level \subseteq Nat
  BY Bounds DEF Level
<1>. QED  BY <1>1, Zenon DEF SstReader

\* The files of the highest level that know a key.
LEMMA HighestLevel ==
  ASSUME Library, NEW c \in SUBSET SstReader, NEW k, NEW e0 \in c, k \in DOMAIN e0.table
  PROVE  \E l \in Nat : /\ \E e \in c : k \in DOMAIN e.table /\ e.level = l
                        /\ \A f \in c : k \in DOMAIN f.table => l <= f.level
<1>. DEFINE known == {e \in c : k \in DOMAIN e.table}
            S == {e.level : e \in known}
<1>1. S \in SUBSET Nat /\ S # {}
  BY ReaderFacts, Zenon
<1>2. PICK l \in S : \A y \in S : l <= y
  BY <1>1, Zenon DEF Library, WellOrdered
<1>. QED  BY <1>1, <1>2, Zenon

\* If some file has the key, get finds one before all others.
LEMMA HasFirst ==
  ASSUME Library, NEW c, GoodCache(c), NEW k, NEW e0 \in c, k \in DOMAIN e0.table
  PROVE  \E e : FirstIn(c, k, e)
<1>1. c \in SUBSET SstReader /\ \A e \in c : e.id \in Nat /\ e.level \in Nat
  BY ReaderFacts, Zenon DEF GoodCache
<1>2. PICK l \in Nat : /\ \E e \in c : k \in DOMAIN e.table /\ e.level = l
                       /\ \A f \in c : k \in DOMAIN f.table => l <= f.level
  BY <1>1, HighestLevel, Zenon
<1>3. PICK b \in Nat : \A e \in c : e.id <= b
  BY Zenon DEF GoodCache
<1>. DEFINE top == {e \in c : k \in DOMAIN e.table /\ e.level = l}
            S == {b - e.id : e \in top}
<1>4. \A e \in top : e.id \in Nat /\ b - e.id \in Nat
  BY <1>1, <1>3
<1>5. S \in SUBSET Nat /\ S # {}
  BY <1>2, <1>4, Zenon
<1>6. PICK m \in S : \A y \in S : m <= y
  BY <1>5, Zenon DEF Library, WellOrdered
<1>7. PICK e \in top : m = b - e.id
  BY <1>6, Zenon
<1>8. \A f \in top : b - e.id <= b - f.id
  BY <1>6, <1>7, Zenon
<1>9. ASSUME NEW f \in c, k \in DOMAIN f.table PROVE Before(e, f)
  <2>1. CASE f.level = l
    <3>1. b - e.id <= b - f.id /\ e.id \in Nat /\ f.id \in Nat /\ e.level = l
      BY <1>4, <1>7, <1>8, <1>9, <2>1, Zenon
    <3>. QED  BY <3>1, <2>1 DEF Before
  <2>2. CASE f.level # l
    <3>1. l <= f.level /\ f.level \in Nat /\ e.level = l
      BY <1>1, <1>2, <1>7, <1>9, Zenon
    <3>. QED  BY <3>1, <2>2 DEF Before
  <2>. QED  BY <2>1, <2>2, Zenon
<1>10. FirstIn(c, k, e)
  BY <1>7, <1>9, Zenon DEF FirstIn
<1>. QED  BY <1>10, Zenon

\* Files have numbers of their own, so get has one file to stop at.
LEMMA FirstUnique ==
  ASSUME NEW c, GoodCache(c), NEW k, NEW e, NEW f, FirstIn(c, k, e), FirstIn(c, k, f)
  PROVE  e = f
<1>1. e \in c /\ f \in c /\ Before(e, f) /\ Before(f, e)
  BY Zenon DEF FirstIn
<1>2. e.id \in Nat /\ f.id \in Nat /\ e.level \in Nat /\ f.level \in Nat
  BY <1>1, ReaderFacts, Zenon DEF GoodCache
<1>3. e.id = f.id
  BY <1>1, <1>2 DEF Before
<1>. QED  BY <1>1, <1>3, Zenon DEF GoodCache

\* A key has the cell of the first file that knows it, or none.
LEMMA CacheHit ==
  ASSUME NEW c, GoodCache(c), NEW k, NEW e, FirstIn(c, k, e)
  PROVE  k \in DOMAIN CacheTable(c) /\ Lookup(CacheTable(c), k) = e.table[k]
<1>. DEFINE known == {x \in c : k \in DOMAIN x.table}
<1>1. \A x : (x \in known /\ \A f \in known : Before(x, f)) <=> FirstIn(c, k, x)
  BY Zenon DEF FirstIn
<1>2. (CHOOSE x \in known : \A f \in known : Before(x, f)) = e
  BY <1>1, FirstUnique, Zenon
<1>3. k \in UNION {DOMAIN x.table : x \in c}
  BY Zenon DEF FirstIn
<1>. QED  BY <1>2, <1>3, Zenon DEF CacheTable, Lookup

\* get finds nothing for a key that no file has.
LEMMA CacheMiss ==
  ASSUME NEW c, NEW k, \A e \in c : k \notin DOMAIN e.table
  PROVE  k \notin DOMAIN CacheTable(c) /\ Lookup(CacheTable(c), k) = Absent
<1>1. k \notin DOMAIN CacheTable(c)
  BY Zenon DEF CacheTable
<1>. QED  BY <1>1, Zenon DEF Lookup

\* What the files hold together is a table.
LEMMA CacheIsTable ==
  ASSUME Library, NEW c, GoodCache(c)
  PROVE  CacheTable(c) \in Table
<1>. DEFINE K == UNION {DOMAIN e.table : e \in c}
<1>1. K \in SUBSET Key
  BY ReaderFacts, TableFacts, Zenon DEF GoodCache
<1>2. DOMAIN CacheTable(c) = K
  BY Zenon DEF CacheTable
<1>3. ASSUME NEW k \in K PROVE CacheTable(c)[k] \in Cell
  <2>1. PICK e : FirstIn(c, k, e)
    BY <1>3, HasFirst, Zenon
  <2>2. CacheTable(c)[k] = e.table[k]
    BY <2>1, CacheHit, Zenon DEF Lookup
  <2>3. e \in SstReader /\ k \in DOMAIN e.table
    BY <2>1, Zenon DEF FirstIn, GoodCache
  <2>. QED  BY <2>2, <2>3, ReaderFacts, TableFacts, Zenon
<1>. DEFINE Cells(k) == LET known == {e \in c : k \in DOMAIN e.table} IN
                        (CHOOSE e \in known : \A f \in known : Before(e, f)).table[k]
<1>4. CacheTable(c) = [k \in K |-> Cells(k)]
  BY Zenon DEF CacheTable
<1>. HIDE DEF K, Cells
<1>5. CacheTable(c) \in [K -> Cell]
  BY <1>3, <1>4, Zenon
<1>. QED  BY <1>1, <1>5, TableIs, Zenon

\* What compact merges: the cells of its inputs.
LEMMA MergedTable ==
  ASSUME Library, NEW c \in SUBSET SstReader
  PROVE  /\ Merged(c) \in Table
         /\ DOMAIN Merged(c) = UNION {DOMAIN e.table : e \in c}
<1>. DEFINE K == UNION {DOMAIN e.table : e \in c}
            Cells(k) == LET known == {e \in c : k \in DOMAIN e.table} IN
                        (CHOOSE e \in known : \A f \in known : ReadBefore(e, f)).table[k]
<1>1. K \in SUBSET Key
  BY ReaderFacts, TableFacts, Zenon
<1>2. Merged(c) = [k \in K |-> Cells(k)]
  BY Zenon DEF Merged
<1>3. ASSUME NEW k \in K PROVE Cells(k) \in Cell
  <2>. DEFINE known == {e \in c : k \in DOMAIN e.table}
  <2>1. \A e \in c : e.id \in Nat /\ e.level \in Nat
    BY ReaderFacts, Zenon
  <2>2. PICK l \in Nat : /\ \E e \in c : k \in DOMAIN e.table /\ e.level = l
                         /\ \A f \in c : k \in DOMAIN f.table => l <= f.level
    BY <1>3, HighestLevel, Zenon
  <2>. DEFINE S == {e.id : e \in {x \in known : x.level = l}}
  <2>3. S \in SUBSET Nat /\ S # {}
    BY <2>1, <2>2, Zenon
  <2>4. PICK m \in S : \A y \in S : m <= y
    BY <2>3, Zenon DEF Library, WellOrdered
  <2>5. PICK e \in known : e.level = l /\ e.id = m
    BY <2>4, Zenon
  <2>6. ASSUME NEW f \in known PROVE ReadBefore(e, f)
    <3>1. CASE f.level = l
      <4>1. e.id <= f.id /\ e.level = l
        BY <2>4, <2>5, <2>6, <3>1, Zenon
      <4>. QED  BY <4>1, <3>1, Zenon DEF ReadBefore
    <3>2. CASE f.level # l
      <4>1. l <= f.level /\ f.level \in Nat /\ e.level = l
        BY <2>1, <2>2, <2>5, <2>6, Zenon
      <4>. QED  BY <4>1, <3>2 DEF ReadBefore
    <3>. QED  BY <3>1, <3>2, Zenon
  <2>7. PICK x \in known : Cells(k) = x.table[k]
    BY <2>5, <2>6, Zenon
  <2>. QED  BY <2>7, ReaderFacts, TableFacts, Zenon
<1>. HIDE DEF K, Cells
<1>4. Merged(c) \in [K -> Cell]
  BY <1>2, <1>3, Zenon
<1>. QED  BY <1>1, <1>2, <1>4, TableIs, Zenon DEF K

\* The tombstones go at the deepest level.
LEMMA WithoutTombstonesTable ==
  ASSUME NEW t \in Table
  PROVE  /\ WithoutTombstones(t) \in Table
         /\ \A k : /\ k \in DOMAIN WithoutTombstones(t) <=> k \in DOMAIN t /\ t[k] # Tombstone
                   /\ k \in DOMAIN WithoutTombstones(t) => WithoutTombstones(t)[k] = t[k]
<1>1. \A k : /\ k \in DOMAIN WithoutTombstones(t) <=> k \in DOMAIN t /\ t[k] # Tombstone
             /\ k \in DOMAIN WithoutTombstones(t) => WithoutTombstones(t)[k] = t[k]
  BY Zenon DEF WithoutTombstones
<1>2. {x \in DOMAIN t : t[x] # Tombstone} \in SUBSET Key
  BY TableFacts, Zenon
<1>3. WithoutTombstones(t) \in [{x \in DOMAIN t : t[x] # Tombstone} -> Cell]
  BY TableFacts, Zenon DEF WithoutTombstones
<1>. QED  BY <1>1, <1>2, <1>3, TableIs, Zenon

\* What compact writes, of what it merged.
LEMMA CompactedIs ==
  ASSUME Library, NEW c \in SUBSET SstReader, NEW target
  PROVE  /\ CompactedTable(c, target) \in Table
         /\ \A k : /\ k \in DOMAIN CompactedTable(c, target) =>
                        k \in DOMAIN Merged(c) /\ CompactedTable(c, target)[k] = Merged(c)[k]
                   /\ k \in DOMAIN Merged(c) /\ k \notin DOMAIN CompactedTable(c, target) =>
                        Merged(c)[k] = Tombstone /\ target >= NumLevels - 1
<1>1. Merged(c) \in Table
  BY MergedTable, Zenon
<1>2. CASE target >= NumLevels - 1
  BY <1>1, <1>2, WithoutTombstonesTable, Zenon DEF CompactedTable
<1>3. CASE ~(target >= NumLevels - 1)
  BY <1>1, <1>3, Zenon DEF CompactedTable
<1>. QED  BY <1>2, <1>3, Zenon

-----------------------------------------------------------------------------
(* The manifest and the files.                                             *)

\* The levels are numbered from 0, and every level but the last has one below.
LEMMA LevelFacts ==
  /\ Level \subseteq Nat /\ 0 \in Level
  /\ \A l \in Level : l <= NumLevels - 1 /\ (l # NumLevels - 1 => l + 1 \in Level)
  BY Bounds DEF Level

\* The fields of a manifest and of the entries it lists.
LEMMA EntryFacts ==
  ASSUME NEW m \in Manifest
  PROVE  /\ m.next_sst_id \in Nat /\ m.levels \in [Level -> SUBSET Entry]
         /\ \A l \in Level : m.levels[l] \subseteq Listed(m) /\ m.levels[l] \subseteq Entry
         /\ Listed(m) \subseteq Entry
         /\ \A e \in Listed(m) : /\ e.id \in Nat /\ e.level \in Level
                                 /\ e.min_key \in Key /\ e.max_key \in Key
                                 /\ e.min_key \in Nat /\ e.max_key \in Nat
<1>1. m.next_sst_id \in Nat /\ m.levels \in [Level -> SUBSET Entry]
  BY Zenon DEF Manifest
<1>2. \A l \in Level : m.levels[l] \subseteq Listed(m) /\ m.levels[l] \subseteq Entry
  BY <1>1, Zenon DEF Listed
<1>3. Listed(m) \subseteq Entry
  BY <1>2, Zenon DEF Listed
<1>4. Key \subseteq Nat
  BY Bounds DEF Key
<1>5. \A e \in Entry : /\ e.id \in Nat /\ e.level \in Level
                       /\ e.min_key \in Key /\ e.max_key \in Key
  BY Zenon DEF Entry
<1>. QED  BY <1>1, <1>2, <1>3, <1>4, <1>5, Zenon

\* The reader that SSTableReader::open makes.
ReaderOf(e, fs) == [id |-> e.id, level |-> e.level, table |-> fs[e.id]]

\* An open file has the number and the level of its entry.
LEMMA ReaderOfFacts ==
  ASSUME NEW e, NEW fs
  PROVE  /\ ReaderOf(e, fs).id = e.id /\ ReaderOf(e, fs).level = e.level
         /\ ReaderOf(e, fs).table = fs[e.id]
  BY Zenon DEF ReaderOf

\* LsmTree::open and maybe_compact open the listed files that exist.
LEMMA OpenedAre ==
  ASSUME NEW m, NEW fs, NEW r
  PROVE  r \in Opened(m, fs) <=>
           \E e \in Listed(m) : e.id \in DOMAIN fs /\ r = ReaderOf(e, fs)
  BY Zenon DEF Opened, Readers, ReaderOf

\* compact opens each of its inputs.
LEMMA ReadersAre ==
  ASSUME NEW es, NEW fs, NEW r
  PROVE  r \in Readers(es, fs) <=> \E e \in es : r = ReaderOf(e, fs)
  BY Zenon DEF Readers, ReaderOf

\* Opening a file that exists gives its table.
LEMMA ReaderTyped ==
  ASSUME NEW e \in Entry, NEW fs, FilesTyped(fs), e.id \in DOMAIN fs
  PROVE  ReaderOf(e, fs) \in SstReader
  BY Zenon DEF Entry, FilesTyped, ReaderOf, SstReader

\* The cache of a manifest in order is in order.
LEMMA OpenedGood ==
  ASSUME NEW m \in Manifest, NEW fs, FilesTyped(fs), ManifestOK(m, fs)
  PROVE  GoodCache(Opened(m, fs))
<1>1. Opened(m, fs) \subseteq SstReader
  BY OpenedAre, ReaderTyped, EntryFacts
<1>2. ASSUME NEW r \in Opened(m, fs), NEW s \in Opened(m, fs), r.id = s.id PROVE r = s
  <2>1. PICK e \in Listed(m) : r = ReaderOf(e, fs)
    BY OpenedAre
  <2>2. PICK f \in Listed(m) : s = ReaderOf(f, fs)
    BY OpenedAre
  <2>3. e.id = f.id
    BY <1>2, <2>1, <2>2, ReaderOfFacts, Zenon
  <2>. QED  BY <2>1, <2>2, <2>3, Zenon DEF ManifestOK
<1>3. \A r \in Opened(m, fs) : r.id <= m.next_sst_id
  <2>1. \A e \in Listed(m) : e.id <= m.next_sst_id
    BY EntryFacts DEF ManifestOK
  <2>. QED  BY <2>1, OpenedAre, ReaderOfFacts
<1>. QED  BY <1>1, <1>2, <1>3, EntryFacts, Zenon DEF GoodCache

\* Files that are not listed do not matter.
LEMMA SameFiles ==
  ASSUME NEW m, NEW fs, NEW gs,
         \A e \in Listed(m) : /\ e.id \in DOMAIN fs <=> e.id \in DOMAIN gs
                              /\ e.id \in DOMAIN fs => fs[e.id] = gs[e.id]
  PROVE  /\ Opened(m, fs) = Opened(m, gs)
         /\ ManifestOK(m, fs) => ManifestOK(m, gs)
<1>1. \A e \in Listed(m) : e.id \in DOMAIN fs => ReaderOf(e, fs) = ReaderOf(e, gs)
  BY Zenon DEF ReaderOf
<1>2. \A r : r \in Opened(m, fs) <=> r \in Opened(m, gs)
  BY <1>1, OpenedAre
<1>. QED  BY <1>2, Zenon DEF ManifestOK

\* A file with a number that was not given out yet.
LEMMA NewFile ==
  ASSUME NEW m \in Manifest, NEW fs, FilesTyped(fs), ManifestOK(m, fs),
         NEW id \in Nat, id >= m.next_sst_id, NEW t \in Table
  PROVE  /\ FilesTyped(With(fs, id, t))
         /\ id \in DOMAIN With(fs, id, t) /\ With(fs, id, t)[id] = t
         /\ Opened(m, With(fs, id, t)) = Opened(m, fs)
         /\ ManifestOK(m, With(fs, id, t))
<1>1. /\ DOMAIN With(fs, id, t) = DOMAIN fs \cup {id}
      /\ \A x \in DOMAIN fs \cup {id} : With(fs, id, t)[x] = IF x = id THEN t ELSE fs[x]
  BY Zenon DEF With
<1>2. FilesTyped(With(fs, id, t))
  BY <1>1, Zenon DEF FilesTyped
<1>3. \A e \in Listed(m) : e.id # id
  BY EntryFacts DEF ManifestOK
<1>4. \A e \in Listed(m) :
        /\ e.id \in DOMAIN fs <=> e.id \in DOMAIN With(fs, id, t)
        /\ e.id \in DOMAIN fs => fs[e.id] = With(fs, id, t)[e.id]
  BY <1>1, <1>3, Zenon
<1>5. Opened(m, fs) = Opened(m, With(fs, id, t)) /\ ManifestOK(m, With(fs, id, t))
  BY <1>4, SameFiles, Zenon
<1>. QED  BY <1>1, <1>2, <1>5, Zenon

\* Manifest::add_sstable and remove_sstables leave the counter alone.
LEMMA WithLevels ==
  ASSUME NEW m \in Manifest, NEW x
  PROVE  [m EXCEPT !.levels = x] = [levels |-> x, next_sst_id |-> m.next_sst_id]
  BY SMT DEF Manifest

\* next_sst_filename changes the counter only.
LEMMA WithNext ==
  ASSUME NEW m \in Manifest, NEW x
  PROVE  [m EXCEPT !.next_sst_id = x] = [levels |-> m.levels, next_sst_id |-> x]
  BY SMT DEF Manifest

\* Levels of entries and a counter are a manifest.
LEMMA ManifestIs ==
  ASSUME NEW m, NEW x \in [Level -> SUBSET Entry], NEW n \in Nat,
         m = [levels |-> x, next_sst_id |-> n]
  PROVE  m \in Manifest /\ m.levels = x /\ m.next_sst_id = n
  BY Zenon DEF Manifest

\* Manifest::add_sstable
LEMMA AddSstFacts ==
  ASSUME NEW m \in Manifest, NEW e \in Entry
  PROVE  /\ AddSst(m, e) \in Manifest
         /\ AddSst(m, e).next_sst_id = m.next_sst_id
         /\ \A l \in Level : AddSst(m, e).levels[l] =
                               IF l = e.level THEN m.levels[l] \cup {e} ELSE m.levels[l]
         /\ Listed(AddSst(m, e)) = Listed(m) \cup {e}
<1>1. m.levels \in [Level -> SUBSET Entry] /\ m.next_sst_id \in Nat /\ e.level \in Level
  BY Zenon DEF Manifest, Entry
<1>. DEFINE x == [m.levels EXCEPT ![e.level] = @ \cup {e}]
<1>2. AddSst(m, e) = [m EXCEPT !.levels = x]
  BY Zenon DEF AddSst
<1>3. x \in [Level -> SUBSET Entry]
  BY <1>1
<1>4. \A l \in Level : x[l] = IF l = e.level THEN m.levels[l] \cup {e} ELSE m.levels[l]
  BY <1>1, Zenon
<1>. HIDE DEF x
<1>5. AddSst(m, e) \in Manifest /\ AddSst(m, e).levels = x
      /\ AddSst(m, e).next_sst_id = m.next_sst_id
  <2>1. AddSst(m, e) = [levels |-> x, next_sst_id |-> m.next_sst_id]
    BY <1>2, WithLevels
  <2>. QED  BY <1>1, <1>3, <2>1, ManifestIs, Zenon
<1>6. \A f : f \in Listed(AddSst(m, e)) <=> f \in Listed(m) \cup {e}
  <2>1. \A f : f \in Listed(AddSst(m, e)) <=> \E l \in Level : f \in x[l]
    BY <1>5, Zenon DEF Listed
  <2>2. \A f : f \in Listed(m) <=> \E l \in Level : f \in m.levels[l]
    BY Zenon DEF Listed
  <2>. QED  BY <1>1, <1>4, <2>1, <2>2, Zenon
<1>. QED  BY <1>4, <1>5, <1>6, Zenon

\* Manifest::remove_sstables, and the counter that goes up with each file name.
LEMMA RemoveSstsFacts ==
  ASSUME NEW m \in Manifest, NEW ids,
         NEW b, b = [RemoveSsts(m, ids) EXCEPT !.next_sst_id = @ + 1]
  PROVE  /\ b \in Manifest /\ b.next_sst_id = m.next_sst_id + 1
         /\ \A l \in Level : b.levels[l] = {e \in m.levels[l] : e.id \notin ids}
         /\ Listed(b) = {e \in Listed(m) : e.id \notin ids}
<1>. DEFINE kept == [l \in Level |-> {e \in m.levels[l] : e.id \notin ids}]
<1>1. m.levels \in [Level -> SUBSET Entry] /\ m.next_sst_id \in Nat
  BY Zenon DEF Manifest
<1>2. RemoveSsts(m, ids) = [levels |-> kept, next_sst_id |-> m.next_sst_id]
  <2>1. RemoveSsts(m, ids) = [m EXCEPT !.levels = kept]
    BY Zenon DEF RemoveSsts
  <2>. HIDE DEF kept
  <2>. QED  BY <2>1, WithLevels
<1>3. kept \in [Level -> SUBSET Entry]
  BY <1>1
<1>4. \A l \in Level : kept[l] = {e \in m.levels[l] : e.id \notin ids}
  BY Zenon
<1>. HIDE DEF kept
<1>5. RemoveSsts(m, ids) \in Manifest /\ RemoveSsts(m, ids).levels = kept
      /\ RemoveSsts(m, ids).next_sst_id = m.next_sst_id
  BY <1>1, <1>2, <1>3, ManifestIs, Zenon
<1>. DEFINE n == m.next_sst_id + 1
<1>6. b = [levels |-> kept, next_sst_id |-> n] /\ n \in Nat
  BY <1>1, <1>5, WithNext
<1>. HIDE DEF n
<1>7. b \in Manifest /\ b.levels = kept /\ b.next_sst_id = n
  BY <1>3, <1>6, ManifestIs, Zenon
<1>8. \A l \in Level : b.levels[l] = {e \in m.levels[l] : e.id \notin ids}
  BY <1>4, <1>7, Zenon
<1>9. Listed(b) = {e \in Listed(m) : e.id \notin ids}
  <2>1. \A f : f \in Listed(b) <=> \E l \in Level : f \in b.levels[l]
    BY Zenon DEF Listed
  <2>2. \A f : f \in Listed(m) <=> \E l \in Level : f \in m.levels[l]
    BY Zenon DEF Listed
  <2>. QED  BY <1>8, <2>1, <2>2
<1>. QED  BY <1>7, <1>8, <1>9, Zenon DEF n

\* The entry of a table: its least and its greatest key.
LEMMA EntryOfTable ==
  ASSUME Library, NEW id \in Nat, NEW l \in Level, NEW t \in Table, t # Empty
  PROVE  LET e == SstEntry(id, l, t) IN
         /\ e \in Entry /\ e.id = id /\ e.level = l
         /\ e.min_key \in DOMAIN t /\ e.max_key \in DOMAIN t
         /\ \A k \in DOMAIN t : e.min_key <= k /\ k <= e.max_key
<1>1. DOMAIN t \in SUBSET Key /\ DOMAIN t # {}
  BY TableFacts, EmptyTable, Zenon
<1>2. /\ Min(DOMAIN t) \in DOMAIN t /\ Max(DOMAIN t) \in DOMAIN t
      /\ \A k \in DOMAIN t : Min(DOMAIN t) <= k /\ k <= Max(DOMAIN t)
  <2>1. \A k \in DOMAIN t : k \in Nat
    BY <1>1, Bounds DEF Key
  <2>. QED  BY <1>1, <2>1, KeyBounds
<1>. QED  BY <1>1, <1>2, Zenon DEF SstEntry, Entry

\* Fewer files and a higher counter.
LEMMA FewerFiles ==
  ASSUME NEW m \in Manifest, NEW b \in Manifest, NEW fs, ManifestOK(m, fs),
         \A l \in Level : b.levels[l] \subseteq m.levels[l],
         b.next_sst_id >= m.next_sst_id
  PROVE  ManifestOK(b, fs)
<1>1. \A e \in Listed(b) : e \in Listed(m)
  BY Zenon DEF Listed
<1>2. \A e \in Listed(b) : e.id < b.next_sst_id /\ e.min_key <= e.max_key
  BY <1>1, EntryFacts DEF ManifestOK
<1>3. \A l \in Level : \A e \in b.levels[l] : e.level = l
  BY Zenon DEF ManifestOK
<1>4. \A e, f \in Listed(b) : e.id = f.id => e = f
  BY <1>1, Zenon DEF ManifestOK
<1>5. \A e \in Listed(b) : e.id \in DOMAIN fs =>
       fs[e.id] # Empty /\ \A k \in DOMAIN fs[e.id] : e.min_key <= k /\ k <= e.max_key
  BY <1>1, Zenon DEF ManifestOK
<1>6. \A l \in Level \ {0} : \A x, y \in b.levels[l] :
        x # y => x.max_key < y.min_key \/ y.max_key < x.min_key
  BY Zenon DEF ManifestOK
<1>. QED  BY <1>2, <1>3, <1>4, <1>5, <1>6, Zenon DEF ManifestOK

\* next_sst_filename counts.
LEMMA Counted ==
  ASSUME NEW m \in Manifest, NEW fs, ManifestOK(m, fs),
         NEW n, n = [m EXCEPT !.next_sst_id = @ + 1]
  PROVE  /\ n \in Manifest /\ n.next_sst_id = m.next_sst_id + 1 /\ n.levels = m.levels
         /\ Listed(n) = Listed(m) /\ ManifestOK(n, fs) /\ Opened(n, fs) = Opened(m, fs)
<1>1. m.next_sst_id \in Nat /\ m.next_sst_id + 1 \in Nat /\ m.next_sst_id + 1 >= m.next_sst_id
      /\ m.levels \in [Level -> SUBSET Entry]
  BY EntryFacts
<1>2. n = [levels |-> m.levels, next_sst_id |-> m.next_sst_id + 1]
  BY WithNext
<1>3. n \in Manifest /\ n.next_sst_id = m.next_sst_id + 1 /\ n.levels = m.levels
  BY <1>1, <1>2, ManifestIs, Zenon
<1>4. Listed(n) = Listed(m)
  BY <1>3, Zenon DEF Listed
<1>5. Opened(n, fs) = Opened(m, fs)
  BY <1>4, Zenon DEF Opened
<1>6. ManifestOK(n, fs)
  <2>1. (\A l \in Level : n.levels[l] \subseteq m.levels[l]) /\ n.next_sst_id >= m.next_sst_id
    BY <1>1, <1>3, Zenon
  <2>. QED  BY <1>3, <2>1, FewerFiles, Zenon
<1>. QED  BY <1>3, <1>4, <1>5, <1>6, Zenon

\* Manifest n, still in order, is m with file id listed at level l.
AlsoLists(n, m, fs, id, l, t) ==
  /\ n \in Manifest /\ n.next_sst_id = m.next_sst_id /\ ManifestOK(n, fs)
  /\ Listed(n) = Listed(m) \cup {SstEntry(id, l, t)}
  /\ Opened(n, fs) = Opened(m, fs) \cup {[id |-> id, level |-> l, table |-> t]}

\* A file is listed: the first level takes any, the others what is disjoint from theirs.
LEMMA ListFile ==
  ASSUME Library, NEW m \in Manifest, NEW fs, FilesTyped(fs), ManifestOK(m, fs),
         NEW id \in Nat, NEW l \in Level, NEW t \in Table, t # Empty,
         id < m.next_sst_id, id \in DOMAIN fs, fs[id] = t,
         \A x \in Listed(m) : x.id # id,
         l # 0 => \A x \in m.levels[l] : \/ x.max_key < SstEntry(id, l, t).min_key
                                         \/ SstEntry(id, l, t).max_key < x.min_key,
         NEW n, n = AddSst(m, SstEntry(id, l, t))
  PROVE  AlsoLists(n, m, fs, id, l, t)
<1>. DEFINE e == SstEntry(id, l, t)
<1>1. /\ e \in Entry /\ e.id = id /\ e.level = l
      /\ e.min_key \in DOMAIN t /\ e.max_key \in DOMAIN t
      /\ \A k \in DOMAIN t : e.min_key <= k /\ k <= e.max_key
  BY EntryOfTable
<1>. HIDE DEF e
<1>2. /\ n \in Manifest /\ n.next_sst_id = m.next_sst_id
      /\ \A i \in Level : \A x \in n.levels[i] : x \in m.levels[i] \/ (i = l /\ x = e)
      /\ Listed(n) = Listed(m) \cup {e}
  <2>1. n = AddSst(m, e)
    BY Zenon DEF e
  <2>2. /\ AddSst(m, e) \in Manifest
        /\ AddSst(m, e).next_sst_id = m.next_sst_id
        /\ \A i \in Level : AddSst(m, e).levels[i] =
                               IF i = e.level THEN m.levels[i] \cup {e} ELSE m.levels[i]
        /\ Listed(AddSst(m, e)) = Listed(m) \cup {e}
    BY <1>1, AddSstFacts, Zenon
  <2>3. \A i \in Level : \A x \in AddSst(m, e).levels[i] : x \in m.levels[i] \/ (i = l /\ x = e)
    BY <1>1, <2>2, Zenon
  <2>. QED  BY <2>1, <2>2, <2>3, Zenon
<1>3. ManifestOK(n, fs)
  <2>1. \A i \in Level : \A x \in n.levels[i] : x.level = i
    BY <1>1, <1>2, ZenonT(30) DEF ManifestOK
  <2>2. \A x \in Listed(n) : x.id < n.next_sst_id /\ x.min_key <= x.max_key
    BY <1>1, <1>2, Zenon DEF ManifestOK
  <2>3. \A x, y \in Listed(n) : x.id = y.id => x = y
    <3>1. \A x \in Listed(n) : x.id = id => x = e
      BY <1>1, <1>2, Zenon
    <3>2. \A x \in Listed(n) : x.id # id => x \in Listed(m)
      BY <1>1, <1>2, Zenon
    <3>3. \A x, y \in Listed(m) : x.id = y.id => x = y
      BY Zenon DEF ManifestOK
    <3>. QED  BY <3>1, <3>2, <3>3, Zenon
  <2>4. \A x \in Listed(n) : x.id \in DOMAIN fs =>
         fs[x.id] # Empty /\ \A k \in DOMAIN fs[x.id] : x.min_key <= k /\ k <= x.max_key
    BY <1>1, <1>2, Zenon DEF ManifestOK
  <2>5. \A i \in Level \ {0} : \A x, y \in n.levels[i] :
          x # y => x.max_key < y.min_key \/ y.max_key < x.min_key
    <3>1. \A x \in m.levels[l] : l # 0 => x.max_key < e.min_key \/ e.max_key < x.min_key
      BY Zenon DEF e
    <3>2. ASSUME NEW i \in Level \ {0}, NEW x \in n.levels[i], NEW y \in n.levels[i], x # y
          PROVE  x.max_key < y.min_key \/ y.max_key < x.min_key
      <4>1. CASE x \in m.levels[i] /\ y \in m.levels[i]
        BY <3>2, <4>1, Zenon DEF ManifestOK
      <4>2. CASE x \notin m.levels[i]
        <5>1. i = l /\ l # 0 /\ x = e
          BY <1>2, <4>2, Zenon
        <5>2. y \in m.levels[l]
          BY <1>2, <3>2, <5>1, Zenon
        <5>. QED  BY <3>1, <5>1, <5>2, Zenon
      <4>3. CASE y \notin m.levels[i]
        <5>1. i = l /\ l # 0 /\ y = e
          BY <1>2, <4>3, Zenon
        <5>2. x \in m.levels[l]
          BY <1>2, <3>2, <5>1, Zenon
        <5>. QED  BY <3>1, <5>1, <5>2, Zenon
      <4>. QED  BY <4>1, <4>2, <4>3, Zenon
    <3>. QED  BY <3>2, Zenon
  <2>. QED  BY <2>1, <2>2, <2>3, <2>4, <2>5, Zenon DEF ManifestOK
<1>4. Opened(n, fs) = Opened(m, fs) \cup {ReaderOf(e, fs)}
  <2>1. \A r : r \in Opened(n, fs) <=> r \in Opened(m, fs) \/ r = ReaderOf(e, fs)
    BY <1>1, <1>2, OpenedAre
  <2>. QED  BY <2>1
<1>5. ReaderOf(e, fs) = [id |-> id, level |-> l, table |-> t]
  BY <1>1, Zenon DEF ReaderOf
<1>. QED  BY <1>2, <1>3, <1>4, <1>5, Zenon DEF e, AlsoLists

-----------------------------------------------------------------------------
(* The inputs of a compaction.                                             *)

\* The inputs are a level and those files of the next that meet its range.
LEMMA InputsAre ==
  ASSUME Library, NEW m \in Manifest, NEW l \in Level, l + 1 \in Level, m.levels[l] # {}
  PROVE  \E lo \in Nat, hi \in Nat :
           /\ \A e \in m.levels[l] : lo <= e.min_key /\ e.max_key <= hi
           /\ Inputs(m, l) = m.levels[l] \cup {e \in m.levels[l + 1] : e.min_key <= hi /\ e.max_key >= lo}
<1>. DEFINE mins == {e.min_key : e \in m.levels[l]}
            maxs == {e.max_key : e \in m.levels[l]}
<1>1. mins \in SUBSET Key /\ mins # {} /\ maxs \in SUBSET Key /\ maxs # {}
  BY EntryFacts, Zenon
<1>2. Key \subseteq Nat
  BY Bounds DEF Key
<1>. HIDE DEF mins, maxs
<1>3. /\ Min(mins) \in Nat /\ \A y \in mins : Min(mins) <= y
      /\ Max(maxs) \in Nat /\ \A y \in maxs : Max(maxs) >= y
  BY <1>1, <1>2, KeyBounds, Zenon
<1>4. \A e \in m.levels[l] : e.min_key \in mins /\ e.max_key \in maxs /\ e.max_key \in Nat
  BY EntryFacts, Zenon DEF mins, maxs
<1>5. \A e \in m.levels[l] : Min(mins) <= e.min_key /\ e.max_key <= Max(maxs)
  BY <1>3, <1>4
<1>6. Inputs(m, l) = m.levels[l] \cup
        {e \in m.levels[l + 1] : e.min_key <= Max(maxs) /\ e.max_key >= Min(mins)}
  BY Zenon DEF Inputs, Overlapping, mins, maxs
<1>. QED  BY <1>3, <1>5, <1>6, Zenon

\* A file of the next level that is not an input has its keys apart from all of them,
\* and even from all that lie between two of their keys.
LEMMA InputsApart ==
  ASSUME Library, NEW m \in Manifest, NEW fs, ManifestOK(m, fs),
         NEW l \in Level, l + 1 \in Level, m.levels[l] # {},
         NEW x \in m.levels[l + 1], x \notin Inputs(m, l),
         NEW y \in Inputs(m, l), NEW z \in Inputs(m, l), NEW a \in Nat, NEW b \in Nat, a <= b,
         y.min_key <= a, a <= y.max_key, z.min_key <= b, b <= z.max_key
  PROVE  b < x.min_key \/ x.max_key < a
<1>1. PICK lo \in Nat, hi \in Nat :
           /\ \A e \in m.levels[l] : lo <= e.min_key /\ e.max_key <= hi
           /\ Inputs(m, l) = m.levels[l] \cup {e \in m.levels[l + 1] : e.min_key <= hi /\ e.max_key >= lo}
  BY InputsAre
<1>2. \A e \in Inputs(m, l) \cup {x} : e.min_key \in Nat /\ e.max_key \in Nat
  BY <1>1, EntryFacts, Zenon
<1>3. \A e \in Inputs(m, l) : lo <= e.max_key /\ e.min_key <= hi
                              /\ (e \in m.levels[l] \/ e \in m.levels[l + 1])
  <2>1. \A e \in m.levels[l] : e.min_key <= e.max_key /\ e.min_key \in Nat /\ e.max_key \in Nat
    BY EntryFacts, Zenon DEF ManifestOK
  <2>. QED  BY <1>1, <2>1
<1>4. x.min_key <= x.max_key /\ (hi < x.min_key \/ x.max_key < lo)
  <2>1. x.min_key <= x.max_key
    BY EntryFacts, Zenon DEF ManifestOK
  <2>2. ~(x.min_key <= hi /\ x.max_key >= lo)
    BY <1>1, Zenon
  <2>. QED  BY <1>2, <2>1, <2>2
<1>5. \A e \in Inputs(m, l) : e \in m.levels[l + 1] =>
        x.max_key < e.min_key \/ e.max_key < x.min_key
  <2>1. l + 1 \in Level \ {0}
    BY LevelFacts
  <2>. QED  BY <2>1, Zenon DEF ManifestOK
<1>6. CASE hi < x.min_key
  BY <1>1, <1>2, <1>3, <1>4, <1>5, <1>6
<1>7. CASE x.max_key < lo
  BY <1>1, <1>2, <1>3, <1>4, <1>5, <1>7
<1>. QED  BY <1>4, <1>6, <1>7, Zenon

\* The files that a compaction removes from the manifest are its inputs.
LEMMA InputIds ==
  ASSUME NEW m \in Manifest, NEW fs, ManifestOK(m, fs), NEW l \in Level, l + 1 \in Level
  PROVE  /\ Inputs(m, l) \subseteq Listed(m)
         /\ m.levels[l] \subseteq Inputs(m, l)
         /\ Inputs(m, l) \subseteq m.levels[l] \cup m.levels[l + 1]
         /\ \A e \in Listed(m) : e.id \in {f.id : f \in Inputs(m, l)} <=> e \in Inputs(m, l)
<1>1. m.levels[l] \subseteq Inputs(m, l) /\ Inputs(m, l) \subseteq m.levels[l] \cup m.levels[l + 1]
  BY Zenon DEF Inputs, Overlapping
<1>2. Inputs(m, l) \subseteq Listed(m)
  BY <1>1, EntryFacts, Zenon
<1>3. \A e, f \in Listed(m) : e.id = f.id => e = f
  BY Zenon DEF ManifestOK
<1>4. \A e \in Listed(m) : e.id \in {f.id : f \in Inputs(m, l)} <=> e \in Inputs(m, l)
  BY <1>2, <1>3
<1>. QED  BY <1>1, <1>2, <1>4, Zenon

-----------------------------------------------------------------------------
(* What a compaction writes stands for what it read.                       *)

\* A key that the inputs do not know keeps its first file.  One that they know has it
\* above them, and keeps it, or in them, and then the result has its cell and lies above
\* what is left; a tombstone that is not written has nothing left to hide.
LEMMA MergeSame ==
  ASSUME Library, NEW c, GoodCache(c), NEW R \in SUBSET c, NEW l \in Nat, l + 1 \in Level,
         \A r \in c : r.level = l => r \in R,
         \A r \in R : r.level = l \/ r.level = l + 1,
         \A r \in c \ R : \A s \in R : r.level = l + 1 =>
           \A k \in DOMAIN r.table : k \notin DOMAIN s.table,
         Merged(R) = CacheTable(R),
         NEW t, t = CompactedTable(R, l + 1),
         NEW nr \in SstReader, nr.level = l + 1, nr.table = t,
         NEW d, GoodCache(d),
         \A r : r \in d <=> r \in c \ R \/ (r = nr /\ t # Empty)
  PROVE  Same(c, d)
<1>. SUFFICES ASSUME NEW k \in Key
              PROVE  Visible(Lookup(CacheTable(c), k)) = Visible(Lookup(CacheTable(d), k))
  BY Zenon DEF Same
<1>1. /\ GoodCache(R) /\ R \in SUBSET SstReader
      /\ \A r \in c : r.level \in Nat /\ r.level \in Level /\ r.id \in Nat
  BY ReaderFacts, Zenon DEF GoodCache
<1>2. /\ k \in DOMAIN t => k \in DOMAIN Merged(R) /\ t[k] = Merged(R)[k]
      /\ k \in DOMAIN Merged(R) /\ k \notin DOMAIN t =>
           Merged(R)[k] = Tombstone /\ l + 1 >= NumLevels - 1
  BY <1>1, CompactedIs
<1>3. k \in DOMAIN Merged(R) <=> \E r \in R : k \in DOMAIN r.table
  <2>1. DOMAIN Merged(R) = UNION {DOMAIN r.table : r \in R}
    BY <1>1, MergedTable, Zenon
  <2>. QED  BY <2>1, Zenon
<1>4. k \in DOMAIN t => nr \in d
  BY EmptyTable, Zenon
<1>5. CASE k \notin DOMAIN Merged(R)
  <2>1. \A r \in R : k \notin DOMAIN r.table
    BY <1>3, <1>5, Zenon
  <2>2. k \notin DOMAIN nr.table
    BY <1>2, <1>5, Zenon
  <2>3. \A r : r \in c /\ k \in DOMAIN r.table <=> r \in d /\ k \in DOMAIN r.table
    BY <2>1, <2>2, Zenon
  <2>4. CASE \E e \in c : k \in DOMAIN e.table
    <3>1. PICK e : FirstIn(c, k, e)
      BY <2>4, HasFirst, Zenon
    <3>2. FirstIn(d, k, e)
      BY <2>3, <3>1, Zenon DEF FirstIn
    <3>3. Lookup(CacheTable(c), k) = e.table[k] /\ Lookup(CacheTable(d), k) = e.table[k]
      BY <3>1, <3>2, CacheHit
    <3>. QED  BY <3>3, Zenon
  <2>5. CASE ~\E e \in c : k \in DOMAIN e.table
    <3>1. Lookup(CacheTable(c), k) = Absent /\ Lookup(CacheTable(d), k) = Absent
      BY <2>3, <2>5, CacheMiss, Zenon
    <3>. QED  BY <3>1, Zenon
  <2>. QED  BY <2>4, <2>5, Zenon
<1>6. CASE k \in DOMAIN Merged(R)
  <2>1. PICK e1 : FirstIn(R, k, e1)
    BY <1>1, <1>3, <1>6, HasFirst, Zenon
  <2>2. /\ e1 \in R /\ e1 \in c /\ k \in DOMAIN e1.table /\ Merged(R)[k] = e1.table[k]
        /\ \A f \in R : k \in DOMAIN f.table => Before(e1, f)
    <3>1. Lookup(CacheTable(R), k) = e1.table[k] /\ k \in DOMAIN CacheTable(R)
      BY <1>1, <2>1, CacheHit, Zenon
    <3>. QED  BY <2>1, <3>1, Zenon DEF FirstIn, Lookup
  <2>3. CASE \E r \in c \ R : k \in DOMAIN r.table /\ r.level < l
    <3>1. PICK r \in c \ R : k \in DOMAIN r.table /\ r.level < l
      BY <2>3, Zenon
    <3>2. PICK e : FirstIn(c, k, e)
      BY <3>1, HasFirst, Zenon
    <3>3. e \in c /\ k \in DOMAIN e.table /\ Before(e, r)
          /\ \A f \in c : k \in DOMAIN f.table => Before(e, f)
      BY <3>1, <3>2, Zenon DEF FirstIn
    <3>4. e.level < l /\ e.level < l + 1
      BY <1>1, <3>1, <3>3 DEF Before
    <3>5. e \notin R /\ e \in d
      BY <1>1, <3>3, <3>4
    <3>6. Before(e, nr)
      BY <3>4, Zenon DEF Before
    <3>7. FirstIn(d, k, e)
      <4>1. \A f \in d : k \in DOMAIN f.table => Before(e, f)
        BY <3>3, <3>6
      <4>. QED  BY <3>3, <3>5, <4>1, Zenon DEF FirstIn
    <3>8. Lookup(CacheTable(c), k) = e.table[k] /\ Lookup(CacheTable(d), k) = e.table[k]
      BY <3>2, <3>7, CacheHit, Zenon
    <3>. QED  BY <3>8, Zenon
  <2>4. CASE ~\E r \in c \ R : k \in DOMAIN r.table /\ r.level < l
    <3>1. ASSUME NEW r \in c \ R, k \in DOMAIN r.table PROVE r.level > l + 1
      <4>1. ~(r.level < l) /\ r.level # l /\ r.level # l + 1
        BY <2>2, <2>4, <3>1, Zenon
      <4>. QED  BY <1>1, <4>1
    <3>2. \A r \in c \ R : k \in DOMAIN r.table => Before(e1, r) /\ Before(nr, r)
      BY <1>1, <2>2, <3>1 DEF Before
    <3>3. FirstIn(c, k, e1)
      BY <2>2, <3>2, Zenon DEF FirstIn
    <3>4. Lookup(CacheTable(c), k) = Merged(R)[k]
      BY <2>2, <3>3, CacheHit, Zenon
    <3>5. CASE k \in DOMAIN t
      <4>1. Before(nr, nr)
        BY ReaderFacts DEF Before
      <4>2. FirstIn(d, k, nr)
        <5>1. \A f \in d : k \in DOMAIN f.table => Before(nr, f)
          BY <3>2, <4>1
        <5>. QED  BY <1>4, <3>5, <5>1, Zenon DEF FirstIn
      <4>3. Lookup(CacheTable(d), k) = Merged(R)[k]
        BY <1>2, <3>5, <4>2, CacheHit
      <4>. QED  BY <3>4, <4>3, Zenon
    <3>6. CASE k \notin DOMAIN t
      <4>1. \A r \in c \ R : k \notin DOMAIN r.table
        <5>1. l + 1 >= NumLevels - 1 /\ NumLevels \in Nat
          BY <1>2, <1>6, <3>6, Bounds, Zenon
        <5>2. \A r \in c \ R : r.level \in Nat /\ r.level <= NumLevels - 1
          BY <1>1, LevelFacts, Zenon
        <5>3. \A r \in c \ R : ~(r.level > l + 1)
          BY <5>1, <5>2
        <5>. QED  BY <3>1, <5>3, Zenon
      <4>2. \A r \in d : k \notin DOMAIN r.table
        BY <3>6, <4>1, Zenon
      <4>3. Lookup(CacheTable(d), k) = Absent /\ Lookup(CacheTable(c), k) = Tombstone
        BY <1>2, <1>6, <3>4, <3>6, <4>2, CacheMiss, Zenon
      <4>. QED  BY <4>3, Zenon DEF Visible
    <3>. QED  BY <3>5, <3>6, Zenon
  <2>. QED  BY <2>3, <2>4, Zenon
<1>. QED  BY <1>5, <1>6, Zenon

\* What MergeSame asks of a cache c, its readers R that were merged, and the cache d after it.
Merging(c, R, l, t, nr, d) ==
  /\ GoodCache(c) /\ R \in SUBSET c /\ l \in Nat /\ l + 1 \in Level
  /\ \A r \in c : r.level = l => r \in R
  /\ \A r \in R : r.level = l \/ r.level = l + 1
  /\ \A r \in c \ R : \A s \in R : r.level = l + 1 =>
       \A k \in DOMAIN r.table : k \notin DOMAIN s.table
  /\ Merged(R) = CacheTable(R) /\ t = CompactedTable(R, l + 1)
  /\ nr \in SstReader /\ nr.level = l + 1 /\ nr.table = t
  /\ GoodCache(d) /\ \A r : r \in d <=> r \in c \ R \/ (r = nr /\ t # Empty)

\* MergeSame, with its hypotheses under one name.
LEMMA MergingSame ==
  ASSUME Library, NEW c, NEW R, NEW l, NEW t, NEW nr, NEW d, Merging(c, R, l, t, nr, d)
  PROVE  Same(c, d)
<1>1. /\ GoodCache(c) /\ R \in SUBSET c /\ l \in Nat /\ l + 1 \in Level
      /\ Merged(R) = CacheTable(R) /\ t = CompactedTable(R, l + 1)
      /\ nr \in SstReader /\ nr.level = l + 1 /\ nr.table = t /\ GoodCache(d)
  BY Zenon DEF Merging
<1>2. /\ \A r \in c : r.level = l => r \in R
      /\ \A r \in R : r.level = l \/ r.level = l + 1
      /\ \A r \in c \ R : \A s \in R : r.level = l + 1 =>
           \A k \in DOMAIN r.table : k \notin DOMAIN s.table
      /\ \A r : r \in d <=> r \in c \ R \/ (r = nr /\ t # Empty)
  BY Zenon DEF Merging
<1>. QED  BY <1>1, <1>2, MergeSame

\* The readers of the inputs, among those of all files.
LEMMA InputReaders ==
  ASSUME Library, NEW m \in Manifest, NEW fs, FilesTyped(fs), ManifestOK(m, fs),
         NEW l \in Level, l + 1 \in Level, m.levels[l] # {},
         \A e \in Inputs(m, l) : e.id \in DOMAIN fs,
         NEW R, R = Readers(Inputs(m, l), fs),
         NEW c, c = Opened(m, fs)
  PROVE  /\ GoodCache(c) /\ R \in SUBSET c
         /\ \A r \in c : r.level = l => r \in R
         /\ \A r \in R : r.level = l \/ r.level = l + 1
         /\ \A r \in c \ R : \A s \in R : r.level = l + 1 =>
              \A k \in DOMAIN r.table : k \notin DOMAIN s.table
         /\ \A r \in c : r.id \in {e.id : e \in Inputs(m, l)} <=> r \in R
<1>1. GoodCache(c)
  BY OpenedGood, Zenon
<1>2. /\ Inputs(m, l) \subseteq Listed(m) /\ m.levels[l] \subseteq Inputs(m, l)
      /\ Inputs(m, l) \subseteq m.levels[l] \cup m.levels[l + 1]
      /\ \A e \in Listed(m) : e.id \in {f.id : f \in Inputs(m, l)} <=> e \in Inputs(m, l)
  BY InputIds
<1>3. \A e \in Listed(m) : e \in m.levels[e.level]
  <2>1. \A e \in Listed(m) : \E i \in Level : e \in m.levels[i]
    BY Zenon DEF Listed
  <2>. QED  BY <2>1, Zenon DEF ManifestOK
<1>4. \A r : r \in c <=> \E e \in Listed(m) : e.id \in DOMAIN fs /\ r = ReaderOf(e, fs)
  BY OpenedAre
<1>5. \A r : r \in R <=> \E e \in Inputs(m, l) : r = ReaderOf(e, fs)
  BY ReadersAre
<1>6. R \in SUBSET c
  BY <1>2, <1>4, <1>5, Zenon
<1>7. ASSUME NEW r \in c, r.level = l PROVE r \in R
  <2>1. PICK e \in Listed(m) : e.id \in DOMAIN fs /\ r = ReaderOf(e, fs)
    BY <1>4, Zenon
  <2>2. e.level = l
    BY <1>7, <2>1, ReaderOfFacts, Zenon
  <2>. QED  BY <1>2, <1>3, <1>5, <2>1, <2>2, Zenon
<1>8. ASSUME NEW r \in R PROVE r.level = l \/ r.level = l + 1
  <2>1. PICK e \in Inputs(m, l) : r = ReaderOf(e, fs)
    BY <1>5, Zenon
  <2>2. e.level = l \/ e.level = l + 1
    BY <1>2, Zenon DEF ManifestOK
  <2>. QED  BY <2>1, <2>2, ReaderOfFacts, Zenon
<1>9. ASSUME NEW r \in c PROVE r.id \in {e.id : e \in Inputs(m, l)} <=> r \in R
  <2>1. PICK e \in Listed(m) : e.id \in DOMAIN fs /\ r = ReaderOf(e, fs)
    BY <1>4, Zenon
  <2>2. r.id = e.id
    BY <2>1, ReaderOfFacts, Zenon
  <2>3. e \in Inputs(m, l) => r \in R
    BY <1>5, <2>1, Zenon
  <2>4. ASSUME r \in R PROVE e.id \in {f.id : f \in Inputs(m, l)}
    <3>1. PICK f \in Inputs(m, l) : r = ReaderOf(f, fs)
      BY <1>5, <2>4, Zenon
    <3>2. e.id = f.id
      BY <2>2, <3>1, ReaderOfFacts
    <3>. QED  BY <3>2
  <2>. QED  BY <1>2, <2>2, <2>3, <2>4, Zenon
<1>10. ASSUME NEW r \in c \ R, NEW s \in R, r.level = l + 1,
              NEW k \in DOMAIN r.table, k \in DOMAIN s.table
       PROVE  FALSE
  <2>1. PICK x \in Listed(m) : x.id \in DOMAIN fs /\ r = ReaderOf(x, fs)
    BY <1>4, Zenon
  <2>2. PICK y \in Inputs(m, l) : s = ReaderOf(y, fs)
    BY <1>5, Zenon
  <2>3. x \in m.levels[l + 1] /\ x \notin Inputs(m, l)
    <3>1. x.level = l + 1
      BY <1>10, <2>1, ReaderOfFacts, Zenon
    <3>. QED  BY <1>3, <1>5, <1>10, <2>1, <3>1, Zenon
  <2>4. k \in DOMAIN fs[x.id] /\ k \in DOMAIN fs[y.id] /\ k \in Nat
    <3>1. k \in DOMAIN fs[x.id] /\ k \in DOMAIN fs[y.id]
      BY <1>10, <2>1, <2>2, ReaderOfFacts, Zenon
    <3>2. fs[x.id] \in Table /\ Key \subseteq Nat
      BY <2>1, Bounds DEF FilesTyped, Key
    <3>. QED  BY <3>1, <3>2, TableFacts, Zenon
  <2>5. /\ x.min_key <= k /\ k <= x.max_key /\ y.min_key <= k /\ k <= y.max_key
        /\ x.min_key \in Nat /\ x.max_key \in Nat
    BY <1>2, <2>1, <2>2, <2>4, EntryFacts, Zenon DEF ManifestOK
  <2>6. k < x.min_key \/ x.max_key < k
    <3>1. k <= k
      BY <2>4
    <3>. QED  BY <2>2, <2>3, <2>4, <2>5, <3>1, InputsApart, Zenon
  <2>. QED  BY <2>4, <2>5, <2>6
<1>. QED  BY <1>1, <1>6, <1>7, <1>8, <1>9, <1>10, Zenon

\* What compact takes out of the manifest, with the number of the new file given out.
InputNumbers(m, l) == {e.id : e \in Inputs(m, l)}
Without(m, l) == [RemoveSsts(m, InputNumbers(m, l)) EXCEPT !.next_sst_id = @ + 1]

\* remove_sstables takes the inputs of a compaction out, and nothing else.
LEMMA WithoutFacts ==
  ASSUME NEW m \in Manifest, NEW fs, ManifestOK(m, fs), NEW l \in Level, l + 1 \in Level
  PROVE  /\ Without(m, l) \in Manifest /\ Without(m, l).next_sst_id = m.next_sst_id + 1
         /\ \A i \in Level : \A x : x \in Without(m, l).levels[i] <=>
                                   x \in m.levels[i] /\ x.id \notin InputNumbers(m, l)
         /\ \A x : x \in Listed(Without(m, l)) <=>
                   x \in Listed(m) /\ x.id \notin InputNumbers(m, l)
         /\ \A x \in Listed(m) : x.id \in InputNumbers(m, l) <=> x \in Inputs(m, l)
<1>1. \A x \in Listed(m) : x.id \in InputNumbers(m, l) <=> x \in Inputs(m, l)
  BY InputIds DEF InputNumbers
<1>2. \A ids : \A b : b = [RemoveSsts(m, ids) EXCEPT !.next_sst_id = @ + 1] =>
         /\ b \in Manifest /\ b.next_sst_id = m.next_sst_id + 1
         /\ \A l_1 \in Level : b.levels[l_1] = {e \in m.levels[l_1] : e.id \notin ids}
         /\ Listed(b) = {e \in Listed(m) : e.id \notin ids}
  BY RemoveSstsFacts, Zenon
<1>3. Without(m, l) = [RemoveSsts(m, InputNumbers(m, l)) EXCEPT !.next_sst_id = @ + 1]
  BY Zenon DEF Without
<1>4. /\ Without(m, l) \in Manifest /\ Without(m, l).next_sst_id = m.next_sst_id + 1
      /\ \A i \in Level :
           Without(m, l).levels[i] = {e \in m.levels[i] : e.id \notin InputNumbers(m, l)}
      /\ Listed(Without(m, l)) = {e \in Listed(m) : e.id \notin InputNumbers(m, l)}
  BY <1>2, <1>3, Zenon
<1>. QED  BY <1>1, <1>4, Zenon

\* Manifest n over files gs takes the place of m over fs once level l is merged, its
\* inputs read as R: both are in order, n lists none of the inputs, and its files hold
\* what those of m do, if of every key the cell was merged that get would have found.
Compacts(m, fs, l, R, t, n, gs) ==
  /\ n \in Manifest /\ FilesTyped(gs) /\ ManifestOK(n, gs) /\ ManifestOK(m, gs)
  /\ Opened(m, gs) = Opened(m, fs) /\ n.next_sst_id = m.next_sst_id + 1
  /\ \A e \in Listed(n) : e.id \notin InputNumbers(m, l)
  /\ Merged(R) = CacheTable(R) => Same(Opened(m, fs), Opened(n, gs))

\* The steps of compact up to the deletion of its inputs, on a manifest in order: the new
\* one is in order too, lists none of the inputs, and its files hold what the old one's
\* did, if of every key the cell was merged that get would have found.
LEMMA MergeFacts ==
  ASSUME Library, NEW m \in Manifest, NEW fs, FilesTyped(fs), ManifestOK(m, fs),
         NEW l \in Level, l + 1 \in Level, m.levels[l] # {},
         \A e \in Inputs(m, l) : e.id \in DOMAIN fs,
         NEW R, R = Readers(Inputs(m, l), fs),
         NEW t, t = CompactedTable(R, l + 1),
         NEW n, NEW gs,
         IF t = Empty THEN n = Without(m, l) /\ gs = fs
         ELSE /\ n = AddSst(Without(m, l), SstEntry(m.next_sst_id, l + 1, t))
              /\ gs = With(fs, m.next_sst_id, t)
  PROVE  Compacts(m, fs, l, R, t, n, gs)
<1>. DEFINE c == Opened(m, fs)
            id == m.next_sst_id
            nr == [id |-> id, level |-> l + 1, table |-> t]
            e == SstEntry(id, l + 1, t)
            b == Without(m, l)
<1>1. /\ GoodCache(c) /\ R \in SUBSET c
      /\ \A r \in c : r.level = l => r \in R
      /\ \A r \in R : r.level = l \/ r.level = l + 1
      /\ \A r \in c \ R : \A s \in R : r.level = l + 1 =>
              \A k \in DOMAIN r.table : k \notin DOMAIN s.table
      /\ \A r \in c : r.id \in InputNumbers(m, l) <=> r \in R
  <2>1. \A r \in c : r.id \in InputNumbers(m, l) <=> r \in R
    BY InputReaders DEF InputNumbers
  <2>. QED  BY <2>1, InputReaders
<1>2. t \in Table /\ \A k : k \in DOMAIN t => \E r \in R : k \in DOMAIN r.table
  <2>1. R \in SUBSET SstReader
    BY <1>1, Zenon DEF GoodCache
  <2>2. t \in Table /\ \A k : k \in DOMAIN t => k \in DOMAIN Merged(R)
    BY <2>1, CompactedIs
  <2>3. DOMAIN Merged(R) = UNION {DOMAIN r.table : r \in R}
    BY <2>1, MergedTable, Zenon
  <2>4. \A k \in DOMAIN Merged(R) : \E r \in R : k \in DOMAIN r.table
    BY <2>3
  <2>. QED  BY <2>2, <2>4, Zenon
<1>3. id \in Nat /\ nr \in SstReader /\ l \in Nat
  BY <1>2, EntryFacts, LevelFacts, Zenon DEF SstReader
<1>4. /\ b \in Manifest /\ b.next_sst_id = id + 1
      /\ \A i \in Level : \A x : x \in b.levels[i] <=>
                                x \in m.levels[i] /\ x.id \notin InputNumbers(m, l)
      /\ \A x : x \in Listed(b) <=> x \in Listed(m) /\ x.id \notin InputNumbers(m, l)
      /\ \A x \in Listed(m) : x.id \in InputNumbers(m, l) <=> x \in Inputs(m, l)
  BY WithoutFacts, Zenon
<1>. HIDE DEF b, c, nr, id
<1>5. FilesTyped(gs) /\ ManifestOK(m, gs) /\ Opened(m, gs) = c
      /\ (t # Empty => id \in DOMAIN gs /\ gs[id] = t)
  <2>1. CASE t = Empty
    BY <2>1, Zenon DEF c
  <2>2. CASE t # Empty
    <3>1. id >= m.next_sst_id
      BY <1>3 DEF id
    <3>2. gs = With(fs, id, t)
      BY <2>2, Zenon DEF id
    <3>3. /\ FilesTyped(With(fs, id, t)) /\ ManifestOK(m, With(fs, id, t))
          /\ id \in DOMAIN With(fs, id, t) /\ With(fs, id, t)[id] = t
          /\ Opened(m, With(fs, id, t)) = Opened(m, fs)
      BY <1>2, <1>3, <3>1, NewFile
    <3>. QED  BY <3>2, <3>3, Zenon DEF c
  <2>. QED  BY <2>1, <2>2, Zenon
<1>6. ManifestOK(b, gs)
  <2>1. \A i \in Level : b.levels[i] \subseteq m.levels[i]
    BY <1>4, Zenon
  <2>2. b.next_sst_id >= m.next_sst_id
    BY <1>3, <1>4 DEF id
  <2>. QED  BY <1>4, <1>5, <2>1, <2>2, FewerFiles, Zenon
<1>7. \A r : r \in Opened(b, gs) <=> r \in c \ R
  <2>1. \A r : r \in Opened(b, gs) <=> r \in Opened(m, gs) /\ r.id \notin InputNumbers(m, l)
    <3>1. \A r : r \in Opened(b, gs) <=>
            \E x \in Listed(b) : x.id \in DOMAIN gs /\ r = ReaderOf(x, gs)
      BY OpenedAre
    <3>2. \A r : r \in Opened(m, gs) <=>
            \E x \in Listed(m) : x.id \in DOMAIN gs /\ r = ReaderOf(x, gs)
      BY OpenedAre
    <3>3. \A x : ReaderOf(x, gs).id = x.id
      BY ReaderOfFacts, Zenon
    <3>. QED  BY <1>4, <3>1, <3>2, <3>3
  <2>. QED  BY <1>1, <1>5, <2>1, Zenon
<1>8. ASSUME t # Empty, NEW x \in b.levels[l + 1]
      PROVE  x.max_key < e.min_key \/ e.max_key < x.min_key
  <2>1. e.min_key \in DOMAIN t /\ e.max_key \in DOMAIN t /\ e.min_key <= e.max_key
    BY <1>2, <1>3, <1>8, EntryOfTable
  <2>. HIDE DEF e
  <2>2. ASSUME NEW k \in DOMAIN t
        PROVE  k \in Nat /\ \E y \in Inputs(m, l) : y.min_key <= k /\ k <= y.max_key
    <3>1. PICK r \in R : k \in DOMAIN r.table
      BY <1>2, <2>2, Zenon
    <3>2. PICK y \in Inputs(m, l) : r = ReaderOf(y, fs)
      BY <3>1, ReadersAre
    <3>3. k \in DOMAIN fs[y.id] /\ y.id \in DOMAIN fs
      BY <3>1, <3>2, ReaderOfFacts, Zenon
    <3>4. y \in Listed(m)
      BY <3>2, InputIds
    <3>5. k \in Nat
      BY <1>2, <2>2, TableFacts, Bounds DEF Key
    <3>. QED  BY <3>2, <3>3, <3>4, <3>5, Zenon DEF ManifestOK
  <2>3. PICK y \in Inputs(m, l) : y.min_key <= e.min_key /\ e.min_key <= y.max_key
    BY <2>1, <2>2, Zenon
  <2>4. PICK z \in Inputs(m, l) : z.min_key <= e.max_key /\ e.max_key <= z.max_key
    BY <2>1, <2>2, Zenon
  <2>5. x \in m.levels[l + 1] /\ x \notin Inputs(m, l)
    BY <1>4, <1>8, EntryFacts, Zenon
  <2>6. e.max_key < x.min_key \/ x.max_key < e.min_key
    BY <2>1, <2>2, <2>3, <2>4, <2>5, InputsApart, Zenon
  <2>. QED  BY <2>6, Zenon
<1>. HIDE DEF e
<1>9. /\ n \in Manifest /\ ManifestOK(n, gs) /\ n.next_sst_id = id + 1
      /\ \A x \in Listed(n) : x.id \notin InputNumbers(m, l)
      /\ \A r : r \in Opened(n, gs) <=> r \in c \ R \/ (r = nr /\ t # Empty)
  <2>1. CASE t = Empty
    <3>1. n = b
      BY <2>1, Zenon DEF b
    <3>. QED  BY <1>4, <1>6, <1>7, <2>1, <3>1, Zenon
  <2>2. CASE t # Empty
    <3>1. n = AddSst(b, SstEntry(id, l + 1, t))
      BY <2>2, Zenon DEF b, id
    <3>2. id < b.next_sst_id
      BY <1>3, <1>4
    <3>3. \A x \in Listed(m) : x.id # id
      BY <1>3, EntryFacts DEF id, ManifestOK
    <3>4. \A x \in Listed(b) : x.id # id
      BY <1>4, <3>3, Zenon
    <3>5. \A x \in b.levels[l + 1] : \/ x.max_key < SstEntry(id, l + 1, t).min_key
                                     \/ SstEntry(id, l + 1, t).max_key < x.min_key
      BY <1>8, <2>2, Zenon DEF e
    <3>6. /\ n \in Manifest /\ ManifestOK(n, gs) /\ n.next_sst_id = id + 1
          /\ Listed(n) = Listed(b) \cup {e}
          /\ Opened(n, gs) = Opened(b, gs) \cup {nr}
      <4>1. id \in DOMAIN gs /\ gs[id] = t /\ FilesTyped(gs)
        BY <1>5, <2>2, Zenon
      <4>2. /\ n \in Manifest /\ ManifestOK(n, gs) /\ n.next_sst_id = b.next_sst_id
            /\ Listed(n) = Listed(b) \cup {SstEntry(id, l + 1, t)}
            /\ Opened(n, gs) = Opened(b, gs) \cup {[id |-> id, level |-> l + 1, table |-> t]}
        <5>1. AlsoLists(n, b, gs, id, l + 1, t)
          BY <1>2, <1>3, <1>4, <1>6, <2>2, <3>1, <3>2, <3>4, <3>5, <4>1, ListFile, ZenonT(20)
        <5>. QED  BY <5>1, Zenon DEF AlsoLists
      <4>. QED  BY <1>4, <4>2, Zenon DEF e, nr
    <3>7. e.id = id /\ id \notin InputNumbers(m, l)
      <4>1. e.id = id
        BY <1>2, <1>3, <2>2, EntryOfTable DEF e
      <4>2. \A x \in Inputs(m, l) : x \in Listed(m)
        BY InputIds
      <4>. QED  BY <3>3, <4>1, <4>2, Zenon DEF InputNumbers
    <3>. QED  BY <1>4, <1>7, <2>2, <3>6, <3>7, Zenon
  <2>. QED  BY <2>1, <2>2, Zenon
<1>10. ASSUME Merged(R) = CacheTable(R) PROVE Same(c, Opened(n, gs))
  <2>1. GoodCache(Opened(n, gs))
    BY <1>5, <1>9, OpenedGood, Zenon
  <2>2. nr.level = l + 1 /\ nr.table = t
    BY Zenon DEF nr
  <2>. HIDE DEF c, nr
  <2>3. PICK d : d = Opened(n, gs)
    BY Zenon
  <2>4. GoodCache(d) /\ \A r : r \in d <=> r \in c \ R \/ (r = nr /\ t # Empty)
    BY <1>9, <2>1, <2>3, Zenon
  <2>5. Same(c, d)
    <3>1. Merging(c, R, l, t, nr, d)
      BY <1>1, <1>3, <1>10, <2>2, <2>4, Zenon DEF Merging
    <3>. QED  BY <3>1, MergingSame, Zenon
  <2>. QED  BY <2>3, <2>5, Zenon
<1>. QED  BY <1>5, <1>9, <1>10, Zenon DEF c, id, Compacts

\* A new file on the first level hides what the cache had for its keys.
LEMMA PushFirst ==
  ASSUME Library, NEW c, NEW d, GoodCache(d), NEW nr, d = c \cup {nr}, nr.level = 0,
         \A r \in d : nr.id >= r.id
  PROVE  \A k : /\ k \in DOMAIN nr.table =>
                     k \in DOMAIN CacheTable(d) /\ Lookup(CacheTable(d), k) = nr.table[k]
                /\ k \notin DOMAIN nr.table =>
                     Lookup(CacheTable(d), k) = Lookup(CacheTable(c), k)
<1>1. /\ GoodCache(c) /\ nr \in d
      /\ \A r \in d : r.level \in Nat /\ r.id \in Nat
  BY ReaderFacts, Zenon DEF GoodCache
<1>2. \A r \in d : Before(nr, r)
  BY <1>1 DEF Before
<1>3. ASSUME NEW k, k \in DOMAIN nr.table
      PROVE  k \in DOMAIN CacheTable(d) /\ Lookup(CacheTable(d), k) = nr.table[k]
  <2>1. FirstIn(d, k, nr)
    BY <1>1, <1>2, <1>3, Zenon DEF FirstIn
  <2>. QED  BY <2>1, CacheHit, Zenon
<1>4. ASSUME NEW k, k \notin DOMAIN nr.table
      PROVE  Lookup(CacheTable(d), k) = Lookup(CacheTable(c), k)
  <2>1. \A r : r \in c /\ k \in DOMAIN r.table <=> r \in d /\ k \in DOMAIN r.table
    BY <1>4, Zenon
  <2>2. CASE \E e \in c : k \in DOMAIN e.table
    <3>1. PICK e : FirstIn(c, k, e)
      BY <1>1, <2>2, HasFirst, Zenon
    <3>2. FirstIn(d, k, e)
      BY <2>1, <3>1, Zenon DEF FirstIn
    <3>. QED  BY <1>1, <3>1, <3>2, CacheHit
  <2>3. CASE ~\E e \in c : k \in DOMAIN e.table
    BY <2>1, <2>3, CacheMiss
  <2>. QED  BY <2>2, <2>3, Zenon
<1>. QED  BY <1>3, <1>4, Zenon

-----------------------------------------------------------------------------
(* The invariant is kept: what a step leaves alone.                        *)

\* Steps that give no number, write no file and end no flush.
Plain(p) == p \notin {"written", "saved", "cached", "merged", "down"}

\* The memtables and the cache as they were: the tree holds what it held.
LEMMA NowFrame ==
  ASSUME active' = active, immutables' = immutables, cache' = cache, pc # "rotated", pc' # "rotated"
  PROVE  Rest' = Rest /\ \A k : Below(k)' = Below(k) /\ Now(k)' = Now(k)
<1>1. Rest' = Rest
  BY Zenon DEF Rest
<1>2. \A k : Below(k)' = Below(k)
  BY <1>1, Zenon DEF Below
<1>3. \A k : Now(k)' = Now(k)
  BY <1>2, Zenon DEF Now
<1>. QED  BY <1>1, <1>2, <1>3, Zenon

\* The files and the cache as they were.
LEMMA DiskFrame ==
  ASSUME LsmInv, pc # "down", Plain(pc'), pc' \in InStep => pc \in InStep,
         UNCHANGED <<manifest, disk_manifest, files, cache>>
  PROVE  /\ ManifestOK(manifest, files)' /\ ManifestOK(disk_manifest, files)'
         /\ Saved' /\ CacheIds'
<1>1. ManifestOK(manifest', files') /\ ManifestOK(disk_manifest', files')
  BY Zenon DEF LsmInv
<1>2. /\ pc' # "written" /\ pc' # "merged" /\ pc' # "down" /\ pc' # "cached" /\ pc' # "saved"
      /\ pc' \notin {"saved", "cached"} /\ pc' \notin {"written", "saved"}
  BY DEF Plain
<1>3. Saved'
  BY <1>2, Zenon DEF LsmInv, Saved
<1>4. CacheIds'
  BY <1>2, Zenon DEF LsmInv, CacheIds
<1>. QED  BY <1>1, <1>3, <1>4, Zenon

\* The log as it was, and no more in memory than before.
LEMMA WalFrame ==
  ASSUME LsmInv, pc # "down", pc # "logged", pc' # "logged", wal' = wal,
         ~damaged' => /\ ~damaged
                      /\ \A k \in DOMAIN active' : k \in DOMAIN active \/ k \in DOMAIN Rest
                      /\ \A k \in DOMAIN Rest' : k \in DOMAIN active \/ k \in DOMAIN Rest
                      /\ \A k : Now(k)' = Now(k)
  PROVE  WalCovers'
<1>1. ASSUME ~damaged'
      PROVE  /\ DOMAIN active' \subseteq DOMAIN Replay(wal) /\ DOMAIN Rest' \subseteq DOMAIN Replay(wal)
             /\ \A k \in DOMAIN Replay(wal) : Visible(Replay(wal)[k]) = Now(k)'
  <2>1. /\ DOMAIN active \subseteq DOMAIN Replay(wal) /\ DOMAIN Rest \subseteq DOMAIN Replay(wal)
        /\ \A k \in DOMAIN Replay(wal) : Visible(Replay(wal)[k]) = Now(k)
    BY <1>1, Zenon DEF LsmInv, WalCovers
  <2>2. DOMAIN active' \subseteq DOMAIN Replay(wal)
    BY <1>1, <2>1, Zenon
  <2>3. DOMAIN Rest' \subseteq DOMAIN Replay(wal)
    BY <1>1, <2>1, Zenon
  <2>. QED  BY <1>1, <2>1, <2>2, <2>3, Zenon
<1>. QED  BY <1>1, Zenon DEF WalCovers

\* The files and the cache as they were, and no fewer keys before them.
LEMMA CacheFrame ==
  ASSUME LsmInv, pc # "down", pc = "deleted" => pc' = "deleted" \/ damaged',
         UNCHANGED <<manifest, disk_manifest, files, cache>>,
         ~damaged' => /\ ~damaged
                      /\ DOMAIN Newest(immutables) \subseteq DOMAIN Newest(immutables')
                      /\ DOMAIN Replay(wal) \subseteq DOMAIN Replay(wal')
  PROVE  CacheOK'
<1>1. ASSUME ~damaged' PROVE SameOn(Key \ DOMAIN Newest(immutables'), cache, Opened(manifest, files))
  <2>1. SameOn(Key \ DOMAIN Newest(immutables), cache, Opened(manifest, files))
    BY <1>1, Zenon DEF LsmInv, CacheOK
  <2>. QED  BY <1>1, <2>1, Zenon DEF SameOn
<1>2. ASSUME ~damaged', pc' # "deleted"
      PROVE  SameOn(Key \ DOMAIN Replay(wal'), cache, Opened(disk_manifest, files))
  <2>1. SameOn(Key \ DOMAIN Replay(wal), cache, Opened(disk_manifest, files))
    BY <1>2, Zenon DEF LsmInv, CacheOK
  <2>. QED  BY <1>2, <2>1, Zenon DEF SameOn
<1>. QED  BY <1>1, <1>2, Zenon DEF CacheOK

\* Once damaged, only the files are spoken of.
LEMMA DamagedFrame ==
  ASSUME damaged'
  PROVE  WalCovers' /\ CacheOK'
  BY Zenon DEF WalCovers, CacheOK

\* Only the place of the writer changes.
LEMMA QuietStep ==
  ASSUME LsmInv, pc # "down", pc # "logged", pc # "rotated", pc' # "logged", pc' # "rotated",
         Plain(pc'), pc' \in InStep => pc \in InStep, pc = "deleted" => damaged', damaged => damaged',
         UNCHANGED <<active, immutables, cache, manifest, disk_manifest, files, wal>>
  PROVE  /\ ManifestOK(manifest, files)' /\ ManifestOK(disk_manifest, files)'
         /\ Saved' /\ CacheIds' /\ WalCovers' /\ CacheOK'
<1>1. Rest' = Rest /\ \A k : Now(k)' = Now(k)
  BY NowFrame, Zenon
<1>2. WalCovers'
  BY <1>1, WalFrame, Zenon
<1>3. CacheOK'
  BY CacheFrame, Zenon
<1>. QED  BY <1>2, <1>3, DiskFrame, Zenon

-----------------------------------------------------------------------------
(* The invariant is kept: put, delete and the memtables.                   *)

\* What WalWriter::append does to the log, for a replay of all of it.
LEMMA LogsFacts ==
  ASSUME Library, LsmInv, NEW o \in Operation, Logs(o)
  PROVE  /\ wal' \in Seq(Operation) /\ readable' \in Seq(Operation)
         /\ Replay(wal') = With(Replay(wal), o.key, o.cell)
<1>1. wal' = Append(wal, o) /\ wal \in Seq(Operation) /\ readable \in Seq(Operation)
  BY Zenon DEF Logs, LsmInv, LsmTypes
<1>2. wal' \in Seq(Operation) /\ Replay(wal') = With(Replay(wal), o.key, o.cell)
  BY <1>1, ReplayAppend
<1>3. Append(readable, o) \in Seq(Operation)
  BY <1>1
<1>. QED  BY <1>1, <1>2, <1>3, Zenon DEF Logs

\* put and delete append to the log: it is now one operation ahead of the memtable.
LEMMA LogOpInv ==
  ASSUME Library, LsmInv, NEW k \in Key, NEW cell \in Cell, LogOp(k, cell)
  PROVE  LsmInv'
<1>1. op' \in Operation /\ op'.key = k /\ op'.cell = cell /\ Logs(op')
  BY Zenon DEF LogOp, Operation
<1>2. PICK o \in Operation : o = op'
  BY <1>1, Zenon
<1>3. /\ wal' \in Seq(Operation) /\ readable' \in Seq(Operation)
      /\ Replay(wal') = With(Replay(wal), k, cell)
  BY <1>1, <1>2, LogsFacts, Zenon
<1>4. /\ pc = "idle" /\ pc' = "logged" /\ damaged' = damaged
      /\ UNCHANGED <<active, immutables, frozen, cache, manifest, disk_manifest, files>>
  BY Zenon DEF LogOp, tree, disk
<1>5. LsmTypes'
  BY <1>1, <1>3, <1>4, Zenon DEF LsmInv, LsmTypes
<1>6. OneFlush'
  BY <1>1, <1>4 DEF LsmInv, OneFlush, Flushing, Flushed
<1>7. DOMAIN Replay(wal') = DOMAIN Replay(wal) \cup {k}
  BY <1>3, Zenon DEF With
<1>8. \A x \in DOMAIN Replay(wal') : Replay(wal')[x] = IF x = k THEN cell ELSE Replay(wal)[x]
  BY <1>3, <1>7, Zenon DEF With
<1>9. WalCovers'
  <2>1. Rest' = Rest /\ \A x : Now(x)' = Now(x)
    BY <1>4, NowFrame
  <2>2. ASSUME ~damaged
        PROVE  /\ DOMAIN active \subseteq DOMAIN Replay(wal) /\ DOMAIN Rest \subseteq DOMAIN Replay(wal)
               /\ \A x \in DOMAIN Replay(wal) : Visible(Replay(wal)[x]) = Now(x)
    BY <1>4, <2>2 DEF LsmInv, WalCovers
  <2>3. ASSUME ~damaged, NEW x \in DOMAIN Replay(wal')
        PROVE  Visible(Replay(wal')[x]) = IF x = k THEN Visible(cell) ELSE Now(x)
    BY <1>7, <1>8, <2>2, <2>3, Zenon
  <2>. QED  BY <1>1, <1>4, <1>7, <2>1, <2>2, <2>3, Zenon DEF WalCovers
<1>10. CacheOK'
  <2>1. pc # "down" /\ pc # "deleted"
    BY <1>4
  <2>. QED  BY <1>4, <1>7, <2>1, CacheFrame, Zenon
<1>11. /\ ManifestOK(manifest, files)' /\ ManifestOK(disk_manifest, files)' /\ Saved' /\ CacheIds'
  <2>1. pc # "down" /\ Plain(pc') /\ pc' \notin InStep
    BY <1>4 DEF Plain, InStep
  <2>. QED  BY <1>4, <2>1, DiskFrame, Zenon
<1>. QED  BY <1>5, <1>6, <1>9, <1>10, <1>11, Zenon DEF LsmInv

\* put and delete fail at the log: nothing is in memory, and a whole record is damage.
LEMMA LogFailsInv ==
  ASSUME Library, LsmInv, NEW k \in Key, NEW cell \in Cell, LogFails(k, cell)
  PROVE  LsmInv'
<1>1. /\ pc = "idle" /\ pc' = pc /\ op' = op
      /\ UNCHANGED <<active, immutables, frozen, cache, manifest, disk_manifest, files>>
  BY Zenon DEF LogFails, tree, disk
<1>2. \/ wal' = wal /\ readable' = readable /\ damaged' = damaged
      \/ damaged' = TRUE /\ wal' \in Seq(Operation) /\ readable' \in Seq(Operation)
  <2>1. [key |-> k, cell |-> cell] \in Operation
    BY DEF Operation
  <2>2. CASE Logs([key |-> k, cell |-> cell]) /\ damaged' = TRUE
    BY <2>1, <2>2, LogsFacts, Zenon
  <2>. QED  BY <2>2, Zenon DEF LogFails
<1>3. LsmTypes'
  BY <1>1, <1>2, Zenon DEF LsmInv, LsmTypes
<1>4. OneFlush'
  BY <1>1 DEF LsmInv, OneFlush, Flushing, Flushed
<1>5. pc # "down" /\ pc # "logged" /\ pc # "rotated" /\ pc # "deleted" /\ Plain(pc')
  BY <1>1 DEF Plain
<1>6. /\ ManifestOK(manifest, files)' /\ ManifestOK(disk_manifest, files)' /\ Saved' /\ CacheIds'
  BY <1>1, <1>5, DiskFrame, Zenon
<1>7. WalCovers' /\ CacheOK'
  <2>1. CASE damaged'
    BY <2>1, DamagedFrame
  <2>2. CASE ~damaged'
    <3>1. wal' = wal /\ damaged' = damaged
      BY <1>2, <2>2, Zenon
    <3>. QED  BY <1>1, <1>5, <3>1, QuietStep, Zenon
  <2>. QED  BY <2>1, <2>2, Zenon
<1>. QED  BY <1>3, <1>4, <1>6, <1>7, Zenon DEF LsmInv

\* put and delete write the memtable: the log and the memtable agree again.
LEMMA WriteMemtableInv ==
  ASSUME Library, LsmInv, WriteMemtable
  PROVE  LsmInv'
<1>1. /\ op \in Operation /\ active \in Table /\ active' = With(active, op.key, op.cell)
      /\ pc' \in {"full", "idle"} /\ pc = "logged" /\ op' \in Operation \cup {NoOp}
      /\ damaged' = damaged /\ wal' = wal /\ readable' = readable
      /\ UNCHANGED <<immutables, frozen, cache, manifest, disk_manifest, files>>
  BY DEF WriteMemtable, LsmInv, LsmTypes, OneFlush, disk, log
<1>2. active' \in Table /\ active' # Empty
  <2>1. op.key \in Key /\ op.cell \in Cell /\ active \in Table
    BY <1>1, Zenon DEF Operation
  <2>2. With(active, op.key, op.cell) \in Table /\ With(active, op.key, op.cell) # Empty
    <3>1. \A t \in Table, k \in Key, c \in Cell : With(t, k, c) \in Table /\ With(t, k, c) # Empty
      BY WithTable, Zenon
    <3>. QED  BY <2>1, <3>1, Zenon
  <2>. QED  BY <1>1, <2>2, Zenon
<1>3. LsmTypes'
  BY <1>1, <1>2, Zenon DEF LsmInv, LsmTypes
<1>4. OneFlush'
  BY <1>1, <1>2 DEF LsmInv, OneFlush, Flushing, Flushed
<1>5. /\ pc # "down" /\ pc # "deleted" /\ pc # "rotated" /\ pc' # "rotated" /\ pc' # "logged"
      /\ pc' \notin InStep /\ Plain(pc')
  BY <1>1 DEF Plain, InStep
<1>6. WalCovers'
  <2>1. Rest' = Rest
    BY <1>1, <1>5, Zenon DEF Rest
  <2>2. \A k : Below(k)' = Below(k)
    BY <1>1, <2>1, Zenon DEF Below
  <2>3. \A k : /\ k \in DOMAIN active' <=> k = op.key \/ k \in DOMAIN active
               /\ k \in DOMAIN active' => active'[k] = IF k = op.key THEN op.cell ELSE active[k]
    BY <1>1, Zenon DEF With
  <2>4. \A k : Now(k)' = IF k = op.key THEN Visible(op.cell) ELSE Now(k)
    BY <2>2, <2>3, Zenon DEF Now
  <2>5. ASSUME ~damaged
        PROVE  /\ DOMAIN active \subseteq DOMAIN Replay(wal) /\ DOMAIN Rest \subseteq DOMAIN Replay(wal)
               /\ op.key \in DOMAIN Replay(wal)
               /\ \A k \in DOMAIN Replay(wal) :
                    Visible(Replay(wal)[k]) = IF k = op.key THEN Visible(op.cell) ELSE Now(k)
    BY <1>1, <1>5, <2>5, Zenon DEF LsmInv, WalCovers
  <2>6. ASSUME ~damaged PROVE DOMAIN active' \subseteq DOMAIN Replay(wal)
    BY <2>3, <2>5, <2>6, Zenon
  <2>. QED  BY <1>1, <1>5, <2>1, <2>4, <2>5, <2>6, Zenon DEF WalCovers
<1>7. CacheOK'
  BY <1>1, <1>5, CacheFrame, Zenon
<1>8. /\ ManifestOK(manifest, files)' /\ ManifestOK(disk_manifest, files)' /\ Saved' /\ CacheIds'
  BY <1>1, <1>5, DiskFrame, Zenon
<1>. QED  BY <1>3, <1>4, <1>6, <1>7, <1>8, Zenon DEF LsmInv

\* LsmTree::flush begins with a memtable that is not empty.
LEMMA FlushInv ==
  ASSUME LsmInv, Flush
  PROVE  LsmInv'
<1>1. /\ pc = "idle" /\ pc' = "full" /\ damaged' = damaged /\ wal' = wal /\ active # Empty
      /\ readable' = readable /\ op' = op
      /\ UNCHANGED <<active, immutables, frozen, cache, manifest, disk_manifest, files>>
  BY Zenon DEF Flush, tree, disk, log
<1>2. LsmTypes'
  BY <1>1, Zenon DEF LsmInv, LsmTypes
<1>3. OneFlush'
  BY <1>1 DEF LsmInv, OneFlush, Flushing, Flushed
<1>4. /\ pc # "down" /\ pc # "logged" /\ pc # "rotated" /\ pc' # "logged" /\ pc' # "rotated"
      /\ Plain(pc') /\ pc' \notin InStep /\ pc # "deleted"
  BY <1>1 DEF Plain, InStep
<1>5. /\ ManifestOK(manifest, files)' /\ ManifestOK(disk_manifest, files)'
      /\ Saved' /\ CacheIds' /\ WalCovers' /\ CacheOK'
  BY <1>1, <1>4, QuietStep, Zenon
<1>. QED  BY <1>2, <1>3, <1>5, Zenon DEF LsmInv

\* flush_memtable rotates: the cells go from the active memtable to the frozen one.
LEMMA RotateNow ==
  ASSUME Rotate
  PROVE  /\ \A k : k \in DOMAIN Rest' <=> k \in DOMAIN active \/ k \in DOMAIN Rest
         /\ \A k : Below(k)' = Now(k) /\ Now(k)' = Now(k)
<1>1. /\ pc = "full" /\ pc # "rotated" /\ pc' = "rotated" /\ active' = Empty /\ frozen' = active
      /\ cache' = cache /\ immutables' = immutables
  BY DEF Rotate
<1>2. Rest' = Over(active, Newest(immutables)) /\ Rest = Over(Empty, Newest(immutables))
  BY <1>1, Zenon DEF Rest
<1>3. PICK n : n = Newest(immutables)
  BY Zenon
<1>4. ASSUME NEW k
      PROVE  /\ k \in DOMAIN Rest' <=> k \in DOMAIN active \/ k \in DOMAIN n
             /\ k \in DOMAIN Rest' => Rest'[k] = IF k \in DOMAIN active THEN active[k] ELSE n[k]
             /\ k \in DOMAIN Rest <=> k \in DOMAIN n
             /\ k \in DOMAIN Rest => Rest[k] = n[k]
  BY <1>2, <1>3, EmptyTable, Zenon DEF Over
<1>5. \A k : k \notin DOMAIN active'
  BY <1>1, EmptyTable, Zenon
<1>6. \A k : Below(k)' = Now(k)
  BY <1>1, <1>4, Zenon DEF Below, Now
<1>7. \A k : Now(k)' = Below(k)'
  BY <1>5, Zenon DEF Now
<1>. QED  BY <1>4, <1>6, <1>7, Zenon

\* flush_memtable swaps in an empty memtable: the log has what the old one had.
LEMMA RotateInv ==
  ASSUME LsmInv, Rotate
  PROVE  LsmInv'
<1>1. /\ pc = "full" /\ pc' = "rotated" /\ damaged' = damaged /\ wal' = wal /\ readable' = readable
      /\ active' = Empty /\ frozen' = active /\ op' = op
      /\ UNCHANGED <<immutables, cache, manifest, disk_manifest, files>>
  BY Zenon DEF Rotate, disk, log
<1>2. LsmTypes'
  BY <1>1, EmptyTable, Zenon DEF LsmInv, LsmTypes
<1>3. OneFlush'
  BY <1>1 DEF LsmInv, OneFlush, Flushing, Flushed
<1>4. /\ pc # "down" /\ pc # "logged" /\ pc' # "logged" /\ Plain(pc') /\ pc' \notin InStep
      /\ pc # "deleted"
  BY <1>1 DEF Plain, InStep
<1>5. WalCovers'
  <2>1. \A k \in DOMAIN active' : k \in DOMAIN active \/ k \in DOMAIN Rest
    BY <1>1, EmptyTable, Zenon
  <2>2. \A k \in DOMAIN Rest' : k \in DOMAIN active \/ k \in DOMAIN Rest
    BY RotateNow, Zenon
  <2>3. \A k : Now(k)' = Now(k)
    BY RotateNow, Zenon
  <2>. QED  BY <1>1, <1>4, <2>1, <2>2, <2>3, WalFrame, Zenon
<1>6. CacheOK'
  BY <1>1, <1>4, CacheFrame, Zenon
<1>7. /\ ManifestOK(manifest, files)' /\ ManifestOK(disk_manifest, files)' /\ Saved' /\ CacheIds'
  BY <1>1, <1>4, DiskFrame, Zenon
<1>. QED  BY <1>2, <1>3, <1>5, <1>6, <1>7, Zenon DEF LsmInv

\* flush_memtable lists the old memtable among the immutable ones: before them as it was.
LEMMA PushImmutableNow ==
  ASSUME Library, LsmInv, PushImmutable
  PROVE  /\ immutables' \in Seq(Table) /\ Rest' = Rest
         /\ DOMAIN Newest(immutables) \subseteq DOMAIN Newest(immutables')
         /\ \A k : Below(k)' = Below(k) /\ Now(k)' = Now(k)
<1>1. /\ pc = "rotated" /\ pc' # "rotated" /\ immutables' = Append(immutables, frozen)
      /\ active' = active /\ cache' = cache /\ frozen' = frozen
  BY DEF PushImmutable
<1>2. immutables \in Seq(Table) /\ frozen \in Table
  BY Zenon DEF LsmInv, LsmTypes
<1>3. immutables' \in Seq(Table)
  BY <1>1, <1>2
<1>4. PICK n : n = Over(frozen, Newest(immutables))
  BY Zenon
<1>5. Newest(immutables') = n /\ Rest = n /\ Rest' = Over(Empty, n)
  BY <1>1, <1>2, <1>4, NewestAppend, Zenon DEF Rest
<1>6. Over(Empty, n) = n
  <2>1. Over(Empty, n) = [k \in DOMAIN n |-> n[k]]
    BY EmptyTable, Zenon DEF Over
  <2>2. n = [k \in DOMAIN n |-> n[k]]
    BY <1>4, Zenon DEF Over
  <2>. QED  BY <2>1, <2>2, Zenon
<1>7. Rest' = Rest
  BY <1>5, <1>6, Zenon
<1>8. DOMAIN Newest(immutables) \subseteq DOMAIN Newest(immutables')
  BY <1>4, <1>5, Zenon DEF Over
<1>9. \A k : Below(k)' = Below(k)
  BY <1>1, <1>7, Zenon DEF Below
<1>10. \A k : Now(k)' = Now(k)
  BY <1>1, <1>9, Zenon DEF Now
<1>. QED  BY <1>3, <1>7, <1>8, <1>9, <1>10, Zenon

\* flush_memtable lists the old memtable among the immutable ones.
LEMMA PushImmutableInv ==
  ASSUME Library, LsmInv, PushImmutable
  PROVE  LsmInv'
<1>1. /\ pc = "rotated" /\ pc' = "pushed" /\ damaged' = damaged /\ wal' = wal /\ readable' = readable
      /\ immutables' = Append(immutables, frozen) /\ op' = op
      /\ UNCHANGED <<active, frozen, cache, manifest, disk_manifest, files>>
  BY Zenon DEF PushImmutable, disk, log
<1>2. LsmTypes'
  BY <1>1, PushImmutableNow, Zenon DEF LsmInv, LsmTypes
<1>3. OneFlush'
  <2>1. immutables \in Seq(Table)
    BY Zenon DEF LsmInv, LsmTypes
  <2>2. immutables' # <<>> /\ immutables'[Len(immutables')] = frozen
    BY <1>1, <2>1
  <2>. QED  BY <1>1, <2>2 DEF LsmInv, OneFlush, Flushing, Flushed
<1>4. /\ pc # "down" /\ pc # "logged" /\ pc' # "logged" /\ Plain(pc') /\ pc' \notin InStep
      /\ pc # "deleted"
  BY <1>1 DEF Plain, InStep
<1>5. Rest' = Rest /\ \A k : Now(k)' = Now(k)
  BY PushImmutableNow, Zenon
<1>6. WalCovers'
  BY <1>1, <1>4, <1>5, WalFrame, Zenon
<1>7. CacheOK'
  BY <1>1, <1>4, PushImmutableNow, CacheFrame, Zenon
<1>8. /\ ManifestOK(manifest, files)' /\ ManifestOK(disk_manifest, files)' /\ Saved' /\ CacheIds'
  BY <1>1, <1>4, DiskFrame, Zenon
<1>. QED  BY <1>2, <1>3, <1>6, <1>7, <1>8, Zenon DEF LsmInv

-----------------------------------------------------------------------------
(* The invariant is kept: a flush writes a file, saves it and caches it.   *)

\* next_sst_filename: a number that no listed file has, with a file or without.
GivesNumber(fs) ==
  /\ manifest' = [manifest EXCEPT !.next_sst_id = @ + 1]
  /\ fs = files \/ \E t \in Table : fs = With(files, manifest.next_sst_id, t)

\* What it changes: nothing that is listed.
LEMMA NumberGiven ==
  ASSUME LsmInv, pc # "down", GivesNumber(files'), disk_manifest' = disk_manifest
  PROVE  /\ manifest' \in Manifest /\ FilesTyped(files')
         /\ manifest'.next_sst_id = manifest.next_sst_id + 1 /\ manifest.next_sst_id \in Nat
         /\ disk_manifest.next_sst_id \in Nat /\ disk_manifest.next_sst_id <= manifest.next_sst_id
         /\ Listed(manifest') = Listed(manifest)
         /\ \A e \in Listed(manifest) : e.id < manifest.next_sst_id /\ e.id \in Nat
         /\ ManifestOK(manifest', files') /\ ManifestOK(disk_manifest, files')
         /\ Opened(manifest', files') = Opened(manifest, files)
         /\ Opened(disk_manifest, files') = Opened(disk_manifest, files)
<1>1. /\ manifest \in Manifest /\ disk_manifest \in Manifest /\ FilesTyped(files)
      /\ ManifestOK(manifest, files) /\ ManifestOK(disk_manifest, files)
      /\ disk_manifest.next_sst_id <= manifest.next_sst_id
  BY Zenon DEF LsmInv, LsmTypes, Saved
<1>2. PICK id : id = manifest.next_sst_id
  BY Zenon
<1>3. id \in Nat /\ id >= manifest.next_sst_id /\ id >= disk_manifest.next_sst_id
      /\ disk_manifest.next_sst_id \in Nat
  BY <1>1, <1>2, EntryFacts
<1>4. /\ FilesTyped(files')
      /\ Opened(manifest, files') = Opened(manifest, files) /\ ManifestOK(manifest, files')
      /\ Opened(disk_manifest, files') = Opened(disk_manifest, files) /\ ManifestOK(disk_manifest, files')
  <2>1. CASE files' = files
    BY <1>1, <2>1, Zenon
  <2>2. CASE files' # files
    <3>1. PICK t \in Table : files' = With(files, id, t)
      BY <1>2, <2>2, Zenon DEF GivesNumber
    <3>2. /\ FilesTyped(files')
          /\ Opened(manifest, files') = Opened(manifest, files) /\ ManifestOK(manifest, files')
      BY <1>1, <1>3, <3>1, NewFile, Zenon
    <3>3. Opened(disk_manifest, files') = Opened(disk_manifest, files) /\ ManifestOK(disk_manifest, files')
      BY <1>1, <1>3, <3>1, NewFile, Zenon
    <3>. QED  BY <3>2, <3>3, Zenon
  <2>. QED  BY <2>1, <2>2, Zenon
<1>5. manifest' = [manifest EXCEPT !.next_sst_id = @ + 1]
  BY Zenon DEF GivesNumber
<1>6. /\ manifest' \in Manifest /\ manifest'.next_sst_id = manifest.next_sst_id + 1
      /\ Listed(manifest') = Listed(manifest)
      /\ ManifestOK(manifest', files') /\ Opened(manifest', files') = Opened(manifest, files')
  BY <1>1, <1>4, <1>5, Counted
<1>7. \A e \in Listed(manifest) : e.id < manifest.next_sst_id /\ e.id \in Nat
  BY <1>1, EntryFacts, Zenon DEF ManifestOK
<1>. QED  BY <1>1, <1>2, <1>3, <1>4, <1>6, <1>7, Zenon

\* The cache is as sound after it as before.
LEMMA NumberGivenCache ==
  ASSUME LsmInv, pc # "down", pc # "deleted", GivesNumber(files'),
         UNCHANGED <<disk_manifest, cache, immutables, wal, damaged>>
  PROVE  /\ CacheOK'
         /\ disk_manifest'.next_sst_id <= manifest'.next_sst_id
         /\ \A e \in cache' : e.id < manifest'.next_sst_id /\ e.id < manifest'.next_sst_id - 1
<1>1. /\ Opened(manifest', files') = Opened(manifest, files)
      /\ Opened(disk_manifest, files') = Opened(disk_manifest, files)
      /\ manifest'.next_sst_id = manifest.next_sst_id + 1 /\ manifest.next_sst_id \in Nat
      /\ disk_manifest.next_sst_id \in Nat /\ disk_manifest.next_sst_id <= manifest.next_sst_id
  BY NumberGiven, Zenon
<1>2. CacheOK'
  BY <1>1, Zenon DEF LsmInv, CacheOK
<1>3. \A e \in cache : e.id < manifest.next_sst_id /\ e.id \in Nat
  BY ReaderFacts, Zenon DEF LsmInv, LsmTypes, CacheIds, GoodCache
<1>. QED  BY <1>1, <1>2, <1>3

\* flush_memtable writes a file with a number that no listed file has.
LEMMA WriteSstInv ==
  ASSUME LsmInv, WriteSst
  PROVE  LsmInv'
<1>1. /\ pc = "pushed" /\ pc' = "written" /\ damaged' = damaged /\ wal' = wal /\ readable' = readable
      /\ files' = With(files, manifest.next_sst_id, frozen) /\ op' = op
      /\ manifest' = [manifest EXCEPT !.next_sst_id = @ + 1]
      /\ UNCHANGED <<active, immutables, frozen, cache, disk_manifest>>
  BY Zenon DEF WriteSst, tree, log
<1>2. GivesNumber(files') /\ frozen \in Table
  BY <1>1, Zenon DEF GivesNumber, LsmInv, LsmTypes
<1>3. /\ pc # "down" /\ pc # "deleted" /\ pc # "logged" /\ pc' # "logged" /\ pc # "rotated"
      /\ pc' # "rotated"
  BY <1>1
<1>4. /\ manifest' \in Manifest /\ FilesTyped(files')
      /\ manifest'.next_sst_id - 1 = manifest.next_sst_id
      /\ ManifestOK(manifest', files') /\ ManifestOK(disk_manifest', files')
      /\ \A e \in Listed(manifest') : e.id < manifest.next_sst_id
  <2>1. manifest'.next_sst_id = manifest.next_sst_id + 1 /\ manifest.next_sst_id \in Nat
    BY <1>1, <1>2, <1>3, NumberGiven, Zenon
  <2>2. manifest'.next_sst_id - 1 = manifest.next_sst_id
    BY <2>1
  <2>. QED  BY <1>1, <1>2, <1>3, <2>2, NumberGiven, Zenon
<1>5. LsmTypes'
  BY <1>1, <1>4, Zenon DEF LsmInv, LsmTypes
<1>6. OneFlush'
  BY <1>1 DEF LsmInv, OneFlush, Flushing, Flushed
<1>7. Rest' = Rest /\ \A k : Now(k)' = Now(k)
  BY <1>1, <1>3, NowFrame, Zenon
<1>8. WalCovers'
  BY <1>1, <1>3, <1>7, WalFrame, Zenon
<1>9. CacheOK'
  BY <1>1, <1>2, <1>3, NumberGivenCache, Zenon
<1>10. CacheIds'
  <2>1. \A e \in cache' : e.id < manifest'.next_sst_id /\ e.id < manifest'.next_sst_id - 1
    BY <1>1, <1>2, <1>3, NumberGivenCache, Zenon
  <2>2. pc' # "cached"
    BY <1>1
  <2>. QED  BY <2>1, <2>2, Zenon DEF CacheIds
<1>11. Saved'
  <2>1. /\ manifest'.next_sst_id - 1 \in DOMAIN files' /\ files'[manifest'.next_sst_id - 1] = frozen'
    <3>1. manifest.next_sst_id \in DOMAIN files' /\ files'[manifest.next_sst_id] = frozen
      BY <1>1, Zenon DEF With
    <3>. QED  BY <1>1, <1>4, <3>1, Zenon
  <2>2. pc' \notin InStep /\ pc' \notin {"saved", "cached"} /\ pc' # "merged"
    BY <1>1 DEF InStep
  <2>3. disk_manifest'.next_sst_id <= manifest'.next_sst_id
    BY <1>1, <1>2, <1>3, NumberGivenCache, Zenon
  <2>. QED  BY <1>4, <2>1, <2>2, <2>3, Zenon DEF Saved
<1>. QED  BY <1>4, <1>5, <1>6, <1>8, <1>9, <1>10, <1>11, Zenon DEF LsmInv

\* The memtable that is being flushed comes first among the immutable ones.
LEMMA NewestIsFrozen ==
  ASSUME LsmInv, pc \in Flushing \ {"rotated"}
  PROVE  \A k \in DOMAIN frozen : /\ k \in DOMAIN Newest(immutables) /\ Newest(immutables)[k] = frozen[k]
                                  /\ k \in DOMAIN Rest /\ Rest[k] = frozen[k]
<1>1. immutables \in Seq(Table) /\ immutables # <<>> /\ immutables[Len(immutables)] = frozen
  BY Zenon DEF LsmInv, LsmTypes, OneFlush
<1>2. \A k \in DOMAIN immutables[Len(immutables)] :
        /\ k \in DOMAIN Newest(immutables)
        /\ Newest(immutables)[k] = immutables[Len(immutables)][k]
  BY <1>1, NewestFacts
<1>3. pc # "rotated"
  OBVIOUS
<1>. QED  BY <1>1, <1>2, <1>3, RestIs, Zenon

\* add_sstable lists the new file: it comes first, and hides nothing but its own keys.
LEMMA ListNew ==
  ASSUME Library, LsmInv, pc = "written",
         NEW m, m = AddSst(manifest, SstEntry(manifest.next_sst_id - 1, 0, frozen))
  PROVE  /\ m \in Manifest /\ m.next_sst_id = manifest.next_sst_id /\ ManifestOK(m, files)
         /\ NewReader \in Opened(m, files)
         /\ \A k : k \notin DOMAIN frozen =>
              Lookup(CacheTable(Opened(m, files)), k) = Lookup(CacheTable(Opened(manifest, files)), k)
<1>1. /\ manifest \in Manifest /\ FilesTyped(files) /\ ManifestOK(manifest, files)
      /\ frozen \in Table
  BY Zenon DEF LsmInv, LsmTypes
<1>2. PICK id : id = manifest.next_sst_id - 1
  BY Zenon
<1>3. /\ id \in DOMAIN files /\ files[id] = frozen
      /\ \A e \in Listed(manifest) : e.id < id
  BY <1>2, Zenon DEF LsmInv, Saved
<1>4. frozen # Empty
  BY DEF LsmInv, OneFlush, Flushing
<1>5. id \in Nat /\ id < manifest.next_sst_id /\ manifest.next_sst_id \in Nat
  BY <1>1, <1>2, <1>3, EntryFacts DEF FilesTyped
<1>6. \A e \in Listed(manifest) : e.id # id /\ e.id \in Nat
  BY <1>1, <1>3, <1>5, EntryFacts
<1>7. 0 \in Level
  BY LevelFacts
<1>8. AlsoLists(m, manifest, files, id, 0, frozen)
  <2>1. m = AddSst(manifest, SstEntry(id, 0, frozen))
    BY <1>2, Zenon
  <2>. QED  BY <1>1, <1>3, <1>4, <1>5, <1>6, <1>7, <2>1, ListFile, ZenonT(20)
<1>9. NewReader = [id |-> id, level |-> 0, table |-> frozen]
  BY <1>2, Zenon DEF NewReader
<1>10. /\ m \in Manifest /\ m.next_sst_id = manifest.next_sst_id /\ ManifestOK(m, files)
       /\ Opened(m, files) = Opened(manifest, files) \cup {NewReader}
  BY <1>8, <1>9, Zenon DEF AlsoLists
<1>11. GoodCache(Opened(m, files))
  BY <1>1, <1>10, OpenedGood, Zenon
<1>12. NewReader.level = 0 /\ NewReader.table = frozen /\ NewReader.id = id
  BY <1>9, Zenon
<1>13. \A r \in Opened(m, files) : NewReader.id >= r.id
  <2>1. \A r \in Opened(manifest, files) : r.id < id /\ r.id \in Nat
    BY <1>3, <1>6, OpenedAre, ReaderOfFacts
  <2>2. \A r \in Opened(m, files) : r \in Opened(manifest, files) \/ r = NewReader
    BY <1>10, Zenon
  <2>. QED  BY <1>5, <1>12, <2>1, <2>2
<1>14. \A k : k \notin DOMAIN NewReader.table =>
         Lookup(CacheTable(Opened(m, files)), k) = Lookup(CacheTable(Opened(manifest, files)), k)
  <2>1. PICK d : d = Opened(m, files)
    BY Zenon
  <2>2. PICK c : c = Opened(manifest, files)
    BY Zenon
  <2>3. PICK nr : nr = NewReader
    BY Zenon
  <2>4. d = c \cup {nr} /\ GoodCache(d) /\ nr.level = 0 /\ \A r \in d : nr.id >= r.id
    BY <1>10, <1>11, <1>12, <1>13, <2>1, <2>2, <2>3, Zenon
  <2>5. \A k : k \notin DOMAIN nr.table => Lookup(CacheTable(d), k) = Lookup(CacheTable(c), k)
    BY <2>4, PushFirst
  <2>. QED  BY <2>1, <2>2, <2>3, <2>5, Zenon
<1>. QED  BY <1>10, <1>12, <1>14, Zenon

\* What the files listed in memory hold, when the new one is among them.
LEMMA ListNewSame ==
  ASSUME Library, LsmInv, pc = "written", ~damaged,
         NEW m, m = AddSst(manifest, SstEntry(manifest.next_sst_id - 1, 0, frozen))
  PROVE  SameOn(Key \ DOMAIN Newest(immutables), cache, Opened(m, files))
<1>1. SameOn(Key \ DOMAIN Newest(immutables), cache, Opened(manifest, files))
  BY Zenon DEF LsmInv, CacheOK
<1>2. pc \in Flushing \ {"rotated"}
  BY DEF Flushing
<1>3. \A k : k \notin DOMAIN Newest(immutables) => k \notin DOMAIN frozen
  BY <1>2, NewestIsFrozen, Zenon
<1>4. \A k : k \notin DOMAIN frozen =>
        Lookup(CacheTable(Opened(m, files)), k) = Lookup(CacheTable(Opened(manifest, files)), k)
  BY ListNew, Zenon
<1>. QED  BY <1>1, <1>3, <1>4, Zenon DEF SameOn

\* flush_memtable lists the new file at level 0, within its bounds, and saves.
LEMMA SaveManifestInv ==
  ASSUME Library, LsmInv, SaveManifest
  PROVE  LsmInv'
<1>1. /\ pc = "written" /\ pc' = "saved" /\ damaged' = damaged /\ wal' = wal /\ readable' = readable
      /\ op' = op /\ manifest' = AddSst(manifest, SstEntry(manifest.next_sst_id - 1, 0, frozen))
      /\ disk_manifest' = manifest' /\ files' = files
      /\ UNCHANGED <<active, immutables, frozen, cache>>
  BY Zenon DEF SaveManifest, tree, log
<1>2. /\ manifest' \in Manifest /\ manifest'.next_sst_id = manifest.next_sst_id
      /\ ManifestOK(manifest', files) /\ NewReader \in Opened(manifest', files)
  BY <1>1, ListNew, Zenon
<1>3. LsmTypes'
  BY <1>1, <1>2, Zenon DEF LsmInv, LsmTypes
<1>4. OneFlush'
  BY <1>1 DEF LsmInv, OneFlush, Flushing, Flushed
<1>5. /\ pc # "down" /\ pc # "logged" /\ pc # "rotated" /\ pc' # "logged" /\ pc' # "rotated"
      /\ pc' # "cached" /\ pc' # "written" /\ pc' # "merged" /\ pc' # "down"
  BY <1>1
<1>6. Rest' = Rest /\ \A k : Now(k)' = Now(k)
  BY <1>1, <1>5, NowFrame, Zenon
<1>7. WalCovers'
  BY <1>1, <1>5, <1>6, WalFrame, Zenon
<1>8. CacheIds'
  <2>1. \A e \in cache : e.id < manifest.next_sst_id /\ e.id < manifest.next_sst_id - 1
    BY <1>1 DEF LsmInv, CacheIds
  <2>. QED  BY <1>1, <1>2, <1>5, <2>1, Zenon DEF CacheIds
<1>9. Saved'
  <2>1. NewReader' = NewReader
    BY <1>1, <1>2, Zenon DEF NewReader
  <2>2. disk_manifest'.next_sst_id <= manifest'.next_sst_id
    BY <1>1, <1>2, EntryFacts
  <2>. QED  BY <1>1, <1>2, <1>5, <2>1, <2>2, Zenon DEF Saved
<1>10. CacheOK'
  <2>1. ASSUME ~damaged' PROVE SameOn(Key \ DOMAIN Newest(immutables), cache, Opened(manifest', files))
    BY <1>1, <2>1, ListNewSame, Zenon
  <2>2. ASSUME ~damaged' PROVE DOMAIN Newest(immutables) \subseteq DOMAIN Replay(wal)
    <3>1. DOMAIN Rest \subseteq DOMAIN Replay(wal)
      BY <1>1, <1>5, <2>2, Zenon DEF LsmInv, WalCovers
    <3>. QED  BY <3>1, RestIs, Zenon
  <2>3. ASSUME ~damaged' PROVE SameOn(Key \ DOMAIN Replay(wal), cache, Opened(manifest', files))
    BY <2>1, <2>2, <2>3, Zenon DEF SameOn
  <2>. QED  BY <1>1, <2>1, <2>3, Zenon DEF CacheOK
<1>. QED  BY <1>1, <1>2, <1>3, <1>4, <1>7, <1>8, <1>9, <1>10, Zenon DEF LsmInv

\* A reader that has the greatest number of a cache: it comes first.
LEMMA NewestFirst ==
  ASSUME Library, LsmInv, NEW c, GoodCache(c), NewReader \in c,
         \A e \in c : e.id < manifest.next_sst_id
  PROVE  \A k \in DOMAIN frozen : Lookup(CacheTable(c), k) = frozen[k]
<1>1. manifest.next_sst_id \in Nat
  BY EntryFacts, Zenon DEF LsmInv, LsmTypes
<1>2. NewReader.level = 0 /\ NewReader.table = frozen /\ NewReader.id = manifest.next_sst_id - 1
  BY Zenon DEF NewReader
<1>3. \A e \in c : e.id \in Nat
  BY ReaderFacts, Zenon DEF GoodCache
<1>4. \A e \in c : NewReader.id >= e.id
  BY <1>1, <1>2, <1>3
<1>5. c = c \cup {NewReader}
  BY Zenon
<1>6. PICK nr : nr = NewReader
  BY Zenon
<1>7. c = c \cup {nr} /\ nr.level = 0 /\ \A e \in c : nr.id >= e.id
  BY <1>2, <1>4, <1>5, <1>6, Zenon
<1>8. \A k \in DOMAIN nr.table : Lookup(CacheTable(c), k) = nr.table[k]
  BY <1>7, PushFirst
<1>. QED  BY <1>2, <1>6, <1>8, Zenon

\* flush_memtable puts the new file in the cache: what it hides there, the memtable hides.
LEMMA PushCacheNow ==
  ASSUME Library, LsmInv, PushCache
  PROVE  /\ GoodCache(cache') /\ NewReader \in cache' /\ Rest' = Rest
         /\ \A e \in cache' : e.id < manifest.next_sst_id
         /\ \A k : /\ k \notin DOMAIN frozen =>
                        Lookup(CacheTable(cache'), k) = Lookup(CacheTable(cache), k)
                   /\ k \in DOMAIN frozen => Visible(Lookup(CacheTable(cache'), k)) = Below(k)
                   /\ Below(k)' = Below(k) /\ Now(k)' = Now(k)
<1>1. /\ pc = "saved" /\ pc' = "cached" /\ cache' = cache \cup {NewReader}
      /\ active' = active /\ immutables' = immutables /\ frozen' = frozen
      /\ pc \in Flushing \ {"rotated"} /\ pc # "rotated" /\ pc' # "rotated"
  BY DEF PushCache, NewReader, Flushing
<1>2. /\ manifest \in Manifest /\ FilesTyped(files) /\ ManifestOK(manifest, files) /\ GoodCache(cache)
      /\ NewReader \in Opened(manifest, files)
      /\ \A e \in cache : e.id < manifest.next_sst_id - 1
  BY <1>1 DEF LsmInv, LsmTypes, Saved, CacheIds
<1>3. manifest.next_sst_id \in Nat /\ \A e \in cache : e.id \in Nat
  BY <1>2, EntryFacts, ReaderFacts DEF GoodCache
<1>4. NewReader \in SstReader
  BY <1>2, OpenedGood, Zenon DEF GoodCache
<1>5. /\ NewReader.level = 0 /\ NewReader.table = frozen /\ NewReader.id = manifest.next_sst_id - 1
      /\ NewReader.id \in Nat
  BY <1>4, ReaderFacts, Zenon DEF NewReader
<1>6. PICK nr \in SstReader : nr = NewReader
  BY <1>4, Zenon
<1>7. /\ \A e \in cache : e.id < nr.id /\ e.id \in Nat /\ e.id < manifest.next_sst_id
      /\ nr.id \in Nat /\ nr.id < manifest.next_sst_id /\ nr.id >= nr.id
      /\ \A e \in cache : nr.id >= e.id /\ e.id # nr.id
  BY <1>2, <1>3, <1>5, <1>6
<1>8. cache' = cache \cup {nr}
  BY <1>1, <1>6, Zenon
<1>9. GoodCache(cache')
  <2>1. cache' \subseteq SstReader
    BY <1>2, <1>8, Zenon DEF GoodCache
  <2>2. \A e, f \in cache' : e.id = f.id => e = f
    BY <1>2, <1>7, <1>8, Zenon DEF GoodCache
  <2>3. \A e \in cache' : e.id <= nr.id
    BY <1>7, <1>8
  <2>. QED  BY <1>7, <2>1, <2>2, <2>3, Zenon DEF GoodCache
<1>10. \A e \in cache' : e.id < manifest.next_sst_id /\ nr.id >= e.id
  BY <1>7, <1>8, Zenon
<1>11. \A k : k \notin DOMAIN nr.table => Lookup(CacheTable(cache'), k) = Lookup(CacheTable(cache), k)
  BY <1>5, <1>6, <1>8, <1>9, <1>10, PushFirst
<1>12. \A k \in DOMAIN frozen : Lookup(CacheTable(cache'), k) = frozen[k]
  BY <1>6, <1>8, <1>9, <1>10, NewestFirst
<1>13. Rest' = Rest
  BY <1>1, Zenon DEF Rest
<1>14. \A k \in DOMAIN frozen : k \in DOMAIN Rest /\ Rest[k] = frozen[k]
  BY <1>1, NewestIsFrozen, Zenon
<1>15. \A k : k \notin DOMAIN frozen =>
         Lookup(CacheTable(cache'), k) = Lookup(CacheTable(cache), k)
  BY <1>5, <1>6, <1>11, Zenon
<1>16. \A k : Below(k)' = Below(k)
  BY <1>13, <1>14, <1>15, Zenon DEF Below
<1>17. \A k : Now(k)' = Now(k)
  BY <1>1, <1>16, Zenon DEF Now
<1>18. \A k \in DOMAIN frozen : Visible(Lookup(CacheTable(cache'), k)) = Below(k)
  BY <1>12, <1>14, Zenon DEF Below
<1>. QED  BY <1>6, <1>8, <1>9, <1>10, <1>13, <1>15, <1>16, <1>17, <1>18, Zenon

\* flush_memtable puts the new file in the cache.
LEMMA PushCacheInv ==
  ASSUME Library, LsmInv, PushCache
  PROVE  LsmInv'
<1>1. /\ pc = "saved" /\ pc' = "cached" /\ damaged' = damaged /\ wal' = wal /\ readable' = readable
      /\ op' = op
      /\ UNCHANGED <<active, immutables, frozen, manifest, disk_manifest, files>>
  BY Zenon DEF PushCache, disk, log
<1>2. GoodCache(cache') /\ NewReader \in cache' /\ \A e \in cache' : e.id < manifest.next_sst_id
  BY PushCacheNow, Zenon
<1>3. LsmTypes'
  BY <1>1, <1>2, Zenon DEF LsmInv, LsmTypes
<1>4. OneFlush'
  BY <1>1 DEF LsmInv, OneFlush, Flushing, Flushed
<1>5. /\ pc # "down" /\ pc # "logged" /\ pc' # "logged" /\ pc' # "written" /\ pc' # "merged"
      /\ pc' \notin {"written", "saved"} /\ pc \in InStep /\ pc # "deleted"
      /\ pc \in {"saved", "cached"} /\ pc \in Flushing \ {"rotated"}
  BY <1>1 DEF InStep, Flushing
<1>6. NewReader' = NewReader
  BY <1>1, Zenon DEF NewReader
<1>7. ManifestOK(manifest, files)' /\ ManifestOK(disk_manifest, files)'
  BY <1>1, Zenon DEF LsmInv
<1>8. Saved'
  BY <1>1, <1>5, <1>6, Zenon DEF LsmInv, Saved
<1>9. CacheIds'
  BY <1>1, <1>2, <1>5, <1>6, Zenon DEF CacheIds
<1>10. WalCovers'
  <2>1. Rest' = Rest /\ \A k : Now(k)' = Now(k)
    BY PushCacheNow, Zenon
  <2>. QED  BY <1>1, <1>5, <2>1, WalFrame, Zenon
<1>11. CacheOK'
  <2>1. ASSUME ~damaged'
        PROVE  /\ SameOn(Key \ DOMAIN Newest(immutables), cache, Opened(manifest, files))
               /\ SameOn(Key \ DOMAIN Replay(wal), cache, Opened(disk_manifest, files))
               /\ DOMAIN Rest \subseteq DOMAIN Replay(wal)
    BY <1>1, <1>5, <2>1, Zenon DEF LsmInv, CacheOK, WalCovers
  <2>2. \A k \in DOMAIN frozen : k \in DOMAIN Newest(immutables) /\ k \in DOMAIN Rest
    BY <1>5, NewestIsFrozen, Zenon
  <2>3. \A k : k \notin DOMAIN frozen =>
          Lookup(CacheTable(cache'), k) = Lookup(CacheTable(cache), k)
    BY PushCacheNow, Zenon
  <2>4. ASSUME ~damaged'
        PROVE  SameOn(Key \ DOMAIN Newest(immutables), cache', Opened(manifest, files))
    BY <2>1, <2>2, <2>3, <2>4, Zenon DEF SameOn
  <2>5. ASSUME ~damaged'
        PROVE  SameOn(Key \ DOMAIN Replay(wal), cache', Opened(disk_manifest, files))
    BY <2>1, <2>2, <2>3, <2>5, Zenon DEF SameOn
  <2>. QED  BY <1>1, <2>4, <2>5, Zenon DEF CacheOK
<1>. QED  BY <1>3, <1>4, <1>7, <1>8, <1>9, <1>10, <1>11, Zenon DEF LsmInv

\* A sequence that is empty without its last element has no other.
LEMMA LastAlone ==
  ASSUME NEW S, NEW s \in Seq(S), s # <<>>, SubSeq(s, 1, Len(s) - 1) = <<>>
  PROVE  s = <<s[Len(s)]>>
<1>1. Len(s) \in Nat \ {0}
  OBVIOUS
<1>2. PICK n : n = Len(s) - 1
  OBVIOUS
<1>3. n \in 0..Len(s)
  BY <1>1, <1>2
<1>4. Len(SubSeq(s, 1, n)) = n
  BY <1>3
<1>5. Len(<<>>) = 0
  OBVIOUS
<1>6. n = 0
  BY <1>2, <1>4, <1>5, Zenon
<1>7. Len(s) = 1
  BY <1>1, <1>2, <1>6
<1>. QED  BY <1>7

\* flush_memtable drops the memtable, and no earlier one is left: its cells are in the
\* cache and in the listed files.
LEMMA DropImmutableNow ==
  ASSUME Library, LsmInv, DropImmutable, ~damaged'
  PROVE  /\ ~damaged /\ immutables' = <<>> /\ Rest' = Empty
         /\ \A k : Below(k)' = Below(k) /\ Now(k)' = Now(k)
         /\ SameOn(Key, cache, Opened(manifest, files))
<1>1. /\ pc = "cached" /\ pc' # "rotated" /\ pc # "rotated" /\ active' = active /\ cache' = cache
      /\ immutables' = SubSeq(immutables, 1, Len(immutables) - 1)
      /\ ~damaged /\ immutables' = <<>> /\ pc \in Flushing \ {"rotated"} /\ pc # "down"
  BY DEF DropImmutable, Flushing
<1>2. immutables \in Seq(Table) /\ immutables # <<>> /\ immutables[Len(immutables)] = frozen
      /\ frozen \in Table
  BY <1>1, Zenon DEF LsmInv, LsmTypes, OneFlush
<1>3. immutables = <<frozen>>
  BY <1>1, <1>2, LastAlone, Zenon
<1>4. DOMAIN Newest(immutables) = DOMAIN frozen
  BY <1>2, <1>3, NewestOfOne
<1>5. Rest' = Empty
  <2>1. Rest' = Over(Empty, Empty)
    BY <1>1, NewestOfNone, Zenon DEF Rest
  <2>2. DOMAIN Over(Empty, Empty) = {} /\ Over(Empty, Empty) \in Table
    BY EmptyTable, OverTable, Zenon DEF Over
  <2>. QED  BY <2>1, <2>2, EmptyTable, Zenon
<1>6. /\ manifest \in Manifest /\ FilesTyped(files) /\ ManifestOK(manifest, files) /\ GoodCache(cache)
      /\ NewReader \in Opened(manifest, files) /\ NewReader \in cache
      /\ \A e \in cache : e.id < manifest.next_sst_id
  BY <1>1 DEF LsmInv, LsmTypes, Saved, CacheIds
<1>7. \A k \in DOMAIN frozen : Lookup(CacheTable(cache), k) = frozen[k]
  BY <1>6, NewestFirst, Zenon
<1>8. \A k \in DOMAIN frozen : Lookup(CacheTable(Opened(manifest, files)), k) = frozen[k]
  <2>1. GoodCache(Opened(manifest, files))
    BY <1>6, OpenedGood, Zenon
  <2>2. \A e \in Listed(manifest) : e.id < manifest.next_sst_id
    BY <1>6, Zenon DEF ManifestOK
  <2>3. \A e \in Opened(manifest, files) : e.id < manifest.next_sst_id
    BY <2>2, OpenedAre, ReaderOfFacts
  <2>. QED  BY <1>6, <2>1, <2>3, NewestFirst, Zenon
<1>9. SameOn(Key \ DOMAIN frozen, cache, Opened(manifest, files))
  BY <1>1, <1>4, Zenon DEF LsmInv, CacheOK
<1>10. SameOn(Key, cache, Opened(manifest, files))
  BY <1>7, <1>8, <1>9, Zenon DEF SameOn
<1>11. \A k : /\ k \in DOMAIN Rest <=> k \in DOMAIN frozen
              /\ k \in DOMAIN frozen => Rest[k] = frozen[k]
  BY <1>1, <1>4, RestIs, NewestIsFrozen, Zenon
<1>12. \A k : Below(k)' = Below(k)
  BY <1>1, <1>5, <1>7, <1>11, EmptyTable, Zenon DEF Below
<1>13. \A k : Now(k)' = Now(k)
  BY <1>1, <1>12, Zenon DEF Now
<1>. QED  BY <1>1, <1>5, <1>10, <1>12, <1>13, Zenon

\* flush_memtable drops the memtable.
LEMMA DropImmutableInv ==
  ASSUME Library, LsmInv, DropImmutable
  PROVE  LsmInv'
<1>1. /\ pc = "cached" /\ pc' = "dropped" /\ wal' = wal /\ readable' = readable /\ op' = op
      /\ immutables' = SubSeq(immutables, 1, Len(immutables) - 1) /\ frozen' = Empty
      /\ damaged' = (damaged \/ immutables' # <<>>)
      /\ UNCHANGED <<active, cache, manifest, disk_manifest, files>>
  BY Zenon DEF DropImmutable, disk, log
<1>2. immutables' \in Seq(Table) /\ damaged' \in BOOLEAN
  <2>1. immutables \in Seq(Table) /\ immutables # <<>>
    BY <1>1 DEF LsmInv, LsmTypes, OneFlush, Flushing
  <2>2. Len(immutables) - 1 \in 0..Len(immutables)
    BY <2>1
  <2>. QED  BY <1>1, <2>1, <2>2
<1>3. LsmTypes'
  BY <1>1, <1>2, EmptyTable, Zenon DEF LsmInv, LsmTypes
<1>4. OneFlush'
  <2>1. pc' \in Flushed /\ pc' \notin Flushing /\ pc' # "down" /\ pc' # "full" /\ pc' # "logged"
    BY <1>1 DEF Flushed, Flushing
  <2>2. active = Empty
    BY <1>1 DEF LsmInv, OneFlush
  <2>3. ~damaged' => immutables' = <<>>
    BY <1>1, Zenon
  <2>. QED  BY <1>1, <2>1, <2>2, <2>3, Zenon DEF OneFlush
<1>5. /\ pc # "down" /\ pc # "logged" /\ pc' # "logged" /\ Plain(pc') /\ pc \in InStep
      /\ pc # "deleted" /\ pc' # "deleted"
  BY <1>1 DEF Plain, InStep
<1>6. /\ ManifestOK(manifest, files)' /\ ManifestOK(disk_manifest, files)' /\ Saved' /\ CacheIds'
  BY <1>1, <1>5, DiskFrame, Zenon
<1>7. CASE damaged'
  BY <1>3, <1>4, <1>6, <1>7, DamagedFrame, Zenon DEF LsmInv
<1>8. CASE ~damaged'
  <2>1. WalCovers'
    <3>1. Rest' = Empty /\ \A k : Now(k)' = Now(k)
      BY <1>8, DropImmutableNow, Zenon
    <3>2. \A k : k \notin DOMAIN Rest'
      BY <3>1, EmptyTable, Zenon
    <3>. QED  BY <1>1, <1>5, <1>8, <3>1, <3>2, WalFrame, Zenon
  <2>2. CacheOK'
    <3>1. SameOn(Key, cache, Opened(manifest, files)) /\ ~damaged
      BY <1>8, DropImmutableNow, Zenon
    <3>2. SameOn(Key \ DOMAIN Replay(wal), cache, Opened(disk_manifest, files))
      BY <1>5, <3>1, Zenon DEF LsmInv, CacheOK
    <3>3. SameOn(Key \ DOMAIN Newest(immutables'), cache, Opened(manifest, files))
      BY <3>1, Zenon DEF SameOn
    <3>. QED  BY <1>1, <3>2, <3>3, Zenon DEF CacheOK
  <2>. QED  BY <1>3, <1>4, <1>6, <2>1, <2>2, Zenon DEF LsmInv
<1>. QED  BY <1>7, <1>8, Zenon

\* A flush fails: the memtable stays before the files, and the log has its operations.
LEMMA FlushFailsInv ==
  ASSUME Library, LsmInv, FlushFails
  PROVE  LsmInv'
<1>1. /\ pc' = "idle" /\ op' = NoOp /\ damaged' = damaged /\ wal' = wal /\ readable' = readable
      /\ frozen' = Empty /\ pc \in {"pushed", "written", "saved"}
      /\ UNCHANGED <<active, immutables, cache, disk_manifest>>
  BY Zenon DEF FlushFails, log
<1>2. /\ pc # "down" /\ pc # "logged" /\ pc # "rotated" /\ pc # "deleted"
      /\ pc' # "logged" /\ pc' # "rotated" /\ Plain(pc') /\ pc' \notin InStep
      /\ pc' # "down" /\ pc' # "cached" /\ pc' # "written" /\ pc' # "merged"
      /\ pc' \notin {"written", "saved"} /\ pc' \notin {"saved", "cached"}
  BY <1>1 DEF Plain, InStep
<1>3. OneFlush'
  BY <1>1 DEF LsmInv, OneFlush, Flushing, Flushed
<1>4. Rest' = Rest /\ \A k : Now(k)' = Now(k)
  BY <1>1, <1>2, NowFrame, Zenon
<1>5. WalCovers'
  BY <1>1, <1>2, <1>4, WalFrame, Zenon
<1>6. ASSUME manifest' \in Manifest, FilesTyped(files') PROVE LsmTypes'
  BY <1>1, <1>6, EmptyTable, Zenon DEF LsmInv, LsmTypes
<1>7. CASE pc = "pushed"
  <2>1. GivesNumber(files')
    <3>1. pc # "written" /\ pc # "saved"
      BY <1>7
    <3>. QED  BY <3>1, EmptyTable, Zenon DEF FlushFails, GivesNumber
  <2>2. /\ manifest' \in Manifest /\ FilesTyped(files')
        /\ ManifestOK(manifest', files') /\ ManifestOK(disk_manifest', files')
    BY <1>1, <1>2, <2>1, NumberGiven, Zenon
  <2>3. /\ CacheOK' /\ disk_manifest'.next_sst_id <= manifest'.next_sst_id
        /\ \A e \in cache' : e.id < manifest'.next_sst_id
    BY <1>1, <1>2, <2>1, NumberGivenCache, Zenon
  <2>4. Saved' /\ CacheIds'
    BY <1>2, <2>3, Zenon DEF Saved, CacheIds
  <2>. QED  BY <1>3, <1>5, <1>6, <2>2, <2>3, <2>4, Zenon DEF LsmInv
<1>8. CASE pc = "written"
  <2>1. files' = files /\ manifest' = AddSst(manifest, SstEntry(manifest.next_sst_id - 1, 0, frozen))
    BY <1>8 DEF FlushFails
  <2>2. /\ manifest' \in Manifest /\ manifest'.next_sst_id = manifest.next_sst_id
        /\ ManifestOK(manifest', files)
    BY <1>8, <2>1, ListNew, Zenon
  <2>3. FilesTyped(files') /\ ManifestOK(disk_manifest', files')
    BY <1>1, <2>1, Zenon DEF LsmInv, LsmTypes
  <2>4. CacheOK'
    <3>1. ~damaged' => SameOn(Key \ DOMAIN Newest(immutables), cache, Opened(manifest', files))
      BY <1>1, <1>8, <2>1, ListNewSame, Zenon
    <3>2. ~damaged' => SameOn(Key \ DOMAIN Replay(wal), cache, Opened(disk_manifest, files))
      BY <1>1, <1>2, Zenon DEF LsmInv, CacheOK
    <3>. QED  BY <1>1, <2>1, <3>1, <3>2, Zenon DEF CacheOK
  <2>5. /\ disk_manifest.next_sst_id <= manifest.next_sst_id
        /\ \A e \in cache : e.id < manifest.next_sst_id
    BY <1>2, Zenon DEF LsmInv, Saved, CacheIds
  <2>6. Saved' /\ CacheIds'
    BY <1>1, <1>2, <2>2, <2>5, Zenon DEF Saved, CacheIds
  <2>. QED  BY <1>3, <1>5, <1>6, <2>1, <2>2, <2>3, <2>4, <2>6, Zenon DEF LsmInv
<1>9. CASE pc = "saved"
  <2>1. files' = files /\ manifest' = manifest
    BY <1>9 DEF FlushFails
  <2>2. manifest' \in Manifest /\ FilesTyped(files')
    BY <2>1, Zenon DEF LsmInv, LsmTypes
  <2>3. /\ ManifestOK(manifest, files)' /\ ManifestOK(disk_manifest, files)' /\ Saved' /\ CacheIds'
    BY <1>1, <1>2, <2>1, DiskFrame, Zenon
  <2>4. CacheOK'
    BY <1>1, <1>2, <2>1, CacheFrame, Zenon
  <2>. QED  BY <1>3, <1>5, <1>6, <2>2, <2>3, <2>4, Zenon DEF LsmInv
<1>. QED  BY <1>1, <1>7, <1>8, <1>9, Zenon

-----------------------------------------------------------------------------
(* The invariant is kept: the log after a flush, and compaction.           *)

\* With no immutable memtable, nothing lies between the active one and the files.
LEMMA NoRest ==
  ASSUME immutables = <<>>, pc # "rotated"
  PROVE  Rest = Empty /\ Newest(immutables) = Empty
<1>1. Rest = Over(Empty, Empty) /\ Newest(immutables) = Empty
  BY NewestOfNone, Zenon DEF Rest
<1>2. DOMAIN Over(Empty, Empty) = {} /\ Over(Empty, Empty) \in Table
  BY EmptyTable, OverTable, Zenon DEF Over
<1>. QED  BY <1>1, <1>2, EmptyTable, Zenon

\* After a flush with no failure before it, all is in the files.
LEMMA AllInFiles ==
  ASSUME LsmInv, ~damaged, pc \in Flushed
  PROVE  /\ active = Empty /\ Rest = Empty /\ immutables = <<>>
         /\ SameOn(Key, cache, Opened(manifest, files))
<1>1. pc # "rotated" /\ pc # "down" /\ pc \notin {"idle", "logged", "full"}
  BY DEF Flushed
<1>2. immutables = <<>> /\ active = Empty
  BY <1>1, Zenon DEF LsmInv, OneFlush
<1>3. Rest = Empty /\ Newest(immutables) = Empty
  BY <1>1, <1>2, NoRest, Zenon
<1>4. SameOn(Key \ DOMAIN Empty, cache, Opened(manifest, files))
  BY <1>1, <1>3, Zenon DEF LsmInv, CacheOK
<1>. QED  BY <1>2, <1>3, <1>4, EmptyTable, Zenon DEF SameOn

\* The log is emptied: nothing in memory needs it.
LEMMA LogEmptied ==
  ASSUME LsmInv, pc = "dropped", pc' \in {"idle", "flushed"}, wal' = <<>>, readable' = <<>>,
         op' \in {op, NoOp},
         UNCHANGED <<active, immutables, frozen, cache, manifest, disk_manifest, files, damaged>>
  PROVE  LsmInv'
<1>1. /\ pc \in Flushed /\ pc # "down" /\ Plain(pc') /\ pc \in InStep /\ pc' # "logged"
      /\ pc # "rotated" /\ pc' # "rotated"
  BY DEF Flushed, Plain, InStep
<1>2. wal' \in Seq(Operation) /\ readable' \in Seq(Operation)
  OBVIOUS
<1>3. LsmTypes'
  BY <1>2, Zenon DEF LsmInv, LsmTypes
<1>4. OneFlush'
  BY DEF LsmInv, OneFlush, Flushing, Flushed
<1>5. /\ ManifestOK(manifest, files)' /\ ManifestOK(disk_manifest, files)' /\ Saved' /\ CacheIds'
  BY <1>1, DiskFrame, Zenon
<1>6. Rest' = Rest
  BY <1>1, NowFrame, Zenon
<1>7. \A k : k \notin DOMAIN Replay(wal')
  BY ReplayNothing, EmptyTable, Zenon
<1>8. WalCovers'
  <2>1. ASSUME ~damaged' PROVE active' = Empty /\ Rest' = Empty
    BY <1>1, <1>6, <2>1, AllInFiles, Zenon
  <2>. QED  BY <1>1, <1>7, <2>1, EmptyTable, Zenon DEF WalCovers
<1>9. CacheOK'
  <2>1. ASSUME ~damaged' PROVE SameOn(Key, cache, Opened(manifest, files)) /\ manifest = disk_manifest
    BY <1>1, <2>1, AllInFiles, Zenon DEF LsmInv, Saved
  <2>2. ASSUME NEW K, K \subseteq Key, ~damaged'
        PROVE  SameOn(K, cache, Opened(manifest, files)) /\ SameOn(K, cache, Opened(disk_manifest, files))
    BY <2>1, <2>2, Zenon DEF SameOn
  <2>3. ASSUME ~damaged'
        PROVE  /\ SameOn(Key \ DOMAIN Newest(immutables'), cache, Opened(manifest, files))
               /\ SameOn(Key \ DOMAIN Replay(wal'), cache, Opened(disk_manifest, files))
    BY <2>2, <2>3, Zenon
  <2>. QED  BY <2>3, Zenon DEF CacheOK
<1>. QED  BY <1>3, <1>4, <1>5, <1>8, <1>9, Zenon DEF LsmInv

\* flush_memtable removes the log and opens it again, or fails to open it.
LEMMA ResetWalInv ==
  ASSUME LsmInv, ResetWal \/ ResetWalFails
  PROVE  LsmInv'
<1>1. /\ pc = "dropped" /\ wal' = <<>> /\ readable' = <<>> /\ damaged' = damaged
      /\ op' \in {op, NoOp}
      /\ UNCHANGED <<active, immutables, frozen, cache, manifest, disk_manifest, files>>
  BY Zenon DEF ResetWal, ResetWalFails, tree, disk
<1>2. pc' \in {"idle", "flushed"}
  BY Zenon DEF ResetWal, ResetWalFails
<1>. QED  BY <1>1, <1>2, LogEmptied, Zenon

\* Steps that leave the log, the memtables and the files alone: the log is not removed,
\* or there is nothing to compact, or compact fails at an input file.
LEMMA NoCompactionInv ==
  ASSUME LsmInv, KeepWal \/ NothingToCompact \/ MergeFails
  PROVE  LsmInv'
<1>1. /\ pc \in {"dropped", "flushed"} /\ wal' = wal /\ readable' = readable /\ damaged' = damaged
      /\ op' \in {op, NoOp}
      /\ UNCHANGED <<active, immutables, frozen, cache, manifest, disk_manifest, files>>
  BY Zenon DEF KeepWal, NothingToCompact, MergeFails, tree, disk, log
<1>2. pc' \in {"idle", "flushed"}
  BY Zenon DEF KeepWal, NothingToCompact, MergeFails
<1>3. /\ pc # "down" /\ pc # "logged" /\ pc # "rotated" /\ pc # "deleted" /\ pc' # "logged"
      /\ pc' # "rotated" /\ Plain(pc') /\ pc \in InStep
  BY <1>1, <1>2 DEF Plain, InStep
<1>4. LsmTypes'
  BY <1>1, Zenon DEF LsmInv, LsmTypes
<1>5. OneFlush'
  BY <1>1, <1>2 DEF LsmInv, OneFlush, Flushing, Flushed
<1>6. /\ ManifestOK(manifest, files)' /\ ManifestOK(disk_manifest, files)'
      /\ Saved' /\ CacheIds' /\ WalCovers' /\ CacheOK'
  BY <1>1, <1>3, QuietStep, Zenon
<1>. QED  BY <1>4, <1>5, <1>6, Zenon DEF LsmInv

\* compact fails at its output: a number is given out.
LEMMA MergeWriteFailsInv ==
  ASSUME LsmInv, MergeWriteFails
  PROVE  LsmInv'
<1>1. /\ pc = "flushed" /\ pc' = "idle" /\ op' = NoOp /\ damaged' = damaged /\ wal' = wal
      /\ readable' = readable
      /\ UNCHANGED <<active, immutables, frozen, cache, disk_manifest>>
  BY Zenon DEF MergeWriteFails, tree, log
<1>2. /\ pc # "down" /\ pc # "logged" /\ pc # "rotated" /\ pc # "deleted"
      /\ pc' # "logged" /\ pc' # "rotated" /\ pc' \notin InStep
      /\ pc' # "down" /\ pc' # "cached" /\ pc' # "written" /\ pc' # "merged"
      /\ pc' \notin {"written", "saved"} /\ pc' \notin {"saved", "cached"}
  BY <1>1 DEF InStep
<1>3. GivesNumber(files')
  BY EmptyTable, Zenon DEF MergeWriteFails, GivesNumber
<1>4. /\ manifest' \in Manifest /\ FilesTyped(files')
      /\ ManifestOK(manifest', files') /\ ManifestOK(disk_manifest', files')
  BY <1>1, <1>2, <1>3, NumberGiven, Zenon
<1>5. /\ CacheOK' /\ disk_manifest'.next_sst_id <= manifest'.next_sst_id
      /\ \A e \in cache' : e.id < manifest'.next_sst_id
  BY <1>1, <1>2, <1>3, NumberGivenCache, Zenon
<1>6. Saved' /\ CacheIds'
  BY <1>2, <1>5, Zenon DEF Saved, CacheIds
<1>7. LsmTypes'
  BY <1>1, <1>4, Zenon DEF LsmInv, LsmTypes
<1>8. OneFlush'
  BY <1>1 DEF LsmInv, OneFlush, Flushing, Flushed
<1>9. WalCovers'
  <2>1. Rest' = Rest /\ \A k : Now(k)' = Now(k)
    BY <1>1, <1>2, NowFrame, Zenon
  <2>. QED  BY <1>1, <1>2, <2>1, WalFrame, Zenon
<1>. QED  BY <1>4, <1>5, <1>6, <1>7, <1>8, <1>9, Zenon DEF LsmInv

\* needs_compaction names a level that has files and one below it.
LEMMA LevelToCompact ==
  ASSUME Library, NEW m \in Manifest, CompactionLevels(m) # {},
         NEW l, l = Min(CompactionLevels(m))
  PROVE  l \in Level /\ l + 1 \in Level /\ m.levels[l] # {}
<1>. DEFINE C == CompactionLevels(m)
<1>1. NumLevels \in Nat /\ NumLevels >= 2 /\ Trigger \in Nat /\ Trigger >= 1
  BY Bounds, Zenon
<1>2. C \in SUBSET Nat /\ \A x \in C : x = 0 \/ x \in 1..(NumLevels - 2)
  BY <1>1 DEF CompactionLevels
<1>3. l \in C
  BY <1>2, LeastOf, Zenon
<1>4. l \in Level /\ l + 1 \in Level
  BY <1>1, <1>2, <1>3 DEF Level
<1>5. ASSUME m.levels[l] = {} PROVE FALSE
  <2>1. Cardinality(m.levels[l]) = 0
    BY <1>5, Zenon DEF Library, EmptyCounted
  <2>2. CASE Cardinality(m.levels[0]) >= Trigger
    <3>1. l = 0
      BY <1>3, <2>2, Zenon DEF CompactionLevels
    <3>. QED  BY <1>1, <2>1, <2>2, <3>1
  <2>3. CASE ~(Cardinality(m.levels[0]) >= Trigger)
    <3>1. l \in 1..(NumLevels - 2) /\ Cardinality(m.levels[l]) > Trigger * Ratio^l
      BY <1>3, <2>3, Zenon DEF CompactionLevels
    <3>2. l \in 1..NumLevels
      BY <1>1, <3>1
    <3>3. Ratio^l \in Nat
      BY <3>2, Bounds, Zenon
    <3>4. \A x \in Nat : Trigger * x >= 0
      BY <1>1
    <3>5. ~(0 > Trigger * Ratio^l)
      <4>1. \A x \in Nat : ~(0 > Trigger * x)
        BY <1>1
      <4>. QED  BY <3>3, <4>1, Zenon
    <3>. QED  BY <2>1, <3>1, <3>5, Zenon
  <2>. QED  BY <2>2, <2>3, Zenon
<1>. QED  BY <1>4, <1>5, Zenon

\* compact lists its output in place of its inputs: the level below stays disjoint, and
\* the files listed then hold what the cache holds.
LEMMA MergeLevelInv ==
  ASSUME Library, LsmInv, MergeLevel
  PROVE  LsmInv'
<1>1. /\ pc = "flushed" /\ pc' = "merged" /\ CompactionLevels(manifest) # {}
      /\ damaged' \in BOOLEAN /\ wal' = wal /\ readable' = readable /\ op' = op
      /\ UNCHANGED <<active, immutables, frozen, cache, disk_manifest>>
  BY DEF MergeLevel, tree, log
<1>2. /\ pc \in Flushed /\ pc \in InStep /\ pc # "down" /\ pc # "logged" /\ pc # "rotated"
      /\ pc # "deleted" /\ pc' # "rotated" /\ pc' # "logged" /\ pc' \notin InStep /\ pc' # "written"
      /\ pc' \notin {"saved", "cached"} /\ pc' \notin {"written", "saved"} /\ pc' # "cached"
  BY <1>1 DEF Flushed, InStep
<1>3. /\ manifest \in Manifest /\ FilesTyped(files) /\ ManifestOK(manifest, files)
      /\ manifest = disk_manifest /\ \A e \in cache : e.id < manifest.next_sst_id
  BY <1>2, Zenon DEF LsmInv, LsmTypes, Saved, CacheIds
<1>4. PICK l : l = Min(CompactionLevels(manifest))
  OBVIOUS
<1>5. PICK R : R = Readers(Inputs(manifest, l), files)
  OBVIOUS
<1>6. PICK t : t = CompactedTable(R, l + 1)
  OBVIOUS
<1>7. l \in Level /\ l + 1 \in Level /\ manifest.levels[l] # {}
  BY <1>1, <1>3, <1>4, LevelToCompact, Zenon
<1>8. /\ InputNumbers(manifest, l) \subseteq DOMAIN files
      /\ damaged' = (damaged \/ KeepsOlder(R))
      /\ IF t = Empty
         THEN manifest' = Without(manifest, l) /\ obsolete' = {} /\ files' = files
         ELSE /\ manifest' = AddSst(Without(manifest, l), SstEntry(manifest.next_sst_id, l + 1, t))
              /\ files' = With(files, manifest.next_sst_id, t)
              /\ obsolete' = InputNumbers(manifest, l)
  BY <1>4, <1>5, <1>6 DEF MergeLevel, InputNumbers, Without
<1>9. \A e \in Inputs(manifest, l) : e.id \in DOMAIN files
  BY <1>8, Zenon DEF InputNumbers
<1>10. IF t = Empty THEN manifest' = Without(manifest, l) /\ files' = files
       ELSE /\ manifest' = AddSst(Without(manifest, l), SstEntry(manifest.next_sst_id, l + 1, t))
            /\ files' = With(files, manifest.next_sst_id, t)
  BY <1>8, Zenon
<1>11. /\ manifest' \in Manifest /\ FilesTyped(files')
       /\ ManifestOK(manifest', files') /\ ManifestOK(manifest, files')
       /\ Opened(manifest, files') = Opened(manifest, files)
       /\ manifest'.next_sst_id = manifest.next_sst_id + 1
       /\ \A e \in Listed(manifest') : e.id \notin InputNumbers(manifest, l)
       /\ Merged(R) = CacheTable(R) => Same(Opened(manifest, files), Opened(manifest', files'))
  <2>1. Compacts(manifest, files, l, R, t, manifest', files')
    BY <1>3, <1>5, <1>6, <1>7, <1>9, <1>10, MergeFacts, ZenonT(20)
  <2>. QED  BY <2>1, Zenon DEF Compacts
<1>12. LsmTypes'
  BY <1>1, <1>11, Zenon DEF LsmInv, LsmTypes
<1>13. OneFlush'
  <2>1. ~damaged' => ~damaged
    BY <1>8, Zenon
  <2>. QED  BY <1>1, <2>1 DEF LsmInv, OneFlush, Flushing, Flushed
<1>14. ManifestOK(manifest, files)' /\ ManifestOK(disk_manifest, files)'
  BY <1>1, <1>3, <1>11, Zenon
<1>15. Saved' /\ CacheIds'
  <2>1. \A e \in Listed(manifest') : e.id \notin obsolete'
    BY <1>8, <1>11, Zenon
  <2>2. manifest.next_sst_id \in Nat /\ \A e \in cache : e.id \in Nat
    BY EntryFacts, ReaderFacts DEF LsmInv, LsmTypes, GoodCache
  <2>3. /\ disk_manifest.next_sst_id <= manifest'.next_sst_id
        /\ \A e \in cache : e.id < manifest'.next_sst_id
    BY <1>3, <1>11, <2>2
  <2>. QED  BY <1>1, <1>2, <2>1, <2>3, Zenon DEF Saved, CacheIds
<1>16. WalCovers'
  <2>1. Rest' = Rest /\ \A k : Now(k)' = Now(k)
    BY <1>1, <1>2, NowFrame, Zenon
  <2>2. ~damaged' => ~damaged
    BY <1>8, Zenon
  <2>. QED  BY <1>1, <1>2, <2>1, <2>2, WalFrame, Zenon
<1>17. CacheOK'
  <2>1. ASSUME ~damaged'
        PROVE  /\ SameOn(Key \ DOMAIN Newest(immutables), cache, Opened(manifest', files'))
               /\ SameOn(Key \ DOMAIN Replay(wal), cache, Opened(disk_manifest, files'))
    <3>1. ~damaged /\ Merged(R) = CacheTable(R)
      BY <1>8, <2>1, Zenon DEF KeepsOlder
    <3>2. SameOn(Key, cache, Opened(manifest, files))
      BY <1>2, <3>1, AllInFiles, Zenon
    <3>3. Same(Opened(manifest, files), Opened(manifest', files'))
      BY <1>11, <3>1, Zenon
    <3>4. SameOn(Key, cache, Opened(manifest', files'))
      BY <3>2, <3>3, Zenon DEF SameOn, Same
    <3>5. SameOn(Key, cache, Opened(disk_manifest, files'))
      BY <1>3, <1>11, <3>2, Zenon
    <3>. QED  BY <3>4, <3>5, Zenon DEF SameOn
  <2>. QED  BY <1>1, <2>1, Zenon DEF CacheOK
<1>. QED  BY <1>12, <1>13, <1>14, <1>15, <1>16, <1>17, Zenon DEF LsmInv

\* compact deletes files that the manifest in memory no longer lists.
LEMMA DeleteInputsInv ==
  ASSUME LsmInv, DeleteInputs
  PROVE  LsmInv'
<1>1. /\ pc = "merged" /\ pc' = "deleted" /\ damaged' = damaged /\ wal' = wal
      /\ readable' = readable /\ op' = op
      /\ files' = [id \in DOMAIN files \ obsolete |-> files[id]]
      /\ UNCHANGED <<active, immutables, frozen, cache, manifest, disk_manifest>>
  BY Zenon DEF DeleteInputs, tree, log
<1>2. /\ pc # "down" /\ pc # "logged" /\ pc # "rotated" /\ pc' # "rotated" /\ pc' # "logged"
      /\ pc' \notin InStep /\ pc' # "written" /\ pc' # "merged" /\ pc' # "cached" /\ pc' # "down"
      /\ pc' \notin {"saved", "cached"} /\ pc' \notin {"written", "saved"}
  BY <1>1 DEF InStep
<1>3. /\ FilesTyped(files) /\ ManifestOK(manifest, files) /\ ManifestOK(disk_manifest, files)
      /\ \A e \in Listed(manifest) : e.id \notin obsolete
  BY <1>1, Zenon DEF LsmInv, LsmTypes, Saved
<1>4. /\ DOMAIN files' = DOMAIN files \ obsolete
      /\ \A id \in DOMAIN files' : files'[id] = files[id]
  BY <1>1, Zenon
<1>5. FilesTyped(files')
  BY <1>3, <1>4, Zenon DEF FilesTyped
<1>6. \A e \in Listed(manifest) : /\ e.id \in DOMAIN files <=> e.id \in DOMAIN files'
                                  /\ e.id \in DOMAIN files => files[e.id] = files'[e.id]
  BY <1>3, <1>4, Zenon
<1>7. Opened(manifest, files') = Opened(manifest, files) /\ ManifestOK(manifest, files')
  BY <1>3, <1>6, SameFiles, Zenon
<1>8. ManifestOK(disk_manifest, files')
  BY <1>3, <1>4, Zenon DEF ManifestOK
<1>9. LsmTypes'
  BY <1>1, <1>5, Zenon DEF LsmInv, LsmTypes
<1>10. OneFlush'
  BY <1>1 DEF LsmInv, OneFlush, Flushing, Flushed
<1>11. ManifestOK(manifest, files)' /\ ManifestOK(disk_manifest, files)'
  BY <1>1, <1>7, <1>8, Zenon
<1>12. Saved' /\ CacheIds'
  BY <1>1, <1>2, Zenon DEF LsmInv, Saved, CacheIds
<1>13. WalCovers'
  <2>1. Rest' = Rest /\ \A k : Now(k)' = Now(k)
    BY <1>1, <1>2, NowFrame, Zenon
  <2>. QED  BY <1>1, <1>2, <2>1, WalFrame, Zenon
<1>14. CacheOK'
  BY <1>1, <1>2, <1>7, Zenon DEF LsmInv, CacheOK
<1>. QED  BY <1>9, <1>10, <1>11, <1>12, <1>13, <1>14, Zenon DEF LsmInv

\* maybe_compact saves the manifest, or fails to.
LEMMA SaveCompactedInv ==
  ASSUME LsmInv, SaveCompacted \/ SaveCompactedFails
  PROVE  LsmInv'
<1>1. /\ pc = "deleted" /\ wal' = wal /\ readable' = readable
      /\ UNCHANGED <<active, immutables, frozen, cache, manifest, files>>
      /\ \/ pc' = "compacted" /\ disk_manifest' = manifest /\ damaged' = damaged /\ op' = op
         \/ pc' = "idle" /\ disk_manifest' = disk_manifest /\ damaged' = TRUE /\ op' = NoOp
  BY Zenon DEF SaveCompacted, SaveCompactedFails, tree, disk, log
<1>2. /\ pc # "down" /\ pc # "logged" /\ pc # "rotated" /\ pc' # "rotated" /\ pc' # "logged"
      /\ pc' # "written" /\ pc' # "merged" /\ pc' # "cached" /\ pc' # "down" /\ pc \in Flushed
      /\ pc' \notin {"saved", "cached"} /\ pc' \notin {"written", "saved"}
      /\ "idle" \notin InStep /\ "idle" # "compacted"
  BY <1>1 DEF InStep, Flushed
<1>3. LsmTypes'
  BY <1>1, Zenon DEF LsmInv, LsmTypes
<1>4. OneFlush'
  BY <1>1 DEF LsmInv, OneFlush, Flushing, Flushed
<1>5. ManifestOK(manifest, files)' /\ ManifestOK(disk_manifest, files)'
  BY <1>1, Zenon DEF LsmInv
<1>6. Saved' /\ CacheIds'
  <2>1. manifest.next_sst_id <= manifest.next_sst_id
    <3>1. manifest.next_sst_id \in Nat
      BY EntryFacts, Zenon DEF LsmInv, LsmTypes
    <3>. QED  BY <3>1
  <2>. QED  BY <1>1, <1>2, <2>1, Zenon DEF LsmInv, Saved, CacheIds
<1>7. CASE damaged'
  BY <1>3, <1>4, <1>5, <1>6, <1>7, DamagedFrame, Zenon DEF LsmInv
<1>8. CASE ~damaged'
  <2>1. /\ disk_manifest' = manifest /\ ~damaged
    BY <1>1, <1>8
  <2>2. WalCovers'
    <3>1. Rest' = Rest /\ \A k : Now(k)' = Now(k)
      BY <1>1, <1>2, NowFrame, Zenon
    <3>. QED  BY <1>1, <1>2, <2>1, <3>1, WalFrame, Zenon
  <2>3. SameOn(Key, cache, Opened(manifest, files))
    BY <1>2, <2>1, AllInFiles, Zenon
  <2>4. /\ SameOn(Key \ DOMAIN Newest(immutables), cache, Opened(manifest, files))
        /\ SameOn(Key \ DOMAIN Replay(wal), cache, Opened(manifest, files))
    BY <2>3, Zenon DEF SameOn
  <2>5. CacheOK'
    BY <1>1, <2>1, <2>4, Zenon DEF CacheOK
  <2>. QED  BY <1>3, <1>4, <1>5, <1>6, <2>2, <2>5, Zenon DEF LsmInv
<1>. QED  BY <1>7, <1>8, Zenon

\* What the tree holds when the listed files were opened anew.
LEMMA RebuildCacheNow ==
  ASSUME LsmInv, RebuildCache, ~damaged
  PROVE  /\ Rest' = Rest
         /\ \A k \in Key : Below(k)' = Below(k) /\ Now(k)' = Now(k)
<1>1. /\ pc = "compacted" /\ pc' = "idle" /\ cache' = Opened(manifest, files)
      /\ active' = active /\ immutables' = immutables
  BY Zenon DEF RebuildCache
<1>2. pc # "rotated" /\ pc' # "rotated" /\ pc \in Flushed
  BY <1>1 DEF Flushed
<1>3. Rest' = Rest
  BY <1>1, <1>2, Zenon DEF Rest
<1>4. SameOn(Key, cache, cache')
  BY <1>1, <1>2, AllInFiles, Zenon
<1>5. \A k \in Key : Below(k)' = Below(k)
  BY <1>3, <1>4, Zenon DEF Below, SameOn
<1>6. \A k \in Key : Now(k)' = Now(k)
  BY <1>1, <1>5, Zenon DEF Now
<1>. QED  BY <1>3, <1>5, <1>6, Zenon

\* maybe_compact opens the listed files anew, or only some of them.
LEMMA RebuildCacheInv ==
  ASSUME Library, LsmInv, RebuildCache \/ RebuildCacheFails
  PROVE  LsmInv'
<1>1. /\ pc = "compacted" /\ pc' = "idle" /\ op' = NoOp /\ wal' = wal /\ readable' = readable
      /\ UNCHANGED <<active, immutables, frozen, manifest, disk_manifest, files>>
      /\ \/ RebuildCache /\ cache' = Opened(manifest, files) /\ damaged' = damaged
         \/ damaged' = TRUE
  BY Zenon DEF RebuildCache, RebuildCacheFails, disk, log
<1>2. cache' \subseteq Opened(manifest, files)
  BY Zenon DEF RebuildCache, RebuildCacheFails
<1>3. /\ pc # "down" /\ pc # "logged" /\ pc # "rotated" /\ pc' # "rotated" /\ pc' # "logged"
      /\ pc' # "written" /\ pc' # "merged" /\ pc' # "cached" /\ pc' # "down" /\ pc \in Flushed
      /\ pc' \notin {"saved", "cached"} /\ pc' \notin {"written", "saved"} /\ pc' \notin InStep
      /\ pc \in InStep
  BY <1>1 DEF InStep, Flushed
<1>4. /\ manifest \in Manifest /\ FilesTyped(files) /\ ManifestOK(manifest, files)
      /\ manifest = disk_manifest
  BY <1>3, Zenon DEF LsmInv, LsmTypes, Saved
<1>5. GoodCache(cache')
  <2>1. GoodCache(Opened(manifest, files))
    BY <1>4, OpenedGood, Zenon
  <2>. QED  BY <1>2, <2>1, Zenon DEF GoodCache
<1>6. LsmTypes'
  BY <1>1, <1>5, Zenon DEF LsmInv, LsmTypes
<1>7. OneFlush'
  BY <1>1 DEF LsmInv, OneFlush, Flushing, Flushed
<1>8. ManifestOK(manifest, files)' /\ ManifestOK(disk_manifest, files)'
  BY <1>1, Zenon DEF LsmInv
<1>9. \A e \in cache' : e.id < manifest.next_sst_id
  <2>1. \A e \in Listed(manifest) : e.id < manifest.next_sst_id
    BY <1>4, Zenon DEF ManifestOK
  <2>2. \A e \in Opened(manifest, files) : e.id < manifest.next_sst_id
    BY <2>1, OpenedAre, ReaderOfFacts
  <2>. QED  BY <1>2, <2>2, Zenon
<1>10. Saved' /\ CacheIds'
  BY <1>1, <1>3, <1>9, Zenon DEF LsmInv, Saved, CacheIds
<1>11. CASE damaged'
  BY <1>6, <1>7, <1>8, <1>10, <1>11, DamagedFrame, Zenon DEF LsmInv
<1>12. CASE ~damaged'
  <2>1. RebuildCache /\ cache' = Opened(manifest, files) /\ ~damaged
    BY <1>1, <1>12
  <2>2. WalCovers'
    <3>1. Rest' = Rest /\ \A k \in Key : Now(k)' = Now(k)
      BY <2>1, RebuildCacheNow, Zenon
    <3>2. wal \in Seq(Operation)
      BY Zenon DEF LsmInv, LsmTypes
    <3>3. DOMAIN Replay(wal) \subseteq Key
      BY <3>2, ReplayTable, TableFacts, Zenon
    <3>4. /\ DOMAIN active \subseteq DOMAIN Replay(wal) /\ DOMAIN Rest \subseteq DOMAIN Replay(wal)
          /\ \A k \in DOMAIN Replay(wal) : Visible(Replay(wal)[k]) = Now(k)
      BY <1>3, <2>1, Zenon DEF LsmInv, WalCovers
    <3>5. \A k \in DOMAIN Replay(wal) : Visible(Replay(wal)[k]) = Now(k)'
      BY <3>1, <3>3, <3>4, Zenon
    <3>. QED  BY <1>1, <1>3, <3>1, <3>4, <3>5, Zenon DEF WalCovers
  <2>3. CacheOK'
    BY <1>1, <1>4, <2>1, Zenon DEF CacheOK, SameOn
  <2>. QED  BY <1>6, <1>7, <1>8, <1>10, <2>2, <2>3, Zenon DEF LsmInv
<1>. QED  BY <1>11, <1>12, Zenon

-----------------------------------------------------------------------------
(* The invariant is kept: a crash, the recovery, reads.                    *)

\* The manifest of an empty directory lists nothing.
LEMMA NoManifestOK ==
  /\ NoManifest \in Manifest /\ Listed(NoManifest) = {}
  /\ \A fs : ManifestOK(NoManifest, fs) /\ Opened(NoManifest, fs) = {}
<1>1. [l \in Level |-> {}] \in [Level -> SUBSET Entry]
  BY Zenon
<1>2. NoManifest \in Manifest /\ NoManifest.levels = [l \in Level |-> {}]
  BY <1>1 DEF NoManifest, Manifest
<1>3. Listed(NoManifest) = {}
  BY <1>2, Zenon DEF Listed
<1>4. ASSUME NEW fs PROVE ManifestOK(NoManifest, fs)
  BY <1>2, <1>3, Zenon DEF ManifestOK
<1>5. ASSUME NEW fs PROVE Opened(NoManifest, fs) = {}
  BY <1>3, Zenon DEF Opened, Readers
<1>. QED  BY <1>2, <1>3, <1>4, <1>5, Zenon

\* No file is open after a crash.
LEMMA NoReaders == GoodCache({})
  BY DEF GoodCache

\* A crash keeps what can be read of the log and the saved manifest, and breaks no file
\* that is listed.
LEMMA CrashFiles ==
  ASSUME LsmInv, Crash
  PROVE  /\ FilesTyped(files') /\ ManifestOK(disk_manifest, files')
         /\ Opened(disk_manifest, files') = Opened(disk_manifest, files)
<1>1. /\ FilesTyped(files) /\ ManifestOK(disk_manifest, files) /\ disk_manifest \in Manifest
      /\ manifest \in Manifest /\ disk_manifest.next_sst_id <= manifest.next_sst_id
  BY Zenon DEF LsmInv, LsmTypes, Saved, Crash
<1>2. CASE files' = files
  BY <1>1, <1>2, Zenon
<1>3. CASE files' # files
  <2>1. files' = With(files, manifest.next_sst_id, Empty)
    BY <1>3, Zenon DEF Crash
  <2>2. PICK id : id = manifest.next_sst_id
    OBVIOUS
  <2>3. files' = With(files, id, Empty)
    BY <2>1, <2>2, Zenon
  <2>4. id \in Nat /\ id >= disk_manifest.next_sst_id /\ Empty \in Table
    BY <1>1, <2>2, EntryFacts, EmptyTable
  <2>. QED  BY <1>1, <2>3, <2>4, NewFile
<1>. QED  BY <1>2, <1>3, Zenon

\* A crash keeps the invariant, which speaks of the disk then.
LEMMA CrashInv ==
  ASSUME LsmInv, Crash
  PROVE  LsmInv'
<1>1. FilesTyped(files') /\ ManifestOK(disk_manifest, files')
  BY CrashFiles, Zenon
<1>2. /\ pc' = "down" /\ active' = Empty /\ immutables' = <<>> /\ frozen' = Empty /\ cache' = {}
      /\ manifest' = NoManifest /\ op' = NoOp /\ wal' = readable /\ readable' = readable
      /\ disk_manifest' = disk_manifest /\ damaged' \in BOOLEAN
  BY DEF Crash
<1>3. <<>> \in Seq(Table)
  OBVIOUS
<1>4. LsmTypes'
  BY <1>1, <1>2, <1>3, EmptyTable, NoManifestOK, NoReaders, Zenon DEF LsmInv, LsmTypes
<1>5. OneFlush'
  BY <1>2 DEF OneFlush, Flushing, Flushed
<1>6. ManifestOK(manifest, files)' /\ ManifestOK(disk_manifest, files)'
  BY <1>1, <1>2, NoManifestOK, Zenon
<1>7. Saved' /\ CacheIds' /\ WalCovers' /\ CacheOK'
  BY <1>2, Zenon DEF Saved, CacheIds, WalCovers, CacheOK, InStep
<1>. QED  BY <1>4, <1>5, <1>6, <1>7, Zenon DEF LsmInv

\* LsmTree::open reads the log and the files that are listed and exist.
LEMMA OpenInv ==
  ASSUME Library, LsmInv, Open
  PROVE  LsmInv'
<1>1. /\ pc = "down" /\ pc' = "idle" /\ manifest' = disk_manifest /\ wal' = wal
      /\ readable' = readable /\ op' = op /\ damaged' = damaged
      /\ disk_manifest' = disk_manifest /\ files' = files
      /\ cache' = Opened(disk_manifest, files) /\ active' = Replay(wal)
      /\ frozen' = frozen /\ immutables' = immutables
  BY Zenon DEF Open, log
<1>2. /\ disk_manifest \in Manifest /\ FilesTyped(files) /\ ManifestOK(disk_manifest, files)
      /\ wal \in Seq(Operation)
  BY Zenon DEF LsmInv, LsmTypes
<1>3. GoodCache(cache') /\ active' \in Table
  BY <1>1, <1>2, OpenedGood, ReplayTable, Zenon
<1>4. LsmTypes'
  BY <1>1, <1>2, <1>3, Zenon DEF LsmInv, LsmTypes
<1>5. OneFlush'
  BY <1>1 DEF LsmInv, OneFlush, Flushing, Flushed
<1>6. ManifestOK(manifest, files)' /\ ManifestOK(disk_manifest, files)'
  BY <1>1, <1>2, Zenon
<1>7. /\ pc' # "rotated" /\ pc' # "logged" /\ pc' # "down" /\ pc' \notin InStep /\ pc' # "written"
      /\ pc' \notin {"saved", "cached"} /\ pc' \notin {"written", "saved"} /\ pc' # "cached"
      /\ pc' # "merged"
  BY <1>1 DEF InStep
<1>8. Saved' /\ CacheIds'
  <2>1. disk_manifest.next_sst_id <= disk_manifest.next_sst_id
    BY <1>2, EntryFacts
  <2>2. \A e \in Listed(disk_manifest) : e.id < disk_manifest.next_sst_id
    BY <1>2, Zenon DEF ManifestOK
  <2>3. \A e \in Opened(disk_manifest, files) : e.id < disk_manifest.next_sst_id
    BY <2>2, OpenedAre, ReaderOfFacts
  <2>. QED  BY <1>1, <1>7, <2>1, <2>3, Zenon DEF Saved, CacheIds
<1>9. WalCovers'
  <2>1. immutables' = <<>>
    BY <1>1, Zenon DEF LsmInv, OneFlush
  <2>2. Rest' = Over(Empty, Empty)
    BY <1>7, <2>1, NewestOfNone, Zenon DEF Rest
  <2>3. \A k : k \notin DOMAIN Rest'
    BY <2>2, EmptyTable, Zenon DEF Over
  <2>4. \A k \in DOMAIN Replay(wal) : Visible(Replay(wal)[k]) = Now(k)'
    BY <1>1, Zenon DEF Now
  <2>. QED  BY <1>1, <1>7, <2>3, <2>4, Zenon DEF WalCovers
<1>10. CacheOK'
  BY <1>1, Zenon DEF CacheOK, SameOn
<1>. QED  BY <1>4, <1>5, <1>6, <1>8, <1>9, <1>10, Zenon DEF LsmInv

\* Steps of get and scan change nothing of the tree.
LEMMA FrameInv ==
  ASSUME LsmInv,
         UNCHANGED <<active, immutables, frozen, manifest, disk_manifest, files, cache, wal, readable,
                     pc, op, obsolete, damaged>>
  PROVE  LsmInv'
<1>1. LsmTypes'
  BY Zenon DEF LsmInv, LsmTypes
<1>2. WalCovers'
  BY Zenon DEF LsmInv, WalCovers, Now, Below, Rest
<1>3. OneFlush'
  BY Zenon DEF LsmInv, OneFlush
<1>4. ManifestOK(manifest, files)' /\ ManifestOK(disk_manifest, files)'
  BY Zenon DEF LsmInv
<1>5. Saved' /\ CacheIds'
  BY Zenon DEF LsmInv, Saved, CacheIds, NewReader
<1>6. CacheOK'
  BY Zenon DEF LsmInv, CacheOK
<1>. QED  BY <1>1, <1>2, <1>3, <1>4, <1>5, <1>6, Zenon DEF LsmInv

\* A read changes nothing but the reader.
LEMMA ReaderFrame ==
  ASSUME Reader
  PROVE  /\ UNCHANGED <<active, immutables, frozen, manifest, disk_manifest, files, cache, wal, readable,
                        pc, op, obsolete, damaged>>
<1>1. UNCHANGED <<tree, disk, log, pc, op, obsolete, damaged>>
  BY Zenon DEF Reader, BeginRead, GetActive, GetImmutables, GetCache, GetFrom, ScanCache,
     ScanImmutables, ScanActive, ScanFrom, EndRead
<1>. QED  BY <1>1, Zenon DEF tree, disk, log

\* LsmTree::open on an empty directory establishes the invariant.
LEMMA InitInv == Init => LsmInv
<1>. SUFFICES ASSUME Init PROVE LsmInv
  OBVIOUS
<1>1. /\ active = Empty /\ immutables = <<>> /\ frozen = Empty
      /\ manifest = NoManifest /\ disk_manifest = NoManifest
      /\ files = Empty /\ cache = {} /\ wal = <<>> /\ readable = <<>>
      /\ pc = "idle" /\ op = NoOp /\ obsolete = {} /\ damaged = FALSE
  BY Zenon DEF Init
<1>2. FilesTyped(Empty) /\ <<>> \in Seq(Operation) /\ <<>> \in Seq(Table)
  BY EmptyTable DEF FilesTyped
<1>3. LsmTypes
  BY <1>1, <1>2, EmptyTable, NoManifestOK, NoReaders, Zenon DEF LsmTypes
<1>4. pc # "rotated" /\ pc # "logged" /\ pc \notin InStep
  BY <1>1 DEF InStep
<1>5. WalCovers
  <2>1. Rest = Empty
    BY <1>1, <1>4, NoRest, Zenon
  <2>. QED  BY <1>1, <1>4, <2>1, ReplayNothing, EmptyTable, Zenon DEF WalCovers
<1>6. OneFlush
  BY <1>1 DEF OneFlush, Flushing, Flushed
<1>7. ManifestOK(manifest, files) /\ ManifestOK(disk_manifest, files)
  BY <1>1, NoManifestOK, Zenon
<1>8. Saved /\ CacheIds
  <2>1. NoManifest.next_sst_id <= NoManifest.next_sst_id
    <3>1. NoManifest.next_sst_id \in Nat
      BY NoManifestOK, EntryFacts, Zenon
    <3>. QED  BY <3>1
  <2>. QED  BY <1>1, <2>1 DEF Saved, CacheIds, InStep
<1>9. CacheOK
  <2>1. cache = Opened(disk_manifest, files) /\ manifest = disk_manifest
    BY <1>1, NoManifestOK, Zenon
  <2>. QED  BY <2>1, Zenon DEF CacheOK, SameOn
<1>. QED  BY <1>3, <1>5, <1>6, <1>7, <1>8, <1>9, Zenon DEF LsmInv

\* Every step of the writer, of a reader, of a crash and of open keeps the invariant.
LEMMA StepInv ==
  ASSUME Library, LsmInv, [Next]_vars
  PROVE  LsmInv'
<1>1. CASE UNCHANGED vars
  <2>1. UNCHANGED <<active, immutables, frozen, manifest, disk_manifest, files, cache, wal, readable,
                    pc, op, obsolete, damaged>>
    BY <1>1, Zenon DEF vars
  <2>. QED  BY <2>1, FrameInv, Zenon
<1>2. CASE \E k \in Key, cell \in Cell : LogOp(k, cell) \/ LogFails(k, cell)
  BY <1>2, LogOpInv, LogFailsInv, Zenon
<1>3. CASE WriteMemtable \/ Flush \/ Rotate \/ PushImmutable
  BY <1>3, WriteMemtableInv, FlushInv, RotateInv, PushImmutableInv, Zenon
<1>4. CASE WriteSst \/ SaveManifest \/ PushCache \/ FlushFails \/ DropImmutable
  BY <1>4, WriteSstInv, SaveManifestInv, PushCacheInv, FlushFailsInv, DropImmutableInv, Zenon
<1>5. CASE ResetWal \/ KeepWal \/ ResetWalFails \/ NothingToCompact \/ MergeFails
  BY <1>5, ResetWalInv, NoCompactionInv, Zenon
<1>6. CASE MergeLevel \/ MergeWriteFails \/ DeleteInputs
  BY <1>6, MergeLevelInv, MergeWriteFailsInv, DeleteInputsInv, Zenon
<1>7. CASE SaveCompacted \/ SaveCompactedFails \/ RebuildCache \/ RebuildCacheFails
  BY <1>7, SaveCompactedInv, RebuildCacheInv, Zenon
<1>8. CASE Reader
  BY <1>8, ReaderFrame, FrameInv, Zenon
<1>9. CASE Crash \/ Open
  BY <1>9, CrashInv, OpenInv, Zenon
<1>. QED
  BY <1>1, <1>2, <1>3, <1>4, <1>5, <1>6, <1>7, <1>8, <1>9, Zenon DEF Next, Writer

=============================================================================
