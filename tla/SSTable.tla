------------------------------ MODULE SSTable ------------------------------
(***************************************************************************)
(* The SSTable file format: SSTableWriter, SSTableReader, the blocks, the  *)
(* footer and the Bloom filter of raft-storage.                            *)
(*                                                                         *)
(* A file is a sequence of bytes, written entry by entry as the code       *)
(* writes it.  The hash of the Bloom filter is any function: Init chooses  *)
(* one.  Only the low four bytes of a 64-bit offset are used, and the two  *)
(* hashes of a key wrap at HashSpace and not at 2^64.                      *)
(***************************************************************************)
EXTENDS ByteStrings, FiniteSets, FiniteSetsExt

CONSTANTS
  Key,         \* keys: sequences of bytes
  Value,       \* values: sequences of bytes
  Tombstone,   \* the value of a deleted key
  Absent,      \* the answer for a key that the file does not hold
  Corruption,  \* Error::Corruption
  Hashes,      \* pairs <<h1, h2>> that hash_pair may give a key
  BlockSizes,  \* block_size of the writer
  Cuts,        \* bound: how many bytes a torn file lacks
  MaxEntries   \* bound: entries of one file

VARIABLES
  phase,     \* "adding", then "finished", or "torn" after a crash in the write
  entries,   \* history: what add was called with, in order
  writer,    \* SSTableWriter
  hash,      \* hash_pair
  file       \* the file on disk

vars == <<phase, entries, writer, hash, file>>

HashSpace == 65536
FOOTER_SIZE == 40
MAGIC == <<76, 66, 84, 83>>
TOMBSTONE_MARKER == <<255, 255, 255, 255>>

-----------------------------------------------------------------------------
(* The Bloom filter.                                                        *)

\* BloomFilter::new for a false positive rate of 0.01: ceil(n * 9.58506) bits,
\* which always gives 7 hashes for the sizes used here.
NewBloom(expected_items) ==
  [num_bits |-> Max({(958506 * Max({expected_items, 1}) + 99999) \div 100000, 8}),
   num_hashes |-> 7,
   bits |-> {}]

GetIndex(bloom, pair, i) == ((pair[1] + i * pair[2]) % HashSpace) % bloom.num_bits

BitsOf(bloom, pair) == {GetIndex(bloom, pair, i) : i \in 0..bloom.num_hashes - 1}

Insert(bloom, pair) == [bloom EXCEPT !.bits = @ \cup BitsOf(bloom, pair)]

MayContain(bloom, pair) ==
  \A i \in 0..bloom.num_hashes - 1 : GetIndex(bloom, pair, i) \in bloom.bits

\* as_bytes: the bits in whole bytes, lowest bit first.
BloomBytes(bloom) ==
  [b \in 1..(bloom.num_bits + 7) \div 8 |->
     FoldFunction(+, 0, [j \in 0..7 |-> IF 8 * (b - 1) + j \in bloom.bits THEN 2^j ELSE 0])]

\* from_raw
FromRaw(bytes, num_hashes, num_bits) ==
  [num_bits |-> num_bits,
   num_hashes |-> num_hashes,
   bits |-> {p \in 0..num_bits - 1 :
               p \div 8 < Len(bytes) /\ (bytes[p \div 8 + 1] \div 2^(p % 8)) % 2 = 1}]

-----------------------------------------------------------------------------
(* Writing.                                                                 *)

ValueLen(v) == IF v = Tombstone THEN 0 ELSE Len(v)

NewBlock == [entries |-> <<>>, size |-> 4]

BlockAdd(block, e) ==
  [entries |-> Append(block.entries, e),
   size |-> block.size + 4 + 4 + Len(e.key) + ValueLen(e.value)]

EncodeEntry(e) ==
  LE(Len(e.key), 4)
  \o (IF e.value = Tombstone THEN TOMBSTONE_MARKER ELSE LE(Len(e.value), 4))
  \o e.key
  \o (IF e.value = Tombstone THEN <<>> ELSE e.value)

\* BlockBuilder::build
Build(block) ==
  FlattenSeq([i \in DOMAIN block.entries |-> EncodeEntry(block.entries[i])])
  \o LE(Len(block.entries), 4)

NewWriter(block_size, expected_entries) ==
  [block_size |-> block_size,
   expected |-> expected_entries,
   current_block |-> NewBlock,
   index |-> <<>>,
   bloom |-> NewBloom(expected_entries),
   data |-> <<>>]

FlushBlock(w) ==
  LET block_data == Build(w.current_block)
  IN [w EXCEPT !.current_block = NewBlock,
               !.data = @ \o block_data,
               !.index = Append(@, [first_key |-> w.current_block.entries[1].key,
                                    offset |-> Len(w.data),
                                    size |-> Len(block_data)])]

\* SSTableWriter::add
WriterAdd(w, e, pair) ==
  LET added == [w EXCEPT !.bloom = Insert(@, pair), !.current_block = BlockAdd(@, e)]
  IN IF added.current_block.size >= w.block_size THEN FlushBlock(added) ELSE added

EncodeIndex(index) ==
  LE(Len(index), 4)
  \o FlattenSeq([i \in DOMAIN index |->
       LE(Len(index[i].first_key), 4) \o index[i].first_key
       \o LE(index[i].offset, 8) \o LE(index[i].size, 8)])

EncodeFooter(f) ==
  LE(f.index_offset, 8) \o LE(f.index_size, 8) \o LE(f.bloom_offset, 8) \o LE(f.bloom_size, 8)
  \o LE(f.bloom_num_hashes, 4) \o MAGIC

\* What SSTableWriter::finish hands to std::fs::write.
FinishedData(w) ==
  LET flushed == IF w.current_block.entries = <<>> THEN w ELSE FlushBlock(w)
      index_data == EncodeIndex(flushed.index)
      bloom_data == LE(w.bloom.num_bits, 8) \o BloomBytes(w.bloom)
  IN flushed.data \o index_data \o bloom_data
     \o EncodeFooter([index_offset |-> Len(flushed.data), index_size |-> Len(index_data),
                      bloom_offset |-> Len(flushed.data) + Len(index_data),
                      bloom_size |-> Len(bloom_data), bloom_num_hashes |-> w.bloom.num_hashes])

-----------------------------------------------------------------------------
(* Reading.                                                                 *)

DecodeFooter(bytes) ==
  IF Slice(bytes, 36, 40) # MAGIC THEN Corruption
  ELSE [index_offset |-> FromLE(Slice(bytes, 0, 8)), index_size |-> FromLE(Slice(bytes, 8, 16)),
        bloom_offset |-> FromLE(Slice(bytes, 16, 24)), bloom_size |-> FromLE(Slice(bytes, 24, 32)),
        bloom_num_hashes |-> FromLE(Slice(bytes, 32, 36))]

\* parse_index: each entry starts at the offset where the last one stopped, and an
\* error ends the loop.
ParseIndex(data) ==
  LET num_entries == FromLE(Slice(data, 0, 4))
      Step(acc, i) ==
        LET key_len == FromLE(Slice(data, acc.offset, acc.offset + 4))
            at == acc.offset + 4 + key_len
        IN IF acc = Corruption \/ acc.offset + 4 > Len(data) THEN Corruption
           ELSE IF at + 16 > Len(data) THEN Corruption
           ELSE [offset |-> at + 16,
                 parsed |-> Append(acc.parsed,
                              [first_key |-> Slice(data, acc.offset + 4, at),
                               offset |-> FromLE(Slice(data, at, at + 8)),
                               size |-> FromLE(Slice(data, at + 8, at + 16))])]
  IN IF Len(data) < 4 THEN Corruption
     ELSE FoldLeft(Step, [offset |-> 4, parsed |-> <<>>], [i \in 1..num_entries |-> i])

\* BlockReader::read_entries, a loop of the same form.
ReadEntries(data) ==
  LET payload_end == Len(data) - 4
      num_entries == FromLE(Slice(data, payload_end, payload_end + 4))
      Step(acc, i) ==
        LET key_len == FromLE(Slice(data, acc.offset, acc.offset + 4))
            val_raw == Slice(data, acc.offset + 4, acc.offset + 8)
            at == acc.offset + 8 + key_len
            end == IF val_raw = TOMBSTONE_MARKER THEN at ELSE at + FromLE(val_raw)
        IN IF acc = Corruption \/ acc.offset + 8 > payload_end THEN Corruption
           ELSE IF at > payload_end \/ end > payload_end THEN Corruption
           ELSE [offset |-> end,
                 parsed |-> Append(acc.parsed,
                              [key |-> Slice(data, acc.offset + 8, at),
                               value |-> IF val_raw = TOMBSTONE_MARKER THEN Tombstone
                                         ELSE Slice(data, at, end)])]
  IN IF Len(data) < 4 THEN Corruption
     ELSE FoldLeft(Step, [offset |-> 0, parsed |-> <<>>], [i \in 1..num_entries |-> i])

\* SSTableReader::open
Open(data) ==
  IF Len(data) < FOOTER_SIZE THEN Corruption
  ELSE LET footer == DecodeFooter(Slice(data, Len(data) - FOOTER_SIZE, Len(data)))
       IN IF footer = Corruption THEN Corruption
          ELSE LET index_end == footer.index_offset + footer.index_size
                   bloom_end == footer.bloom_offset + footer.bloom_size
                   index == ParseIndex(Slice(data, footer.index_offset, index_end))
                   bloom_data == Slice(data, footer.bloom_offset, bloom_end)
               IN IF index_end > Len(data) \/ index = Corruption THEN Corruption
                  ELSE IF bloom_end > Len(data) \/ Len(bloom_data) < 8 THEN Corruption
                  ELSE [data |-> data,
                        index |-> index.parsed,
                        bloom |-> FromRaw(Slice(bloom_data, 8, Len(bloom_data)),
                                          footer.bloom_num_hashes,
                                          FromLE(Slice(bloom_data, 0, 8)))]

\* Variant: the block after the one that a search between two blocks belongs to.
FindBlockAfter(index, key) ==
  Min({Cardinality({i \in DOMAIN index : Less(index[i].first_key, key)}) + 1, Len(index)})

\* find_block: the last block whose first key is not above the key, or the first.
FindBlock(index, key) ==
  Max({1} \cup {i \in DOMAIN index : ~Less(key, index[i].first_key)})

BlockOf(reader, e) == ReadEntries(Slice(reader.data, e.offset, e.offset + e.size)).parsed

\* SSTableReader::get
Get(reader, key, pair) ==
  IF ~MayContain(reader.bloom, pair) \/ reader.index = <<>> THEN Absent
  ELSE LET block == BlockOf(reader, reader.index[FindBlock(reader.index, key)])
           found == {i \in DOMAIN block : block[i].key = key}
       IN IF found = {} THEN Absent ELSE block[Max(found)].value

\* SSTableReader::iter
Iter(reader) == FlattenSeq([i \in DOMAIN reader.index |-> BlockOf(reader, reader.index[i])])

\* SSTableReader::scan: the entries of [start, end), stopping at the first one
\* past the range.
Scan(reader, start, end) ==
  LET all == Iter(reader)
      stop == Min({i \in DOMAIN all : ~Less(all[i].key, end)} \cup {Len(all) + 1})
  IN SelectSeq(SubSeq(all, 1, stop - 1), LAMBDA e : ~Less(e.key, start))

-----------------------------------------------------------------------------
Init ==
  /\ phase = "adding"
  /\ entries = <<>>
  /\ hash \in [Key -> Hashes]
  /\ \E block_size \in BlockSizes, expected \in 1..MaxEntries :
       writer = NewWriter(block_size, expected)
  /\ file = <<>>

\* add, in the order of the keys as flush_memtable and compact call it, and as many
\* times as they announced to new.
Add(key, value) ==
  /\ phase = "adding"
  /\ Len(entries) < writer.expected
  /\ entries # <<>> => Less(Last(entries).key, key)
  /\ LET e == [key |-> key, value |-> value]
     IN /\ entries' = Append(entries, e)
        /\ writer' = WriterAdd(writer, e, hash[key])
  /\ UNCHANGED <<phase, hash, file>>

\* finish
Finish ==
  /\ phase = "adding" /\ phase' = "finished"
  /\ Len(entries) = writer.expected
  /\ file' = FinishedData(writer)
  /\ UNCHANGED <<entries, writer, hash>>

\* The process dies in std::fs::write, which created the file and has written some
\* of the bytes.
CrashInWrite ==
  /\ phase = "adding" /\ phase' = "torn"
  /\ Len(entries) = writer.expected
  /\ LET data == FinishedData(writer)
     IN \E missing \in Cuts \cap 1..Len(data) : file' = SubSeq(data, 1, Len(data) - missing)
  /\ UNCHANGED <<entries, writer, hash>>

Next ==
  \/ \E key \in Key, value \in Value \cup {Tombstone} : Add(key, value)
  \/ Finish
  \/ CrashInWrite

Spec == Init /\ [][Next]_vars

-----------------------------------------------------------------------------
\* Type invariant: a writer whose size estimate is the number of bytes that build
\* will produce for its current block (BlockBuilder::add against build), and a
\* file of bytes.
SSTableTypeOK ==
  /\ phase \in {"adding", "finished", "torn"}
  /\ \A i \in DOMAIN entries : entries[i].key \in Key /\ entries[i].value \in Value \cup {Tombstone}
  /\ hash \in [Key -> Hashes]
  /\ writer.current_block.size = Len(Build(writer.current_block))
  /\ \A i \in DOMAIN file : file[i] \in 0..255

\* A finished file opens, and get answers for every key what add was called with,
\* a tombstone included, and nothing for other keys: whatever the hash of the
\* filter and however the entries fall into blocks (SSTableReader::get).
GetsWhatWasAdded ==
  phase = "finished" =>
    LET reader == Open(file)
    IN /\ reader # Corruption
       /\ \A key \in Key :
            LET at == {i \in DOMAIN entries : entries[i].key = key}
            IN Get(reader, key, hash[key]) = IF at = {} THEN Absent ELSE entries[Max(at)].value

\* scan gives the entries of the half-open range in order, across blocks, and iter
\* all of them (SSTableReader::scan, iter).
ScansWhatWasAdded ==
  phase = "finished" =>
    LET reader == Open(file)
    IN /\ Iter(reader) = entries
       /\ \A start, end \in Key :
            Scan(reader, start, end) =
              SelectSeq(entries, LAMBDA e : ~Less(e.key, start) /\ Less(e.key, end))

\* A file that a crash cut short anywhere does not open (SSTableReader::open):
\* LsmTree never reads from half a file.
TornFileRejected == phase = "torn" => Open(file) = Corruption

\* What the comment in finish says, "Write entire file atomically": a file that
\* was not written in full is not there.
WrittenAtomically == phase = "torn" => file = <<>>
=============================================================================
