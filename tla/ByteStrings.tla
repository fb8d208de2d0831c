---------------------------- MODULE ByteStrings ----------------------------
(* Byte strings (Vec<u8>, [u8]) as sequences of bytes: integers in little-   *)
(* endian form, slices, and the order of byte strings.                       *)
EXTENDS Integers, Sequences, SequencesExt

\* to_le_bytes of a number below 2^24
LE(n, width) == [i \in 1..width |-> IF i <= 3 THEN (n \div 256^(i - 1)) % 256 ELSE 0]

FromLE(bytes) == bytes[1] + 256 * bytes[2] + 65536 * bytes[3]

\* data[from..to]: from is counted from 0 and to is not part of the slice.
Slice(data, from, to) == SubSeq(data, from + 1, to)

\* Ord for [u8]
Less(a, b) ==
  \/ Len(a) < Len(b) /\ IsPrefix(a, b)
  \/ \E i \in 1..Len(a) \cap 1..Len(b) :
       a[i] < b[i] /\ SubSeq(a, 1, i - 1) = SubSeq(b, 1, i - 1)
=============================================================================
