------------------------------ MODULE WalFile -------------------------------
(***************************************************************************)
(* The contents of a write-ahead-log file and what its reader makes of     *)
(* them.  A file is a sequence of fragments: records that were written     *)
(* completely, and the beginnings of records that a crash cut short, inside *)
(* the 8-byte header or inside the data behind it.                          *)
(***************************************************************************)
EXTENDS Naturals, Sequences, FiniteSetsExt

\* WalRecord::encode, complete.
Whole(d) == [part |-> "whole", data |-> d]

\* WalRecord::encode, cut short inside the header or inside the data.
Torn(part) == [part |-> part]

TornParts == {"header", "body"}

\* WalRecord::decode at the i-th fragment.  The checksum rejects whatever mixes
\* the bytes of a torn record with those of the record behind it.
Decode(file, i) ==
  CASE i > Len(file) -> "eof"
    [] i <= Len(file) /\ file[i].part = "whole" -> "record"
    [] i = Len(file) /\ file[i].part = "header" -> "eof"
    [] OTHER -> "corruption"

\* Where decoding stops.
StopsAt(file) == Min({i \in 1..(Len(file) + 1) : Decode(file, i) # "record"})

\* WalReader::read_all: the records in front of the first corruption.
ReadAll(file) == [i \in 1..(StopsAt(file) - 1) |-> file[i].data]

=============================================================================
