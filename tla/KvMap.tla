------------------------------- MODULE KvMap --------------------------------
(***************************************************************************)
(* What a StorageEngine promises its one writer: a map in which every      *)
(* operation that was begun takes effect once, whole and before the next   *)
(* one, and which nothing else changes: no flush, no compaction, no crash. *)
(* The promise ends where `intact' does.                                   *)
(***************************************************************************)
CONSTANTS Key, Value,
          Tombstone,  \* the cell a delete writes
          Absent,     \* what a key without a value holds
          NoOp        \* no operation begun

VARIABLES kv, pending, intact

Operation == [key : Key, cell : Value \cup {Tombstone}]

Init == kv = [k \in Key |-> Absent] /\ pending = NoOp /\ intact = TRUE

\* StorageEngine::put or delete is called
Begin(o) == pending = NoOp /\ pending' = o /\ UNCHANGED kv

\* and takes effect.
TakeEffect ==
  /\ pending # NoOp
  /\ kv' = [kv EXCEPT ![pending.key] = IF pending.cell = Tombstone THEN Absent ELSE pending.cell]
  /\ pending' = NoOp

Next ==
  \/ ~intact'
  \/ intact /\ intact' /\ (TakeEffect \/ \E o \in Operation : Begin(o))

Spec == Init /\ [][Next]_<<kv, pending, intact>>

=============================================================================
