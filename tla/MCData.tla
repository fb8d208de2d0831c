-------------------------------- MODULE MCData --------------------------------
(***************************************************************************)
(* What clients do with data, for TLC: the versioned store (Mvcc),         *)
(* transactions over it (Transactions), and the calls of a client          *)
(* (Client).  A behaviour is one of the component that `part' names.       *)
(* Transactions are looked at twice: "serial" with more reads and a plain  *)
(* put, where nobody overlaps a commit, "overlap" with more writes and any *)
(* interleaving.                                                           *)
(***************************************************************************)
EXTENDS Mvcc

CONSTANTS t1, t2, n1, n2, n3, None

VARIABLES
  part,
  txn, putting, puts, raced,
  leader_id, connections, call, node_id, attempt, up, leading, knows, calls, events,
  proposed, lost, calm, refused, result

mvcc_vars == <<written, replay, collecting, sweeping, retained, rewound, passes, restarts>>
txn_vars == <<txn, putting, puts, raced>>
client_vars == <<leader_id, connections, call, node_id, attempt, up, leading, knows, calls,
                 events, proposed, lost, calm, refused, result>>

\* One key is the beginning of the other, which ends in the highest byte.
SomeKeys == {<<98>>, <<98, 1, 255>>}
OneValue == {<<7>>}

TwoKeys == {<<97>>, <<98>>}

Bound(first, second) == [t \in {t1, t2} |-> IF t = t1 THEN first ELSE second]

Serial == INSTANCE Transactions WITH
            Key <- TwoKeys, Txn <- {t1, t2}, MayFail <- {"put"},
            MaxReads <- Bound(2, 1), MaxBuffered <- Bound(1, 1), MaxPuts <- 1
Overlap == INSTANCE Transactions WITH
             Key <- TwoKeys, Txn <- {t1, t2}, MayFail <- {"commit"},
             MaxReads <- Bound(1, 1), MaxBuffered <- Bound(2, 1), MaxPuts <- 0

Calls == INSTANCE Client WITH Order <- <<n1, n2, n3>>, max_retries <- 5, MaxCalls <- 2, MaxEvents <- 3

DataInit ==
  /\ part \in {"mvcc", "serial", "overlap", "client"}
  /\ Init /\ Serial!Init /\ Calls!Init
  /\ part # "client" => /\ up = Calls!Node /\ leading = {n1}
                        /\ \A n \in Calls!Node : knows[n] = None

DataNext ==
  \/ part = "mvcc" /\ Next /\ UNCHANGED <<part, txn_vars, client_vars>>
  \/ part = "serial" /\ Serial!Next /\ UNCHANGED <<part, mvcc_vars, client_vars>>
  \/ part = "overlap" /\ Overlap!Next /\ UNCHANGED <<part, mvcc_vars, client_vars>>
  \/ part = "client" /\ Calls!Next /\ UNCHANGED <<part, vars, txn_vars>>

DataSpec == DataInit /\ [][DataNext]_<<part, vars, txn_vars, client_vars>>

\* The states behind an overlap in "serial" are not expanded: its property says
\* nothing of them.
Unraced == part = "serial" => ~raced

-----------------------------------------------------------------------------
(* The properties of each component, in its behaviours.                    *)

\* Type invariant: the versions and the passes over them (MvccStore), the buffers of
\* the transactions (Transaction), and the connections, the hint and the call (KvClient).
DataTypeOK ==
  /\ part = "mvcc" => MvccTypeOK
  /\ part = "overlap" => Overlap!TxnTypeOK
  /\ part = "client" => Calls!ClientTypeOK

\* MvccStore::get and scan_at_revision after put_with_options and GarbageCollector::collect.
StoreReadsLatest == part = "mvcc" => GetsLatest /\ ScanAgreesWithGet

\* MvccStore::get_at_revision.
RetainedReads == part = "mvcc" => SnapshotReadsIfRetained

\* Transaction::commit, validation.
SerializableUnlessRaced == part = "serial" => Serial!SerializableUnlessRaced

\* Transaction::commit, writes.
CommitAppliesInOrder == part \in {"serial", "overlap"} => Overlap!CommitAppliesInOrder

\* KvClient::put and delete: retries.
RepeatedOnlyIfLost == part = "client" => Calls!RepeatedOnlyIfLost

\* KvClient::put, delete and get: hints and the round of the nodes.
CalmIsServedUnlessRefused == part = "client" => Calls!CalmIsServedUnlessRefused

=============================================================================
