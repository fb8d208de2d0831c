---------------------------- MODULE Transactions ----------------------------
(***************************************************************************)
(* Optimistic transactions (raft-mvcc/src/transaction.rs) over one         *)
(* MvccStore, beside plain puts.                                           *)
(*                                                                         *)
(* A transaction takes no lock.  Every call that it makes to the store is  *)
(* a step: begin reads the revision, get reads a snapshot, commit          *)
(* validates the read set key by key, allocates a revision, and looks up   *)
(* and writes one key after the other.  A plain put holds write_lock, which *)
(* keeps out other puts and no transaction: it takes its revision in one   *)
(* step and writes in another.                                             *)
(*                                                                         *)
(* The store may answer any of these calls with an error, which ends the   *)
(* commit or the put where it is: a failing put_versioned may have written *)
(* the version (LsmTree::put logs and applies an operation before it       *)
(* flushes) or not.                                                        *)
(***************************************************************************)
EXTENDS MvccStore

CONSTANTS
  Key, Value,
  Txn,        \* transactions
  MayFail,    \* "put" and "commit", where the store may answer with an error
  MaxReads,   \* bound: reads of each transaction
  MaxBuffered,\* bound: buffered writes of each transaction
  MaxPuts     \* bound: plain puts

VARIABLES
  engine, current_revision,
  txn,       \* the transactions
  putting,   \* the put that holds write_lock: its key and its revision, or 0
  puts,      \* history: the revisions of the plain puts
  raced      \* history: a commit, a put or a begin overlapped another's commit or put

vars == <<engine, current_revision, txn, putting, puts, raced>>

NoPut == [key |-> <<>>, revision |-> 0]

Idle == [pc |-> "idle", start_revision |-> 0, read_set |-> <<>>, write_set |-> <<>>,
         at |-> 1, commit_revision |-> 0, create_revision |-> 0]

\* Somebody else is between its first and its last step on the store.
Committing(t) == txn[t].pc \in {"validating", "looking", "writing"}
OthersAtWork(t) == (\E u \in Txn \ {t} : Committing(u)) \/ putting # NoPut

Init ==
  /\ engine = <<>> /\ current_revision = 0
  /\ txn = [t \in Txn |-> Idle]
  /\ putting = NoPut /\ puts = {}
  /\ raced = FALSE

-----------------------------------------------------------------------------
(* put_with_options under write_lock.                                       *)

PutBegin(key) ==
  /\ putting = NoPut /\ Cardinality(puts) < MaxPuts
  /\ current_revision' = current_revision + 1 /\ puts' = puts \cup {current_revision'}
  /\ putting' = [key |-> key, revision |-> current_revision']
  /\ raced' = (raced \/ \E t \in Txn : Committing(t))
  /\ UNCHANGED <<engine, txn>>

PutWrite(value) ==
  /\ putting # NoPut /\ putting' = NoPut
  /\ engine' = PutVersion(engine, putting.key, value, 0, 0, putting.revision)
  /\ UNCHANGED <<current_revision, txn, puts, raced>>

\* An error of the lookup or of the write: the revision is spent.
PutFails ==
  /\ "put" \in MayFail /\ putting # NoPut /\ putting' = NoPut
  /\ UNCHANGED <<engine, current_revision, txn, puts, raced>>

-----------------------------------------------------------------------------
(* Transactions.                                                            *)

Begin(t) ==
  /\ txn[t].pc = "idle"
  /\ txn' = [txn EXCEPT ![t].pc = "active", ![t].start_revision = current_revision]
  /\ raced' = (raced \/ OthersAtWork(t))
  /\ UNCHANGED <<engine, current_revision, putting, puts>>

Buffered(t, key) == {i \in DOMAIN txn[t].write_set : txn[t].write_set[i].key = key}

\* get: a key that the transaction has written is answered from its buffer and
\* leaves no trace.
TxnGet(t, key) ==
  /\ txn[t].pc = "active" /\ Buffered(t, key) = {}
  /\ Len(txn[t].read_set) < MaxReads[t]
  /\ LET result == GetAtRevision(engine, key, txn[t].start_revision)
     IN txn' = [txn EXCEPT ![t].read_set = Append(@, [key |-> key, revision |-> result.mod_revision])]
  /\ UNCHANGED <<engine, current_revision, putting, puts, raced>>

\* put and delete of a transaction.
TxnWrite(t, key, value) ==
  /\ txn[t].pc = "active" /\ Len(txn[t].write_set) < MaxBuffered[t]
  /\ txn' = [txn EXCEPT ![t].write_set = Append(@, [key |-> key, value |-> value])]
  /\ UNCHANGED <<engine, current_revision, putting, puts, raced>>

\* commit without writes returns at once.
CommitReadOnly(t) ==
  /\ txn[t].pc = "active" /\ txn[t].write_set = <<>>
  /\ txn' = [txn EXCEPT ![t].pc = "committed", ![t].commit_revision = txn[t].start_revision]
  /\ UNCHANGED <<engine, current_revision, putting, puts, raced>>

CommitBegin(t) ==
  /\ txn[t].pc = "active" /\ txn[t].write_set # <<>>
  /\ txn' = [txn EXCEPT ![t].pc = "validating"]
  /\ raced' = (raced \/ OthersAtWork(t))
  /\ UNCHANGED <<engine, current_revision, putting, puts>>

\* Variant: a key that did not exist when it was read is not checked.
ReadStillValidIfFound(read) ==
  read.revision # 0 => Get(engine, read.key).mod_revision = read.revision

ReadStillValid(read) == Get(engine, read.key).mod_revision = read.revision

\* One turn of the validation loop.
Validate(t) ==
  /\ txn[t].pc = "validating" /\ txn[t].at <= Len(txn[t].read_set)
  /\ txn' = IF ReadStillValid(txn[t].read_set[txn[t].at])
            THEN [txn EXCEPT ![t].at = @ + 1]
            ELSE [txn EXCEPT ![t].pc = "aborted"]
  /\ UNCHANGED <<engine, current_revision, putting, puts, raced>>

\* allocate_revision
Allocate(t) ==
  /\ txn[t].pc = "validating" /\ txn[t].at > Len(txn[t].read_set)
  /\ current_revision' = current_revision + 1
  /\ txn' = [txn EXCEPT ![t].pc = "looking", ![t].at = 1, ![t].commit_revision = current_revision']
  /\ UNCHANGED <<engine, putting, puts, raced>>

\* The lookup of create_revision for the next write.
LookUp(t) ==
  /\ txn[t].pc = "looking"
  /\ LET w == txn[t].write_set[txn[t].at]
         kv == Get(engine, w.key)
     IN txn' = [txn EXCEPT ![t].pc = "writing",
                           ![t].create_revision =
                             IF w.value = Absent THEN 0
                             ELSE IF kv # NoVersion THEN kv.create_revision
                             ELSE txn[t].commit_revision]
  /\ UNCHANGED <<engine, current_revision, putting, puts, raced>>

\* What the next write puts into the engine.
Written(t) ==
  LET w == txn[t].write_set[txn[t].at]
      vv == [value |-> w.value, create_revision |-> txn[t].create_revision,
             mod_revision |-> txn[t].commit_revision, lease_id |-> 0, ttl_seconds |-> 0]
  IN EnginePut(engine, EncodeKey(w.key, txn[t].commit_revision), Encode(vv))

\* Variant: the loop over the write set ends one write early.
WriteOneButLast(t) ==
  /\ txn[t].pc = "writing"
  /\ engine' = Written(t)
  /\ txn' = [txn EXCEPT ![t].at = @ + 1,
                        ![t].pc = IF txn[t].at + 1 >= Len(txn[t].write_set) THEN "committed" ELSE "looking"]
  /\ UNCHANGED <<current_revision, putting, puts, raced>>

\* put_versioned, and the end of commit after the last write.
WriteOne(t) ==
  /\ txn[t].pc = "writing"
  /\ engine' = Written(t)
  /\ txn' = [txn EXCEPT ![t].at = @ + 1,
                        ![t].pc = IF txn[t].at = Len(txn[t].write_set) THEN "committed" ELSE "looking"]
  /\ UNCHANGED <<current_revision, putting, puts, raced>>

\* An error of the store inside commit: of get in the validation or in the lookup, or of
\* put_versioned.  What was written stays.
CommitFails(t) ==
  /\ "commit" \in MayFail /\ Committing(t)
  /\ txn' = [txn EXCEPT ![t].pc = "failed"]
  /\ engine' = engine \/ (txn[t].pc = "writing" /\ engine' = Written(t))
  /\ UNCHANGED <<current_revision, putting, puts, raced>>

Next ==
  \/ \E key \in Key : PutBegin(key)
  \/ (\E value \in Value : PutWrite(value)) \/ PutFails
  \/ \E t \in Txn :
       \/ Begin(t) \/ CommitReadOnly(t) \/ CommitBegin(t)
       \/ Validate(t) \/ Allocate(t) \/ LookUp(t) \/ WriteOne(t) \/ CommitFails(t)
       \/ \E key \in Key :
            \/ TxnGet(t, key)
            \/ \E value \in Value \cup {Absent} : TxnWrite(t, key, value)

Spec == Init /\ [][Next]_vars

-----------------------------------------------------------------------------
\* Type invariant: every version in the engine has a revision that was given out.
TxnTypeOK ==
  /\ \A x \in DOMAIN engine :
       LET vv == Decode(engine[x])
       IN /\ UserKey(x) \in Key /\ Revision(x) \in 1..current_revision
          /\ vv.mod_revision = Revision(x)
  /\ putting.revision <= current_revision
  /\ \A t \in Txn : txn[t].commit_revision <= current_revision

\* The read sees the state just before a revision: the version of the key that is
\* current below it.
ReadBefore(read, revision) == GetAtRevision(engine, read.key, revision).mod_revision = read.revision

Serialized(t) ==
  txn[t].pc = "committed" =>
    \A i \in DOMAIN txn[t].read_set :
      ReadBefore(txn[t].read_set[i],
                 IF txn[t].write_set = <<>> THEN txn[t].commit_revision ELSE txn[t].commit_revision - 1)

\* Committed transactions are serializable in the order of their commit revisions,
\* plain puts included: each read what was current right before it committed.
\* This holds as long as no begin, commit or put overlaps the commit or the put of
\* another, which Transaction leaves to its caller.
SerializableUnlessRaced == ~raced => \A t \in Txn : Serialized(t)

\* The engine holds the last write of every key among the first n writes of t, and
\* nothing else, at the revision of its commit.
LeftByFirst(t, n) ==
  LET writes == SubSeq(txn[t].write_set, 1, n)
      left == {x \in DOMAIN engine : Revision(x) = txn[t].commit_revision}
  IN /\ {UserKey(x) : x \in left} = {writes[i].key : i \in 1..n}
     /\ \A x \in left : Decode(engine[x]).value =
          writes[Max({i \in 1..n : writes[i].key = UserKey(x)})].value

\* A transaction that committed has left its last write of every key, at one revision.
\* One that an error stopped has left a beginning of its writes, in their order, and no
\* write of its that comes later.  One that aborted has left nothing: every version is
\* that of a put or of a transaction that passed the validation (Transaction::commit).
CommitAppliesInOrder ==
  /\ \A t \in Txn :
       /\ txn[t].pc = "committed" /\ txn[t].write_set # <<>> =>
            LeftByFirst(t, Len(txn[t].write_set))
       /\ txn[t].pc = "failed" => \E n \in 0..Len(txn[t].write_set) : LeftByFirst(t, n)
  /\ \A x \in DOMAIN engine :
       \/ Revision(x) \in puts
       \/ \E t \in Txn : /\ txn[t].commit_revision = Revision(x)
                         /\ txn[t].pc \in {"looking", "writing", "committed", "failed"}

\* What the doc of Transaction says, that commit "validates that no key in the
\* read-set was modified by another transaction since it was read", whatever
\* runs beside it.
Serializable == \A t \in Txn : Serialized(t)

\* What it says of the writes, "all writes are applied atomically at a single
\* revision": a reader of the latest revision that finds one of them finds all.
AppliedAtomically ==
  \A t \in Txn :
    LET keys == {txn[t].write_set[i].key : i \in DOMAIN txn[t].write_set}
        seen == {key \in keys : EncodeKey(key, txn[t].commit_revision) \in DOMAIN engine}
    IN txn[t].commit_revision > 0 /\ txn[t].write_set # <<>> => seen \in {{}, keys}
=============================================================================
