----------------------------- MODULE MvccStore -----------------------------
(***************************************************************************)
(* The operators of raft-mvcc over a storage engine: the encoding of keys  *)
(* and versions (version.rs) and the reads and writes of MvccStore         *)
(* (mvcc.rs).  The engine is a function from internal keys to encoded      *)
(* values: the map that module KvMap promises.                             *)
(***************************************************************************)
EXTENDS ByteStrings, FiniteSets, FiniteSetsExt

CONSTANTS Absent       \* None

\* u64::MAX.  Revisions are bounded far below it.
MaxRevision == 1000000

-----------------------------------------------------------------------------
(* version.rs                                                               *)

REVISION_SUFFIX_LEN == 8

\* encode_key for a revision below 256: the user key and the inverted revision,
\* high byte first.
EncodeKey(user_key, revision) ==
  user_key \o [i \in 1..REVISION_SUFFIX_LEN |-> IF i < REVISION_SUFFIX_LEN THEN 255 ELSE 255 - revision]

UserKey(encoded) == SubSeq(encoded, 1, Len(encoded) - REVISION_SUFFIX_LEN)
Revision(encoded) == 255 - Last(encoded)

Zeros == [i \in 1..REVISION_SUFFIX_LEN |-> 0]

\* encode_key_prefix_start: the inverse of u64::MAX is zero.
PrefixStart(user_key) == user_key \o Zeros

\* increment_bytes: the bytes as a number with the high byte first, plus one.
IncrementBytes(bytes) ==
  LET at == Max({0} \cup {i \in DOMAIN bytes : bytes[i] < 255})
      bumped == [i \in DOMAIN bytes |->
                   IF i < at THEN bytes[i] ELSE IF i = at THEN bytes[i] + 1 ELSE 0]
  IN IF at = 0 THEN <<1>> \o bumped ELSE bumped

\* encode_key_prefix_end
PrefixEnd(user_key) == IncrementBytes(user_key) \o Zeros

\* Variant: the two revisions are written in the wrong order.
EncodeSwapped(vv) ==
  (IF vv.value = Absent THEN <<2>> ELSE <<1>> \o LE(Len(vv.value), 4) \o vv.value)
  \o LE(vv.mod_revision, 8) \o LE(vv.create_revision, 8)
  \o LE(vv.lease_id, 8) \o LE(vv.ttl_seconds, 8)

\* VersionedValue::encode.  A value is a byte string, or Absent in a delete marker.
Encode(vv) ==
  (IF vv.value = Absent THEN <<2>> ELSE <<1>> \o LE(Len(vv.value), 4) \o vv.value)
  \o LE(vv.create_revision, 8) \o LE(vv.mod_revision, 8)
  \o LE(vv.lease_id, 8) \o LE(vv.ttl_seconds, 8)

\* VersionedValue::decode
Decode(data) ==
  LET len == FromLE(Slice(data, 1, 5))
      offset == IF data[1] = 1 THEN 5 + len ELSE 1
  IN [value |-> IF data[1] = 1 THEN Slice(data, 5, 5 + len) ELSE Absent,
      create_revision |-> FromLE(Slice(data, offset, offset + 8)),
      mod_revision |-> FromLE(Slice(data, offset + 8, offset + 16)),
      lease_id |-> FromLE(Slice(data, offset + 16, offset + 24)),
      ttl_seconds |-> FromLE(Slice(data, offset + 24, offset + 32))]

-----------------------------------------------------------------------------
(* mvcc.rs                                                                  *)

\* engine.scan: the internal keys of [start, end).
ScanKeys(engine, start, end) == {x \in DOMAIN engine : ~Less(x, start) /\ Less(x, end)}

\* The first of a set of internal keys.
FirstKey(keys) == CHOOSE x \in keys : \A y \in keys \ {x} : Less(x, y)

EnginePut(engine, internal_key, raw) ==
  [x \in DOMAIN engine \cup {internal_key} |-> IF x = internal_key THEN raw ELSE engine[x]]

EngineDelete(engine, internal_key) == [x \in DOMAIN engine \ {internal_key} |-> engine[x]]

NoVersion ==
  [value |-> Absent, create_revision |-> 0, mod_revision |-> 0, lease_id |-> 0, ttl_seconds |-> 0]

\* get_at_revision: the first version in the range of the key that is not newer than
\* the revision.  What Option<KeyValue> shows of it: a delete marker reads as None.
GetAtRevision(engine, key, revision) ==
  LET found == {x \in ScanKeys(engine, PrefixStart(key), PrefixEnd(key)) : Revision(x) <= revision}
      vv == Decode(engine[FirstKey(found)])
  IN IF found = {} \/ vv.value = Absent THEN NoVersion ELSE vv

Get(engine, key) == GetAtRevision(engine, key, MaxRevision)

\* get_latest_version_info
LatestVersionInfo(engine, key) ==
  LET found == ScanKeys(engine, PrefixStart(key), PrefixEnd(key))
  IN IF found = {} THEN NoVersion ELSE Decode(engine[FirstKey(found)])

\* The body of put_with_options under write_lock, at the next revision.
PutVersion(engine, key, value, lease_id, ttl_seconds, revision) ==
  LET latest == LatestVersionInfo(engine, key)
      vv == [value |-> value,
             create_revision |-> IF latest.value # Absent THEN latest.create_revision ELSE revision,
             mod_revision |-> revision, lease_id |-> lease_id, ttl_seconds |-> ttl_seconds]
  IN EnginePut(engine, EncodeKey(key, revision), Encode(vv))

\* The body of delete.
DeleteVersion(engine, key, revision) ==
  EnginePut(engine, EncodeKey(key, revision), Encode([NoVersion EXCEPT !.mod_revision = revision]))

\* The entries of an engine scan that a walk with last_user_key takes: of those it
\* may take, every one whose user key differs from the one of the last before it.
FirstOfEachUserKey(keys) ==
  {x \in keys :
     LET before == {y \in keys : Less(y, x)}
     IN before = {} \/ UserKey(CHOOSE y \in before : \A z \in before \ {y} : Less(z, y)) # UserKey(x)}

\* scan_at_revision, as the set of the key-value pairs in its result.
ScanAtRevision(engine, start_key, end_key, revision) ==
  LET scanned == ScanKeys(engine, PrefixStart(start_key), PrefixEnd(end_key))
      taken == FirstOfEachUserKey({x \in scanned : Revision(x) <= revision})
  IN {[key |-> UserKey(x), vv |-> Decode(engine[x])] :
        x \in {y \in taken : /\ Decode(engine[y]).value # Absent
                             /\ ~Less(UserKey(y), start_key) /\ Less(UserKey(y), end_key)}}
=============================================================================
