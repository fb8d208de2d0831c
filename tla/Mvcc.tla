-------------------------------- MODULE Mvcc --------------------------------
(***************************************************************************)
(* MvccStore as a state machine, with the garbage collector, the TTL sweep *)
(* and restarts of the process.  A put or a delete holds write_lock from   *)
(* the new revision to the write and is one step.  The collector and the   *)
(* sweep read the engine once and then delete key by key without a lock on *)
(* what they read: every deletion is a step of its own.                    *)
(*                                                                         *)
(* After a restart the revision counter is zero and the apply loop applies *)
(* the commands that are still in the Raft log, oldest first.  The deletes *)
(* of the sweep go to the store and never were in the log.                 *)
(***************************************************************************)
EXTENDS MvccStore

CONSTANTS
  Key,         \* user keys: byte strings
  Value,       \* values: byte strings
  Ttl,         \* ttl_seconds of a put
  Limits,      \* min_revision of collect, now_secs of sweep_expired
  MaxWrites,   \* bound: puts and deletes
  MaxPasses,   \* bound: collections and sweeps
  MaxRestarts, \* bound: restarts
  MaxDropped   \* bound: commands that log compaction has dropped at a restart

VARIABLES
  engine,            \* the storage engine
  current_revision,  \* MvccStore.current_revision
  written,           \* history: the versions so far, and whether a command of the log made them
  replay,            \* the command that the apply loop applies again next
  collecting,        \* internal keys that collect still has to delete
  sweeping,          \* user keys that sweep_expired still has to delete, and now_secs
  retained,          \* history: the highest min_revision of a collection
  rewound,           \* history: a restart found versions that the log does not make again
  passes, restarts

store == <<engine, current_revision, written>>
bounds == <<passes, restarts>>
vars == <<engine, current_revision, written, replay, collecting, sweeping, retained, rewound, bounds>>

NotReplaying == replay > Len(written)
NoSweep == [keys |-> {}, now |-> 0]
AllKeys == ScanKeys(engine, <<0>>, [i \in 1..32 |-> 255])

-----------------------------------------------------------------------------
(* What was written.                                                        *)

\* The index in written of the last version of a key up to a revision, or 0.
At(key, revision) ==
  Max({0} \cup {i \in DOMAIN written : written[i].key = key /\ written[i].mod_revision <= revision})

\* The index in written of the last command on a key, or 0.
LastOn(key) == Max({0} \cup {i \in DOMAIN written : written[i].key = key})

\* What a reader should see of version i.
Shown(i) ==
  IF i = 0 \/ written[i].value = Absent THEN NoVersion
  ELSE [value |-> written[i].value, create_revision |-> written[i].create_revision,
        mod_revision |-> written[i].mod_revision, lease_id |-> 0, ttl_seconds |-> written[i].ttl_seconds]

\* The command at position i or the next one behind it that is in the log.
NextLogged(i) == Min({Len(written) + 1} \cup {j \in i..Len(written) : written[j].logged})

\* The version that a command, or a delete of the sweep, should make.
Version(key, value, ttl, revision, logged) ==
  [key |-> key, value |-> value, ttl_seconds |-> ttl, mod_revision |-> revision, logged |-> logged,
   create_revision |-> IF value = Absent THEN 0
                       ELSE IF Shown(LastOn(key)) = NoVersion THEN revision
                       ELSE Shown(LastOn(key)).create_revision]

-----------------------------------------------------------------------------
Init ==
  /\ engine = <<>>
  /\ current_revision = 0
  /\ written = <<>>
  /\ replay = 1
  /\ collecting = {}
  /\ sweeping = NoSweep
  /\ retained = 0
  /\ rewound = FALSE
  /\ passes = 0 /\ restarts = 0

Put(key, value, ttl) ==
  /\ NotReplaying /\ Len(written) < MaxWrites
  /\ current_revision' = current_revision + 1
  /\ engine' = PutVersion(engine, key, value, 0, ttl, current_revision')
  /\ written' = Append(written, Version(key, value, ttl, current_revision', TRUE))
  /\ replay' = Len(written') + 1
  /\ UNCHANGED <<collecting, sweeping, retained, rewound, bounds>>

Delete(key) ==
  /\ NotReplaying /\ Len(written) < MaxWrites
  /\ current_revision' = current_revision + 1
  /\ engine' = DeleteVersion(engine, key, current_revision')
  /\ written' = Append(written, Version(key, Absent, 0, current_revision', TRUE))
  /\ replay' = Len(written') + 1
  /\ UNCHANGED <<collecting, sweeping, retained, rewound, bounds>>

\* The process starts again on the same engine: MvccStore::new.  The first commands
\* may be gone from the log.
Restart(dropped) ==
  /\ restarts < MaxRestarts /\ restarts' = restarts + 1
  /\ written # <<>> /\ dropped <= Len(written)
  /\ current_revision' = 0
  /\ replay' = NextLogged(dropped + 1)
  /\ collecting' = {} /\ sweeping' = NoSweep
  /\ rewound' = (rewound \/ dropped > 0 \/ \E i \in DOMAIN written : ~written[i].logged)
  /\ UNCHANGED <<engine, written, retained, passes>>

\* The apply loop applies the next command of the log again.
Reapply ==
  /\ ~NotReplaying
  /\ current_revision' = current_revision + 1
  /\ LET c == written[replay]
     IN engine' = IF c.value = Absent
                  THEN DeleteVersion(engine, c.key, current_revision')
                  ELSE PutVersion(engine, c.key, c.value, 0, c.ttl_seconds, current_revision')
  /\ replay' = NextLogged(replay + 1)
  /\ UNCHANGED <<written, collecting, sweeping, retained, rewound, bounds>>

\* Variant: the newest version of a key is collected like the others.
CollectableAll(min_revision) == {x \in AllKeys : Revision(x) < min_revision}

\* Variant: the limit itself is collected too.
CollectableUpTo(min_revision) ==
  {x \in AllKeys \ FirstOfEachUserKey(AllKeys) : Revision(x) <= min_revision}

\* The loop of collect over what it scanned.
Collectable(min_revision) ==
  {x \in AllKeys \ FirstOfEachUserKey(AllKeys) : Revision(x) < min_revision}

\* GarbageCollector::collect up to its deletions.
CollectScan(min_revision) ==
  /\ collecting = {} /\ passes < MaxPasses /\ passes' = passes + 1
  /\ collecting' = Collectable(min_revision)
  /\ retained' = Max({retained, min_revision})
  /\ UNCHANGED <<store, replay, sweeping, rewound, restarts>>

CollectDelete ==
  /\ collecting # {}
  /\ collecting' = collecting \ {FirstKey(collecting)}
  /\ engine' = EngineDelete(engine, FirstKey(collecting))
  /\ UNCHANGED <<current_revision, written, replay, sweeping, retained, rewound, bounds>>

\* The loop of sweep_expired over what it scanned.
Expired(now_secs) ==
  {UserKey(x) : x \in {y \in FirstOfEachUserKey(AllKeys) :
                         LET vv == Decode(engine[y])
                         IN vv.value # Absent /\ vv.ttl_seconds > 0
                            /\ vv.mod_revision + vv.ttl_seconds <= now_secs}}

\* TtlManager::sweep_expired up to its deletions.
SweepScan(now_secs) ==
  /\ NotReplaying /\ sweeping.keys = {} /\ passes < MaxPasses /\ passes' = passes + 1
  /\ sweeping' = [keys |-> Expired(now_secs), now |-> now_secs]
  /\ UNCHANGED <<store, replay, collecting, retained, rewound, restarts>>

\* store.delete of the next expired key; nothing is proposed.
SweepDelete ==
  /\ sweeping.keys # {} /\ NotReplaying
  /\ LET key == FirstKey(sweeping.keys)
     IN /\ sweeping' = [sweeping EXCEPT !.keys = @ \ {key}]
        /\ current_revision' = current_revision + 1
        /\ engine' = DeleteVersion(engine, key, current_revision')
        /\ written' = Append(written, Version(key, Absent, 0, current_revision', FALSE))
        /\ replay' = Len(written') + 1
  /\ UNCHANGED <<collecting, retained, rewound, bounds>>

Next ==
  \/ \E key \in Key, value \in Value, ttl \in Ttl : Put(key, value, ttl)
  \/ \E key \in Key : Delete(key)
  \/ \E dropped \in 0..MaxDropped : Restart(dropped)
  \/ Reapply
  \/ \E limit \in Limits : CollectScan(limit) \/ SweepScan(limit)
  \/ CollectDelete
  \/ SweepDelete

Spec == Init /\ [][Next]_vars

-----------------------------------------------------------------------------
\* Type invariant: the engine holds only what the encoders of version.rs produce,
\* and a version carries the revision of its key as its mod_revision.
MvccTypeOK ==
  /\ \A x \in DOMAIN engine :
       /\ UserKey(x) \in Key
       /\ EncodeKey(UserKey(x), Revision(x)) = x
       /\ Encode(Decode(engine[x])) = engine[x]
       /\ Decode(engine[x]).mod_revision = Revision(x)
  /\ current_revision <= Len(written)
  /\ collecting \subseteq DOMAIN engine
  /\ sweeping.keys \subseteq Key

\* The range that get_at_revision scans for a key has versions of no other key in it.
\* It has them when another key begins with this one, and get then returns the version
\* of the other key.
Alone(key) ==
  \A x \in ScanKeys(engine, PrefixStart(key), PrefixEnd(key)) : UserKey(x) = key

\* get of the latest revision gives what the last write on the key wrote, with the
\* revision of that write and the revision that created the key: through collections,
\* sweeps, and restarts that make every version again (MvccStore::get, put_with_options,
\* GarbageCollector::collect).  The restart after a delete of the sweep, or after log
\* compaction, is the exception, and so is a key with which another begins.
GetsLatest == ~rewound => \A key \in Key : Alone(key) => Get(engine, key) = Shown(LastOn(key))

\* A read at an older revision gives the version of that time, if that version is
\* not below the retention limit or is still the latest of its key, and as long as
\* no restart replayed the log (MvccStore::get_at_revision).
SnapshotReadsIfRetained ==
  restarts = 0 =>
    \A key \in Key, r \in 0..current_revision :
      LET i == At(key, r)
      IN Alone(key) /\ i # 0 /\ (written[i].mod_revision >= retained \/ i = LastOn(key)) =>
           GetAtRevision(engine, key, r) = Shown(i)

\* scan_at_revision agrees with get_at_revision key by key, at every revision, in
\* the middle of a collection too: the two walk the engine in different ways.  A key that
\* is a beginning of the end of the range is the exception: its versions lie behind the
\* end of the internal range.
ScanAgreesWithGet ==
  \A start, end \in Key, r \in 0..current_revision :
    LET keys == {k \in Key : Alone(k) /\ ~IsPrefix(k, end)}
    IN {found \in ScanAtRevision(engine, start, end, r) : found.key \in keys} =
         {[key |-> key, vv |-> GetAtRevision(engine, key, r)] :
            key \in {k \in keys : /\ ~Less(k, start) /\ Less(k, end)
                                  /\ GetAtRevision(engine, k, r) # NoVersion}}

\* What the comments on the store say of get, "Get the latest version of a key", and
\* of the counter, "Restore the revision counter (e.g., after WAL replay)": also
\* after any restart, and for any key.
GetsLatestAlways == \A key \in Key : Get(engine, key) = Shown(LastOn(key))

\* What the collector says of what it removes, "historical versions that are no
\* longer needed for snapshot reads": reads from min_revision on are unchanged.
SnapshotReads ==
  \A key \in Key, r \in retained..current_revision :
    GetAtRevision(engine, key, r) = Shown(At(key, r))

\* What sweep_expired says, "Sweep all keys and delete any that have expired": a key
\* that it deletes has expired.
SweepDeletesExpired ==
  [][\A key \in sweeping.keys \ sweeping'.keys :
       current_revision' = current_revision + 1 => key \in Expired(sweeping.now)]_vars

\* What the test of the ranges says, "All versions of "foo" should be in [start, end)".
VersionsInRange ==
  \A x \in DOMAIN engine :
    ~Less(x, PrefixStart(UserKey(x))) /\ Less(x, PrefixEnd(UserKey(x)))
=============================================================================
