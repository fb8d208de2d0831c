------------------------------ MODULE Leases ------------------------------
(***************************************************************************)
(* The leases of one server: LeaseManager, the lease service, the expiry   *)
(* tick of the event loop, and what the apply loop does with leases.       *)
(*                                                                         *)
(* A lease lives in the memory of the server that granted it.  Puts and    *)
(* deletes come through the Raft log, which is a queue here: every command *)
(* in it is applied in order, and when this server stops being the leader  *)
(* a suffix of it may be lost.  Time is the age of a lease since it was    *)
(* granted or renewed.                                                     *)
(***************************************************************************)
EXTENDS Integers, Sequences, FiniteSets, FiniteSetsExt

CONSTANTS
  Key,
  Client,       \* callers of lease_grant
  AskedId,      \* the ids that they ask for, negative ones too; 0 lets the server choose
  PutId,        \* the lease ids that puts name, whether or not there is such a lease
  Ttl,          \* granted_ttl
  Absent,       \* a key without a value
  CanRevoke,    \* lease_revoke is called
  CanStepDown,  \* the server may lose leadership
  MaxLog,       \* bound: commands in the log when a client's command enters it
  MaxCommands,  \* bound: puts and deletes of clients
  MaxGrants     \* bound: grants of one client

VARIABLES
  leader,     \* node.role() = Leader
  leases,     \* LeaseManager.leases: id -> ttl, age, keys; holder is history
  next_id,
  grants,     \* the grant that each client waits for
  expiring,   \* what the expiry tick has collected and not yet proposed
  log,        \* commands that are proposed and not applied
  kv,         \* the store: the lease id of every key that exists
  orphaned,   \* history: keys of the store that their lease lost sight of
  commands, granted   \* bounds

lease_vars == <<leases, next_id, grants>>
bounds == <<commands, granted>>
vars == <<leader, lease_vars, expiring, log, kv, orphaned, bounds>>

\* The keys of the store that lease id of the table holds.
LeasedKeys(id) == {key \in Key : kv[key] = id /\ id \in DOMAIN leases /\ key \in leases[id].keys}

NoGrant == [pc |-> "idle", id |-> 0, ttl |-> 0]

\* HashMap::insert and remove.
With(map, id, lease) == [i \in DOMAIN map \cup {id} |-> IF i = id THEN lease ELSE map[i]]
Without(map, ids) == [i \in DOMAIN map \ ids |-> map[i]]

\* remaining_ttl, is_expired
RemainingTtl(lease) == Max({lease.ttl - lease.age, 0})
IsExpired(lease) == RemainingTtl(lease) = 0

Init ==
  /\ leader = TRUE
  /\ leases = <<>> /\ next_id = 1
  /\ grants = [c \in Client |-> NoGrant]
  /\ expiring = {} /\ log = <<>>
  /\ kv = [k \in Key |-> Absent]
  /\ orphaned = {}
  /\ commands = 0 /\ granted = [c \in Client |-> 0]

-----------------------------------------------------------------------------
(* LeaseManager::grant: the check, the counter and the insertion are three   *)
(* critical sections.                                                        *)

\* A request without a positive ttl, or for an id that is in use, is refused.
GrantRefused(c, id, ttl) ==
  /\ grants[c].pc = "idle" /\ granted[c] < MaxGrants
  /\ ttl <= 0 \/ (id # 0 /\ id \in DOMAIN leases)
  /\ granted' = [granted EXCEPT ![c] = @ + 1]
  /\ UNCHANGED <<leader, lease_vars, expiring, log, kv, orphaned, commands>>

GrantAssign(c, ttl) ==
  /\ grants[c].pc = "idle" /\ granted[c] < MaxGrants /\ ttl > 0
  /\ next_id' = next_id + 1
  /\ grants' = [grants EXCEPT ![c] = [pc |-> "numbered", id |-> next_id, ttl |-> ttl]]
  /\ granted' = [granted EXCEPT ![c] = @ + 1]
  /\ UNCHANGED <<leader, leases, expiring, log, kv, orphaned, commands>>

GrantCheck(c, id, ttl) ==
  /\ grants[c].pc = "idle" /\ granted[c] < MaxGrants /\ ttl > 0
  /\ id # 0 /\ id \notin DOMAIN leases
  /\ grants' = [grants EXCEPT ![c] = [pc |-> "checked", id |-> id, ttl |-> ttl]]
  /\ granted' = [granted EXCEPT ![c] = @ + 1]
  /\ UNCHANGED <<leader, leases, next_id, expiring, log, kv, orphaned, commands>>

\* Variant: the counter is set to the id and not past it.
GrantAdvanceTo(c) ==
  /\ grants[c].pc = "checked"
  /\ next_id' = Max({next_id, grants[c].id})
  /\ grants' = [grants EXCEPT ![c].pc = "numbered"]
  /\ UNCHANGED <<leader, leases, expiring, log, kv, orphaned, bounds>>

GrantAdvance(c) ==
  /\ grants[c].pc = "checked"
  /\ next_id' = Max({next_id, grants[c].id + 1})
  /\ grants' = [grants EXCEPT ![c].pc = "numbered"]
  /\ UNCHANGED <<leader, leases, expiring, log, kv, orphaned, bounds>>

GrantInsert(c) ==
  /\ grants[c].pc = "numbered"
  /\ LET id == grants[c].id
     IN /\ leases' = With(leases, id, [ttl |-> grants[c].ttl, age |-> 0, keys |-> {}, holder |-> c])
        /\ orphaned' = orphaned \cup LeasedKeys(id)
  /\ grants' = [grants EXCEPT ![c] = NoGrant]
  /\ UNCHANGED <<leader, next_id, expiring, log, kv, bounds>>

-----------------------------------------------------------------------------
\* A second passes.
Tick ==
  /\ \E id \in DOMAIN leases : ~IsExpired(leases[id])
  /\ leases' = [id \in DOMAIN leases |-> [leases[id] EXCEPT !.age = Min({@ + 1, leases[id].ttl})]]
  /\ UNCHANGED <<leader, next_id, grants, expiring, log, kv, orphaned, bounds>>

\* keepalive
KeepAlive(id) ==
  /\ id \in DOMAIN leases /\ ~IsExpired(leases[id])
  /\ leases' = [leases EXCEPT ![id].age = 0]
  /\ UNCHANGED <<leader, next_id, grants, expiring, log, kv, orphaned, bounds>>

\* lease_revoke of the service: the keys that revoke returns are dropped.
Revoke(id) ==
  /\ CanRevoke /\ id \in DOMAIN leases
  /\ leases' = Without(leases, {id})
  /\ orphaned' = orphaned \cup LeasedKeys(id)
  /\ UNCHANGED <<leader, next_id, grants, expiring, log, kv, bounds>>

ExpiredIds == {id \in DOMAIN leases : IsExpired(leases[id])}

\* Variant: one key of every expired lease is left out.
CollectedKeepsOne ==
  UNION {{<<id, key>> : key \in leases[id].keys \ {CHOOSE k \in leases[id].keys : TRUE}} :
           id \in {i \in ExpiredIds : leases[i].keys # {}}}

\* The keys of the expired leases, as collect_expired returns them.
Collected == UNION {{<<id, key>> : key \in leases[id].keys} : id \in ExpiredIds}

\* The lease tick of the event loop: collect_expired.
ExpiryCollect ==
  /\ expiring = {} /\ ExpiredIds # {}
  /\ expiring' = Collected
  /\ leases' = Without(leases, ExpiredIds)
  /\ UNCHANGED <<leader, next_id, grants, log, kv, orphaned, bounds>>

\* propose of a Delete for one of the keys.  It fails in a server that does not lead, in
\* a leader that hands its leadership over, and when the log cannot be written; the tick
\* ignores the error.
ExpiryPropose(pair) ==
  /\ pair \in expiring /\ expiring' = expiring \ {pair}
  /\ \/ /\ leader
        /\ log' = Append(log, [op |-> "Delete", key |-> pair[2], lease |-> 0, why |-> pair[1]])
        /\ UNCHANGED orphaned
     \/ /\ orphaned' = orphaned \cup {key \in {pair[2]} : kv[key] = pair[1]}
        /\ UNCHANGED log
  /\ UNCHANGED <<leader, lease_vars, kv, bounds>>

-----------------------------------------------------------------------------
(* The KV service and the log.                                              *)

\* A put or a delete enters the log: here when this server leads, from another
\* leader when it does not.
Propose(op, key, lease) ==
  /\ commands < MaxCommands /\ Len(log) < MaxLog
  /\ log' = Append(log, [op |-> op, key |-> key, lease |-> lease, why |-> 0])
  /\ commands' = commands + 1
  /\ UNCHANGED <<leader, lease_vars, expiring, kv, orphaned, granted>>

StepDown(kept) ==
  /\ CanStepDown /\ leader /\ leader' = FALSE
  /\ kept <= Len(log)
  /\ log' = SubSeq(log, 1, kept)
  /\ orphaned' = orphaned \cup {key \in Key : \E i \in kept + 1..Len(log) :
                                   log[i].key = key /\ log[i].why = kv[key]}
  /\ UNCHANGED <<lease_vars, expiring, kv, bounds>>

\* Put of apply_command: the id is stored as it is; the key is attached when the id is
\* positive and the lease is there, and the error of attach_key is ignored.
ApplyPut ==
  /\ log # <<>> /\ Head(log).op = "Put" /\ expiring = {}
  /\ LET key == Head(log).key
         id == Head(log).lease
     IN /\ kv' = [kv EXCEPT ![key] = id]
        /\ leases' = IF id > 0 /\ id \in DOMAIN leases
                     THEN [leases EXCEPT ![id].keys = @ \cup {key}] ELSE leases
        /\ orphaned' = IF id < 0 \/ (id > 0 /\ id \notin DOMAIN leases)
                       THEN orphaned \cup {key} ELSE orphaned \ {key}
  /\ log' = Tail(log)
  /\ UNCHANGED <<leader, next_id, grants, expiring, bounds>>

\* Variant: the lease loses all of its keys.
DetachAll(key, id) == [i \in DOMAIN leases |-> IF i = id THEN [leases[i] EXCEPT !.keys = {}] ELSE leases[i]]

\* detach_key for the lease of the deleted version.
Detach(key, id) ==
  [i \in DOMAIN leases |-> IF i = id THEN [leases[i] EXCEPT !.keys = @ \ {key}] ELSE leases[i]]

\* Delete of apply_command.
ApplyDelete ==
  /\ log # <<>> /\ Head(log).op = "Delete" /\ expiring = {}
  /\ LET key == Head(log).key
     IN /\ kv' = [kv EXCEPT ![key] = Absent]
        /\ leases' = IF kv[key] # Absent /\ kv[key] > 0 THEN Detach(key, kv[key]) ELSE leases
        /\ orphaned' = orphaned \ {key}
  /\ log' = Tail(log)
  /\ UNCHANGED <<leader, next_id, grants, expiring, bounds>>

Next ==
  \/ \E c \in Client :
       \/ \E id \in AskedId, ttl \in Ttl : GrantRefused(c, id, ttl) \/ GrantCheck(c, id, ttl)
       \/ 0 \in AskedId /\ \E ttl \in Ttl : GrantAssign(c, ttl)
       \/ GrantAdvance(c) \/ GrantInsert(c)
  \/ Tick \/ ExpiryCollect \/ ApplyPut \/ ApplyDelete
  \/ \E id \in DOMAIN leases : KeepAlive(id) \/ Revoke(id)
  \/ \E pair \in expiring : ExpiryPropose(pair)
  \/ \E key \in Key : \/ Propose("Delete", key, 0)
                      \/ \E lease \in PutId : Propose("Put", key, lease)
  \/ \E kept \in 0..Len(log) : StepDown(kept)

\* Time passes; the event loop comes to its lease tick every second, proposes what
\* it collected before it does anything else, and applies what is committed after
\* every turn.
Fairness ==
  /\ WF_vars(Tick) /\ WF_vars(ExpiryCollect)
  /\ WF_vars(\E pair \in expiring : ExpiryPropose(pair))
  /\ WF_vars(ApplyPut \/ ApplyDelete)

Spec == Init /\ [][Next]_vars
FairSpec == Spec /\ Fairness

-----------------------------------------------------------------------------
\* Type invariant: a lease of the table has an id that a client asked for or that came
\* from the counter, the counter is above it (fetch_max of grant), it is no older than its
\* ttl, and the store holds the ids that puts named.
LeaseTypeOK ==
  /\ leader \in BOOLEAN
  /\ \A id \in DOMAIN leases : /\ id # 0 /\ id < next_id
                               /\ leases[id].age \in 0..leases[id].ttl
                               /\ leases[id].keys \subseteq Key
  /\ \A k \in Key : kv[k] = Absent \/ kv[k] \in PutId
  /\ orphaned \subseteq Key

\* A key of the store with a lease is never lost sight of: it is attached to the
\* lease, or its deletion is collected, or in the log.  Over puts that move a key
\* between leases, deletes, renewals, expiry and ids that are granted again
\* (ApplyLoop::apply_command, attach_key, detach_key, collect_expired).  The exceptions
\* are named by `orphaned': the put named no lease of the table or a negative id, the
\* lease was revoked or replaced by a second grant of its id, the delete was refused, or
\* it was dropped from the log with the leadership.
LeasedKeysTracked ==
  \A key \in Key :
    kv[key] # Absent /\ kv[key] # 0 /\ key \notin orphaned =>
      \/ kv[key] \in DOMAIN leases /\ key \in leases[kv[key]].keys
      \/ <<kv[key], key>> \in expiring
      \/ \E i \in DOMAIN log : log[i].op = "Delete" /\ log[i].key = key

Gone(id) == id \notin {Absent, 0} /\ id \notin DOMAIN leases /\ \A c \in Client : grants[c].id # id

\* The keys of leases that are gone are deleted in the end, if nothing lost sight of
\* them: the put was applied before the lease expired, the lease was not revoked, and
\* every delete that the tick proposed was accepted and stayed in the log.  A refused one
\* is not proposed again, whether or not the server goes on leading.  Stated for a server
\* that gets no new commands at some point: again and again no such key is there
\* (collect_expired and the lease tick of event_loop).
LeasedKeysDeletedUnlessOrphaned ==
  []<>(\A key \in Key : Gone(kv[key]) => key \in orphaned)

\* What lease.rs says of leases, "keys attached to a lease are deleted when it
\* expires", and lease_revoke of revoked ones, "the expiry loop handles key deletion".
LeasedKeysDeleted ==
  \A key \in Key, id \in PutId \ {0} :
    (kv[key] = id /\ Gone(id)) ~> kv[key] # id

\* What VersionedValue says of a version, "Associated lease ID (0 = no lease)": the
\* expiry of a lease deletes no key that has none.
ExpiryDeletesLeasedKeys ==
  [][\A key \in Key :
       kv[key] = 0 /\ kv'[key] = Absent /\ log # <<>> => Head(log).why = 0]_vars

\* What the check in grant is for, "Check for duplicate": a lease that is in the
\* table is not given to another client.
OneHolder ==
  [][\A id \in DOMAIN leases \cap DOMAIN leases' : leases'[id].holder = leases[id].holder]_vars
=============================================================================
