-------------------------- MODULE ComponentProofs ---------------------------
(***************************************************************************)
(* Theorems about the components that stand beside the consensus node: the *)
(* vote file (VoteState), leases (Leases), snapshots and backups           *)
(* (Snapshots), the client (Client) and membership changes (Membership).   *)
(* They share no state; each has its own inductive invariant.              *)
(***************************************************************************)
EXTENDS VoteState, Sequences, FiniteSets, TLAPS

(* The vote file.  Outside a save the file holds what the node has in      *)
(* memory, during one it is behind it, and every answer was saved first.   *)

\* Memory may be ahead of the file while a save is under way, and only then.
Behind ==
  \/ LoadedTerm < current_term
  \/ LoadedTerm = current_term /\ LoadedVote \subseteq voted_for

InMemory ==
  /\ up => /\ step \in {"write", "rename"} => Behind
           /\ step \notin {"write", "rename"} =>
                LoadedTerm = current_term /\ LoadedVote = voted_for
           /\ step = "rename" => tmp = Json(current_term, voted_for)
  /\ yes = TRUE => up /\ voted_for = {ask.from}
  /\ \A x, y \in voted_for : x = y
  /\ \A x, y \in LoadedVote : x = y

\* Every answer is in the file, or a later term is.
Saved ==
  /\ told <= LoadedTerm
  /\ \A g \in granted : /\ g.term <= LoadedTerm
                        /\ g.term = LoadedTerm => LoadedVote = {g.to}

\* The inductive invariant.
VoteInv == VoteStateTypeOK /\ (~fault => InMemory /\ Saved /\ VotesOnce)

\* What save writes and load reads.
LEMMA FileFacts ==
  /\ NoFile \in File /\ Torn \in File
  /\ \A t \in 0..MaxTerm, v \in SUBSET Candidate : Json(t, v) \in File
  /\ \A f \in File : f.term \in 0..MaxTerm /\ f.vote \in SUBSET Candidate
  BY VoteStateConstants DEF File, NoFile, Torn, Json

\* What a request is made of, and the vote that is granted to it.
LEMMA AskFacts ==
  ASSUME NEW t \in 0..MaxTerm, NEW c \in Candidate
  PROVE  [term |-> t, from |-> c] \in Ask /\ [term |-> t, to |-> c] \in Grant
  BY Zenon DEF Ask, Grant

\* The request of no handler.
LEMMA NoAsk == [term |-> 0, from |-> Self] \in Ask
  BY VoteStateConstants DEF Ask

\* What a handler reads from its request.
LEMMA AskFields == \A a \in Ask : a.term \in 0..MaxTerm /\ a.from \in Candidate
  BY Zenon DEF Ask

\* Every step keeps the types: what a save writes and load reads are terms and votes.
LEMMA TypeKept == VoteStateTypeOK /\ [Next]_vars => VoteStateTypeOK'
<1> SUFFICES ASSUME VoteStateTypeOK, [Next]_vars PROVE VoteStateTypeOK'
  OBVIOUS
<1> USE VoteStateConstants, FileFacts, AskFields
    DEF VoteStateTypeOK, node, disk, handler, history
<1>1. ASSUME NEW c \in Candidate \ {Self}, NEW t \in 1..MaxTerm, Receive(c, t)
      PROVE VoteStateTypeOK'
  <2>1. ask' \in Ask
    BY <1>1, t \in 0..MaxTerm, AskFacts, Zenon DEF Receive
  <2>2. QED
    BY <1>1, <2>1, Zenon DEF Receive
<1>2. CASE Write
  <2>1. tmp' \in File
    BY <1>2, Zenon DEF Write
  <2>2. fault' \in BOOLEAN
    BY <1>2, Zenon DEF Write
  <2>3. QED
    BY <1>2, <2>1, <2>2, Zenon DEF Write
<1>3. CASE Rename
  <2>1. file' \in File /\ tmp' \in File
    BY <1>3, Zenon DEF Rename
  <2>2. fault' \in BOOLEAN
    BY <1>3, Zenon DEF Rename
  <2>3. QED
    BY <1>3, <2>1, <2>2, Zenon DEF Rename
<1>4. CASE Decide
  BY <1>4, Zenon DEF Decide, Allowed
<1>5. CASE StartElection
  <2>1. ask' \in Ask
    BY <1>5, current_term + 1 \in 0..MaxTerm, AskFacts, Zenon DEF StartElection
  <2>2. QED
    BY <1>5, <2>1, Zenon DEF StartElection
<1>6. CASE Answer
  <2>1. ask' \in Ask
    BY <1>6, NoAsk, Zenon DEF Answer, Idle
  <2>2. granted' \subseteq Grant
    BY <1>6, AskFacts, Zenon DEF Answer
  <2>3. QED
    BY <1>6, <2>1, <2>2, Zenon DEF Answer, Idle
<1>7. CASE Crash
  <2>1. ask' \in Ask
    BY <1>7, NoAsk, Zenon DEF Crash, Idle
  <2>2. QED
    BY <1>7, <2>1, Zenon DEF Crash, Idle
<1>8. CASE Sync
  BY <1>8, Zenon DEF Sync
<1>9. CASE LosePower
  <2>1. ask' \in Ask
    BY <1>9, NoAsk, Zenon DEF LosePower, Idle
  <2>2. file' \in File /\ stable' \in File /\ tmp' \in File
    BY <1>9, Zenon DEF LosePower
  <2>3. fault' \in BOOLEAN
    BY <1>9, Zenon DEF LosePower
  <2>4. QED
    BY <1>9, <2>1, <2>2, <2>3, Zenon DEF LosePower, Idle
<1>10. CASE Restart
  BY <1>10 DEF Restart, LoadedTerm, LoadedVote
<1>11. CASE UNCHANGED vars
  BY <1>11, Zenon DEF vars
<1>12. QED
  BY <1>1, <1>2, <1>3, <1>4, <1>5, <1>6, <1>7, <1>8, <1>9, <1>10, <1>11, Zenon DEF Next

\* Every step keeps the invariant: a handler moves memory ahead of the file, the rename
\* brings the file up to it, and only then does the answer leave.
LEMMA InvKept == VoteInv /\ [Next]_vars => VoteInv'
<1> SUFFICES ASSUME VoteInv, [Next]_vars, ~fault' PROVE (InMemory /\ Saved /\ VotesOnce)'
  BY TypeKept, Zenon DEF VoteInv
<1>0. ~fault /\ VoteStateTypeOK /\ InMemory /\ Saved /\ VotesOnce
  BY Zenon DEF VoteInv, Next, Receive, Decide, StartElection, Answer, Write, Rename, Crash, Sync,
         LosePower, Restart, vars, VoteStateTypeOK
<1> USE <1>0, VoteStateConstants
    DEF VoteStateTypeOK, File, Ask, Grant, node, disk, handler, history, InMemory,
        Behind, Saved, VotesOnce, LoadedTerm, LoadedVote
<1>1. ASSUME NEW c \in Candidate \ {Self}, NEW t \in 1..MaxTerm, Receive(c, t)
      PROVE (InMemory /\ Saved /\ VotesOnce)'
  BY <1>1 DEF Receive
<1>2. CASE Write
  BY <1>2, Zenon DEF Write, Json
<1>3. CASE Rename
  <2>1. tmp = Json(current_term, voted_for) /\ up /\ step = "rename" /\ Behind
    BY <1>3, Zenon DEF Rename
  <2>2. file' = tmp /\ UNCHANGED <<up, node, ask, yes, granted, told>> /\ step' = after
    BY <1>3, Zenon DEF Rename
  <2>3. LoadedTerm' = current_term /\ LoadedVote' = voted_for
    BY <2>1, <2>2, Zenon DEF Json
  <2>4. InMemory'
    BY <2>2, <2>3, Zenon
  <2>5. Saved'
    BY <2>1, <2>2, <2>3
  <2>6. QED
    BY <2>2, <2>4, <2>5, Zenon
<1>4. CASE Decide
  BY <1>4, Zenon DEF Decide, Allowed
<1>5. CASE StartElection
  BY <1>5 DEF StartElection
<1>6. CASE Answer
  BY <1>6 DEF Answer, Idle
<1>7. CASE Crash
  BY <1>7, Zenon DEF Crash, Idle
<1>8. CASE Sync
  BY <1>8, Zenon DEF Sync
<1>9. CASE LosePower
  BY <1>9, Zenon DEF LosePower, Idle
<1>10. CASE Restart
  BY <1>10, Zenon DEF Restart
<1>11. CASE UNCHANGED vars
  BY <1>11, Zenon DEF vars
<1>12. QED
  BY <1>1, <1>2, <1>3, <1>4, <1>5, <1>6, <1>7, <1>8, <1>9, <1>10, <1>11, Zenon DEF Next

\* The first state, with no file, satisfies the invariant.
LEMMA InvInit == Init => VoteInv
<1> SUFFICES ASSUME Init PROVE VoteInv
  OBVIOUS
<1>1. VoteStateTypeOK
  <2>1. ask \in Ask
    BY NoAsk, Zenon DEF Init
  <2>2. up \in BOOLEAN /\ yes \in BOOLEAN /\ fault \in BOOLEAN /\ (~up => step = "idle")
    BY Zenon DEF Init
  <2>3. current_term \in 0..MaxTerm /\ told \in 0..MaxTerm
    BY VoteStateConstants DEF Init
  <2>4. file \in File /\ tmp \in File /\ stable \in File
    BY FileFacts, Zenon DEF Init
  <2>5. QED
    BY <2>1, <2>2, <2>3, <2>4, Zenon DEF Init, VoteStateTypeOK
<1>2. LoadedTerm = 0 /\ LoadedVote = {}
  BY Zenon DEF Init, NoFile, LoadedTerm, LoadedVote
<1>3. InMemory /\ Saved /\ VotesOnce
  BY <1>2 DEF Init, InMemory, Saved, VotesOnce
<1>4. QED
  BY <1>1, <1>3, Zenon DEF VoteInv

\* The invariant holds of every behaviour of handle_vote_request, start_election, save,
\* load and their crashes.
THEOREM VoteInvHolds == Spec => []VoteInv
  BY InvInit, InvKept, PTL DEF Spec

\* A node gives one vote in a term, whatever crashes interrupt its saves, unless a
\* write or rename fails or a loss of power reaches raft_state.json.
THEOREM VotesOnceProved == Spec => []VotesOnceUnlessFault
<1>1. VoteInv => VotesOnceUnlessFault
  BY Zenon DEF VoteInv, VotesOnceUnlessFault
<1>2. QED
  BY <1>1, VoteInvHolds, PTL

\* A restarted node is never in a term before one it has answered in, under the same
\* condition.
THEOREM TermKeptProved == Spec => []TermKeptUnlessFault
<1>1. VoteInv => TermKeptUnlessFault
  BY VoteStateConstants
     DEF VoteInv, TermKeptUnlessFault, VoteStateTypeOK, File, InMemory, Behind, Saved,
         LoadedTerm, LoadedVote
<1>2. QED
  BY <1>1, VoteInvHolds, PTL

-----------------------------------------------------------------------------
(* Leases.  `granted' is declared in VoteState.                            *)

CONSTANTS Key, Client, AskedId, PutId, Ttl, Absent, CanRevoke, CanStepDown, MaxLog, MaxCommands,
          MaxGrants

VARIABLES leader, leases, next_id, grants, expiring, log, kv, orphaned, commands

Lease == INSTANCE Leases

\* What is asked of lease_grant and what puts name: any ids and any ttl.  A put without a
\* lease, and a delete, name 0.
LeaseRequests ==
  AskedId \subseteq Int /\ PutId \subseteq Int /\ 0 \in PutId /\ Ttl \subseteq Int

\* A lease of the table, a grant under way, and a command of the log; `why' is the lease
\* that expired, 0 for a command of a client.
LeaseRecord == [ttl : Nat, age : Nat, keys : SUBSET Key, holder : Client]
LeaseGrant == [pc : {"idle", "checked", "numbered"}, id : Int, ttl : Nat]
LeaseEntry == [op : {"Put", "Delete"}, key : Key, lease : PutId, why : Int]

\* The ids of the table and of the grants that have moved the counter are below it.
LeasesTyped ==
  /\ leader \in BOOLEAN /\ next_id \in Nat \ {0}
  /\ \A id \in DOMAIN leases : /\ id \in Int \ {0} /\ id < next_id
                               /\ leases[id] \in LeaseRecord
                               /\ leases[id].age <= leases[id].ttl
GrantsTyped ==
  /\ grants \in [Client -> LeaseGrant]
  /\ \A c \in Client : /\ grants[c].pc # "idle" => grants[c].id # 0
                       /\ grants[c].pc = "numbered" => grants[c].id < next_id
QueuesTyped ==
  /\ \A pair \in expiring : pair \in Int \X Key
  /\ log \in Seq(LeaseEntry)
KvTyped == kv \in [Key -> {Absent} \cup PutId] /\ orphaned \subseteq Key

LeaseTypes == LeasesTyped /\ GrantsTyped /\ QueuesTyped /\ KvTyped

\* What keeps sight of a key of lease id: the lease, the expiry tick, or a delete that
\* was proposed for this lease and not for another.
SeenBy(key, id) ==
  \/ id \in DOMAIN leases /\ key \in leases[id].keys
  \/ <<id, key>> \in expiring
  \/ \E i \in 1..Len(log) : log[i].op = "Delete" /\ log[i].key = key /\ log[i].why = id

KeysSeen ==
  \A key \in Key :
    kv[key] # Absent /\ kv[key] # 0 /\ key \notin orphaned => SeenBy(key, kv[key])

LeaseInv == LeaseTypes /\ KeysSeen

\* Max and Min of two numbers, which the counter of grant and the age of a lease use.
LEMMA LeasePairs ==
  ASSUME NEW a \in Nat, NEW b \in Int
  PROVE  /\ Lease!Max({a, b}) \in Nat /\ Lease!Max({a, b}) >= a /\ Lease!Max({a, b}) >= b
         /\ b \in Nat => Lease!Min({a, b}) \in Nat
         /\ Lease!Min({a, b}) <= b
<1>1. Lease!Max({a, b}) = IF a >= b THEN a ELSE b
  BY DEF Lease!Max
<1>2. Lease!Min({a, b}) = IF a <= b THEN a ELSE b
  BY DEF Lease!Min
<1>. QED  BY <1>1, <1>2

\* The commands of the log are Puts and Deletes (KvCommand).
LEMMA LeaseEntries ==
  ASSUME log \in Seq(LeaseEntry)
  PROVE  /\ Len(log) \in Nat
         /\ \A i \in 1..Len(log) : /\ log[i] \in LeaseEntry
                                   /\ log[i].op \in {"Put", "Delete"} /\ log[i].key \in Key
                                   /\ log[i].lease \in PutId /\ log[i].why \in Int
<1>1. Len(log) \in Nat /\ \A i \in 1..Len(log) : log[i] \in LeaseEntry
  OBVIOUS
<1>. QED  BY <1>1, Zenon DEF LeaseEntry

\* attach_key and detach_key change the keys of a lease.
LEMMA KeysEdited ==
  ASSUME NEW r \in LeaseRecord, NEW keys \in SUBSET Key
  PROVE  /\ [r EXCEPT !.keys = keys] \in LeaseRecord
         /\ [r EXCEPT !.keys = keys].keys = keys
         /\ [r EXCEPT !.keys = keys].age = r.age /\ [r EXCEPT !.keys = keys].ttl = r.ttl
  BY Zenon DEF LeaseRecord

\* The passing of time and renew change the age of a lease.
LEMMA AgeEdited ==
  ASSUME NEW r \in LeaseRecord, NEW age \in Nat
  PROVE  /\ [r EXCEPT !.age = age] \in LeaseRecord
         /\ [r EXCEPT !.age = age].keys = r.keys
         /\ [r EXCEPT !.age = age].age = age /\ [r EXCEPT !.age = age].ttl = r.ttl
  BY Zenon DEF LeaseRecord

\* What is below a number is below a greater one.
LEMMA BelowGrows ==
  ASSUME NEW n \in Nat, NEW m \in Nat, m >= n, NEW i \in Int, i < n
  PROVE  i < m
  OBVIOUS

\* A counter that grows keeps everything that is below it.
LEMMA CounterGrows ==
  ASSUME LeaseTypes, next_id' \in Nat, next_id' >= next_id, UNCHANGED <<leader, leases>>
  PROVE  LeasesTyped'
  BY DEF LeaseTypes, LeasesTyped

\* Every step keeps the types.
LEMMA LeaseTypesNext ==
  ASSUME LeaseRequests, LeaseTypes, Lease!Next
  PROVE  LeaseTypes'
<1>. USE DEF Lease!lease_vars, Lease!bounds
<1>a. next_id \in Nat /\ next_id >= 1 /\ log \in Seq(LeaseEntry)
  BY DEF LeaseTypes, LeasesTyped, QueuesTyped
<1>b. UNCHANGED <<leader, leases, next_id>> => LeasesTyped'
  BY Zenon DEF LeaseTypes, LeasesTyped
<1>c. UNCHANGED <<grants, next_id>> => GrantsTyped'
  BY Zenon DEF LeaseTypes, GrantsTyped
<1>d. UNCHANGED <<expiring, log>> => QueuesTyped'
  BY Zenon DEF LeaseTypes, QueuesTyped
<1>e. UNCHANGED kv /\ orphaned' \subseteq Key => KvTyped'
  BY Zenon DEF LeaseTypes, KvTyped
<1>f. orphaned \subseteq Key /\ \A id : Lease!LeasedKeys(id) \subseteq Key
  BY Zenon DEF LeaseTypes, KvTyped, Lease!LeasedKeys
<1>1. ASSUME NEW c \in Client, NEW id \in AskedId, NEW ttl \in Ttl,
             Lease!GrantRefused(c, id, ttl)
      PROVE  LeaseTypes'
  BY <1>1, <1>b, <1>c, <1>d, <1>e, <1>f, Zenon DEF LeaseTypes, Lease!GrantRefused
<1>2. ASSUME NEW c \in Client, NEW id \in AskedId, NEW ttl \in Ttl,
             Lease!GrantCheck(c, id, ttl)
      PROVE  LeaseTypes'
  <2>1. GrantsTyped'
    BY <1>2 DEF LeaseTypes, GrantsTyped, LeaseGrant, LeaseRequests, Lease!GrantCheck
  <2>. QED  BY <1>2, <2>1, <1>b, <1>d, <1>e, <1>f, Zenon DEF LeaseTypes, Lease!GrantCheck
<1>3. ASSUME NEW c \in Client, NEW ttl \in Ttl, Lease!GrantAssign(c, ttl)
      PROVE  LeaseTypes'
  <2>1. next_id' \in Nat /\ next_id' >= next_id
    BY <1>3, <1>a DEF Lease!GrantAssign
  <2>2. GrantsTyped'
    BY <1>3, <1>a DEF LeaseTypes, GrantsTyped, LeaseGrant, LeaseRequests, Lease!GrantAssign
  <2>3. LeasesTyped'
    BY <1>3, <2>1, CounterGrows, Zenon DEF Lease!GrantAssign
  <2>. QED  BY <1>3, <2>2, <2>3, <1>d, <1>e, <1>f, Zenon DEF LeaseTypes, Lease!GrantAssign
<1>4. ASSUME NEW c \in Client, Lease!GrantAdvance(c)
      PROVE  LeaseTypes'
  <2>1. grants[c].id \in Int /\ grants[c].id + 1 \in Int /\ grants[c].id # 0
    BY <1>4 DEF LeaseTypes, GrantsTyped, LeaseGrant, Lease!GrantAdvance
  <2>2. next_id' \in Nat /\ next_id' >= next_id /\ next_id' >= grants[c].id + 1
    <3>1. next_id' = Lease!Max({next_id, grants[c].id + 1})
      BY <1>4, Zenon DEF Lease!GrantAdvance
    <3>. QED  BY <3>1, <2>1, <1>a, LeasePairs, Zenon
  <2>3. GrantsTyped'
    <3>1. grants' = [grants EXCEPT ![c].pc = "numbered"]
      BY <1>4, Zenon DEF Lease!GrantAdvance
    <3>2. grants' \in [Client -> LeaseGrant] /\ grants'[c].id = grants[c].id
          /\ grants'[c].pc = "numbered" /\ \A d \in Client : d # c => grants'[d] = grants[d]
      BY <3>1, Zenon DEF LeaseTypes, GrantsTyped, LeaseGrant
    <3>3. grants[c].id < next_id'
      BY <2>1, <2>2
    <3>4. ASSUME NEW d \in Client, grants[d].id < next_id PROVE grants[d].id < next_id'
      <4>1. next_id \in Nat /\ next_id' \in Nat /\ next_id' >= next_id
        BY <1>a, <2>2, Zenon
      <4>2. grants[d].id \in Int
        BY Zenon DEF LeaseTypes, GrantsTyped, LeaseGrant
      <4>. QED  BY <3>4, <4>1, <4>2, BelowGrows, Zenon
    <3>5. grants[c].pc # "idle"
      BY <1>4, Zenon DEF Lease!GrantAdvance
    <3>. QED  BY <2>1, <3>2, <3>3, <3>4, <3>5, Zenon DEF LeaseTypes, GrantsTyped
  <2>4. LeasesTyped'
    BY <1>4, <2>2, CounterGrows, Zenon DEF Lease!GrantAdvance
  <2>. QED  BY <1>4, <2>3, <2>4, <1>d, <1>e, <1>f, Zenon DEF LeaseTypes, Lease!GrantAdvance
<1>5. ASSUME NEW c \in Client, Lease!GrantInsert(c)
      PROVE  LeaseTypes'
  <2>1. /\ grants[c].id \in Int /\ grants[c].id # 0 /\ grants[c].id < next_id
        /\ grants[c].ttl \in Nat
    BY <1>5, Zenon DEF LeaseTypes, GrantsTyped, LeaseGrant, Lease!GrantInsert
  <2>2. LeasesTyped'
    <3>1. /\ DOMAIN leases' = DOMAIN leases \cup {grants[c].id}
          /\ \A id \in DOMAIN leases' :
               leases'[id] = IF id = grants[c].id
                             THEN [ttl |-> grants[c].ttl, age |-> 0, keys |-> {}, holder |-> c]
                             ELSE leases[id]
      BY <1>5, Zenon DEF Lease!GrantInsert, Lease!With
    <3>2. [ttl |-> grants[c].ttl, age |-> 0, keys |-> {}, holder |-> c] \in LeaseRecord
      BY <2>1, Zenon DEF LeaseRecord
    <3>3. UNCHANGED <<leader, next_id>>
      BY <1>5, Zenon DEF Lease!GrantInsert
    <3>. QED  BY <2>1, <3>1, <3>2, <3>3 DEF LeaseTypes, LeasesTyped
  <2>3. GrantsTyped'
    <3>1. Lease!NoGrant \in LeaseGrant /\ Lease!NoGrant.pc = "idle"
      BY DEF LeaseGrant, Lease!NoGrant
    <3>. QED  BY <1>5, <3>1, Zenon DEF LeaseTypes, GrantsTyped, Lease!GrantInsert
  <2>. QED  BY <1>5, <2>2, <2>3, <1>d, <1>e, <1>f, Zenon DEF LeaseTypes, Lease!GrantInsert
<1>6. CASE Lease!Tick
  <2>1. LeasesTyped'
    <3>1. /\ DOMAIN leases' = DOMAIN leases
          /\ \A id \in DOMAIN leases :
               leases'[id] = [leases[id] EXCEPT !.age = Lease!Min({@ + 1, leases[id].ttl})]
      BY <1>6, Zenon DEF Lease!Tick
    <3>2. ASSUME NEW id \in DOMAIN leases
          PROVE  /\ Lease!Min({leases[id].age + 1, leases[id].ttl}) \in Nat
                 /\ Lease!Min({leases[id].age + 1, leases[id].ttl}) <= leases[id].ttl
      <4>1. leases[id].age + 1 \in Nat /\ leases[id].ttl \in Nat /\ leases[id].ttl \in Int
        BY DEF LeaseTypes, LeasesTyped, LeaseRecord
      <4>. QED  BY <4>1, LeasePairs, Zenon
    <3>3. ASSUME NEW id \in DOMAIN leases
          PROVE  leases'[id] \in LeaseRecord /\ leases'[id].age <= leases'[id].ttl
      <4>1. leases[id] \in LeaseRecord
        BY Zenon DEF LeaseTypes, LeasesTyped
      <4>2. PICK age \in Nat : age = Lease!Min({leases[id].age + 1, leases[id].ttl})
        BY <3>2, Zenon
      <4>3. age <= leases[id].ttl
        BY <3>2, <4>2, Zenon
      <4>4. leases'[id] = [leases[id] EXCEPT !.age = age]
        BY <3>1, <4>2, Zenon
      <4>5. /\ leases'[id] \in LeaseRecord
            /\ leases'[id].age = age /\ leases'[id].ttl = leases[id].ttl
        BY <4>1, <4>4, AgeEdited
      <4>. QED  BY <4>3, <4>5, Zenon
    <3>4. UNCHANGED <<leader, next_id>>
      BY <1>6, Zenon DEF Lease!Tick
    <3>. QED  BY <3>1, <3>3, <3>4, Zenon DEF LeaseTypes, LeasesTyped
  <2>. QED  BY <1>6, <2>1, <1>c, <1>d, <1>e, <1>f, Zenon DEF LeaseTypes, Lease!Tick
<1>7. ASSUME NEW id \in DOMAIN leases, Lease!KeepAlive(id)
      PROVE  LeaseTypes'
  <2>1. LeasesTyped'
    <3>1. leases' = [leases EXCEPT ![id].age = 0] /\ UNCHANGED <<leader, next_id>>
      BY <1>7, Zenon DEF Lease!KeepAlive
    <3>. QED  BY <3>1 DEF LeaseTypes, LeasesTyped, LeaseRecord
  <2>. QED  BY <1>7, <2>1, <1>c, <1>d, <1>e, <1>f, Zenon DEF LeaseTypes, Lease!KeepAlive
<1>8. ASSUME NEW id \in DOMAIN leases, Lease!Revoke(id)
      PROVE  LeaseTypes'
  <2>1. LeasesTyped'
    BY <1>8, Zenon DEF LeaseTypes, LeasesTyped, Lease!Revoke, Lease!Without
  <2>. QED  BY <1>8, <2>1, <1>c, <1>d, <1>e, <1>f, Zenon DEF LeaseTypes, Lease!Revoke
<1>9. CASE Lease!ExpiryCollect
  <2>1. LeasesTyped'
    BY <1>9, Zenon DEF LeaseTypes, LeasesTyped, Lease!ExpiryCollect, Lease!Without
  <2>2. \A pair \in expiring' : pair \in Int \X Key
    <3>1. \A id \in DOMAIN leases : id \in Int /\ leases[id].keys \subseteq Key
      BY DEF LeaseTypes, LeasesTyped, LeaseRecord
    <3>. QED  BY <1>9, <3>1 DEF Lease!ExpiryCollect, Lease!Collected, Lease!ExpiredIds
  <2>3. QueuesTyped'
    BY <1>9, <2>2, Zenon DEF LeaseTypes, QueuesTyped, Lease!ExpiryCollect
  <2>. QED  BY <1>9, <2>1, <2>3, <1>c, <1>e, <1>f, Zenon DEF LeaseTypes, Lease!ExpiryCollect
<1>10. ASSUME NEW e \in LeaseEntry, log' = Append(log, e), expiring' \subseteq expiring
       PROVE  QueuesTyped'
  <2>1. log' \in Seq(LeaseEntry)
    BY <1>10, <1>a
  <2>. QED  BY <1>10, <2>1, Zenon DEF LeaseTypes, QueuesTyped
<1>11. ASSUME NEW pair \in expiring, Lease!ExpiryPropose(pair)
       PROVE  LeaseTypes'
  <2>1. pair[1] \in Int /\ pair[2] \in Key
    BY DEF LeaseTypes, QueuesTyped
  <2>2. expiring' \subseteq expiring /\ UNCHANGED <<leader, leases, next_id, grants, kv>>
    BY <1>11, Zenon DEF Lease!ExpiryPropose
  <2>3. QueuesTyped'
    <3>. DEFINE e == [op |-> "Delete", key |-> pair[2], lease |-> 0, why |-> pair[1]]
    <3>1. e \in LeaseEntry
      BY <2>1 DEF LeaseEntry, LeaseRequests
    <3>2. log' = log \/ log' = Append(log, e)
      BY <1>11, Zenon DEF Lease!ExpiryPropose
    <3>3. log' = log => QueuesTyped'
      BY <2>2, Zenon DEF LeaseTypes, QueuesTyped
    <3>. QED  BY <1>10, <2>2, <3>1, <3>2, <3>3, Zenon
  <2>4. orphaned' \subseteq Key
    BY <1>11, <2>1, <1>f, Zenon DEF Lease!ExpiryPropose
  <2>. QED  BY <2>2, <2>3, <2>4, <1>b, <1>c, <1>e, Zenon DEF LeaseTypes
<1>12. ASSUME NEW op \in {"Put", "Delete"}, NEW key \in Key, NEW lease \in PutId,
              Lease!Propose(op, key, lease)
       PROVE  LeaseTypes'
  <2>. DEFINE e == [op |-> op, key |-> key, lease |-> lease, why |-> 0]
  <2>1. e \in LeaseEntry
    BY DEF LeaseEntry
  <2>2. log' = Append(log, e) /\ UNCHANGED expiring
    BY <1>12, Zenon DEF Lease!Propose
  <2>3. QueuesTyped'
    BY <1>10, <2>1, <2>2, Zenon
  <2>. QED  BY <1>12, <2>3, <1>b, <1>c, <1>e, <1>f, Zenon DEF LeaseTypes, Lease!Propose
<1>13. ASSUME NEW kept \in 0..Len(log), Lease!StepDown(kept)
       PROVE  LeaseTypes'
  <2>1. Len(log) \in Nat /\ log' = SubSeq(log, 1, kept)
    BY <1>13, <1>a DEF Lease!StepDown
  <2>2. log' \in Seq(LeaseEntry)
    BY <1>a, <2>1
  <2>3. UNCHANGED <<next_id, expiring, leases, grants, kv>> /\ leader' \in BOOLEAN
    BY <1>13, Zenon DEF Lease!StepDown
  <2>4. QueuesTyped'
    BY <2>2, <2>3, Zenon DEF LeaseTypes, QueuesTyped
  <2>5. LeasesTyped'
    BY <2>3, Zenon DEF LeaseTypes, LeasesTyped
  <2>6. orphaned' \subseteq Key
    BY <1>13, <1>f, Zenon DEF Lease!StepDown
  <2>. QED  BY <2>3, <2>4, <2>5, <2>6, <1>c, <1>e, Zenon DEF LeaseTypes
<1>14. ASSUME log # <<>>, log' = Tail(log), UNCHANGED expiring
       PROVE  QueuesTyped'
  <2>1. log' \in Seq(LeaseEntry)
    BY <1>14, <1>a
  <2>. QED  BY <1>14, <2>1, Zenon DEF LeaseTypes, QueuesTyped
<1>15. log # <<>> => Head(log) = log[1] /\ 1 \in 1..Len(log)
  BY <1>a
<1>16. ASSUME DOMAIN leases' = DOMAIN leases, UNCHANGED <<leader, next_id>>,
              \A i \in DOMAIN leases :
                \/ leases'[i] = leases[i]
                \/ \E keys \in SUBSET Key : leases'[i] = [leases[i] EXCEPT !.keys = keys]
       PROVE  LeasesTyped'
  <2>1. \A i \in DOMAIN leases : leases[i] \in LeaseRecord /\ leases[i].age <= leases[i].ttl
    BY Zenon DEF LeaseTypes, LeasesTyped
  <2>2. \A i \in DOMAIN leases : leases'[i] \in LeaseRecord /\ leases'[i].age <= leases'[i].ttl
    <3>. SUFFICES ASSUME NEW i \in DOMAIN leases
                  PROVE  leases'[i] \in LeaseRecord /\ leases'[i].age <= leases'[i].ttl
      OBVIOUS
    <3>1. CASE leases'[i] = leases[i]
      BY <2>1, <3>1, Zenon
    <3>2. ASSUME NEW keys \in SUBSET Key, leases'[i] = [leases[i] EXCEPT !.keys = keys]
          PROVE  leases'[i] \in LeaseRecord /\ leases'[i].age <= leases'[i].ttl
      <4>1. leases[i] \in LeaseRecord
        BY <2>1, Zenon
      <4>2. /\ [leases[i] EXCEPT !.keys = keys] \in LeaseRecord
            /\ [leases[i] EXCEPT !.keys = keys].age = leases[i].age
            /\ [leases[i] EXCEPT !.keys = keys].ttl = leases[i].ttl
        BY <4>1, KeysEdited, Zenon
      <4>. QED  BY <2>1, <3>2, <4>2, Zenon
    <3>. QED  BY <1>16, <3>1, <3>2, Zenon
  <2>. QED  BY <1>16, <2>2, Zenon DEF LeaseTypes, LeasesTyped
<1>17. CASE Lease!ApplyPut
  <2>1. PICK key, id : key = Head(log).key /\ id = Head(log).lease
    OBVIOUS
  <2>2. key \in Key /\ id \in PutId
    BY <1>17, <2>1, <1>a, <1>15, LeaseEntries, Zenon DEF Lease!ApplyPut
  <2>3. /\ kv' = [kv EXCEPT ![key] = id]
        /\ leases' = IF id > 0 /\ id \in DOMAIN leases
                     THEN [leases EXCEPT ![id].keys = @ \cup {key}] ELSE leases
        /\ orphaned' = orphaned \cup {key} \/ orphaned' = orphaned \ {key}
        /\ log # <<>> /\ log' = Tail(log) /\ UNCHANGED <<leader, next_id, grants, expiring>>
    BY <1>17, <2>1, Zenon DEF Lease!ApplyPut
  <2>4. LeasesTyped'
    <3>1. /\ DOMAIN leases' = DOMAIN leases
          /\ \A i \in DOMAIN leases :
               \/ leases'[i] = leases[i]
               \/ leases'[i] = [leases[i] EXCEPT !.keys = leases[i].keys \cup {key}]
      BY <2>3, Zenon
    <3>2. \A i \in DOMAIN leases : leases[i].keys \in SUBSET Key
      BY Zenon DEF LeaseTypes, LeasesTyped, LeaseRecord
    <3>3. \A i \in DOMAIN leases :
            leases[i].keys \cup {key} \in SUBSET Key /\ leases[i].keys \ {key} \in SUBSET Key
      BY <2>2, <3>2, Zenon
    <3>. QED  BY <1>16, <2>3, <3>1, <3>3, Zenon
  <2>5. KvTyped'
    BY <2>2, <2>3, <1>f, Zenon DEF LeaseTypes, KvTyped
  <2>. QED  BY <2>3, <2>4, <2>5, <1>14, <1>c, Zenon DEF LeaseTypes
<1>18. CASE Lease!ApplyDelete
  <2>1. PICK key : key = Head(log).key
    OBVIOUS
  <2>2. key \in Key
    BY <1>18, <2>1, <1>a, <1>15, LeaseEntries, Zenon DEF Lease!ApplyDelete
  <2>3. /\ kv' = [kv EXCEPT ![key] = Absent]
        /\ leases' = leases \/ leases' = Lease!Detach(key, kv[key])
        /\ orphaned' = orphaned \ {key}
        /\ log # <<>> /\ log' = Tail(log) /\ UNCHANGED <<leader, next_id, grants, expiring>>
    BY <1>18, <2>1, Zenon DEF Lease!ApplyDelete
  <2>4. LeasesTyped'
    <3>1. /\ DOMAIN leases' = DOMAIN leases
          /\ \A i \in DOMAIN leases :
               \/ leases'[i] = leases[i]
               \/ leases'[i] = [leases[i] EXCEPT !.keys = leases[i].keys \ {key}]
      BY <2>3, Zenon DEF Lease!Detach
    <3>2. \A i \in DOMAIN leases : leases[i].keys \in SUBSET Key
      BY Zenon DEF LeaseTypes, LeasesTyped, LeaseRecord
    <3>3. \A i \in DOMAIN leases :
            leases[i].keys \cup {key} \in SUBSET Key /\ leases[i].keys \ {key} \in SUBSET Key
      BY <2>2, <3>2, Zenon
    <3>. QED  BY <1>16, <2>3, <3>1, <3>3, Zenon
  <2>5. KvTyped'
    BY <2>2, <2>3, <1>f, Zenon DEF LeaseTypes, KvTyped
  <2>. QED  BY <2>3, <2>4, <2>5, <1>14, <1>c, Zenon DEF LeaseTypes
<1>19. 0 \in PutId /\ "Put" \in {"Put", "Delete"} /\ "Delete" \in {"Put", "Delete"}
  BY Zenon DEF LeaseRequests
<1>. QED
  BY <1>1, <1>2, <1>3, <1>4, <1>5, <1>6, <1>7, <1>8, <1>9, <1>11, <1>12, <1>13, <1>17, <1>18,
     <1>19, Zenon DEF Lease!Next

\* Every step keeps sight of the keys, or counts them as orphaned.
LEMMA KeysSeenNext ==
  ASSUME LeaseRequests, LeaseInv, Lease!Next
  PROVE  KeysSeen'
<1>. USE DEF Lease!lease_vars, Lease!bounds
<1>a. log \in Seq(LeaseEntry) /\ Len(log) \in Nat
  BY DEF LeaseInv, LeaseTypes, QueuesTyped
\* The keys that a lease holds, the pairs that are collected and the deletes only grow.
<1>b. ASSUME UNCHANGED kv, orphaned \subseteq orphaned',
             \A key \in Key : \A id : id = kv[key] /\ id # 0 /\ key \notin orphaned' /\ SeenBy(key, id)
                                      => SeenBy(key, id)'
      PROVE  KeysSeen'
  <2>. SUFFICES ASSUME NEW key \in Key, kv'[key] # Absent, kv'[key] # 0, key \notin orphaned'
                PROVE  SeenBy(key, kv[key])'
    BY Zenon DEF KeysSeen
  <2>1. PICK id : id = kv[key]
    BY Zenon
  <2>2. SeenBy(key, id)
    BY <1>b, <2>1, Zenon DEF LeaseInv, KeysSeen
  <2>3. SeenBy(key, id)' /\ id = kv'[key]
    BY <1>b, <2>1, <2>2, Zenon
  <2>. QED  BY <2>3, Zenon DEF SeenBy
<1>c. ASSUME UNCHANGED <<leases, expiring, log, kv, orphaned>> PROVE KeysSeen'
  BY <1>c, Zenon DEF LeaseInv, KeysSeen, SeenBy
<1>1. ASSUME NEW c \in Client, NEW id \in AskedId, NEW ttl \in Ttl,
             Lease!GrantRefused(c, id, ttl) \/ Lease!GrantCheck(c, id, ttl)
      PROVE  KeysSeen'
  BY <1>1, <1>c, Zenon DEF Lease!GrantRefused, Lease!GrantCheck
<1>2. ASSUME NEW c \in Client, NEW ttl \in Ttl, Lease!GrantAssign(c, ttl)
      PROVE  KeysSeen'
  BY <1>2, <1>c, Zenon DEF Lease!GrantAssign
<1>3. ASSUME NEW c \in Client, Lease!GrantAdvance(c)
      PROVE  KeysSeen'
  BY <1>3, <1>c, Zenon DEF Lease!GrantAdvance
<1>4. ASSUME NEW c \in Client, Lease!GrantInsert(c)
      PROVE  KeysSeen'
  <2>1. UNCHANGED <<expiring, log, kv>> /\ orphaned \subseteq orphaned'
    BY <1>4, Zenon DEF Lease!GrantInsert
  <2>2. /\ \A id \in DOMAIN leases : id \in DOMAIN leases' /\ (id # grants[c].id => leases'[id] = leases[id])
        /\ \A key \in Key : kv[key] = grants[c].id /\ grants[c].id \in DOMAIN leases
                            /\ key \in leases[grants[c].id].keys => key \in orphaned'
    BY <1>4, Zenon DEF Lease!GrantInsert, Lease!With, Lease!LeasedKeys
  <2>. QED  BY <2>1, <2>2, <1>b, Zenon DEF SeenBy
<1>5. CASE Lease!Tick
  <2>1. UNCHANGED <<expiring, log, kv, orphaned>>
    BY <1>5, Zenon DEF Lease!Tick
  <2>2. \A id \in DOMAIN leases : id \in DOMAIN leases' /\ leases'[id].keys = leases[id].keys
    BY <1>5, Zenon DEF LeaseInv, LeaseTypes, LeasesTyped, LeaseRecord, Lease!Tick
  <2>. QED  BY <2>1, <2>2, <1>b, Zenon DEF SeenBy
<1>6. ASSUME NEW id \in DOMAIN leases, Lease!KeepAlive(id)
      PROVE  KeysSeen'
  <2>1. UNCHANGED <<expiring, log, kv, orphaned>>
    BY <1>6, Zenon DEF Lease!KeepAlive
  <2>2. \A i \in DOMAIN leases : i \in DOMAIN leases' /\ leases'[i].keys = leases[i].keys
    <3>1. leases[id] \in LeaseRecord
      BY Zenon DEF LeaseInv, LeaseTypes, LeasesTyped
    <3>2. [leases[id] EXCEPT !.age = 0].keys = leases[id].keys
      BY <3>1, AgeEdited, Zenon
    <3>. QED  BY <1>6, <3>2, Zenon DEF Lease!KeepAlive
  <2>. QED  BY <2>1, <2>2, <1>b, Zenon DEF SeenBy
<1>7. ASSUME NEW id \in DOMAIN leases, Lease!Revoke(id)
      PROVE  KeysSeen'
  <2>1. UNCHANGED <<expiring, log, kv>> /\ orphaned \subseteq orphaned'
    BY <1>7, Zenon DEF Lease!Revoke
  <2>2. /\ \A i \in DOMAIN leases : i # id => i \in DOMAIN leases' /\ leases'[i] = leases[i]
        /\ \A key \in Key : kv[key] = id /\ key \in leases[id].keys => key \in orphaned'
    BY <1>7, Zenon DEF Lease!Revoke, Lease!Without, Lease!LeasedKeys
  <2>. QED  BY <2>1, <2>2, <1>b, Zenon DEF SeenBy
<1>8. CASE Lease!ExpiryCollect
  <2>1. UNCHANGED <<log, kv, orphaned>> /\ expiring = {}
    BY <1>8, Zenon DEF Lease!ExpiryCollect
  <2>2. \A i \in DOMAIN leases : \/ i \in DOMAIN leases' /\ leases'[i] = leases[i]
                                 \/ \A key \in leases[i].keys : <<i, key>> \in expiring'
    BY <1>8 DEF Lease!ExpiryCollect, Lease!Collected, Lease!Without
  <2>. QED  BY <2>1, <2>2, <1>b, Zenon DEF SeenBy
<1>9. ASSUME NEW e, log' = Append(log, e)
      PROVE  /\ Len(log') = Len(log) + 1 /\ \A i \in 1..Len(log) : i \in 1..Len(log') /\ log'[i] = log[i]
             /\ Len(log) + 1 \in 1..Len(log') /\ log'[Len(log) + 1] = e
  BY <1>9, <1>a
<1>10. ASSUME NEW pair \in expiring, Lease!ExpiryPropose(pair)
       PROVE  KeysSeen'
  <2>1. UNCHANGED <<leases, kv>> /\ orphaned \subseteq orphaned' /\ expiring' = expiring \ {pair}
    BY <1>10, Zenon DEF Lease!ExpiryPropose
  <2>. DEFINE e == [op |-> "Delete", key |-> pair[2], lease |-> 0, why |-> pair[1]]
  <2>2. CASE log' = Append(log, e)
    <3>1. log' = Append(log, e)
      BY <2>2, Zenon
    <3>2. /\ \A i \in 1..Len(log) : i \in 1..Len(log') /\ log'[i] = log[i]
          /\ Len(log) + 1 \in 1..Len(log') /\ log'[Len(log) + 1] = e
      BY <3>1, <1>9, Zenon
    <3>3. e.op = "Delete" /\ e.key = pair[2] /\ e.why = pair[1]
      OBVIOUS
    <3>4. ASSUME NEW key \in Key, NEW id, SeenBy(key, id) PROVE SeenBy(key, id)'
      <4>1. CASE id \in DOMAIN leases /\ key \in leases[id].keys
        BY <4>1, <2>1, Zenon DEF SeenBy
      <4>2. CASE <<id, key>> \in expiring
        <5>1. CASE <<id, key>> = pair
          <6>1. pair[1] = id /\ pair[2] = key
            BY <5>1, Zenon
          <6>. QED  BY <3>2, <3>3, <6>1, Zenon DEF SeenBy
        <5>2. CASE <<id, key>> # pair
          BY <4>2, <5>2, <2>1, Zenon DEF SeenBy
        <5>. QED  BY <5>1, <5>2, Zenon
      <4>3. CASE \E i \in 1..Len(log) : log[i].op = "Delete" /\ log[i].key = key /\ log[i].why = id
        BY <4>3, <3>2, Zenon DEF SeenBy
      <4>. QED  BY <3>4, <4>1, <4>2, <4>3, Zenon DEF SeenBy
    <3>. QED  BY <2>1, <3>4, <1>b, Zenon
  <2>3. CASE UNCHANGED log /\ orphaned' = orphaned \cup {key \in {pair[2]} : kv[key] = pair[1]}
    <3>1. ASSUME NEW key \in Key, NEW id, id = kv[key], key \notin orphaned', SeenBy(key, id)
          PROVE  SeenBy(key, id)'
      <4>1. <<id, key>> # pair
        BY <2>3, <3>1
      <4>. QED  BY <4>1, <2>3, <3>1, <2>1, Zenon DEF SeenBy
    <3>. QED  BY <2>1, <3>1, <1>b, Zenon
  <2>. QED  BY <1>10, <2>2, <2>3, Zenon DEF Lease!ExpiryPropose
<1>11. ASSUME NEW op, NEW key, NEW lease, Lease!Propose(op, key, lease)
       PROVE  KeysSeen'
  <2>1. UNCHANGED <<leases, expiring, kv, orphaned>>
        /\ log' = Append(log, [op |-> op, key |-> key, lease |-> lease, why |-> 0])
    BY <1>11, Zenon DEF Lease!Propose
  <2>2. \A i \in 1..Len(log) : i \in 1..Len(log') /\ log'[i] = log[i]
    BY <2>1, <1>9, Zenon
  <2>. QED  BY <2>1, <2>2, <1>b, Zenon DEF SeenBy
<1>12. ASSUME NEW kept \in 0..Len(log), Lease!StepDown(kept)
       PROVE  KeysSeen'
  <2>1. log' = SubSeq(log, 1, kept) /\ UNCHANGED <<leases, expiring, kv>>
    BY <1>12, Zenon DEF Lease!StepDown
  <2>2. Len(log') = kept /\ \A i \in 1..kept : log'[i] = log[i]
    BY <1>a, <2>1
  <2>3. \A i \in 1..Len(log) : i \in 1..kept \/ i \in kept + 1..Len(log)
    BY <1>a, <2>1
  <2>4. orphaned' = orphaned \cup {key \in Key : \E i \in kept + 1..Len(log) :
                                                log[i].key = key /\ log[i].why = kv[key]}
    BY <1>12, Zenon DEF Lease!StepDown
  <2>5. ASSUME NEW key \in Key, NEW id, id = kv[key], key \notin orphaned', SeenBy(key, id)
        PROVE  SeenBy(key, id)'
    <3>1. \A i \in 1..Len(log) : log[i].key = key /\ log[i].why = id
            => i \in 1..Len(log') /\ log'[i] = log[i]
      BY <2>2, <2>3, <2>4, <2>5, Zenon
    <3>. QED  BY <2>1, <2>5, <3>1, Zenon DEF SeenBy
  <2>6. orphaned \subseteq orphaned'
    BY <2>4, Zenon
  <2>. QED  BY <2>1, <2>5, <2>6, <1>b, Zenon
<1>13. ASSUME log # <<>>, log' = Tail(log)
       PROVE  /\ Head(log) = log[1] /\ 1 \in 1..Len(log)
              /\ \A i \in 1..Len(log) : i = 1 \/ (i - 1 \in 1..Len(log') /\ log'[i - 1] = log[i])
  BY <1>13, <1>a
<1>14. CASE Lease!ApplyPut
  <2>1. PICK key, id : key = Head(log).key /\ id = Head(log).lease
    OBVIOUS
  <2>2. /\ kv' = [kv EXCEPT ![key] = id]
        /\ leases' = IF id > 0 /\ id \in DOMAIN leases
                     THEN [leases EXCEPT ![id].keys = @ \cup {key}] ELSE leases
        /\ orphaned' = IF id < 0 \/ (id > 0 /\ id \notin DOMAIN leases)
                       THEN orphaned \cup {key} ELSE orphaned \ {key}
        /\ log # <<>> /\ log' = Tail(log) /\ UNCHANGED expiring /\ Head(log).op = "Put"
    BY <1>14, <2>1, Zenon DEF Lease!ApplyPut
  <2>3. log[1].op = "Put" /\ key \in Key /\ id \in Int
    BY <1>13, <1>a, <2>1, <2>2, LeaseEntries, Zenon DEF LeaseRequests
  <2>4. \A i \in DOMAIN leases : i \in DOMAIN leases' /\ leases[i].keys \subseteq leases'[i].keys
    <3>1. \A i \in DOMAIN leases : leases[i] \in LeaseRecord
      BY Zenon DEF LeaseInv, LeaseTypes, LeasesTyped
    <3>. QED  BY <2>2, <3>1, Zenon DEF LeaseRecord
  <2>5. id \in DOMAIN leases /\ id > 0 => key \in leases'[id].keys
    <3>1. \A i \in DOMAIN leases : leases[i] \in LeaseRecord
      BY Zenon DEF LeaseInv, LeaseTypes, LeasesTyped
    <3>. QED  BY <2>2, <3>1, Zenon DEF LeaseRecord
  <2>6. ASSUME NEW k \in Key, NEW i, SeenBy(k, i) PROVE SeenBy(k, i)'
    <3>1. \A x \in 1..Len(log) : log[x].op = "Delete" => x - 1 \in 1..Len(log') /\ log'[x - 1] = log[x]
      BY <1>13, <2>2, <2>3, Zenon
    <3>2. UNCHANGED expiring
      BY <2>2, Zenon
    <3>3. (i \in DOMAIN leases /\ k \in leases[i].keys) => (i \in DOMAIN leases' /\ k \in leases'[i].keys)
      BY <2>4, Zenon
    <3>. QED  BY <2>6, <3>1, <3>2, <3>3, Zenon DEF SeenBy
  <2>7. id # 0 /\ key \notin orphaned' => SeenBy(key, id)'
    <3>1. id # 0 /\ key \notin orphaned' => id > 0 /\ id \in DOMAIN leases
      BY <2>2, <2>3
    <3>. QED  BY <2>4, <2>5, <3>1, Zenon DEF SeenBy
  <2>8. \A k \in Key : k # key => (k \in orphaned' <=> k \in orphaned)
    BY <2>2, Zenon
  <2>9. \A k \in Key : kv'[k] = IF k = key THEN id ELSE kv[k]
    BY <2>2, <2>3, Zenon DEF LeaseInv, LeaseTypes, KvTyped
  <2>. SUFFICES ASSUME NEW k \in Key, kv'[k] # Absent, kv'[k] # 0, k \notin orphaned'
                PROVE  SeenBy(k, kv[k])'
    BY Zenon DEF KeysSeen
  <2>10. PICK i : i = kv'[k]
    BY Zenon
  <2>11. SeenBy(k, i)'
    <3>1. CASE k = key
      BY <2>7, <2>9, <2>10, <3>1, Zenon
    <3>2. CASE k # key
      <4>1. kv[k] = i /\ k \notin orphaned
        BY <2>8, <2>9, <2>10, <3>2, Zenon
      <4>2. SeenBy(k, i)
        BY <2>10, <4>1, Zenon DEF LeaseInv, KeysSeen
      <4>. QED  BY <2>6, <4>2, Zenon
    <3>. QED  BY <3>1, <3>2, Zenon
  <2>. QED  BY <2>10, <2>11, Zenon DEF SeenBy
<1>15. CASE Lease!ApplyDelete
  <2>1. PICK key : key = Head(log).key
    OBVIOUS
  <2>2. /\ kv' = [kv EXCEPT ![key] = Absent]
        /\ leases' = leases \/ leases' = Lease!Detach(key, kv[key])
        /\ orphaned' = orphaned \ {key}
        /\ log # <<>> /\ log' = Tail(log) /\ UNCHANGED expiring
    BY <1>15, <2>1, Zenon DEF Lease!ApplyDelete
  <2>3. log[1].key = key
    BY <1>13, <2>1, <2>2, Zenon
  <2>4. ASSUME NEW k \in Key, k # key, NEW i \in DOMAIN leases, k \in leases[i].keys
        PROVE  i \in DOMAIN leases' /\ k \in leases'[i].keys
    <3>1. leases[i] \in LeaseRecord
      BY Zenon DEF LeaseInv, LeaseTypes, LeasesTyped
    <3>. QED  BY <2>2, <2>4, <3>1, Zenon DEF LeaseRecord, Lease!Detach
  <2>5. ASSUME NEW k \in Key, NEW i, k # key, SeenBy(k, i) PROVE SeenBy(k, i)'
    <3>1. \A x \in 1..Len(log) : log[x].key = k => x - 1 \in 1..Len(log') /\ log'[x - 1] = log[x]
      BY <1>13, <2>2, <2>3, <2>5, Zenon
    <3>2. CASE i \in DOMAIN leases /\ k \in leases[i].keys
      BY <2>4, <2>5, <3>2, Zenon DEF SeenBy
    <3>3. CASE <<i, k>> \in expiring
      BY <2>2, <3>3, Zenon DEF SeenBy
    <3>4. ASSUME NEW x \in 1..Len(log), log[x].op = "Delete", log[x].key = k, log[x].why = i
          PROVE  SeenBy(k, i)'
      BY <3>1, <3>4, Zenon DEF SeenBy
    <3>. QED  BY <2>5, <3>2, <3>3, <3>4, Zenon DEF SeenBy
  <2>6. \A k \in Key : kv'[k] = IF k = key THEN Absent ELSE kv[k]
    BY <2>2, Zenon DEF LeaseInv, LeaseTypes, KvTyped
  <2>7. KeysSeen
    BY Zenon DEF LeaseInv
  <2>. SUFFICES ASSUME NEW k \in Key, kv'[k] # Absent, kv'[k] # 0, k \notin orphaned'
                PROVE  SeenBy(k, kv[k])' /\ kv'[k] = kv[k]
    BY Zenon DEF KeysSeen
  <2>8. k # key /\ kv'[k] = kv[k]
    BY <2>6, Zenon
  <2>9. SeenBy(k, kv[k])
    BY <2>2, <2>7, <2>8, Zenon DEF KeysSeen
  <2>10. PICK i : i = kv[k] /\ i = kv'[k]
    BY <2>8, Zenon
  <2>11. SeenBy(k, i)'
    BY <2>5, <2>8, <2>9, <2>10, Zenon
  <2>. QED  BY <2>8, <2>10, <2>11, Zenon DEF SeenBy
<1>. QED
  BY <1>1, <1>2, <1>3, <1>4, <1>5, <1>6, <1>7, <1>8, <1>10, <1>11, <1>12, <1>14, <1>15,
     Zenon DEF Lease!Next

\* Every behaviour keeps the invariant.
LEMMA LeaseAlways ==
  ASSUME LeaseRequests
  PROVE  Lease!Spec => []LeaseInv
<1>1. Lease!Init => LeaseInv
  BY DEF Lease!Init, Lease!NoGrant, LeaseInv, LeaseTypes, LeasesTyped, GrantsTyped, LeaseGrant,
         QueuesTyped, KvTyped, KeysSeen, LeaseRequests
<1>2. LeaseInv /\ [Lease!Next]_(Lease!vars) => LeaseInv'
  <2>1. CASE Lease!Next
    BY <2>1, LeaseTypesNext, KeysSeenNext, Zenon DEF LeaseInv
  <2>2. CASE UNCHANGED Lease!vars
    BY <2>2, Zenon DEF Lease!vars, Lease!lease_vars, Lease!bounds, LeaseInv, LeaseTypes, LeasesTyped,
                GrantsTyped, QueuesTyped, KvTyped, KeysSeen, SeenBy
  <2>. QED  BY <2>1, <2>2, Zenon
<1>. QED  BY <1>1, <1>2, PTL DEF Lease!Spec

\* fetch_max of grant moves the counter past every id that was asked for, so an id that
\* the server chooses is never in the table, and no lease is older than its ttl.
THEOREM LeaseIdsBelowCounter ==
  ASSUME LeaseRequests
  PROVE  Lease!Spec => []Lease!LeaseTypeOK
<1>1. LeaseInv => Lease!LeaseTypeOK
  BY DEF LeaseInv, LeaseTypes, LeasesTyped, LeaseRecord, QueuesTyped, KvTyped, Lease!LeaseTypeOK
<1>. QED  BY <1>1, LeaseAlways, PTL

\* attach_key, detach_key, collect_expired and the deletes of the lease tick: a key that has
\* a lease in the store is attached to it, collected, or its delete is in the log, over any
\* number of clients, keys and leases and for whatever ids grants and puts name, unless the
\* put, the revocation or the refused or dropped delete that orphaned it is on record.
THEOREM LeasedKeysAreTracked ==
  ASSUME LeaseRequests
  PROVE  Lease!Spec => []Lease!LeasedKeysTracked
<1>1. LeaseInv => Lease!LeasedKeysTracked
  <2>. SUFFICES ASSUME LeaseInv, NEW key \in Key, kv[key] # Absent, kv[key] # 0,
                       key \notin orphaned
                PROVE  \/ kv[key] \in DOMAIN leases /\ key \in leases[kv[key]].keys
                       \/ <<kv[key], key>> \in expiring
                       \/ \E i \in DOMAIN log : log[i].op = "Delete" /\ log[i].key = key
    BY Zenon DEF Lease!LeasedKeysTracked
  <2>1. SeenBy(key, kv[key])
    BY Zenon DEF LeaseInv, KeysSeen
  <2>2. DOMAIN log = 1..Len(log)
    BY DEF LeaseInv, LeaseTypes, QueuesTyped
  <2>. QED  BY <2>1, <2>2, Zenon DEF SeenBy
<1>. QED  BY <1>1, LeaseAlways, PTL

-----------------------------------------------------------------------------
(* The client.  `up' is declared in VoteState.                             *)

CONSTANTS Order, None, max_retries, MaxCalls, MaxEvents

VARIABLES leader_id, connections, call, node_id, attempt, leading, knows, calls, events,
          proposed, lost, calm, refused, result

Call == INSTANCE Client

\* As long as the call's loop goes on, every proposal it made lost its answer.
CallInv ==
  /\ proposed \in Nat /\ lost \in Nat
  /\ call # "none" => proposed <= lost
  /\ proposed <= lost + 1

\* A step that leaves both counts alone and begins no call keeps the invariant.
LEMMA CallQuietSteps ==
  ASSUME CallInv, UNCHANGED <<proposed, lost>>, call' \in {call, "none"}
  PROVE  CallInv'
  BY Zenon DEF CallInv

\* The end of a turn: the loop goes on with the same call, or the call returns.
LEMMA TurnEnds ==
  /\ \A n : Call!TryNext(n) => call' \in {call, "none"}
  /\ Call!Failed => call' \in {call, "none"}
  BY Zenon DEF Call!TryNext, Call!Failed, Call!Return

\* Every step keeps the count of the proposals.
LEMMA CallStep ==
  ASSUME CallInv, [Call!Next]_(Call!vars)
  PROVE  CallInv'
<1> USE DEF Call!history, Call!client, Call!servers
<1>1. ASSUME NEW kind \in {"write", "get", "range"}, Call!Begin(kind) PROVE CallInv'
  BY <1>1 DEF Call!Begin, CallInv
<1>2. CASE Call!Served
  BY <1>2 DEF Call!Served, Call!Return, Call!Connected, CallInv
<1>3. CASE Call!NotLeader
  BY <1>3, TurnEnds, CallQuietSteps, Zenon DEF Call!NotLeader
<1>4. CASE Call!Broken
  BY <1>4, TurnEnds, CallQuietSteps, Zenon DEF Call!Broken
<1>5. CASE Call!Unreachable
  BY <1>5, CallQuietSteps, Zenon DEF Call!Unreachable, Call!Return
<1>6. ASSUME NEW made \in BOOLEAN, Call!LeaderFails(made) PROVE CallInv'
  <2>1. call # "none" /\ call' \in {call, "none"}
    BY <1>6, TurnEnds, Zenon DEF Call!LeaderFails, Call!Connected
  <2>2. \/ lost' = lost + 1 /\ proposed' \in {proposed, proposed + 1}
        \/ lost' = lost /\ proposed' = proposed
    BY <1>6, Zenon DEF Call!LeaderFails
  <2> QED
    BY <2>1, <2>2 DEF CallInv
<1>7. ASSUME NEW n \in Call!Node,
             \/ Call!Stop(n) \/ Call!Start(n) \/ Call!Elected(n) \/ Call!StepsDown(n)
             \/ \E l \in Call!Node : Call!Learn(n, l)
      PROVE  CallInv'
  BY <1>7, CallQuietSteps, Zenon
  DEF Call!Stop, Call!Start, Call!Elected, Call!StepsDown, Call!Learn, Call!Change
<1>8. CASE UNCHANGED Call!vars
  BY <1>8, CallQuietSteps, Zenon DEF Call!vars
<1> QED
  BY <1>1, <1>2, <1>3, <1>4, <1>5, <1>6, <1>7, <1>8, Zenon DEF Call!Next

\* put and delete propose a write again only as often as an answer was lost.
THEOREM WritesRepeatOnlyIfLost == Call!Spec => []Call!RepeatedOnlyIfLost
<1>1. Call!Init => CallInv
  BY DEF Call!Init, CallInv
<1>2. CallInv /\ [Call!Next]_(Call!vars) => CallInv'
  BY CallStep, Zenon
<1>3. CallInv => Call!RepeatedOnlyIfLost
  BY Zenon DEF CallInv, Call!RepeatedOnlyIfLost
<1> QED
  BY <1>1, <1>2, <1>3, PTL DEF Call!Spec

-----------------------------------------------------------------------------
(* Snapshots.                                                              *)

CONSTANTS MaxIndex, MaxTrigger, MaxBackup, MaxRestore, MaxFault

VARIABLES data, meta, commit_index, snapshot_index, job, backup, backups, spent, taken,
          rewritten

Snap == INSTANCE Snapshots

\* std::cmp::max of two indexes.
LEMMA MaxOfPair ==
  ASSUME NEW a \in Nat, NEW b \in Nat
  PROVE  Snap!Max({a, b}) = IF a >= b THEN a ELSE b
  BY DEF Snap!Max

\* find_latest: a set of snapshots has a greatest index (MaxOfIndexes below).
IndexesHaveMax ==
  \A S \in SUBSET (1..MaxIndex) : S # {} =>
    Snap!Max(S) \in S /\ \A y \in S : Snap!Max(S) >= y

\* A job at work, and a backup under way.
SnapJob ==
  [pc : {"data", "data2", "meta", "meta2", "list", "clean"}, index : Snap!Index,
   at : 0..MaxIndex, old : SUBSET ({"data", "meta"} \X Snap!Index), over : BOOLEAN]
SnapBackup ==
  [pc : {"meta", "data", "pack"}, index : Snap!Index, expects : 0..MaxIndex,
   got : Snap!File, floor : 0..MaxIndex]

\* Cleanup goes on to the files that are left to remove.
LEMMA JobEdited ==
  ASSUME NEW j \in SnapJob, NEW old \in SUBSET ({"data", "meta"} \X Snap!Index), NEW k,
         k = [j EXCEPT !.pc = "clean", !.old = old] \/ k = [j EXCEPT !.old = old]
  PROVE  k \in SnapJob /\ k.index = j.index /\ k.old = old /\ k.pc \in {"clean", j.pc}
<1>1. CASE k = [j EXCEPT !.pc = "clean", !.old = old]
  BY <1>1, Zenon DEF SnapJob
<1>2. CASE k = [j EXCEPT !.old = old]
  BY <1>2, Zenon DEF SnapJob
<1> QED
  BY <1>1, <1>2, Zenon

\* The files, the job that writes them and the backup that reads them.
SnapTypes ==
  /\ data \in [Snap!Index -> Snap!File] /\ meta \in [Snap!Index -> Snap!File]
  /\ commit_index \in 0..MaxIndex /\ snapshot_index \in 0..MaxIndex /\ taken \in 0..MaxIndex
  /\ rewritten \in BOOLEAN
  /\ job \in SnapJob \cup {Snap!NoJob} /\ backup \in SnapBackup \cup {Snap!NoBackup}
  /\ \A b \in backups : b.commit_index \in 0..MaxIndex /\ b.data \in Snap!File

\* How far the job is: `over' is settled before it writes, the data is whole before the
\* metadata is written, both are before anything is removed, and that is older.
JobSound ==
  /\ job.pc = "data" => (job.over <=> Snap!Complete(job.index))
  /\ job.pc \in {"meta", "meta2"} => data[job.index] = Snap!Whole(job.at)
  /\ job.pc \in {"list", "clean"} => Snap!Complete(job.index)
  /\ \A f \in job.old : f[2] < job.index

\* The job is in the files of a snapshot.
WritesTo(i) == job.index = i /\ job.pc \in {"data2", "meta", "meta2"}

\* The last finished snapshot, or a later one, is complete and not being written to, or
\* it is being rewritten.
Covered ==
  /\ snapshot_index <= taken
  /\ taken > 0 /\ ~rewritten =>
       \/ \E i \in Snap!Index : Snap!Complete(i) /\ ~WritesTo(i) /\ i >= taken
       \/ Snap!Rewrites /\ job.index >= taken

\* Its metadata file is there, torn or whole, even if it was rewritten.
StaysNamed == taken > 0 => \E i \in Snap!Named : i >= taken

\* A backup reads a snapshot that was not outdated when it began.
BackupSound ==
  /\ backup.index >= backup.floor
  /\ backup.pc = "pack" => backup.got.state = "whole"
  /\ Snap!BackupFromLatest

SnapInv == SnapTypes /\ JobSound /\ Covered /\ StaysNamed /\ BackupSound

\* A backup that is not under way.
LEMMA NoBackupSound ==
  Snap!NoBackup.pc = "none" /\ Snap!NoBackup.index >= Snap!NoBackup.floor
  BY DEF Snap!NoBackup

\* The states a file can be in.
LEMMA SnapFileFacts ==
  ASSUME MaxIndex \in Nat, NEW i \in 0..MaxIndex
  PROVE  /\ Snap!Whole(i) \in Snap!File /\ Snap!Torn(i) \in Snap!File
         /\ Snap!Missing \in Snap!File
         /\ Snap!Whole(i).state = "whole" /\ Snap!Whole(i).at = i
         /\ Snap!Torn(i).state = "torn"
  BY DEF Snap!Whole, Snap!Torn, Snap!Missing, Snap!File

\* Every step of the snapshot manager and of create_backup keeps the types.
LEMMA SnapTypesNext ==
  ASSUME MaxIndex \in Nat, IndexesHaveMax, SnapInv, Snap!Next
  PROVE  SnapTypes'
<1>. USE DEF Snap!node, Snap!files, Snap!Index
<1>a. job.pc # "none" => job \in SnapJob
  BY DEF SnapInv, SnapTypes, Snap!NoJob
<1>b. backup.pc # "none" => backup \in SnapBackup
  BY DEF SnapInv, SnapTypes, Snap!NoBackup
<1>1. CASE Snap!TriggerSnapshot
  BY <1>1 DEF SnapInv, SnapTypes, SnapJob, Snap!TriggerSnapshot, Snap!Complete
<1>2. CASE \E b \in backups : Snap!Restore(b)
  <2>1. PICK b \in backups : Snap!Restore(b)
    BY <1>2, Zenon
  <2>2. b.commit_index \in 1..MaxIndex /\ b.data.at \in 0..MaxIndex
    BY <2>1 DEF SnapInv, SnapTypes, Snap!Restore, Snap!File
  <2>3. job' \in SnapJob
    BY <2>1, <2>2, Zenon DEF SnapJob, Snap!Restore, Snap!Complete
  <2>. QED  BY <2>1, <2>3, Zenon DEF SnapInv, SnapTypes, Snap!Restore
<1>3. CASE Snap!WriteData
  <2>1. job \in SnapJob /\ job.index \in Snap!Index /\ job.at \in 0..MaxIndex
    BY <1>3, <1>a, Zenon DEF SnapJob, Snap!WriteData
  <2>2. job' \in SnapJob
    BY <1>3, <2>1, Zenon DEF SnapJob, Snap!WriteData
  <2>3. data' \in [Snap!Index -> Snap!File]
    <3>1. Snap!Whole(job.at) \in Snap!File /\ Snap!Torn(job.at) \in Snap!File
      BY <2>1, SnapFileFacts, Zenon
    <3>2. \E f \in Snap!File : data' = [data EXCEPT ![job.index] = f]
      BY <1>3, <3>1, Zenon DEF Snap!WriteData
    <3>. QED  BY <2>1, <3>2, Zenon DEF SnapInv, SnapTypes
  <2>. QED  BY <1>3, <2>2, <2>3, Zenon DEF SnapInv, SnapTypes, Snap!WriteData
<1>4. CASE Snap!WriteMeta
  <2>1. job \in SnapJob /\ job.index \in Snap!Index /\ job.at \in 0..MaxIndex
    BY <1>4, <1>a, Zenon DEF SnapJob, Snap!WriteMeta
  <2>2. job' \in SnapJob
    BY <1>4, <2>1, Zenon DEF SnapJob, Snap!WriteMeta
  <2>3. meta' \in [Snap!Index -> Snap!File]
    <3>1. Snap!Whole(job.at) \in Snap!File /\ Snap!Torn(job.at) \in Snap!File
      BY <2>1, SnapFileFacts, Zenon
    <3>2. \E f \in Snap!File : meta' = [meta EXCEPT ![job.index] = f]
      BY <1>4, <3>1, Zenon DEF Snap!WriteMeta
    <3>. QED  BY <2>1, <3>2, Zenon DEF SnapInv, SnapTypes
  <2>. QED  BY <1>4, <2>2, <2>3, Zenon DEF SnapInv, SnapTypes, Snap!WriteMeta
<1>5. CASE Snap!Cleanup
  <2>1. job \in SnapJob
    BY <1>5, <1>a, Zenon DEF Snap!Cleanup
  <2>2. job' \in SnapJob
    <3>1. Snap!FilesBelow(job.index) \in SUBSET ({"data", "meta"} \X Snap!Index)
      BY DEF Snap!FilesBelow
    <3>2. job' = [job EXCEPT !.pc = "clean", !.old = Snap!FilesBelow(job.index)]
            \/ \E f \in job.old : job' = [job EXCEPT !.old = @ \ {f}]
      BY <1>5, Zenon DEF Snap!Cleanup
    <3>3. \A f : job.old \ {f} \in SUBSET ({"data", "meta"} \X Snap!Index)
      BY <2>1, Zenon DEF SnapJob
    <3>4. PICK old \in SUBSET ({"data", "meta"} \X Snap!Index) :
            job' = [job EXCEPT !.pc = "clean", !.old = old] \/ job' = [job EXCEPT !.old = old]
      BY <3>1, <3>2, <3>3, Zenon
    <3>. QED  BY <2>1, <3>4, JobEdited, Zenon
  <2>3. data' \in [Snap!Index -> Snap!File] /\ meta' \in [Snap!Index -> Snap!File]
    BY <1>5, SnapFileFacts DEF SnapInv, SnapTypes, Snap!Cleanup
  <2>. QED  BY <1>5, <2>2, <2>3, Zenon DEF SnapInv, SnapTypes, Snap!Cleanup
<1>6. CASE Snap!Finish
  <2>1. job.index \in 0..MaxIndex
    BY <1>6, <1>a DEF SnapJob, Snap!Finish
  <2>2. \A x, y \in 0..MaxIndex : Snap!Max({x, y}) \in 0..MaxIndex
    BY MaxOfPair
  <2>. QED  BY <1>6, <2>1, <2>2, Zenon DEF SnapInv, SnapTypes, Snap!Finish
<1>7. CASE Snap!WriteFails
  BY <1>7, Zenon DEF SnapInv, SnapTypes, Snap!WriteFails, Snap!Rewrites
<1>8. CASE Snap!Crash
  BY <1>8 DEF SnapInv, SnapTypes, Snap!Crash, Snap!Rewrites
<1>9. CASE Snap!Commit
  BY <1>9 DEF SnapInv, SnapTypes, Snap!Commit
<1>10. CASE Snap!FindSnapshot
  <2>1. Snap!FindLatest # 0 => Snap!FindLatest \in Snap!Index
    BY Zenon DEF IndexesHaveMax, Snap!Named, Snap!FindLatest
  <2>2. backup' \in SnapBackup \cup {Snap!NoBackup}
    BY <1>10, <2>1, SnapFileFacts
    DEF SnapInv, SnapTypes, SnapBackup, Snap!FindSnapshot, Snap!BackupEnds
  <2>3. UNCHANGED backups
    BY <1>10, Zenon DEF Snap!FindSnapshot, Snap!BackupEnds
  <2>. QED  BY <1>10, <2>2, <2>3, Zenon DEF SnapInv, SnapTypes, Snap!FindSnapshot
<1>11. CASE Snap!LoadMetadata
  <2>1. backup \in SnapBackup /\ meta[backup.index].at \in 0..MaxIndex
    BY <1>11, <1>b, Zenon DEF SnapInv, SnapTypes, SnapBackup, Snap!LoadMetadata, Snap!File
  <2>2. backup' \in SnapBackup \cup {Snap!NoBackup}
    BY <1>11, <2>1, Zenon DEF SnapBackup, Snap!LoadMetadata, Snap!BackupEnds
  <2>3. UNCHANGED backups
    BY <1>11, Zenon DEF Snap!LoadMetadata, Snap!BackupEnds
  <2>. QED  BY <1>11, <2>2, <2>3, Zenon DEF SnapInv, SnapTypes, Snap!LoadMetadata
<1>12. CASE Snap!LoadData
  <2>1. backup \in SnapBackup /\ data[backup.index] \in Snap!File
    BY <1>12, <1>b, Zenon DEF SnapInv, SnapTypes, SnapBackup, Snap!LoadData
  <2>2. backup' \in SnapBackup \cup {Snap!NoBackup}
    BY <1>12, <2>1, Zenon DEF SnapBackup, Snap!LoadData
  <2>. QED  BY <1>12, <2>2, Zenon DEF SnapInv, SnapTypes, Snap!LoadData
<1>13. CASE Snap!PackBackup
  BY <1>13, <1>b DEF SnapInv, SnapTypes, SnapBackup, Snap!PackBackup, Snap!NoBackup
<1>. QED
  BY <1>1, <1>2, <1>3, <1>4, <1>5, <1>6, <1>7, <1>8, <1>9, <1>10, <1>11, <1>12, <1>13, Zenon
  DEF Snap!Next

\* The steps of the node and of a backup that leave the files and the job alone.
SnapQuiet == UNCHANGED <<data, meta, job, snapshot_index, taken, rewritten>>

\* Commits, and a backup that reads, leave what SnapQuiet names alone.
LEMMA SnapQuietSteps ==
  Snap!Commit \/ Snap!FindSnapshot \/ Snap!LoadMetadata \/ Snap!LoadData \/ Snap!PackBackup
    => SnapQuiet
  BY Zenon DEF SnapQuiet, Snap!Commit, Snap!FindSnapshot, Snap!LoadMetadata, Snap!LoadData,
     Snap!PackBackup, Snap!node, Snap!files

\* What the job has written is as far as it says (create_snapshot, receive_snapshot).
LEMMA JobSoundNext ==
  ASSUME MaxIndex \in Nat, SnapInv, Snap!Next
  PROVE  JobSound'
<1>. USE DEF Snap!node, Snap!files
<1>a. job.pc # "none" => job \in SnapJob
  BY DEF SnapInv, SnapTypes, Snap!NoJob
<1>b. ASSUME job' = Snap!NoJob  PROVE JobSound'
  BY <1>b, Zenon DEF JobSound, Snap!NoJob
<1>1. CASE Snap!TriggerSnapshot
  BY <1>1, Zenon DEF JobSound, Snap!TriggerSnapshot, Snap!Complete
<1>2. CASE \E b \in backups : Snap!Restore(b)
  BY <1>2 DEF JobSound, Snap!Restore, Snap!Complete
<1>3. CASE Snap!WriteData
  <2>1. /\ job \in SnapJob /\ job' \in SnapJob /\ job'.index = job.index /\ job'.at = job.at
        /\ job'.old = job.old /\ job'.pc \in {"data2", "meta"}
        /\ job'.pc = "meta" => data' = [data EXCEPT ![job.index] = Snap!Whole(job.at)]
    BY <1>3, <1>a, Zenon DEF SnapJob, Snap!WriteData
  <2>2. job.index \in Snap!Index
    BY <2>1, Zenon DEF SnapJob
  <2>. QED  BY <2>1, <2>2, Zenon DEF SnapInv, SnapTypes, JobSound
<1>4. CASE Snap!WriteMeta
  <2>1. /\ job \in SnapJob /\ job' \in SnapJob /\ job'.index = job.index /\ job'.at = job.at
        /\ job'.old = job.old /\ job'.pc \in {"meta2", "list"} /\ data' = data
        /\ job.pc \in {"meta", "meta2"}
        /\ job'.pc = "list" => meta' = [meta EXCEPT ![job.index] = Snap!Whole(job.at)]
    BY <1>4, <1>a, Zenon DEF SnapJob, Snap!WriteMeta
  <2>2. job.index \in Snap!Index /\ data[job.index] = Snap!Whole(job.at)
    BY <2>1, Zenon DEF SnapJob, SnapInv, JobSound
  <2>3. job'.pc = "list" => Snap!Complete(job.index)'
    <3>1. \A a : Snap!Whole(a).state = "whole" /\ Snap!Whole(a).at = a
      BY Zenon DEF Snap!Whole
    <3>2. job'.pc = "list" => meta'[job.index] = Snap!Whole(job.at)
      BY <2>1, <2>2, Zenon DEF SnapInv, SnapTypes
    <3>3. data'[job.index] = Snap!Whole(job.at)
      BY <2>1, <2>2, Zenon
    <3>4. PICK i, a : i = job.index /\ i = job'.index /\ a = job.at
      BY <2>1, Zenon
    <3>5. Snap!Whole(a).state = "whole"
      BY <3>1, Zenon
    <3>6. CASE job'.pc = "list"
      <4>1. meta'[job'.index] = Snap!Whole(a) /\ data'[job'.index] = Snap!Whole(a)
        BY <3>2, <3>3, <3>4, <3>6, Zenon
      <4>. QED  BY <3>5, <4>1, Zenon DEF Snap!Complete
    <3>. QED  BY <3>6, Zenon
  <2>. QED  BY <2>1, <2>2, <2>3, Zenon DEF SnapInv, JobSound
<1>5. CASE Snap!Cleanup
  <2>1. /\ job \in SnapJob /\ job' \in SnapJob /\ job'.index = job.index
        /\ job.pc \in {"list", "clean"} /\ job'.pc = "clean"
        /\ job'.old = Snap!FilesBelow(job.index) \/ job'.old \subseteq job.old
    <3>1. job \in SnapJob /\ job.pc \in {"list", "clean"}
      BY <1>5, <1>a, Zenon DEF Snap!Cleanup
    <3>2. \/ job.pc = "list" /\
             job' = [job EXCEPT !.pc = "clean", !.old = Snap!FilesBelow(job.index)]
          \/ job.pc = "clean" /\ \E f \in job.old : job' = [job EXCEPT !.old = @ \ {f}]
      BY <1>5, Zenon DEF Snap!Cleanup
    <3>3. Snap!FilesBelow(job.index) \in SUBSET ({"data", "meta"} \X Snap!Index)
      BY DEF Snap!FilesBelow
    <3>4. \A f : job.old \ {f} \in SUBSET ({"data", "meta"} \X Snap!Index)
      BY <3>1, Zenon DEF SnapJob
    <3>5. CASE job' = [job EXCEPT !.pc = "clean", !.old = Snap!FilesBelow(job.index)]
      <4>1. /\ job' \in SnapJob /\ job'.index = job.index
            /\ job'.old = Snap!FilesBelow(job.index)
        <5>1. PICK old \in SUBSET ({"data", "meta"} \X Snap!Index) : old = Snap!FilesBelow(job.index)
          BY <3>3, Zenon
        <5>2. job' = [job EXCEPT !.pc = "clean", !.old = old] \/ job' = [job EXCEPT !.old = old]
          BY <3>5, <5>1, Zenon
        <5>3. job' \in SnapJob /\ job'.index = job.index /\ job'.old = old /\ job'.pc \in {"clean", job.pc}
          BY <3>1, <5>2, JobEdited, Zenon
        <5>. QED  BY <5>1, <5>3, Zenon
      <4>2. job'.pc = "clean"
        BY <3>1, <3>5, Zenon DEF SnapJob
      <4>. QED  BY <3>1, <4>1, <4>2, Zenon
    <3>6. ASSUME job.pc = "clean", NEW f \in job.old, job' = [job EXCEPT !.old = @ \ {f}]
          PROVE  job' \in SnapJob /\ job'.index = job.index /\ job'.pc = "clean"
                 /\ job'.old \subseteq job.old
      <4>1. PICK old \in SUBSET ({"data", "meta"} \X Snap!Index) :
              old \subseteq job.old /\ job' = [job EXCEPT !.old = old]
        BY <3>4, <3>6, Zenon
      <4>2. job' \in SnapJob /\ job'.index = job.index /\ job'.old = old /\ job'.pc \in {"clean", job.pc}
        <5>1. job' = [job EXCEPT !.pc = "clean", !.old = old] \/ job' = [job EXCEPT !.old = old]
          BY <4>1, Zenon
        <5>. QED  BY <3>1, <5>1, JobEdited, Zenon
      <4>. QED  BY <3>6, <4>1, <4>2, Zenon
    <3>. QED  BY <3>1, <3>2, <3>5, <3>6, Zenon
  <2>2. \A f \in job'.old : f[2] < job.index
    <3>1. \A i : \A f \in Snap!FilesBelow(i) : f[2] < i
      BY DEF Snap!FilesBelow
    <3>2. \A f \in job.old : f[2] < job.index
      BY Zenon DEF SnapInv, JobSound
    <3>. QED  BY <2>1, <3>1, <3>2, Zenon
  <2>3. data'[job.index] = data[job.index] /\ meta'[job.index] = meta[job.index]
    BY <1>5, <2>1 DEF SnapInv, SnapTypes, SnapJob, JobSound, Snap!Cleanup, Snap!Index
  <2>4. Snap!Complete(job.index)'
    BY <2>1, <2>3, Zenon DEF SnapInv, JobSound, Snap!Complete
  <2>. QED  BY <2>1, <2>2, <2>4, Zenon DEF JobSound
<1>6. CASE Snap!Finish \/ Snap!WriteFails \/ Snap!Crash
  BY <1>6, <1>b, Zenon DEF Snap!Finish, Snap!WriteFails, Snap!Crash
<1>7. CASE SnapQuiet
  BY <1>7, Zenon DEF SnapQuiet, SnapInv, JobSound, Snap!Complete
<1>. QED
  BY <1>1, <1>2, <1>3, <1>4, <1>5, <1>6, <1>7, SnapQuietSteps, Zenon DEF Snap!Next

\* The snapshot that covers the log stays, or is the one that is being rewritten.
LEMMA CoveredNext ==
  ASSUME MaxIndex \in Nat, SnapInv, Snap!Next
  PROVE  Covered'
<1>. USE DEF Snap!node, Snap!files
<1>a. job.pc # "none" => job \in SnapJob
  BY DEF SnapInv, SnapTypes, Snap!NoJob
<1>b. taken \in Nat /\ snapshot_index \in Nat /\ snapshot_index <= taken
  BY DEF SnapInv, SnapTypes, Covered
<1>c. taken > 0 /\ ~rewritten =>
        \/ \E i \in Snap!Index : Snap!Complete(i) /\ ~WritesTo(i) /\ i >= taken
        \/ Snap!Rewrites /\ job.index >= taken
  BY Zenon DEF SnapInv, Covered
<1>1. CASE Snap!TriggerSnapshot \/ \E b \in backups : Snap!Restore(b)
  <2>1. /\ ~Snap!Rewrites /\ UNCHANGED <<data, meta, snapshot_index, taken, rewritten>>
        /\ job'.pc = "data"
    BY <1>1 DEF Snap!TriggerSnapshot, Snap!Restore, Snap!Rewrites
  <2>2. \A i : ~WritesTo(i)'
    BY <2>1, Zenon DEF WritesTo
  <2>. QED  BY <1>b, <1>c, <2>1, <2>2, Zenon DEF Covered, Snap!Complete
<1>2. CASE Snap!WriteData \/ Snap!WriteMeta
  <2>1. /\ job \in SnapJob /\ job'.index = job.index /\ job'.over = job.over
        /\ job.pc \in {"data", "data2", "meta", "meta2"}
        /\ IF job.pc = "meta2" THEN job'.pc = "list" ELSE job'.pc \in {"data2", "meta", "meta2"}
        /\ UNCHANGED <<snapshot_index, taken, rewritten>>
    BY <1>2, <1>a, Zenon DEF SnapJob, Snap!WriteData, Snap!WriteMeta
  <2>2. \A i \in Snap!Index \ {job.index} : data'[i] = data[i] /\ meta'[i] = meta[i]
    BY <1>2, Zenon DEF SnapInv, SnapTypes, Snap!WriteData, Snap!WriteMeta
  <2>3. job.index \in Snap!Index
    BY <2>1, Zenon DEF SnapJob
  <2>4. job'.pc = "list" => \E k \in Snap!Index : /\ k = job.index
                                                 /\ Snap!Complete(k)' /\ ~WritesTo(k)'
    BY <2>1, <2>3, JobSoundNext, Zenon DEF JobSound, WritesTo, Snap!Complete
  <2>5. SUFFICES ASSUME taken > 0, ~rewritten
                 PROVE  \/ \E i \in Snap!Index : Snap!Complete(i)' /\ ~WritesTo(i)' /\ i >= taken
                        \/ Snap!Rewrites' /\ job.index >= taken
    BY <1>b, <2>1, Zenon DEF Covered
  <2>6. CASE Snap!Rewrites /\ job.index >= taken
    BY <2>1, <2>3, <2>4, <2>6, Zenon DEF Snap!Rewrites
  <2>7. ASSUME NEW i \in Snap!Index, Snap!Complete(i), ~WritesTo(i), i >= taken
        PROVE  \/ \E k \in Snap!Index : Snap!Complete(k)' /\ ~WritesTo(k)' /\ k >= taken
               \/ Snap!Rewrites' /\ job.index >= taken
    <3>1. CASE i # job.index
      BY <2>1, <2>2, <2>7, <3>1, Zenon DEF Snap!Complete, WritesTo
    <3>2. CASE i = job.index
      <4>1. job.pc = "data" /\ job.over
        BY <2>1, <2>7, <3>2, Zenon DEF SnapInv, JobSound, WritesTo
      <4>. QED  BY <2>1, <2>7, <3>2, <4>1, Zenon DEF Snap!Rewrites
    <3>. QED  BY <3>1, <3>2, Zenon
  <2>. QED  BY <1>c, <2>5, <2>6, <2>7, Zenon
<1>3. CASE Snap!Cleanup
  <2>1. /\ job \in SnapJob /\ job'.pc = "clean" /\ job.pc \in {"list", "clean"}
        /\ job'.index = job.index /\ UNCHANGED <<snapshot_index, taken, rewritten>>
    BY <1>3, <1>a, Zenon DEF SnapJob, Snap!Cleanup
  <2>2. PICK j \in Snap!Index : j = job.index /\ j = job'.index
    BY <2>1, Zenon DEF SnapJob
  <2>a. Snap!Complete(j)'
    BY <2>1, <2>2, JobSoundNext, Zenon DEF JobSound, Snap!Complete
  <2>3. \A i \in Snap!Index : i >= j => data'[i] = data[i] /\ meta'[i] = meta[i]
    BY <1>3, <2>1, <2>2 DEF SnapInv, SnapTypes, SnapJob, JobSound, Snap!Cleanup, Snap!Index
  <2>4. \A i \in Snap!Index : ~WritesTo(i)'
    BY <2>1, Zenon DEF WritesTo
  <2>5. ASSUME NEW i \in Snap!Index, Snap!Complete(i), i >= taken
        PROVE  \E k \in Snap!Index : Snap!Complete(k)' /\ k >= taken
    <3>1. CASE i >= j
      BY <2>3, <2>5, <3>1, Zenon DEF Snap!Complete
    <3>2. CASE j >= i
      <4>1. j >= taken
        BY <1>b, <2>5, <3>2 DEF Snap!Index
      <4>. QED  BY <2>a, <4>1, Zenon
    <3>. QED  BY <3>1, <3>2 DEF Snap!Index
  <2>6. ~Snap!Rewrites
    BY <2>1, Zenon DEF Snap!Rewrites
  <2>. QED  BY <1>b, <1>c, <2>1, <2>4, <2>5, <2>6, Zenon DEF Covered
<1>4. CASE Snap!Finish
  <2>1. /\ job \in SnapJob /\ job.pc = "clean" /\ job'.pc = "none"
        /\ UNCHANGED <<data, meta, rewritten>>
        /\ snapshot_index' = Snap!Max({snapshot_index, job.index})
        /\ taken' = Snap!Max({taken, job.index})
    BY <1>4, <1>a, Zenon DEF Snap!Finish, Snap!NoJob
  <2>2. job.index \in Nat /\ job.index \in Snap!Index /\ Snap!Complete(job.index)
    BY <2>1 DEF SnapJob, Snap!Index, SnapInv, JobSound
  <2>3. /\ snapshot_index' = IF snapshot_index >= job.index THEN snapshot_index ELSE job.index
        /\ taken' = IF taken >= job.index THEN taken ELSE job.index
    BY <1>b, <2>1, <2>2, MaxOfPair, Zenon
  <2>4. ~Snap!Rewrites /\ \A i \in Snap!Index : ~WritesTo(i)'
    BY <2>1, Zenon DEF Snap!Rewrites, WritesTo
  <2>5. taken' > 0 /\ ~rewritten' => \E i \in Snap!Index : Snap!Complete(i) /\ i >= taken'
    <3>1. CASE taken >= job.index /\ taken > 0
      BY <1>c, <2>1, <2>3, <2>4, <3>1, Zenon
    <3>2. CASE job.index >= taken
      BY <1>b, <2>2, <2>3, <3>2
    <3>. QED  BY <1>b, <2>2, <2>3, <3>1, <3>2
  <2>6. snapshot_index' <= taken'
    BY <1>b, <2>2, <2>3
  <2>. QED  BY <2>1, <2>4, <2>5, <2>6, Zenon DEF Covered, Snap!Complete
<1>5. CASE Snap!WriteFails \/ Snap!Crash
  <2>1. /\ job' = Snap!NoJob /\ UNCHANGED <<data, meta, taken>>
        /\ rewritten' = (rewritten \/ Snap!Rewrites)
        /\ snapshot_index' \in {0, snapshot_index}
    BY <1>5, Zenon DEF Snap!WriteFails, Snap!Crash
  <2>2. snapshot_index' <= taken /\ \A i : ~WritesTo(i)'
    BY <1>b, <2>1 DEF WritesTo, Snap!NoJob
  <2>. QED  BY <1>c, <2>1, <2>2, Zenon DEF Covered, Snap!Complete
<1>6. CASE SnapQuiet
  BY <1>6, Zenon DEF SnapQuiet, SnapInv, Covered, WritesTo, Snap!Complete, Snap!Rewrites
<1>. QED
  BY <1>1, <1>2, <1>3, <1>4, <1>5, <1>6, SnapQuietSteps, Zenon DEF Snap!Next

\* Cleanup removes metadata files only below one that stays.
LEMMA StaysNamedNext ==
  ASSUME MaxIndex \in Nat, SnapInv, Snap!Next
  PROVE  StaysNamed'
<1>. USE DEF Snap!node, Snap!files
<1>a. job.pc # "none" => job \in SnapJob
  BY DEF SnapInv, SnapTypes, Snap!NoJob
<1>b. taken \in Nat /\ (taken > 0 => \E i \in Snap!Named : i >= taken)
  BY DEF SnapInv, SnapTypes, StaysNamed
<1>1. CASE UNCHANGED <<meta, taken>>
  BY <1>1, Zenon DEF SnapInv, StaysNamed, Snap!Named
<1>2. CASE Snap!WriteMeta
  <2>1. job \in SnapJob /\ job.index \in Snap!Index /\ UNCHANGED taken
    BY <1>2, <1>a, Zenon DEF SnapJob, Snap!WriteMeta
  <2>2. meta' = [meta EXCEPT ![job.index] = Snap!Torn(job.at)] \/
        meta' = [meta EXCEPT ![job.index] = Snap!Whole(job.at)]
    BY <1>2, Zenon DEF Snap!WriteMeta
  <2>3. \A i \in Snap!Index : i \in Snap!Named => i \in Snap!Named'
    BY <2>1, <2>2 DEF SnapInv, SnapTypes, Snap!Named, Snap!Torn, Snap!Whole
  <2>. QED  BY <1>b, <2>1, <2>3, Zenon DEF StaysNamed, Snap!Named
<1>3. CASE Snap!Cleanup
  <2>1. /\ job \in SnapJob /\ job.pc \in {"list", "clean"} /\ UNCHANGED taken
        /\ job'.index = job.index /\ job'.pc = "clean"
    BY <1>3, <1>a, Zenon DEF SnapJob, Snap!Cleanup
  <2>2. PICK j \in Snap!Index : j = job.index /\ j = job'.index
    BY <2>1, Zenon DEF SnapJob
  <2>3. j \in Snap!Named'
    BY <2>1, <2>2, JobSoundNext, Zenon DEF JobSound, Snap!Complete, Snap!Named
  <2>4. \A i \in Snap!Index : i >= j => meta'[i] = meta[i]
    BY <1>3, <2>1, <2>2 DEF SnapInv, SnapTypes, SnapJob, JobSound, Snap!Cleanup, Snap!Index
  <2>5. ASSUME NEW i \in Snap!Named, i >= taken
        PROVE  \E k \in Snap!Named' : k >= taken
    <3>0. i \in Nat /\ i \in Snap!Index /\ j \in Nat
      BY DEF Snap!Named, Snap!Index
    <3>1. CASE i >= j
      BY <2>4, <2>5, <3>0, <3>1, Zenon DEF Snap!Named
    <3>2. CASE j >= i
      <4>1. j >= taken
        BY <1>b, <2>5, <3>0, <3>2
      <4>. QED  BY <2>3, <4>1, Zenon
    <3>. QED  BY <3>0, <3>1, <3>2
  <2>. QED  BY <1>b, <2>1, <2>5, Zenon DEF StaysNamed
<1>4. CASE Snap!Finish
  <2>1. /\ job \in SnapJob /\ job.pc = "clean" /\ UNCHANGED meta
        /\ taken' = Snap!Max({taken, job.index})
    BY <1>4, <1>a, Zenon DEF Snap!Finish
  <2>2. job.index \in Nat /\ job.index \in Snap!Named
    BY <2>1 DEF SnapJob, Snap!Index, SnapInv, JobSound, Snap!Complete, Snap!Named
  <2>3. taken' = IF taken >= job.index THEN taken ELSE job.index
    BY <1>b, <2>1, <2>2, MaxOfPair, Zenon
  <2>4. Snap!Named' = Snap!Named
    BY <2>1, Zenon DEF Snap!Named
  <2>5. CASE taken >= job.index
    BY <1>b, <2>3, <2>4, <2>5, Zenon DEF StaysNamed
  <2>6. CASE ~(taken >= job.index)
    <3>1. taken' = job.index /\ job.index >= job.index
      BY <2>2, <2>3, <2>6
    <3>. QED  BY <2>2, <2>4, <3>1, Zenon DEF StaysNamed
  <2>. QED  BY <2>5, <2>6, Zenon
<1>. QED
  BY <1>1, <1>2, <1>3, <1>4, Zenon DEF Snap!Next, Snap!TriggerSnapshot, Snap!Restore,
     Snap!WriteData, Snap!WriteFails, Snap!Crash, Snap!Commit, Snap!FindSnapshot,
     Snap!LoadMetadata, Snap!LoadData, Snap!PackBackup

\* load_latest finds no outdated snapshot, and packs whole data only.
LEMMA BackupSoundNext ==
  ASSUME MaxIndex \in Nat, IndexesHaveMax, SnapInv, Snap!Next
  PROVE  BackupSound'
<1>. USE DEF Snap!node, Snap!files
<1>a. backup.pc # "none" => backup \in SnapBackup
  BY DEF SnapInv, SnapTypes, Snap!NoBackup
<1>b. ASSUME backup' = Snap!NoBackup, UNCHANGED backups  PROVE BackupSound'
  BY <1>b DEF SnapInv, BackupSound, Snap!BackupFromLatest, Snap!NoBackup
<1>1. CASE UNCHANGED <<backup, backups>>
  BY <1>1, Zenon DEF SnapInv, BackupSound, Snap!BackupFromLatest
<1>2. CASE Snap!Crash
  BY <1>2, <1>b, Zenon DEF Snap!Crash
<1>3. CASE Snap!FindSnapshot
  <2>1. CASE Snap!FindLatest = 0
    BY <1>3, <1>b, <2>1, Zenon DEF Snap!FindSnapshot, Snap!BackupEnds
  <2>2. CASE Snap!FindLatest # 0
    <3>1. /\ backup' = [pc |-> "meta", index |-> Snap!FindLatest, expects |-> 0,
                        got |-> Snap!Missing, floor |-> taken]
          /\ UNCHANGED backups
      BY <1>3, <2>2, Zenon DEF Snap!FindSnapshot
    <3>2. Snap!Named \in SUBSET (1..MaxIndex) /\ Snap!Named # {} /\ Snap!FindLatest = Snap!Max(Snap!Named)
      BY <2>2, Zenon DEF Snap!Named, Snap!Index, Snap!FindLatest
    <3>3. Snap!FindLatest \in 1..MaxIndex /\ \A i \in Snap!Named : Snap!FindLatest >= i
      BY <3>2, Zenon DEF IndexesHaveMax
    <3>4. taken \in Nat /\ (taken > 0 => \E i \in Snap!Named : i >= taken)
      BY DEF SnapInv, SnapTypes, StaysNamed
    <3>5. Snap!FindLatest >= taken
      BY <3>2, <3>3, <3>4
    <3>. QED  BY <3>1, <3>5, Zenon DEF SnapInv, BackupSound, Snap!BackupFromLatest
  <2>. QED  BY <2>1, <2>2, Zenon
<1>4. CASE Snap!LoadMetadata
  <2>1. CASE backup' = Snap!NoBackup /\ UNCHANGED backups
    BY <2>1, <1>b, Zenon
  <2>2. CASE backup' = [backup EXCEPT !.pc = "data", !.expects = meta[backup.index].at]
             /\ UNCHANGED backups
    <3>1. backup \in SnapBackup
      BY <1>4, <1>a, Zenon DEF Snap!LoadMetadata
    <3>2. backup'.index = backup.index /\ backup'.floor = backup.floor /\ backup'.pc = "data"
      BY <2>2, <3>1, Zenon DEF SnapBackup
    <3>. QED  BY <2>2, <3>2, Zenon DEF SnapInv, BackupSound, Snap!BackupFromLatest
  <2>. QED  BY <1>4, <2>1, <2>2, Zenon DEF Snap!LoadMetadata, Snap!BackupEnds
<1>5. CASE Snap!LoadData
  <2>1. CASE backup' = Snap!NoBackup
    BY <1>5, <2>1, <1>b, Zenon DEF Snap!LoadData
  <2>2. CASE /\ data[backup.index] = Snap!Whole(backup.expects)
             /\ backup' = [backup EXCEPT !.pc = "pack", !.got = data[backup.index]]
    <3>1. backup \in SnapBackup
      BY <1>5, <1>a, Zenon DEF Snap!LoadData
    <3>2. /\ backup'.index = backup.index /\ backup'.floor = backup.floor
          /\ backup'.got.state = "whole"
      BY <2>2, <3>1 DEF SnapBackup, Snap!Whole
    <3>. QED  BY <1>5, <3>2, Zenon DEF SnapInv, BackupSound, Snap!BackupFromLatest, Snap!LoadData
  <2>. QED  BY <1>5, <2>1, <2>2, Zenon DEF Snap!LoadData
<1>6. CASE Snap!PackBackup
  <2>. DEFINE new == [commit_index |-> commit_index, data |-> backup.got,
                      index |-> backup.index, floor |-> backup.floor]
  <2>1. /\ backup.got.state = "whole" /\ backup.index >= backup.floor
        /\ backup' = Snap!NoBackup /\ backups' = backups \cup {new}
    BY <1>6, Zenon DEF SnapInv, BackupSound, Snap!PackBackup
  <2>2. backup'.pc # "pack" /\ backup'.index >= backup'.floor
    BY <2>1, NoBackupSound, Zenon
  <2>3. new.data = backup.got /\ new.index = backup.index /\ new.floor = backup.floor
    OBVIOUS
  <2>. HIDE DEF new
  <2>4. Snap!BackupFromLatest'
    BY <2>1, <2>3, Zenon DEF SnapInv, BackupSound, Snap!BackupFromLatest
  <2>. QED  BY <2>2, <2>4, Zenon DEF BackupSound
<1>. QED
  BY <1>1, <1>2, <1>3, <1>4, <1>5, <1>6, Zenon DEF Snap!Next, Snap!TriggerSnapshot, Snap!Restore,
     Snap!WriteData, Snap!WriteMeta, Snap!Cleanup, Snap!Finish, Snap!WriteFails, Snap!Commit

\* An empty snapshot directory.
LEMMA SnapInitInv ==
  ASSUME MaxIndex \in Nat, Snap!Init
  PROVE  SnapInv
<1>. USE DEF Snap!Init
<1>1. SnapTypes
  <2>1. Snap!Missing \in Snap!File /\ 0 \in 0..MaxIndex
    BY DEF Snap!Missing, Snap!File
  <2>. QED  BY <2>1, Zenon DEF SnapTypes
<1>2. JobSound /\ StaysNamed
  BY DEF JobSound, StaysNamed, Snap!NoJob
<1>3. BackupSound
  BY NoBackupSound, Zenon DEF BackupSound, Snap!BackupFromLatest
<1>4. Covered
  BY DEF Covered
<1>. QED  BY <1>1, <1>2, <1>3, <1>4, Zenon DEF SnapInv

\* Every step keeps SnapInv.
LEMMA SnapStep ==
  ASSUME MaxIndex \in Nat, IndexesHaveMax, SnapInv, [Snap!Next]_(Snap!vars)
  PROVE  SnapInv'
<1>1. CASE Snap!Next
  BY <1>1, SnapTypesNext, JobSoundNext, CoveredNext, StaysNamedNext, BackupSoundNext, Zenon
  DEF SnapInv
<1>2. CASE UNCHANGED Snap!vars
  <2>1. SnapTypes' /\ JobSound' /\ Covered'
    BY <1>2, Zenon DEF Snap!vars, SnapInv, SnapTypes, JobSound, Covered, WritesTo, Snap!Complete,
       Snap!Rewrites
  <2>2. StaysNamed' /\ BackupSound'
    BY <1>2, Zenon DEF Snap!vars, SnapInv, StaysNamed, BackupSound, Snap!Named, Snap!BackupFromLatest
  <2>. QED  BY <2>1, <2>2, Zenon DEF SnapInv
<1>. QED  BY <1>1, <1>2, Zenon

\* What SnapInv says of the log.
LEMMA SnapInvCovers ==
  ASSUME SnapInv
  PROVE  Snap!CoveredUnlessRewritten /\ Snap!BackupFromLatest
<1>1. ASSUME taken > 0, ~rewritten, ~Snap!Rewrites
      PROVE  \E i \in Snap!Index : Snap!Complete(i) /\ i >= taken /\ i >= snapshot_index
  <2>1. PICK i \in Snap!Index : Snap!Complete(i) /\ i >= taken
    BY <1>1, Zenon DEF SnapInv, Covered
  <2>2. taken \in Nat /\ snapshot_index \in Nat /\ snapshot_index <= taken
    BY <1>1 DEF SnapInv, SnapTypes, Covered
  <2>3. i >= snapshot_index
    BY <2>1, <2>2 DEF Snap!Index
  <2>. QED  BY <2>1, <2>3, Zenon
<1>. QED  BY <1>1, Zenon DEF Snap!CoveredUnlessRewritten, SnapInv, BackupSound

-----------------------------------------------------------------------------
(* Membership changes.  The terms and votes are declared in VoteState, the *)
(* log with the leases.                                                    *)

CONSTANTS Node, Extra, Wanted, Budgets

VARIABLES role, last_applied, match_index, current, pending, in_progress, left, elected,
          decided, marks

Mem == INSTANCE Membership

\* The votes that elected a node are still held, or the voter has gone on to a later
\* term.
HoldsVote(v, e) ==
  \/ current_term[v] > e.term
  \/ current_term[v] = e.term /\ voted_for[v] = {e.node}

Elections == [node : Node, term : Nat]

ElectedByMajority ==
  \A e \in elected : \E votes \in SUBSET Node :
    Mem!Majority(votes, Node) /\ \A v \in votes : HoldsVote(v, e)

MemInv ==
  /\ current_term \in [Node -> Nat] /\ voted_for \in [Node -> SUBSET Node]
  /\ elected \subseteq Elections
  /\ ElectedByMajority
  /\ Mem!OneLeaderPerTerm

\* Two majorities of the configured nodes have a node in common (MajoritiesMeet below).
MajoritiesIntersect ==
  \A P, Q \in SUBSET Node : Mem!Majority(P, Node) /\ Mem!Majority(Q, Node) =>
    \E v \in P : v \in Q

\* A step that raises terms and keeps the votes of the terms it does not raise, and
\* elects nobody.
LEMMA VotesKept ==
  ASSUME MemInv, UNCHANGED elected,
         current_term' \in [Node -> Nat], voted_for' \in [Node -> SUBSET Node],
         \A v \in Node : \/ current_term'[v] > current_term[v]
                         \/ current_term'[v] = current_term[v] /\ voted_for'[v] = voted_for[v]
  PROVE  MemInv'
<1>1. ASSUME NEW e \in elected, NEW v \in Node, HoldsVote(v, e)
      PROVE  HoldsVote(v, e)'
  <2>1. e.term \in Nat /\ current_term[v] \in Nat /\ current_term'[v] \in Nat
    BY Zenon DEF MemInv, Elections
  <2> QED
    BY <1>1, <2>1 DEF HoldsVote
<1>2. ASSUME NEW e \in elected
      PROVE  \E votes \in SUBSET Node :
               Mem!Majority(votes, Node) /\ \A v \in votes : HoldsVote(v, e)'
  BY <1>1, <1>2, Zenon DEF MemInv, ElectedByMajority
<1> QED
  BY <1>2, Zenon DEF MemInv, ElectedByMajority, Mem!OneLeaderPerTerm

\* An election: a voter of an earlier leader of that term would have had to vote twice.
LEMMA CampaignKeeps ==
  ASSUME MajoritiesIntersect, MemInv, NEW n \in Node, NEW votes \in SUBSET Node,
         Mem!Campaign(n, votes)
  PROVE  MemInv'
<1>0. PICK t, new : t = current_term[n] + 1 /\ new = [node |-> n, term |-> t]
  BY Zenon
<1>1. /\ n \in votes /\ Mem!Majority(votes, Node)
      /\ \A p \in votes \ {n} : Mem!GrantsVote(p, n, t)
      /\ current_term' = [p \in Node |-> IF p \in votes THEN t ELSE current_term[p]]
      /\ voted_for' = [p \in Node |-> IF p \in votes THEN {n} ELSE voted_for[p]]
      /\ elected' = elected \cup {new}
  BY <1>0, Zenon DEF Mem!Campaign
<1>2. t \in Nat /\ \A v \in Node : current_term[v] \in Nat
  BY <1>0 DEF MemInv
<1>3. new \in Elections /\ new.term = t /\ new.node = n
  BY <1>0, <1>2, Zenon DEF Elections
<1>4. current_term[n] < t
  BY <1>0, <1>2
<1>5. \A v \in votes : \/ current_term[v] < t
                       \/ current_term[v] = t /\ voted_for[v] \subseteq {n}
  BY <1>1, <1>4, Zenon DEF Mem!GrantsVote
<1>6. ASSUME NEW e \in elected, e.term = t PROVE e.node = n
  <2>1. PICK Q \in SUBSET Node : Mem!Majority(Q, Node) /\ \A v \in Q : HoldsVote(v, e)
    BY Zenon DEF MemInv, ElectedByMajority
  <2>2. PICK v \in votes : v \in Q
    BY <1>1, <2>1, Zenon DEF MajoritiesIntersect
  <2>3. v \in Node /\ HoldsVote(v, e)
    BY <2>1, <2>2, Zenon
  <2>4. ~(current_term[v] < t) /\ current_term[v] = t => voted_for[v] = {e.node}
    BY <1>2, <1>6, <2>3, Zenon DEF HoldsVote
  <2>5. ~(current_term[v] < t)
    BY <1>2, <1>6, <2>3 DEF HoldsVote
  <2>6. voted_for[v] = {e.node} /\ voted_for[v] \subseteq {n}
    BY <1>5, <2>2, <2>4, <2>5, Zenon
  <2> QED
    BY <2>6, Zenon
<1>7. ASSUME NEW e \in elected, NEW v \in Node, HoldsVote(v, e) PROVE HoldsVote(v, e)'
  <2>1. e.term \in Nat
    BY Zenon DEF MemInv, Elections
  <2>2. CASE v \notin votes
    BY <1>1, <1>7, <2>2, Zenon DEF HoldsVote
  <2>3. CASE v \in votes
    <3>1. current_term'[v] = t /\ voted_for'[v] = {n}
      BY <1>1, <2>3, Zenon
    <3>2. t > e.term \/ t = e.term
      BY <1>2, <1>5, <1>7, <2>1, <2>3 DEF HoldsVote
    <3> QED
      BY <1>6, <3>1, <3>2, Zenon DEF HoldsVote
  <2> QED
    BY <2>2, <2>3, Zenon
<1>8. \A v \in votes : HoldsVote(v, new)'
  BY <1>1, <1>3, Zenon DEF HoldsVote
<1>9. current_term' \in [Node -> Nat] /\ voted_for' \in [Node -> SUBSET Node]
  BY <1>1, <1>2, Zenon DEF MemInv
<1>10. elected' \subseteq Elections
  BY <1>1, <1>3, Zenon DEF MemInv
<1>11. ASSUME NEW e \in elected'
       PROVE  \E Q \in SUBSET Node : Mem!Majority(Q, Node) /\ \A v \in Q : HoldsVote(v, e)'
  <2>1. CASE e = new
    BY <1>1, <1>8, <2>1, Zenon
  <2>2. CASE e \in elected
    BY <1>7, <2>2, Zenon DEF MemInv, ElectedByMajority
  <2> QED
    BY <1>1, <2>1, <2>2, Zenon
<1>12. \A e, f \in elected' : e.term = f.term => e.node = f.node
  BY <1>1, <1>3, <1>6, Zenon DEF MemInv, Mem!OneLeaderPerTerm
<1> QED
  BY <1>9, <1>10, <1>11, <1>12, Zenon
  DEF MemInv, ElectedByMajority, Mem!OneLeaderPerTerm

\* The other steps forget a vote only with its term.
LEMMA MemStep ==
  ASSUME MajoritiesIntersect, MemInv, [Mem!Next]_(Mem!vars)
  PROVE  MemInv'
<1>0. \A v \in Node : current_term[v] \in Nat
  BY Zenon DEF MemInv
<1>1. ASSUME UNCHANGED <<current_term, voted_for, elected>> PROVE MemInv'
  BY <1>1, VotesKept, Zenon DEF MemInv
<1>2. ASSUME NEW n \in Node, NEW p \in Node, NEW sent \in 0..Len(log[n]),
             NEW arrives \in BOOLEAN, Mem!Replicate(n, p, sent, arrives)
      PROVE  MemInv'
  <2>1. /\ current_term[p] <= current_term[n]
        /\ current_term' = [current_term EXCEPT ![p] = current_term[n]]
        /\ voted_for' = [voted_for EXCEPT ![p] =
             IF current_term[p] < current_term[n] THEN Mem!Nobody ELSE @]
        /\ UNCHANGED elected
    BY <1>2, Zenon DEF Mem!Replicate
  <2>2. current_term' \in [Node -> Nat] /\ voted_for' \in [Node -> SUBSET Node]
    BY <2>1, Zenon DEF MemInv, Mem!Nobody
  <2>4. ASSUME NEW v \in Node
        PROVE  \/ current_term'[v] > current_term[v]
               \/ current_term'[v] = current_term[v] /\ voted_for'[v] = voted_for[v]
    BY <1>0, <2>1 DEF MemInv
  <2> QED
    BY <2>1, <2>2, <2>4, VotesKept, Zenon
<1>3. ASSUME NEW n \in Node, NEW p \in Node, Mem!Refuse(n, p) PROVE MemInv'
  <2>1. /\ current_term[p] > current_term[n]
        /\ current_term' = [current_term EXCEPT ![n] = current_term[p]]
        /\ voted_for' = [voted_for EXCEPT ![n] = Mem!Nobody]
        /\ UNCHANGED elected
    BY <1>3, Zenon DEF Mem!Refuse
  <2>2. current_term' \in [Node -> Nat] /\ voted_for' \in [Node -> SUBSET Node]
    BY <2>1, Zenon DEF MemInv, Mem!Nobody
  <2>4. ASSUME NEW v \in Node
        PROVE  \/ current_term'[v] > current_term[v]
               \/ current_term'[v] = current_term[v] /\ voted_for'[v] = voted_for[v]
    BY <1>0, <2>1, Zenon DEF MemInv
  <2> QED
    BY <2>1, <2>2, <2>4, VotesKept, Zenon
<1>4. ASSUME NEW n \in Node, NEW x \in Node \cup Extra, Mem!AddNode(n, x) \/ Mem!RemoveNode(n, x)
      PROVE  MemInv'
  BY <1>1, <1>4, Zenon DEF Mem!AddNode, Mem!RemoveNode, Mem!ProposeChange
<1>5. ASSUME NEW n \in Node, Mem!ApplyEntries(n) PROVE MemInv'
  BY <1>1, <1>5, Zenon DEF Mem!ApplyEntries
<1>6. ASSUME NEW n \in Node, Mem!Restart(n) PROVE MemInv'
  BY <1>1, <1>6, Zenon DEF Mem!Restart
<1>7. CASE UNCHANGED Mem!vars
  BY <1>1, <1>7, Zenon DEF Mem!vars
<1> QED
  BY <1>2, <1>3, <1>4, <1>5, <1>6, <1>7, CampaignKeeps, Zenon DEF Mem!Next

\* A cluster with its first leader, whom everyone voted for.
LEMMA MemStart ==
  ASSUME Mem!Majority(Node, Node), Mem!Init
  PROVE  MemInv
<1>1. PICK n \in Node : Mem!Led(n)
  BY Zenon DEF Mem!Init
<1>2. /\ current_term = [p \in Node |-> 1] /\ voted_for = [p \in Node |-> {n}]
      /\ elected = {[node |-> n, term |-> 1]}
  BY <1>1, Zenon DEF Mem!Led
<1>4. \A e \in elected : e.node = n /\ e.term = 1 /\ e \in Elections
  BY <1>2 DEF Elections
<1>5. ASSUME NEW e \in elected, NEW v \in Node PROVE HoldsVote(v, e)
  BY <1>2, <1>4, Zenon DEF HoldsVote
<1>6. current_term \in [Node -> Nat] /\ voted_for \in [Node -> SUBSET Node]
  BY <1>2, Zenon
<1> QED
  BY <1>4, <1>5, <1>6, Zenon DEF MemInv, ElectedByMajority, Mem!OneLeaderPerTerm

-----------------------------------------------------------------------------
(* What the library's theorems give, and the theorems that need them.      *)

LOCAL INSTANCE WellFoundedInduction
LOCAL INSTANCE NaturalsInduction
LOCAL INSTANCE FiniteSetTheorems

\* Every non-empty set of naturals has a least element.
LEMMA LeastElement ==
  ASSUME NEW S \in SUBSET Nat, S # {}
  PROVE  \E x \in S : \A y \in S : x <= y
<1>1. PICK x \in S : \A y \in S : ~(<<y, x>> \in OpToRel(<, Nat))
  BY NatLessThanWellFounded, WFMin, Zenon
<1>2. \A y \in S : ~(y < x)
  BY <1>1, Zenon DEF OpToRel
<1>. QED  BY <1>2

\* A non-empty set of numbers up to n has a greatest element.
LEMMA GreatestElement ==
  ASSUME NEW n \in Nat, NEW S \in SUBSET (1..n), S # {}
  PROVE  \E x \in S : \A y \in S : x >= y
<1>. DEFINE T == {n - y : y \in S}
<1>1. T \in SUBSET Nat /\ T # {}
  OBVIOUS
<1>2. PICK m \in T : \A k \in T : m <= k
  BY <1>1, LeastElement, Zenon
<1>3. PICK x \in S : m = n - x
  BY <1>2, Zenon
<1>4. \A y \in S : n - x <= n - y
  BY <1>2, <1>3, Zenon
<1>. QED  BY <1>4

\* find_latest: a greatest index exists in every set of snapshots.
LEMMA MaxOfIndexes == ASSUME MaxIndex \in Nat PROVE IndexesHaveMax
  BY GreatestElement, Zenon DEF IndexesHaveMax, Snap!Max

\* create_snapshot removes old snapshots only when the new one is on disk: whatever
\* crashes and whichever writes fail, the log is covered by a complete snapshot unless one
\* of the same index was being rewritten.
THEOREM SnapshotsCover ==
  ASSUME MaxIndex \in Nat PROVE Snap!Spec => []Snap!CoveredUnlessRewritten
<1>1. Snap!Init => SnapInv
  BY SnapInitInv, Zenon
<1>2. SnapInv /\ [Snap!Next]_(Snap!vars) => SnapInv'
  BY SnapStep, MaxOfIndexes, Zenon
<1>3. SnapInv => Snap!CoveredUnlessRewritten
  BY SnapInvCovers, Zenon
<1> QED
  BY <1>1, <1>2, <1>3, PTL DEF Snap!Spec

\* load_latest, which create_backup calls without the node's mutex while snapshots are
\* written and removed, gives whole data of a snapshot that was not outdated.
THEOREM BackupsAreFromLatest ==
  ASSUME MaxIndex \in Nat PROVE Snap!Spec => []Snap!BackupFromLatest
<1>1. Snap!Init => SnapInv
  BY SnapInitInv, Zenon
<1>2. SnapInv /\ [Snap!Next]_(Snap!vars) => SnapInv'
  BY SnapStep, MaxOfIndexes, Zenon
<1>3. SnapInv => Snap!BackupFromLatest
  BY SnapInvCovers, Zenon
<1> QED
  BY <1>1, <1>2, <1>3, PTL DEF Snap!Spec

\* Cardinality is the one of the library's theorems.
LEMMA MajorityCount ==
  ASSUME NEW P \in SUBSET Node
  PROVE  Mem!Majority(P, Node) <=> Cardinality(P) >= Cardinality(Node) \div 2 + 1
<1>1. Mem!Cardinality(P) = Cardinality(P) /\ Mem!Cardinality(Node) = Cardinality(Node)
  BY Zenon DEF Mem!Cardinality, Cardinality
<1>2. P \cap Node = P
  OBVIOUS
<1> QED
  BY <1>1, <1>2, Zenon DEF Mem!Majority

\* Two majorities of the configured nodes have a node in common.
LEMMA MajoritiesMeet ==
  ASSUME IsFiniteSet(Node), NEW P \in SUBSET Node, NEW Q \in SUBSET Node,
         Mem!Majority(P, Node), Mem!Majority(Q, Node)
  PROVE  \E v \in P : v \in Q
<1>1. Cardinality(P) >= Cardinality(Node) \div 2 + 1 /\ Cardinality(Q) >= Cardinality(Node) \div 2 + 1
  BY MajorityCount, Zenon
<1>2. IsFiniteSet(P) /\ IsFiniteSet(Q) /\ IsFiniteSet(P \cap Q)
  BY FS_Subset, Zenon
<1>3. /\ Cardinality(Node) \in Nat /\ Cardinality(P) \in Nat /\ Cardinality(Q) \in Nat
      /\ Cardinality(P \cap Q) \in Nat
  BY <1>2, FS_CardinalityType, Zenon
<1>4. Cardinality(P \cup Q) = Cardinality(P) + Cardinality(Q) - Cardinality(P \cap Q)
  BY <1>2, FS_Union, Zenon
<1>5. Cardinality(P \cup Q) <= Cardinality(Node)
  BY FS_Subset, P \cup Q \in SUBSET Node, Zenon
<1>6. Cardinality(P \cap Q) # 0
  BY <1>1, <1>3, <1>4, <1>5
<1> QED
  BY <1>2, <1>6, FS_EmptySet, Zenon

\* All the configured nodes are a majority of them.
LEMMA AllAreMajority ==
  ASSUME IsFiniteSet(Node), Node # {} PROVE Mem!Majority(Node, Node)
<1>1. Cardinality(Node) \in Nat /\ Cardinality(Node) # 0
  BY FS_CardinalityType, FS_EmptySet, Zenon
<1>2. \A c \in Nat : c # 0 => c >= c \div 2 + 1
  OBVIOUS
<1> QED
  BY <1>1, <1>2, MajorityCount, Zenon

\* No two leaders are elected in the same term, whatever changes of the membership are
\* begun, aborted and finished.
THEOREM ChangesKeepOneLeader ==
  ASSUME IsFiniteSet(Node) PROVE Mem!Spec => []Mem!OneLeaderPerTerm
<1>1. Mem!Init => MemInv
  <2>1. Mem!Init => Node # {}
    BY Zenon DEF Mem!Init
  <2> QED
    BY <2>1, MemStart, AllAreMajority, Zenon
<1>2. MemInv /\ [Mem!Next]_(Mem!vars) => MemInv'
  <2>1. MajoritiesIntersect
    BY MajoritiesMeet, Zenon DEF MajoritiesIntersect
  <2> QED
    BY <2>1, MemStep, Zenon
<1>3. MemInv => Mem!OneLeaderPerTerm
  BY Zenon DEF MemInv
<1> QED
  BY <1>1, <1>2, <1>3, PTL DEF Mem!Spec

=============================================================================
