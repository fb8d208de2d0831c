# raftrust in TLA+

TLA+ models of raftrust, a replicated key-value store in Rust, with TLC
configurations that check them on small instances and TLAPS proofs for instances of
any size. Paths are relative to the repository, `src/crates/` unless given in full.
`PROJECT.json` maps every definition to the lines it translates and lists the runs,
the findings, the hazards and the theorems.

## The system

| Part | Source | State | Operations | Modules |
|---|---|---|---|---|
| Consensus node, event loop | `raft-consensus/src/node.rs`, `election.rs`, `raft-server/src/server.rs` | term, vote, role, leader id, commit index, election and leader state behind one mutex; the round in progress | pre-vote, election, vote and append handlers, propose | RaftNode |
| Vote state | `raft-consensus/src/state.rs` | `raft_state.json` | save, load | VoteState |
| Leadership transfer | `leadership_transfer.rs`, `node.rs` | transfer state | transfer, checks, TimeoutNow | RaftTransfer |
| Linearizable reads | `read_index.rs`, `raft-server/src/kv_service.rs` | pending reads and their acks | register, ack, poll, wait, read | RaftReads |
| Raft log, compaction | `raft-consensus/src/log.rs`, `node.rs` | entries, WAL records, snapshot index | append, truncate, compact, reopen, take committed | RaftLog, RaftCompaction |
| Snapshots, backups | `snapshot.rs`, `raft-server/src/backup.rs` | files | create, load, clean up, back up, restore | Snapshots |
| Membership | `membership.rs`, `node.rs`, `admin_service.rs` | configuration, pending one | propose, apply, finalize, abort | Membership |
| Write-ahead log file | `raft-storage/src/wal/` | buffer, file | append, sync, replay | WalFile, Wal |
| LSM engine | `raft-storage/src/lsm.rs`, `compaction/`, `manifest.rs` | memtables, WAL, files, manifest | put, delete, get, scan, flush, compact, open | KvMap, Lsm |
| SSTable | `raft-storage/src/sstable/`, `bloom.rs` | a file | write, open, get, scan | ByteStrings, SSTable |
| MVCC | `raft-mvcc/src/` | revision counter, versions | get, put, delete, scan, collect, sweep | MvccStore, Mvcc |
| Transactions | `raft-mvcc/src/transaction.rs` | read set, write buffer | begin, get, put, commit | Transactions |
| Leases | `raft-server/src/lease.rs`, `lease_service.rs`, `apply.rs` | leases, keys | grant, renew, revoke, expire, attach | Leases |
| Watches | `raft-server/src/watch.rs`, `watch_service.rs` | broadcast channel, filters, connections | create, cancel, publish, poll | Watch |
| Client | `raft-client/src/client.rs` | leader guess, connections | retry, redirect | Client |

A node is one event-loop task plus RPC handlers on other tasks. A handler holds the
mutex for its whole body. The loop releases it whenever it awaits a call, so its
decisions may be stale when it acts on them. The apply loop writes committed
commands into MvccStore, which writes versions into the LSM engine, and tells the
lease manager and the watch hub. The hard behaviours come from these gaps, from lost
and late messages and from crashes between two writes.

The parts meet at a few interfaces, and the modules are cut there. RaftNode sees the
log as a sequence; RaftCompaction shows when that is what RaftLog provides. MvccStore
sees the engine as a map; Lsm shows when the engine implements it (KvMap). Lsm sees the
WAL as the records that were logged and those of them that a replay reaches, and a table
as a function; Wal and SSTable show what the bytes do. RaftNode takes the saved vote for granted; VoteState shows when it is.

## Modules

**RaftNode** is a cluster with static membership.

- `current_term`, `voted_for`, `log`, `role`, `leader_id`, `commit_index`,
  `election_state`, `leader_state` are the fields of `RaftNodeInner`. An absent
  election is the empty set of votes. An entry's index is its position.
- `phase`, `ballot`, `todo`, `vote_response`, `appends` are the event loop. A vote
  round awaits one peer at a time; a replication round awaits all peers at once.
- `late_votes`, `late_appends` are requests whose caller has given up.
- `elected`, `decided` are history variables; `spent` counts what the bounds limit.

Each handler is one action or one operator used by the actions that deliver its
request. `StartElection` has no guard on the role, as in the code: the loop read the
role earlier. `wal_ahead` remembers that `truncate_after` left entries in the WAL
file; `Restart` is limited to nodes for which the file equals the log, and
RaftCompaction takes the other case.

**RaftTransfer** adds `transfer_state`, the TimeoutNow messages under way, and
`handoff`, the point in `check_transfer` between the check and the reading of the
term. It replaces the end of a replication round by the transfer checks. A membership
change runs beside it, because `propose_config_change` and `apply_config_change` append
to the leader's log without a look at `transfer_state`: `change_in_progress` is the flag
of `MembershipState`, `config_applied` how far the apply loop is, `Joint` and `Final` are
the two entries. Which quorum commits them is Membership's matter; here all nodes count.

**RaftReads** adds the pending reads, the readers (tasks of the KV service with their
own program counter) and the store, which follows `last_applied` in a later step.
A read is represented by how much of the log the store held. History records which
acks answer requests that were sent after the registration. It has neither TimeoutNow
nor a handler that is dropped because its client cancels the call; either can leave a
read pending that nobody polls for.

**VoteState** is one node and its file. A handler of a vote or append request is cut
at every step of `save`: write the temporary file, rename, answer. Each step may
fail, the process may crash between any two, and the machine may lose power, after
which the file is anything between `stable` and what was last renamed.

**RaftLog** defines the operations of `RaftLog` as operators on a value (entries,
snapshot, WAL records). **RaftCompaction** is a cluster over such logs with atomic
elections and append rounds, snapshots, lost answers, and crashes also inside an
append. `lagged` remembers that a request reached behind the sender's snapshot,
`misplaced` that a restart replayed a WAL that is not one entry per index.

**Snapshots** is one node's directory: `job` is the writer under the mutex, which
empties and fills each file; backups read without the mutex.

**Membership** is joint consensus over coarse elections and append rounds: `current`,
`pending`, `in_progress` are `MembershipState`. `AddNode` and `RemoveNode` are the
calls of the admin service. `marks` is history: which rules were broken on the way.

**WalFile** says what the reader makes of a sequence of whole and cut-off records;
**Wal** is the writer, crashes and reopening around it.

**KvMap** is the abstract map of a storage engine. **Lsm** has one writer, whose
put walks through WAL append, memtable, rotation, flush, manifest, cache and
compaction with a program counter, and one reader that takes its locks one by one.
Each file operation may fail where the code returns its error or ignores it
(`LogFails`, `FlushFails`, `KeepWal`, `ResetWalFails`, `MergeFails`, `MergeWriteFails`,
`SaveCompactedFails`, `RebuildCacheFails`). `wal` is what was logged since the WAL was
reset, `readable` what of it a replay gives back, and `tail` says whether the file ends in
a whole record, in a torn one, or was removed under its writer: what is logged behind a
tear or to a removed file is in `wal` and not in `readable`, and a crash loses it.
Keys are numbers, a memtable or a file is a function from keys to cells, and a level is
a set of entries: `add_sstable` pushes entries in the order of their numbers, so the
number gives the order of the Vec. `Held` is what the tree holds, in memory while it
runs and on disk while it does not. `ImplementsMap` states the refinement with `INSTANCE KvMap WITH`.

**SSTable** writes and reads files byte by byte with **ByteStrings**. The Bloom
filter's hash is an arbitrary function.

**MvccStore** holds encodings and the store operations on an engine that is a map.
**Mvcc** adds the collector and the sweep, which delete key by key, restarts and the
replay of the log. `written` lists every version that was made and whether a command of
the log made it: the deletes of a sweep are not in the log and no replay repeats them.
**Transactions** adds optimistic transactions; each call to the store is a step and may
fail, which ends a commit with the writes it has made.

**Leases** has the lease table of one server, `grants` (those between their
critical sections), `expiring` (what the tick collected and has not yet proposed) and
the log as a queue. Grants ask for any id, negative ones too, and puts name any id. The
delete of an expired key may be refused in a leader as well (a transfer is in progress,
the log fails), which the loop ignores. `orphaned` are the keys that their lease lost
sight of. **Watch** has the broadcast channel with its capacity, receivers
by position, and per connection a response channel.

**Client** has one call at a time, its loop counter and node, and the servers reduced
to who runs, who believes to lead and whom each names.

**MCRaftNode** and **MCRaftTransfer** give TLC symmetry and constraints. **MCPersistence**
(VoteState, RaftCompaction), **MCStorage** (Lsm, SSTable, Snapshots, Wal), **MCCluster**
(RaftReads, Membership), **MCData** (Mvcc, Transactions, Client) and **MCProgress**
(Leases, Watch, Membership with fairness) put components side by side that share
nothing, with their small sets and bounds.

### Abstractions

- Peers are asked in any order; the code uses the order of its configuration.
- Timers may fire at any time. `last_heartbeat` and durations are left out; a lease
  has an age in whole ticks.
- Pre-vote requests change no state, so none is kept as late.
- `role()` and the `start_pre_vote` that follows are one step. In RaftNode nothing can
  make a difference in between; RaftTransfer leaves out a TimeoutNow that arrives
  exactly there and whose candidate becomes a pre-candidate again.
- After TimeoutNow is sent the loop goes on, because the call can fail while the
  message is still under way.
- RaftCompaction and Membership take an election, and one append request with its
  answer, as one step each. The interleavings inside them are RaftNode's.
- Checksums tell whole from torn; collisions are left out. Sizes that trigger a
  flush or a compaction are counts of entries and files.
- Ids of leases stay far from the largest i64, where `id + 1` would overflow; errors of
  the store while a command is applied are left out of Leases.
- In Mvcc and SSTable keys and values are byte strings of up to two bytes; offsets
  use the low four bytes, and hashes wrap at a smaller space than 2^64.

Symmetry is used only for sets whose members the module treats alike, and in no run
with a liveness property.

## Runs

A bound is a named constant in a guard; one that is zero is left out. Names in
backticks among the bounds are constraints. RaftNode and RaftTransfer have runs of
their own. The other components share five runs: a variable `part` picks at the start
which component, on which of its instances, the behaviour is about; the others stay
as they are, and each property speaks of the behaviours of its component. A property of
such a run may join several of a component's module (`ReplaySound` is `ReplayInOrder`
and `SyncedInFrontOfTearSurvive` of Wal): the MC module says which.

### Passing

| Run | Parts and bounds | Checks | What it shows |
|---|---|---|---|
| `replication` | terms 2, index 2, pre-votes 2, rounds 2 | `TypeOK`, `LogMatching`, `LeaderCompleteness` | Three nodes, two terms, a client command and two replication rounds with failing calls: logs stay consistent and what is committed stays committed across a change of leader. |
| `terms` | terms 3, pre-votes 3, rounds 3, `OneRound` | `StateMachineSafety` | Three nodes and three terms with one vote or replication round at a time: entries of deposed leaders compete for an index and only one is ever committed. |
| `elections` | terms 2, late 1, crashes 1, pre-votes 2, rounds 1 | `ElectionSafety`, `LeaderIdIsElected`, `LeaderAppendOnly` | Three nodes that campaign at the same time, with a crash and a request that arrives after its caller gave up: one leader per term, elected by votes of that term. |
| `late_appends` | terms 1, index 2, late 2, crashes 1, pre-votes 1, rounds 4 | `MatchIndexSound`, `CommittedStays` | One leader, four replication rounds, AppendEntries requests that arrive rounds late and out of order, and a crash: followers never lose what they acknowledged. |
| `transfer` | terms 2, index 3, late 1, crashes 1, pre-votes 1, rounds 2, transfers 1, one membership change, `ShortLogs` | `TargetHoldsLog` | A leadership transfer with lost and late messages, a crash, a client and a membership change: while the hand-over lasts the target's log is a beginning of the leader's, and what it lacks is entries of the change, never a client's command. |
| `persistence` | "votes": VoteState, terms 2, errors, power loss; "log": RaftCompaction, terms 2, index 2, snapshots 1, crashes 1, lost 1; `NoFaultYet` | `PersistenceTypeOK`, `VotesOnceUnlessFault`, `TermKeptUnlessFault`, `ReadsByIndexIfSound`, `AgreementIfSound` | Crashes between any two steps of a save never make a node vote twice or go back in its term, unless an error or a loss of power hits the file. Until a request reaches behind a snapshot, or a restart replays a WAL that is not one entry per index, positions are indices, snapshots keep the right term, and replicated and applied entries agree. |
| `storage` | "lsm": 5 writes and a crash, 3 writes with a crash and a fault, 2 writes with two crashes and a fault, 3 writes and a read, or 2 writes, a read and a fault; "sstable": 3 keys, 3 entries; "snapshots": index 3, snapshots 3, backups 1, restores 1, faults 2; "wal": records 5, crashes 3 | `StorageTypeOK`, `ManifestSound`, `ReadsCurrentUnlessRaced`, `ImplementsMap`, `FileReadsAsWritten`, `CoveredUnlessRewritten`, `BackupFromLatest`, `ReplaySound` | The files of a node with crashes between and inside writes and file operations that fail: the tree implements the abstract map until the first of the losses below, a read returns what a key held during the read unless data is moved past it, table files answer as they were written or do not open, a complete snapshot remains, and the WAL replays in order what was synced in front of the first tear. |
| `cluster` | "reads": RaftReads, terms 2, pre-votes 1, rounds 2, `AppliedWhenRead`, `VotesArrive`, `NoCommands`; "faults": index 2, rounds 1, `AppliedWhenRead`; "change": Membership, terms 2, changes 1; "restart": the same with a crash, `LeadersApply`; `Open` | `ClusterTypeOK`, `CurrentWhenConfirmedAfterwards`, `OneLeaderPerTerm`, `CompleteUnlessThin` | One read across an election: it is current if its acks answer requests sent after its registration, and it is pending only in a leader and only while it is polled. One node added or removed across an election or a restart: one leader per term, and later leaders hold what was committed. |
| `data` | "mvcc": writes 3, passes 2, restarts 1; "serial": two transactions, reads 2 and 1, one write each, a plain put, `Unraced`; "overlap": reads 1, writes 2 and 1, failing store calls; "client": retries 5, calls 2, events 3 | `DataTypeOK`, `StoreReadsLatest`, `RetainedReads`, `SerializableUnlessRaced`, `CommitAppliesInOrder`, `RepeatedOnlyIfLost`, `CalmIsServedUnlessRefused` | Collections, sweeps and a replay in steps between commands: reads of the latest and of retained revisions, and scans, show what was written. Transactions are serializable where nobody overlaps a commit; what a commit leaves, cut off by an error or not, is the first of its writes in order at its own revision, and all of them if it succeeds. A client repeats a write only after a lost answer, and a settled cluster serves its call. |
| `progress` | "grants": two clients, log 2, commands 2, grants 1; "expiry": one client, log 2, commands 2, grants 2; "watch": 2 keys, channels of 1, events 2, watches 2, cancels 1; "change": terms 1, changes 1, lost 1 | `ProgressTypeOK`, `LeasedKeysTracked`, `WatchSound`, `LeasedKeysDeletedUnlessOrphaned`, `EventuallySent`, `ChangeFinishes` | Under the fairness below: every leased key is attached or about to be deleted, and is deleted once its lease is gone, unless one of the named events lost sight of it; watched events arrive complete, in order and once unless the receiver is overtaken, and are sent in the end; a stable leader finishes a change. |

Why the bounds are enough to be interesting:

- Three nodes are the least in which a quorum is not everybody. Two terms give a
  change of leader; three (`terms`) let an entry be overwritten and its replacement
  compete again. An index bound of 0 means no client commands: the logs hold no-ops.
  In `transfer` the second term is the one the target is elected in.
- Wal and Snapshots need one crash for a torn file and a second one to meet what was
  written behind it. In RaftCompaction one crash, also in the middle of an append,
  meets a compacted log.
- Five writes, a memtable that one put or two deletes fill and two files per level fill
  the LSM tree to level 2. One fault with two crashes meets a tear, what is logged behind
  it and the recovery that misses it; one with three writes a flush after one that failed.
- The keys of "mvcc" include the byte 0xFF, and they and the keys of "sstable" a prefix of
  another; block sizes cut a file into one, some and as many blocks as entries.
- The broadcast channel holds one event and two are published, so that a receiver can
  be overtaken.
- A change of one member never lets a leader commit with less than a majority of the
  configured nodes, so `CompleteUnlessThin` is checked there without its exception.

Constraints cut off behaviours, and never assume what is checked: `OneRound` leaves
concurrency of rounds to `replication` and `elections`; `NoFaultYet` and `Unraced` end
a behaviour at the event after which the properties claim nothing; `Open` ends it when
nothing the property speaks of can still happen; `LeadersApply`, `VotesArrive`,
`NoCommands` and `AppliedWhenRead` restrict a part to what it is about, and what they
leave out is in the other part of the same component.

`ShortLogs` leaves a log with one client command or one membership change.

The bounds end behaviours, so deadlock is not checked.

`ImplementsMap` is stated of a tree that is intact. `damaged` records the first of the
events after which the code itself has lost data, or shows an operation that failed:

1. a compaction merges two versions of a key and prefers the older one (versions as
   MvccStore writes them have keys of their own and never meet this);
2. a crash, or a failing save, falls between the deletion of the compacted files and the
   saving of the manifest;
3. a crash after operations were logged behind a tear, or to a file that was removed;
4. a flush succeeds after an earlier one failed: the WAL that covered the memtable it left
   is removed with the rest, and that memtable hides newer cells;
5. a put or delete fails with its whole record in the WAL, and takes effect at the next
   start;
6. the cache could not be rebuilt after a compaction.

Up to then no failing flush, no torn record and no number of crashes changes what a key
holds.

A property whose name ends in `Unless...` or `If...` is the strongest form that holds
of the code. The unconditional form, as a comment or a document states it, is one of
the statements below. For many of the hazards in `PROJECT.json` the condition is the
hazard itself: the code does fail there, the property says that it fails in no other
way, and the note of the hazard names the refuted statement.

### Violations

| Run | Bounds | Property | What TLC finds |
|---|---|---|---|
| `transfer_votes` | terms 3, pre-votes 2, rounds 1, transfers 1 | `WonRealElection` | TimeoutNow reaches a node in the middle of a vote round: the answers of the old round make it leader of the new term. |
| `transfer_sender` | terms 2, pre-votes 2, rounds 1, transfers 1 | `TimeoutNowFromLeader` | The leader is deposed between check_transfer_progress and the reading of its term: it sends TimeoutNow in a term it does not lead. |

`PROJECT.json` quotes the comments and gives the lines where the code departs from
them. In `transfer_votes`, `handle_vote_response` does not compare the term of an
answer with the term of the election it is counted in. In RaftNode this is harmless,
and `VotesBacked` is proved: only the event loop starts elections, and not while it
awaits answers. `handle_timeout_now` starts one from an RPC handler. `TargetHoldsLog` is
therefore stated for histories with one leader per term.

### Statements that the models refute

Comments and documents say more than the code does in other places too. The modules
keep those statements as definitions beside the properties that hold, because they
are the reason for the conditions in them. No run checks them: TLC refutes each on the
instance named here (bounds as above, everything else as in the run of the module).

| Module | Statement | Instance | What happens |
|---|---|---|---|
| RaftTransfer | `TargetMatchesLog` | as in `transfer` | The leader of a transfer appends the entries of a membership change after the target has caught up: the target campaigns without them. |
| Wal | `SyncedSurvive` | records 3, crashes 2 | A torn record, a restart, a synced append behind the tear and a second crash: the synced record is not replayed. |
| RaftCompaction | `GetByIndex` | index 3, snapshots 1 | After a leader compacts, a follower that is behind is sent entries that do not follow the one they are checked against, and stores them at the wrong positions. |
| RaftCompaction | `LeaderFixesDivergence` | index 3, crashes 1 | A truncated and rewritten log is replayed with its stale records; the consistency check matches the shifted entries and two state machines are handed different entries for one index. |
| RaftCompaction | `AppliesAll` | index 2, snapshots 1 | A snapshot at the commit index discards entries that the apply loop has not taken yet; take_committed_entries passes over them. |
| Lsm | `CompactionKeepsLatest` | writes 5 | Two level-0 files with the same key are compacted: the older cell wins. |
| Lsm | `ListedFilesExist` | writes 5, crashes 1 | A crash after compaction deleted its input files and before the manifest was saved: the saved manifest lists files that are gone. |
| Lsm | `GetsCurrent` | writes 3, reads 1 | A get between the rotation of the memtable and its entry into the immutable ones does not find a key that exists. |
| Lsm | `ScansCurrent` | writes 3, reads 1 | A scan that overlaps a flush misses keys, or returns values that were overwritten before it began. |
| SSTable | `WrittenAtomically` | entries 3 | A crash in std::fs::write leaves a part of the file. |
| Mvcc | `GetsLatestAlways` | a key that is a prefix of another | get returns the value of the longer key. |
| Mvcc | `GetsLatestAlways` | restarts 1, dropped 2 | A restart after the log was compacted: revisions start again at one, and new values hide behind old ones. |
| Mvcc | `GetsLatestAlways` | writes 5, passes 1, restarts 1 | A sweep deletes two keys, which the log does not say, and the process restarts: the replay ends two revisions lower, and the next put of a key hides under its tombstone. |
| Mvcc | `SnapshotReads` | passes 1 | A collection removes the version that was current at min_revision. |
| Mvcc | `SweepDeletesExpired` | passes 1 | A key written again between the scan of a sweep and its deletion is deleted though it has not expired. |
| Mvcc | `VersionsInRange` | a key of bytes 0xFF only | The end of its range lies below its versions. |
| Transactions | `Serializable` | "overlap" | Two commits that overlap both pass validation and one update is lost. |
| Transactions | `AppliedAtomically` | "overlap" | Between the writes of a commit, and for ever after an error of the store inside it, a reader sees some of them. |
| Leases | `LeasedKeysDeleted` | commands 1, grants 1 | A put is applied after its lease expired or names none, a lease is revoked, or the delete of an expired key is refused, also in a leader: the key stays for ever. |
| Leases | `ExpiryDeletesLeasedKeys` | commands 2, grants 1 | A key that was put again without a lease is deleted when its old lease expires. |
| Leases | `OneHolder` | two clients | Two concurrent grants of one id both pass the check. |
| Watch | `NothingMissed` | one more event than the channel holds | Some are skipped and the client is not told. |
| Watch | `CanceledOnDisconnect` | events 2, watches 1 | The client leaves while an event is being sent: the task returns without its cleanup. |
| RaftReads | `CurrentOnceConfirmed` | "reads" | An answer that was under way when the read was registered confirms a leader that has been replaced. |
| RaftReads | `CurrentInNewLeader` | "reads" | A new leader serves a read at its commit index before it knows what its predecessor committed. |
| RaftReads | `StateMachineAdvanced` | "reads" with commands | The store is read after last_applied was raised and before the entries are applied. |
| Snapshots | `LatestLoads` | snapshots 2, faults 1 | A crash while the metadata of a newer snapshot is written makes the complete older one unreachable. |
| Snapshots | `BackupFresh` | snapshots 1, backups 1 | A backup names the commit index of now and holds the snapshot of earlier. |
| Membership | `ElectedByMembers` | "change" | A follower that has applied the joint entry is elected with the vote of the node being removed, without a majority of its pending configuration. |
| Membership | `JointByBoth` | "change" | A leader that has a joint entry in its log but not applied commits it with a majority of the old configuration alone. |
| Membership | `JointIsFinished` | "change" | A follower applies the joint entry and is elected later: nobody proposes the final entry. |
| Membership | `ChangesDoNotOverlap` | changes 2 | A new leader begins a change while the joint entry of its predecessor is in its log. |
| VoteState | `VotesOnce` | errors, or power loss | A write that fails half way is renamed over the good file, or a vote is answered before its file is synced; the restarted node votes again in the same term. |
| Client | `CalmIsServed` | calls 2, events 4 | The first node tried is down: the call fails though a leader and a majority run. |

- `GetByIndex` and `LeaderFixesDivergence` are the reason for `lagged` and `misplaced`.
  Log matching and state machine safety of RaftNode hold while logs start at index 1
  and the WAL equals the log.
- `CompactionKeepsLatest` does not reach MvccStore as long as revisions grow, because
  every version has a key of its own. After a restart with a compacted log they do not.
- `ElectedByMembers`, `JointByBoth`: commits use the membership a node has applied,
  elections the peers it was configured with. `CompleteUnlessThin` therefore asks that
  each commit had a majority of the configured nodes.

## Fairness

Only `progress` is about liveness; all other properties are safety properties and
assume no fairness.

- Leases ("expiry"): weak fairness of time, of the lease tick, of proposing what it
  collected (which may be refused) and of the apply loop. The event loop selects on a one-second interval,
  proposes before it returns to the select, and applies at the end of every turn.
- Watch: weak fairness of each connection's task and of its client's reading. The
  runtime runs a task that is ready, and the poll branch comes up every 10 ms. The
  client is assumed to read its stream until it leaves.
- Membership ("change"): weak fairness of applying and of replicating a leader's whole
  log to each configured peer, with one term. The loop calls every peer in every round.
  Without a stable leader a change may stay unfinished (`JointIsFinished`).

Liveness of elections and of transfers depends on random timeouts and on durations,
which the models leave out.

## Proofs

### The consensus node

From finiteness of a non-empty `Node`, `None \notin Node` and natural bounds, for
every value of the constants (RaftProofs):

1. `TypeCorrect`: `TypeOK` with `LoopOK`. `LoopOK` is needed because a request is
   well formed only if `next_index` is at least 1, and a ballot is read only in a
   vote round.
2. `VotesAreBacked`: `VotesBacked` is inductive together with 1. It says that each
   vote counted, or about to be, was given in the term of the ballot, that a present
   election has the node's current term, and that no vote counts twice.
3. `ElectionIsSafe`: two quorums of a term share a voter, whose vote counts once.
4. `RequestsAreFromElected`, `LeaderIdsAreElected`: requests and leader ids name the
   elected node of their term.
5. `LeadersAppendOnly`: a request of a leader's own term would come from itself, and
   nodes do not call themselves. So the missing role check in
   `handle_append_entries` does no harm.
6. `LedgerExists`: the inductive invariant behind the logs, below.
7. `LogsMatch`, `LeadersAreComplete`, `StateMachinesAreSafe`, `MatchIndexesAreSound`,
   `CommittedIsKept`: what follows from it, each a property that a run checks too.

These are theorems about RaftNode: static membership, logs that begin at index 1, a
restart that reads back the vote and the log as they were saved. VoteState and
RaftCompaction say when the code gives a restart that, and when it does not.

**The ledger.** Neither log matching nor leader completeness is inductive: both
compare nodes with leaders that may be gone, have crashed, or whose logs have been
overwritten since. What is missing is what those leaders held. RaftLedger therefore
speaks of a ledger `L`, where `L[t]` is the log of the leader of term `t` as it last
stood while that node led, and `LedgerInv` says that there is one with

- `LogInv(L)`: every log, up to each of its entries, is the ledger's log of that
  entry's term (`Follows`); a leader's log is the ledger's log of its term; every
  AppendEntries request in flight, however late, is a part of its leader's log that
  ends in an entry of the leader's own term; an acknowledged index holds an entry of
  the leader's term.
- `CommitInv(L)`: every decided entry lies at or below an index `a` at which its
  leader held an entry of its own term, a quorum has logs at least as up to date as
  that one (`Reached`), and every later leader holds it (`Kept`). A leader that has
  not heard a quorum yet has the same as an implication (`PendingOK`): if every later
  leader was elected by somebody who had acknowledged the entry, it is kept. What a
  node or a request takes for committed is secured by an entry below its end.

No variable of the model is a ledger, and none is needed: the proofs take the ledger
of a state and give the one of the next. Only `become_leader_inner` and `propose`
change it.

The parts of the code that the argument turns on:

- `try_advance_commit` counts only entries of the leader's own term; otherwise
  `Secured` has no entry to rest on.
- `should_grant_vote` compares the voter's log with what the request says of the
  candidate's, which is older than the votes and older still than the election. `Polls`
  shows that a vote counts only if the voter's log was no more up to date than the
  request said, and `BallotsOK` that the candidate's log still is at least that.
- A follower answers with its whole `last_index`, not with the end of the request.
  This is sound because an accepted request ends in an entry of its own term, and a log
  that goes on behind it can then only hold entries of the same leader.
- A follower takes `min(leader_commit, last_index)` without a look at the terms. This
  is sound because create_append_requests sends the whole rest of the log, so that
  what a request says is committed lies below the end of that request.
- `handle_append_entries` truncates only at a conflict, so that a late request of the
  same term never shortens a log; one of an older term is refused.

**How the proofs are laid out.** RaftSteps abstracts a step in two ways: what all steps
have in common (`Polls`, `Heeds`), and which of six kinds it is (`StepKind`: a quiet
one, a new leader, a proposal, a round of requests, an accepted request, an answer to
a leader). **RaftLogProofs** shows this of every action, once; the invariants are then
preserved by six kinds instead of seventeen actions. RaftLogProofs goes on to do so for
`LogInv`, and **RaftCommitProofs** for `CommitInv`. **RaftHandlerProofs** has the
handlers: types of what they compute, what storing a request makes of a log, and
`Receives`, what any handler can do to terms, votes and roles; then it goes through the
actions for `TypeOK`, `LoopOK` and `VotesBacked`. RaftCommitProofs also draws
the conclusions from a ledger, and **RaftProofs** holds the theorems. The two facts from the
library of TLAPS, that naturals are well ordered and that majorities intersect, are
hypotheses (`WellOrdered`, `QuorumsMeet`) everywhere else and are discharged there.

TLC cannot evaluate `LedgerInv`, which quantifies over all ledgers. Before it was
proved, its conjuncts were checked on the instances of `replication`, `terms` and
`late_appends` with the ledger as a history variable that `BecomeLeader` and `Propose`
update; the module here leaves that variable out.

### Linearizable reads

`ReadsAreCurrent` (RaftProofs) is about RaftReads, from the same assumptions and for any
set of readers: a read that later answers confirm is current, and a read is pending only
in a leader whose handler polls for it.

A read is confirmed by answers that count for a request index, not for a term, and a
leader of a later term may have committed before the confirmation. The inductive
invariant (`ReadInv` in **ReadProofs**) says what makes up for it, `ReadsGrounded`:
either the read index of a read covers all that was committed when it began, or there
is a quorum of nodes that are *silent* for it (`Silent`): none of them has confirmed
it, each is in a later term than the node where it waits, and that node has no
successful answer of theirs to a request that was sent for it. When a read is
registered in a leader that has committed in its own term, one of the two holds by
leader completeness and by the votes of the later leader; and a node in a later term
refuses the requests of the earlier one. Two quorums meet, so a read with a silent
quorum is never confirmed.

ReadProofs takes from the node what a step may do (`NodeStep`: terms and commit indexes
grow, leaders keep their log, a success answers a request of the present term);
RaftProofs proves that from the ledger. `ReadInv` was checked with TLC on the instance
of `cluster` before it was proved.

### Components beside the node

**ComponentProofs** has one section for each of them. Each component has its own
inductive invariant, and each invariant but the first, which the run of the vote file
checks through its consequences, was checked with TLC on the instance of the
component's run before it was proved.

- *Vote file.* `VotesOnceProved`, `TermKeptProved`, from `Self \in Candidate` and a
  natural `MaxTerm`. `VoteInv` relates memory, the two files and what was answered:
  memory is ahead of the file only inside a handler that will save before it answers,
  and every answer is in the file or a later term is. The condition `~fault` is needed
  in the invariant as in the theorems; `VotesOnce` above shows both ways in which it
  fails. This is what RaftNode assumes of `voted_for` and `current_term` at a restart.
- *Leases.* `LeasedKeysAreTracked`, for any integers as ids and ttls. `LeaseInv` is
  stronger than the property in one place: the delete that accounts for a key was proposed
  for *this* lease (`why`), since a delete of another would be applied before a later put
  under this one. It also has that every id in the table, and in a grant that has moved the
  counter, is below `next_id`, which `fetch_max` maintains. The keys it does not account
  for are `orphaned`: their put named no lease of the table or a negative id, for which
  `apply_command` attaches nothing, their lease was revoked or replaced by a concurrent
  grant, or their delete was refused or cut off from the log.
- *Client.* `WritesRepeatOnlyIfLost`, with no assumption. `CallInv`: while a call is in
  its loop, its proposals are no more than the answers lost, because the one that is
  answered ends the call.
- *Snapshots.* `SnapshotsCover` and `BackupsAreFromLatest`, from a natural `MaxIndex`.
  `SnapInv` says how far the writing job is (data before metadata, both before anything
  is removed), which files cover the log meanwhile, and that the metadata file of the
  last snapshot, torn or whole, is never missing, so that a backup that looks for the
  latest never finds an older one.
- *Membership.* `ChangesKeepOneLeader`, from a finite `Node`. `MemInv`: every leader
  that was elected has a majority of the configured nodes each of which still holds the
  vote or is in a later term. `start_election` counts against the static cluster whatever
  change is under way, so that two majorities of it meet in every case.

The facts that need the library (finite sets have a greatest element, majorities
intersect) are hypotheses of the lemmas, discharged in the last section.

### The LSM tree

**LsmProofs** proves three of the properties that `storage` checks, for every number of
keys and of levels (at least two), every set of values, every memtable limit, every
trigger above zero and every level ratio. `LsmBounds` also says that powers of the ratio
are naturals, which the provers do not know, and that the two markers are not values.

- `TreeImplementsMap`: the refinement of KvMap, `ImplementsMap`, with its condition
  `~damaged`.
- `TreeReadsAreCurrent`: `ReadsCurrentUnlessRaced`, with the conditions the property
  has; `GetsCurrent` and `ScansCurrent` above show why they are there.
- `ManifestAlwaysSound`: `ManifestSound`, with no condition.

None is inductive, because none says where the cells are. `LsmInv` (**LsmInvProofs**)
does, for each place of the writer's program counter:

- `OneFlush`: one flush at a time, whose memtable is the last of the immutable ones, and
  nothing is written meanwhile. Earlier ones are those of flushes that failed.
- `Rest` is what lies between the active memtable and the files (the immutable memtables,
  the frozen one before it is pushed), `Below` what the tree holds under the active
  memtable, `Now` what it holds.
- `WalCovers`: the log covers the active memtable and `Rest`, also when an earlier flush
  has failed, and replays each of its keys to `Now`, or to the operation at hand.
- `ManifestOK`, of the manifest in memory and of the saved one: numbers of files are
  below the counter and unique, the keys of a file lie within the recorded bounds, and
  levels below the first are disjoint.
- `Saved`, `CacheIds`: where the two manifests agree, that the counter on disk is never
  ahead, and which numbers the cache has.
- `CacheOK`: the cache gives every key what the files of the manifest in memory give it
  but for the keys of immutable memtables, and what the files of the saved one give it but
  for the keys of the log (`SameOn`). A flush that failed after its file was listed in
  memory, or on disk, lies in that gap: the log has its keys.

The last is where compaction is argued: a key that the inputs share keeps the cell get
would find unless `KeepsOlder`; a key outside the inputs is not affected, since the
whole source level is merged and the files left in the target level do not overlap it;
and a tombstone dropped at the deepest level hides nothing below. The new number of a
flush or a compaction is at the counter, so that a file that a crash leaves half
written is never a listed one.

For reads, `ReadOK` says what a read on its way has passed: what is below the active
memtable was held during the read when a get has left that memtable; what the files
give was held when it has left the immutable ones, unless it came between the rotation
and the push; and what a scan has collected was held, for the keys that the tables
still before it do not have. A flush caches its file before it drops the memtable,
which is why a get is never overtaken there; a scan goes the other way and is.

`LsmInv` and `ReadOK` were checked with TLC on the instance of `storage` before they
were proved, with numbers up to 50 for the `Nat` that bounds the files of a cache.
`Library`, the well-ordering of the naturals and the cardinality of the empty set, is a
hypothesis of the lemmas and is discharged at the end of LsmProofs.

### Only model-checked

- Liveness, which is out of the prover's reach.
- `CompleteUnlessThin`, leader completeness during membership changes: it would need a
  ledger for Membership as RaftNode has one, under the condition that `marks` records.
- RaftTransfer and RaftCompaction.
- Watch, Transactions, Wal: what they filter, replay and fold is written with the
  folds of the library, whose values for every input need induction.
- SSTable, MvccStore and RaftLog are about what sequences of bytes and records decode
  to, which needs induction over data as well.

## Not modelled

- Metrics, HTTP endpoints, configuration files, start-up, the admin command line:
  input and output without protocol state.
- The chaos framework in the tests: it simulates faults, which the models have.
- InstallSnapshot between nodes and the gRPC `txn` call: nothing sends the first and the
  second is unimplemented. `handle_install_snapshot` is modelled in Snapshots.
- The log commands LeaseGrant and LeaseRevoke: nothing proposes them.
- Conversions between Rust types and protobuf, and reconnects: field by field copies.
- The lengths of timeouts, and with them whether a deposed leader is noticed in time,
  whether a transfer finishes before it times out, and how long a client is sent back
  and forth between nodes with stale hints.
- One module with the apply loop and all it drives. Each command is in the module of
  what it changes; their product is out of TLC's reach.
