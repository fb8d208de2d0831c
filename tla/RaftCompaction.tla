--------------------------- MODULE RaftCompaction ---------------------------
(***************************************************************************)
(* A cluster whose logs are compacted, cut back and replayed: what the       *)
(* positions of RaftLog mean once a snapshot or a restart has moved them.    *)
(*                                                                           *)
(* RaftNode models the interleavings of elections and replication over logs  *)
(* that start at index 1.  Here the rounds are atomic (a campaign is one     *)
(* step, and so is one append request with its answer) and the logs are      *)
(* RaftLog's own, with snapshots, truncation, crashes in the middle of an    *)
(* append and restarts from the write-ahead log.                             *)
(***************************************************************************)
EXTENDS RaftLog, FiniteSets

CONSTANTS Node,
          MaxTerm,   \* bound: no campaign beyond this term
          MaxIndex,  \* bound: no entry beyond this index
          MaxSnap,   \* bound: snapshots taken in one behaviour
          MaxCrash,  \* bound: crashes in one behaviour
          MaxLost    \* bound: answers lost in one behaviour

VARIABLES current_term, role, log, commit_index, last_applied, next_index, match_index,
          handed,     \* history: the entries handed to some state machine
          lagged,     \* history: a request reached behind a snapshot
          misplaced,  \* history: a restart replayed a WAL that is not one entry per index
          snaps, crashes, lost

node_vars == <<current_term, role, log, commit_index, last_applied, next_index, match_index>>
history == <<handed, lagged, misplaced>>
bounds == <<snaps, crashes, lost>>
vars == <<node_vars, history, bounds>>

Quorums == {Q \in SUBSET Node : 2 * Cardinality(Q) > Cardinality(Node)}

Entry == [index : 1..(2 * MaxIndex), term : 1..MaxTerm]

\* leader_state of a node that is not the leader
NoNext == [p \in Node |-> 1]
NoMatch == [p \in Node |-> 0]

\* RaftNode::new on empty directories.
Init ==
  /\ current_term = [n \in Node |-> 0]
  /\ role = [n \in Node |-> "Follower"]
  /\ log = [n \in Node |-> OpenLog(<<>>)]
  /\ commit_index = [n \in Node |-> 0]
  /\ last_applied = [n \in Node |-> 0]
  /\ next_index = [n \in Node |-> NoNext]
  /\ match_index = [n \in Node |-> NoMatch]
  /\ handed = {}
  /\ lagged = FALSE
  /\ misplaced = FALSE
  /\ snaps = 0
  /\ crashes = 0
  /\ lost = 0

\* election.rs is_log_up_to_date, of n's log in the eyes of m
UpToDate(n, m) ==
  \/ LastTerm(log[n]) > LastTerm(log[m])
  \/ LastTerm(log[n]) = LastTerm(log[m]) /\ LastIndex(log[n]) >= LastIndex(log[m])

\* start_election, the votes of a quorum (the requests to the other nodes are
\* lost) and become_leader_inner with its no-op entry.
Campaign(n, voters) ==
  LET term == current_term[n] + 1
      noop == [index |-> LastIndex(log[n]) + 1, term |-> term]
  IN
  /\ role[n] # "Leader"
  /\ term <= MaxTerm
  /\ noop.index <= MaxIndex
  /\ n \in voters
  /\ \A m \in voters \ {n} : current_term[m] < term /\ UpToDate(n, m)
  /\ current_term' = [m \in Node |-> IF m \in voters THEN term ELSE current_term[m]]
  /\ role' = [m \in Node |-> IF m = n THEN "Leader"
                             ELSE IF m \in voters THEN "Follower" ELSE role[m]]
  /\ log' = [log EXCEPT ![n] = AppendEntries(@, <<noop>>)]
  /\ next_index' = [m \in Node |-> IF m = n THEN [p \in Node |-> noop.index]
                                   ELSE IF m \in voters THEN NoNext ELSE next_index[m]]
  /\ match_index' = [m \in Node |-> IF m = n THEN [NoMatch EXCEPT ![n] = noop.index]
                                    ELSE IF m \in voters THEN NoMatch ELSE match_index[m]]
  /\ UNCHANGED <<commit_index, last_applied, history, bounds>>

\* Variant: the entry carries the term before the leader's.
ProposeOldTerm(n) ==
  LET entry == [index |-> LastIndex(log[n]) + 1, term |-> current_term[n] - 1] IN
  /\ role[n] = "Leader"
  /\ entry.index <= MaxIndex
  /\ log' = [log EXCEPT ![n] = AppendEntries(@, <<entry>>)]
  /\ match_index' = [match_index EXCEPT ![n][n] = LastIndex(log'[n])]
  /\ UNCHANGED <<current_term, role, commit_index, last_applied, next_index, history, bounds>>

\* propose
Propose(n) ==
  LET entry == [index |-> LastIndex(log[n]) + 1, term |-> current_term[n]] IN
  /\ role[n] = "Leader"
  /\ entry.index <= MaxIndex
  /\ log' = [log EXCEPT ![n] = AppendEntries(@, <<entry>>)]
  /\ match_index' = [match_index EXCEPT ![n][n] = LastIndex(log'[n])]
  /\ UNCHANGED <<current_term, role, commit_index, last_applied, next_index, history, bounds>>

\* Variant: entries are sent from one behind next_index.
RequestSkippingOne(n, p) ==
  LET next == next_index[n][p]
      prev_term == TermAt(log[n], next - 1)
  IN [term |-> current_term[n], prev_log_index |-> next - 1,
      prev_log_term |-> IF prev_term = NoEntry THEN 0 ELSE prev_term,
      entries |-> EntriesFrom(log[n], next + 1), leader_commit |-> commit_index[n]]

\* create_append_requests, the one for p
Request(n, p) ==
  LET next == next_index[n][p]
      prev_term == TermAt(log[n], next - 1)
  IN [term |-> current_term[n], prev_log_index |-> next - 1,
      prev_log_term |-> IF prev_term = NoEntry THEN 0 ELSE prev_term,
      entries |-> EntriesFrom(log[n], next), leader_commit |-> commit_index[n]]

\* The log consistency check of handle_append_entries.
Consistent(l, req) ==
  req.prev_log_index = 0 \/ MatchTerm(l, req.prev_log_index, req.prev_log_term)

\* The loop of handle_append_entries over the entries of a request: the log
\* after its truncations, and the entries still to be appended.
Merge(l, es) ==
  LET step[i \in 0..Len(es)] ==
        IF i = 0 THEN [log |-> l, new |-> <<>>]
        ELSE IF Get(step[i - 1].log, es[i].index) = NoEntry
        THEN [step[i - 1] EXCEPT !.new = Append(@, es[i])]
        ELSE IF Get(step[i - 1].log, es[i].index).term # es[i].term
        THEN [log |-> TruncateAfter(step[i - 1].log, es[i].index - 1), new |-> Append(step[i - 1].new, es[i])]
        ELSE step[i - 1]
  IN step[Len(es)]

\* try_advance_commit: the largest match index of this term that a quorum has.
AdvanceCommit(n, l, matches) ==
  LET candidates == {i \in {matches[p] : p \in Node} :
                       /\ i > commit_index[n]
                       /\ {p \in Node : matches[p] >= i} \in Quorums
                       /\ Get(l, i) # NoEntry
                       /\ Get(l, i).term = current_term[n]}
  IN IF candidates = {} THEN commit_index[n] ELSE Max(candidates)

\* A request that starts behind the snapshot of its sender, so that its entries do
\* not follow the one it names, or behind that of its receiver, so that get does
\* not find the entries that are already there.
ReachesBehind(n, p) ==
  next_index[n][p] <= Max({log[n].snapshot_index, log[p].snapshot_index})

\* A request that p rejects: its term is behind, and n steps down ...
RejectedTerm(n, p) ==
  /\ role[n] = "Leader"
  /\ p # n
  /\ current_term[n] < current_term[p]
  /\ current_term' = [current_term EXCEPT ![n] = current_term[p]]
  /\ role' = [role EXCEPT ![n] = "Follower"]
  /\ next_index' = [next_index EXCEPT ![n] = NoNext]
  /\ match_index' = [match_index EXCEPT ![n] = NoMatch]
  /\ UNCHANGED <<log, commit_index, last_applied, history, bounds>>

\* ... or the logs do not match, and n tries one entry earlier.
RejectedPrev(n, p) ==
  /\ role[n] = "Leader"
  /\ p # n
  /\ current_term[n] >= current_term[p]
  /\ ~Consistent(log[p], Request(n, p))
  /\ current_term' = [current_term EXCEPT ![p] = current_term[n]]
  /\ role' = [role EXCEPT ![p] = "Follower"]
  /\ next_index' = [next_index EXCEPT ![n][p] = Max({@ - 1, 1}), ![p] = NoNext]
  /\ match_index' = [match_index EXCEPT ![p] = NoMatch]
  /\ commit_index' = [commit_index EXCEPT ![n] = AdvanceCommit(n, log[n], match_index[n])]
  /\ UNCHANGED <<log, last_applied, history, bounds>>

\* A request that p accepts.  The answer is handled by n or lost.
Accepted(n, p, answered) ==
  LET req == Request(n, p)
      merged == Merge(log[p], req.entries)
      stored == AppendEntries(merged.log, merged.new)
  IN
  /\ role[n] = "Leader"
  /\ p # n
  /\ current_term[n] >= current_term[p]
  /\ Consistent(log[p], req)
  /\ current_term' = [current_term EXCEPT ![p] = current_term[n]]
  /\ role' = [role EXCEPT ![p] = "Follower"]
  /\ log' = [log EXCEPT ![p] = stored]
  /\ lagged' = (lagged \/ ReachesBehind(n, p))
  /\ LET follower_commit == IF req.leader_commit > commit_index[p]
                            THEN Min({req.leader_commit, LastIndex(stored)})
                            ELSE commit_index[p]
         match == LastIndex(stored)
         matches == [match_index[n] EXCEPT ![p] = match]
     IN IF answered
        THEN /\ match_index' = [match_index EXCEPT ![n] = matches, ![p] = NoMatch]
             /\ next_index' = [next_index EXCEPT ![n][p] = match + 1, ![p] = NoNext]
             /\ commit_index' = [commit_index EXCEPT ![n] = AdvanceCommit(n, log[n], matches),
                                                    ![p] = follower_commit]
        ELSE /\ commit_index' = [commit_index EXCEPT ![p] = follower_commit]
             /\ match_index' = [match_index EXCEPT ![p] = NoMatch]
             /\ next_index' = [next_index EXCEPT ![p] = NoNext]
  /\ lost' = IF answered THEN lost ELSE lost + 1
  /\ lost' <= MaxLost
  /\ UNCHANGED <<last_applied, handed, misplaced, snaps, crashes>>

\* Variant: one entry more than is committed.
TakeCommittedOneMore(n) ==
  /\ last_applied[n] < commit_index[n]
  /\ last_applied' = [last_applied EXCEPT ![n] = commit_index[n]]
  /\ handed' = (handed \cup
       {Get(log[n], i) : i \in (last_applied[n] + 1)..(commit_index[n] + 1)}) \ {NoEntry}
  /\ UNCHANGED <<current_term, role, log, commit_index, next_index, match_index, lagged, misplaced, bounds>>

\* take_committed_entries: raises last_applied past entries that are not there.
TakeCommitted(n) ==
  /\ last_applied[n] < commit_index[n]
  /\ last_applied' = [last_applied EXCEPT ![n] = commit_index[n]]
  /\ handed' = (handed \cup
       {Get(log[n], i) : i \in (last_applied[n] + 1)..commit_index[n]}) \ {NoEntry}
  /\ UNCHANGED <<current_term, role, log, commit_index, next_index, match_index, lagged, misplaced, bounds>>

\* trigger_snapshot, called by the admin service: at the commit index, whatever
\* has been applied and whatever the peers have.
TriggerSnapshot(n) ==
  LET term == TermAt(log[n], commit_index[n]) IN
  /\ commit_index[n] > 0
  /\ snaps < MaxSnap
  /\ snaps' = snaps + 1
  /\ log' = [log EXCEPT ![n] = Compact(@, commit_index[n], IF term = NoEntry THEN 0 ELSE term)]
  /\ UNCHANGED <<current_term, role, commit_index, last_applied, next_index, match_index, history, crashes, lost>>

\* One entry per index, from index 1.
OnePerIndex(wal) == \A i \in DOMAIN wal : wal[i].index = i

\* RaftNode::new on the files of a node that died.
RestartOn(n, wal) ==
  /\ crashes < MaxCrash
  /\ crashes' = crashes + 1
  /\ log' = [log EXCEPT ![n] = OpenLog(wal)]
  /\ role' = [role EXCEPT ![n] = "Follower"]
  /\ commit_index' = [commit_index EXCEPT ![n] = 0]
  /\ last_applied' = [last_applied EXCEPT ![n] = 0]
  /\ next_index' = [next_index EXCEPT ![n] = NoNext]
  /\ match_index' = [match_index EXCEPT ![n] = NoMatch]
  /\ misplaced' = (misplaced \/ ~OnePerIndex(wal))

Restart(n) ==
  /\ RestartOn(n, log[n].wal)
  /\ UNCHANGED <<current_term, handed, lagged, snaps, lost>>

\* p dies in the middle of the append of a request's entries: the first k of the
\* entries it was to store are in the WAL, and no answer is sent.
CrashInAppend(n, p, k) ==
  LET req == Request(n, p)
      merged == Merge(log[p], req.entries)
  IN
  /\ crashes < MaxCrash
  /\ role[n] = "Leader"
  /\ p # n
  /\ current_term[n] >= current_term[p]
  /\ Consistent(log[p], req)
  /\ k < Len(merged.new)
  /\ current_term' = [current_term EXCEPT ![p] = current_term[n]]
  /\ lagged' = (lagged \/ ReachesBehind(n, p))
  /\ RestartOn(p, merged.log.wal \o SubSeq(merged.new, 1, k))
  /\ UNCHANGED <<handed, snaps, lost>>

Next ==
  \E n \in Node :
    \/ \E voters \in Quorums : Campaign(n, voters)
    \/ Propose(n)
    \/ TakeCommitted(n)
    \/ TriggerSnapshot(n)
    \/ Restart(n)
    \/ \E p \in Node : \/ RejectedTerm(n, p)
                       \/ RejectedPrev(n, p)
                       \/ \E answered \in BOOLEAN : Accepted(n, p, answered)
                       \/ \E k \in 1..MaxIndex : CrashInAppend(n, p, k)

Spec == Init /\ [][Next]_vars

-----------------------------------------------------------------------------
(* Properties.                                                             *)

\* Every log is entries behind a snapshot; indices run at most twice as far as
\* the bound, for logs whose entries are misplaced.
CompactionTypeOK ==
  /\ current_term \in [Node -> 0..MaxTerm]
  /\ role \in [Node -> {"Follower", "Leader"}]
  /\ \A n \in Node : /\ log[n].entries \in Seq(Entry)
                     /\ log[n].wal \in Seq(Entry)
                     /\ log[n].snapshot_index \in 0..MaxIndex
                     /\ log[n].snapshot_term \in 0..MaxTerm
  /\ handed \subseteq Entry
  /\ commit_index \in [Node -> 0..MaxIndex]
  /\ last_applied \in [Node -> 0..MaxIndex]
  /\ next_index \in [Node -> [Node -> 1..(MaxIndex + 1)]]
  /\ match_index \in [Node -> [Node -> 0..MaxIndex]]

\* As long as no request reached behind a snapshot and no restart
\* replayed a WAL with entries out of place.
Sound == ~lagged /\ ~misplaced

\* RaftLog::get finds by position the entry of that index, through compaction,
\* truncation and restarts, in every behaviour without one of the two faults.
GetByIndexIfSound ==
  Sound => \A n \in Node : \A i \in 1..MaxIndex :
             Get(log[n], i) # NoEntry => Get(log[n], i).index = i

\* A snapshot never changes what the log says of the entry it ends with: the term
\* that term_at gives for a snapshot's index is the one that any node still
\* holding that committed entry has for it.
SnapshotTermIfSound ==
  Sound => \A n, m \in Node :
             LET s == log[n].snapshot_index IN
             s > 0 /\ s <= commit_index[m] /\ TermAt(log[m], s) # NoEntry
               => TermAt(log[m], s) = log[n].snapshot_term

\* The state machines never part: whatever the compactions, restarts and repeated
\* hand-overs, no two different entries are handed over for the same index.
HandedAgreeIfSound ==
  Sound => \A d, e \in handed : d.index = e.index => d = e

\* What a leader has counted as replicated at a peer is there: everything up to
\* match_index that both still hold is the same.
ReplicatedMatchesIfSound ==
  Sound => \A n, m \in Node :
             role[n] = "Leader" /\ current_term[m] = current_term[n] =>
               \A i \in 1..match_index[n][m] :
                 \/ NoEntry \in {Get(log[n], i), Get(log[m], i)}
                 \/ Get(log[n], i) = Get(log[m], i)

\* log.rs: `Get a log entry by index'.  Position and index never part.
GetByIndex ==
  \A n \in Node : \A i \in 1..MaxIndex :
    Get(log[n], i) # NoEntry => Get(log[n], i).index = i

\* log.rs on the records that a truncation leaves in the WAL: `on restart, we'll
\* replay and the leader will fix any divergence'.  By the time the leader's commit
\* index reaches a node and its entries are handed to the state machine, they are
\* the entries that every other state machine was handed.
LeaderFixesDivergence ==
  \A d, e \in handed : d.index = e.index => d = e

\* node.rs: take_committed_entries hands over the `entries that have been
\* committed but not yet applied'.  No committed entry is skipped.
AppliesAll ==
  [][\A n \in Node : \A i \in (last_applied[n] + 1)..(last_applied[n])' :
       Get(log[n], i) # NoEntry]_vars

=============================================================================
