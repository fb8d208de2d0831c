------------------------------ MODULE MCProgress ------------------------------
(***************************************************************************)
(* What has to happen in the end, for TLC, under the fairness of each      *)
(* component: leases (Leases), watches (Watch) and membership changes      *)
(* (Membership).  The components share no state: a behaviour is one of the *)
(* component that `part' names.  Leases are looked at twice: "grants" has  *)
(* two clients that may ask for the same id, "expiry" has one client with  *)
(* two leases.                                                             *)
(***************************************************************************)
EXTENDS Integers, Sequences, FiniteSets

CONSTANTS k1, k2, c1, c2, Absent, n1, n2, n3, n4

VARIABLES
  part,
  leader, leases, next_id, grants, expiring, log, kv, orphaned, commands, granted,
  events, watchers, watch_id, task, out, open, sent, since, lagged, cancels,
  m_term, m_voted_for, m_role, m_log, m_commit_index, m_last_applied, m_match_index,
  m_current, m_pending, m_in_progress, m_left, m_elected, m_decided, m_marks

lease_vars == <<leader, leases, next_id, grants, expiring, log, kv, orphaned, commands, granted>>
watch_vars == <<events, watchers, watch_id, task, out, open, sent, since, lagged, cancels>>
m_vars == <<m_term, m_voted_for, m_role, m_log, m_commit_index, m_last_applied,
            m_match_index, m_current, m_pending, m_in_progress, m_left, m_elected,
            m_decided, m_marks>>

Grants == INSTANCE Leases WITH
            Key <- {k1, k2}, Client <- {c1, c2}, AskedId <- {-1, 0, 2}, Ttl <- {0, 1},
            PutId <- {-1, 0, 1, 2},
            CanRevoke <- TRUE, CanStepDown <- TRUE, MaxLog <- 2, MaxCommands <- 2, MaxGrants <- 1
Expiry == INSTANCE Leases WITH
            Key <- {k1, k2}, Client <- {c1}, AskedId <- {0}, Ttl <- {1, 2},
            PutId <- {0, 1, 2},
            CanRevoke <- TRUE, CanStepDown <- TRUE, MaxLog <- 2, MaxCommands <- 2, MaxGrants <- 2

\* Watches of one key and of a range.
OneKey == [key |-> 1, range_end |-> 0, start_revision |-> 0]
Range12 == [key |-> 1, range_end |-> 3, start_revision |-> 2]

Hub == INSTANCE Watch WITH
         Key <- {1, 2}, Conn <- {c1}, Filters <- {OneKey, Range12}, Capacity <- 1,
         OutCapacity <- 1, MaxEvents <- 2, MaxWatches <- 2, MaxCancels <- 1,
         next_id <- watch_id

\* One node more, or one node less; an answer may be lost.
Nodes == {n1, n2, n3}
OneStep == {Nodes \cup {n4}} \cup {Nodes \ {n} : n \in Nodes}

Mem == INSTANCE Membership WITH
         Node <- Nodes, Extra <- {n4}, Wanted <- OneStep, MaxTerm <- 1,
         Budgets <- {[change |-> 1, lost |-> 1, crash |-> 0]},
         current_term <- m_term, voted_for <- m_voted_for, role <- m_role, log <- m_log,
         commit_index <- m_commit_index, last_applied <- m_last_applied,
         match_index <- m_match_index, current <- m_current, pending <- m_pending,
         in_progress <- m_in_progress, left <- m_left, elected <- m_elected,
         decided <- m_decided, marks <- m_marks

ProgressInit ==
  /\ part \in {"grants", "expiry", "watch", "change"}
  /\ IF part = "grants" THEN Grants!Init ELSE Expiry!Init
  /\ Hub!Init
  /\ Mem!Init /\ m_role[n1] = "Leader"

ProgressNext ==
  \/ part = "grants" /\ Grants!Next /\ UNCHANGED <<part, watch_vars, m_vars>>
  \/ part = "expiry" /\ Expiry!Next /\ UNCHANGED <<part, watch_vars, m_vars>>
  \/ part = "watch" /\ Hub!Next /\ UNCHANGED <<part, lease_vars, m_vars>>
  \/ part = "change" /\ Mem!Next /\ UNCHANGED <<part, lease_vars, watch_vars>>

all_vars == <<part, lease_vars, watch_vars, m_vars>>

ProgressSpec == ProgressInit /\ [][ProgressNext]_all_vars

\* The fairness of the component that moves: that of Leases, of Watch and of Membership.
ProgressFairSpec ==
  /\ ProgressSpec
  /\ WF_lease_vars(part = "expiry" /\ Expiry!Tick)
  /\ WF_lease_vars(part = "expiry" /\ Expiry!ExpiryCollect)
  /\ WF_lease_vars(part = "expiry" /\ \E pair \in expiring : Expiry!ExpiryPropose(pair))
  /\ WF_lease_vars(part = "expiry" /\ (Expiry!ApplyPut \/ Expiry!ApplyDelete))
  /\ WF_watch_vars(part = "watch" /\ Hub!Work(c1))
  /\ WF_watch_vars(part = "watch" /\ Hub!ClientReads(c1))
  /\ \A n \in Nodes : WF_m_vars(part = "change" /\ Mem!ApplyEntries(n))
  /\ \A p \in Nodes \ {n1} :
       WF_m_vars(part = "change" /\ Mem!Replicate(n1, p, Len(m_log[n1]), TRUE))

-----------------------------------------------------------------------------
(* The properties of each component, in its behaviours.                    *)

\* Type invariant: the leases, the log and the keys (LeaseManager), and the watchers and
\* the task of a connection (WatchHub).
ProgressTypeOK ==
  /\ part = "grants" => Grants!LeaseTypeOK
  /\ part = "expiry" => Expiry!LeaseTypeOK
  /\ part = "watch" => Hub!WatchTypeOK

\* ApplyLoop::apply_command, attach_key, detach_key, collect_expired.
LeasedKeysTracked == part \in {"grants", "expiry"} => Expiry!LeasedKeysTracked

\* collect_expired and the lease tick of event_loop.
LeasedKeysDeletedUnlessOrphaned == part = "expiry" => Expiry!LeasedKeysDeletedUnlessOrphaned

\* The task of a connection: what it polls and sends is complete unless its receiver was
\* overtaken, and in order even then.
WatchSound == part = "watch" => Hub!CompleteUnlessLagged /\ Hub!InOrder

\* The task of a connection: the poll branch comes up.
EventuallySent == part = "watch" => Hub!EventuallySent

\* propose_config_change and apply_config_change in the leader.
ChangeFinishes == part = "change" => Mem!ChangeFinishes

=============================================================================
