------------------------------- MODULE Watch -------------------------------
(***************************************************************************)
(* Watches: WatchHub, and the task that the watch service runs for every   *)
(* connection.                                                             *)
(*                                                                         *)
(* The hub is a broadcast channel that keeps the last Capacity events and  *)
(* a table of filters.  A connection's task selects between a request of   *)
(* the client and a poll of its receivers every 10 ms, and sends responses *)
(* over a channel of OutCapacity, waiting while it is full.                *)
(***************************************************************************)
EXTENDS Integers, Sequences, FiniteSets, FiniteSetsExt

CONSTANTS
  Key,          \* numbers, in the order of the keys
  Conn,         \* connections
  Filters,      \* what a watch is created with: key, range_end (0 = empty), start_revision
  Capacity,     \* of the broadcast channel
  OutCapacity,  \* of the response channel
  MaxEvents,    \* bound: events published
  MaxWatches,   \* bound: watches created
  MaxCancels    \* bound: cancel requests

VARIABLES
  events,    \* every event published; the channel holds the last Capacity of them
  watchers,  \* WatchHub.watchers
  next_id,
  task,      \* the task of each connection
  out,       \* the response channel of each connection
  open,      \* the client of the connection is there
  sent,      \* history: the events sent for each watch
  since,     \* history: the filter of each watch and the first event after it began
  lagged,    \* history: watches whose receiver was overtaken
  cancels

hub == <<watchers, next_id>>
vars == <<events, hub, task, out, open, sent, since, lagged, cancels>>

Ids == 1..MaxWatches
Task == [pc |-> "select", active |-> <<>>, turn |-> 0, new |-> 0, reply |-> 0, polling |-> FALSE]

\* Watcher::matches
Matches(filter, event) ==
  /\ event.mod_revision >= filter.start_revision
  /\ IF filter.range_end = 0 THEN filter.key = event.key
     ELSE event.key >= filter.key /\ event.key < filter.range_end

Init ==
  /\ events = <<>>
  /\ watchers = <<>> /\ next_id = 1
  /\ task = [c \in Conn |-> Task]
  /\ out = [c \in Conn |-> <<>>] /\ open = [c \in Conn |-> TRUE]
  /\ sent = [id \in Ids |-> <<>>] /\ since = <<>>
  /\ lagged = {} /\ cancels = 0

-----------------------------------------------------------------------------
\* The apply loop publishes an event.  Its store gives out revisions one by one.
Publish(key) ==
  /\ Len(events) < MaxEvents
  /\ events' = Append(events, [key |-> key, mod_revision |-> Len(events) + 1])
  /\ UNCHANGED <<hub, task, out, open, sent, since, lagged, cancels>>

\* A create request: create_watcher up to the table.
CreateWatcher(c, filter) ==
  /\ task[c].pc = "select" /\ open[c] /\ next_id <= MaxWatches
  /\ next_id' = next_id + 1
  /\ watchers' = [id \in DOMAIN watchers \cup {next_id} |-> IF id = next_id THEN filter ELSE watchers[id]]
  /\ since' = Append(since, [filter |-> filter, from |-> 0])
  /\ task' = [task EXCEPT ![c].pc = "subscribe", ![c].new = next_id]
  /\ UNCHANGED <<events, out, open, sent, lagged, cancels>>

\* sender.subscribe, and the receiver joins the connection's watches.
Subscribe(c) ==
  /\ task[c].pc = "subscribe"
  /\ LET id == task[c].new
     IN /\ task' = [task EXCEPT ![c].active = Append(@, [id |-> id, next |-> Len(events) + 1]),
                                ![c].pc = "send", ![c].reply = 0, ![c].polling = FALSE]
        /\ since' = [since EXCEPT ![id].from = Len(events) + 1]
  /\ UNCHANGED <<events, hub, out, open, sent, lagged, cancels>>

\* A cancel request, for any id.
Cancel(c, id) ==
  /\ task[c].pc = "select" /\ open[c] /\ cancels < MaxCancels /\ cancels' = cancels + 1
  /\ watchers' = [i \in DOMAIN watchers \ {id} |-> watchers[i]]
  /\ task' = [task EXCEPT ![c].active = SelectSeq(@, LAMBDA w : w.id # id),
                          ![c].pc = "send", ![c].reply = 0, ![c].polling = FALSE]
  /\ UNCHANGED <<events, next_id, out, open, sent, since, lagged>>

\* tx.send of a response.  A failed send of an event ends the task at once; a failed
\* send of a confirmation ends the loop.
Send(c) ==
  /\ task[c].pc = "send"
  /\ IF ~open[c]
     THEN /\ task' = [task EXCEPT ![c].pc = IF task[c].polling THEN "returned" ELSE "cleanup"]
          /\ UNCHANGED out
     ELSE /\ Len(out[c]) < OutCapacity
          /\ out' = [out EXCEPT ![c] = Append(@, task[c].reply)]
          /\ task' = [task EXCEPT ![c].pc = IF task[c].polling THEN "poll" ELSE "select"]
  /\ UNCHANGED <<events, hub, open, sent, since, lagged, cancels>>

-----------------------------------------------------------------------------
(* The poll branch.                                                         *)

\* Variant: the first watch is left out.
PollBeginSecond(c) ==
  /\ task[c].pc = "select"
  /\ task' = [task EXCEPT ![c].pc = "poll", ![c].turn = 2]
  /\ UNCHANGED <<events, hub, out, open, sent, since, lagged, cancels>>

PollBegin(c) ==
  /\ task[c].pc = "select"
  /\ task' = [task EXCEPT ![c].pc = "poll", ![c].turn = 1]
  /\ UNCHANGED <<events, hub, out, open, sent, since, lagged, cancels>>

Oldest == Max({1, Len(events) - Capacity + 1})

\* Variant: an event that is sent is read a second time.
AdvanceAgain(c, w, matched) ==
  [task EXCEPT ![c].active[task[c].turn].next = IF matched THEN w.next ELSE w.next + 1,
               ![c].pc = IF matched THEN "send" ELSE "poll",
               ![c].reply = w.next, ![c].polling = TRUE]

\* The task after try_recv took an event: to the send, or to the next event.
Advance(c, w, matched) ==
  [task EXCEPT ![c].active[task[c].turn].next = w.next + 1,
               ![c].pc = IF matched THEN "send" ELSE "poll",
               ![c].reply = w.next, ![c].polling = TRUE]

\* watcher_matches
WatcherMatches(id, event) == id \in DOMAIN watchers /\ Matches(watchers[id], event)

\* try_recv gives an event, which is sent if the watch wants it.
PollEvent(c) ==
  /\ task[c].pc = "poll" /\ task[c].turn <= Len(task[c].active)
  /\ LET w == task[c].active[task[c].turn]
     IN /\ w.next \in Oldest..Len(events)
        /\ LET matched == WatcherMatches(w.id, events[w.next])
           IN /\ task' = Advance(c, w, matched)
              /\ sent' = IF matched THEN [sent EXCEPT ![w.id] = Append(@, w.next)] ELSE sent
  /\ UNCHANGED <<events, hub, out, open, since, lagged, cancels>>

\* try_recv fails: there is nothing more, or the receiver was overtaken and now
\* continues with the oldest event that is left.  Either ends the turn of the watch.
PollNext(c) ==
  /\ task[c].pc = "poll" /\ task[c].turn <= Len(task[c].active)
  /\ LET w == task[c].active[task[c].turn]
     IN /\ w.next \notin Oldest..Len(events)
        /\ task' = [task EXCEPT ![c].turn = @ + 1,
                                ![c].active[task[c].turn].next = Max({@, Oldest})]
        /\ lagged' = IF w.next < Oldest THEN lagged \cup {w.id} ELSE lagged
  /\ UNCHANGED <<events, hub, out, open, sent, since, cancels>>

PollEnd(c) ==
  /\ task[c].pc = "poll" /\ task[c].turn > Len(task[c].active)
  /\ task' = [task EXCEPT ![c].pc = "select"]
  /\ UNCHANGED <<events, hub, out, open, sent, since, lagged, cancels>>

-----------------------------------------------------------------------------
(* The client, and the end of a connection.                                 *)

ClientReads(c) ==
  /\ open[c] /\ out[c] # <<>>
  /\ out' = [out EXCEPT ![c] = Tail(@)]
  /\ UNCHANGED <<events, hub, task, open, sent, since, lagged, cancels>>

Disconnect(c) ==
  /\ open[c]
  /\ open' = [open EXCEPT ![c] = FALSE]
  /\ out' = [out EXCEPT ![c] = <<>>]
  /\ UNCHANGED <<events, hub, task, sent, since, lagged, cancels>>

\* in_stream ends.
StreamEnds(c) ==
  /\ task[c].pc = "select" /\ ~open[c]
  /\ task' = [task EXCEPT ![c].pc = "cleanup"]
  /\ UNCHANGED <<events, hub, out, open, sent, since, lagged, cancels>>

Own(c) == {task[c].active[i].id : i \in DOMAIN task[c].active}

Cleanup(c) ==
  /\ task[c].pc = "cleanup"
  /\ task' = [task EXCEPT ![c].pc = "closed"]
  /\ watchers' = [id \in DOMAIN watchers \ Own(c) |-> watchers[id]]
  /\ UNCHANGED <<events, next_id, out, open, sent, since, lagged, cancels>>

Work(c) == \/ Subscribe(c) \/ Send(c) \/ PollBegin(c) \/ PollEvent(c) \/ PollNext(c)
           \/ PollEnd(c) \/ StreamEnds(c) \/ Cleanup(c)

Next ==
  \/ \E key \in Key : Publish(key)
  \/ \E c \in Conn :
       \/ Work(c) \/ ClientReads(c) \/ Disconnect(c)
       \/ \E filter \in Filters : CreateWatcher(c, filter)
       \/ \E id \in DOMAIN since : Cancel(c, id)

\* The runtime runs a task that can go on, and the poll branch of select comes up
\* every 10 ms once a client stops sending requests, which the bounds see to.  The
\* client reads its stream.
Fairness == \A c \in Conn : WF_vars(Work(c)) /\ WF_vars(ClientReads(c))

Spec == Init /\ [][Next]_vars
FairSpec == Spec /\ Fairness

-----------------------------------------------------------------------------
\* Type invariant: the response channel stays within its capacity, and the filter
\* of a watch in the table is the one it was created with.
WatchTypeOK ==
  /\ \A c \in Conn : /\ Len(out[c]) <= OutCapacity
                     /\ Own(c) \subseteq DOMAIN since
  /\ \A id \in DOMAIN watchers : watchers[id] = since[id].filter

\* The positions of the events from one to another that a watch wants.
Wanted(id, from, to) == SelectSeq([i \in 1..to |-> i],
                                  LAMBDA i : i >= from /\ Matches(since[id].filter, events[i]))

\* The receiver's position of a watch that is in the table.
NextOf(id) ==
  LET at == {<<c, i>> \in Conn \X (1..MaxWatches) :
               i \in DOMAIN task[c].active /\ task[c].active[i].id = id}
      p == CHOOSE q \in at : TRUE
  IN IF at = {} THEN 1 ELSE task[p[1]].active[p[2]].next

\* As long as its receiver was not overtaken, a watch gets exactly the events that
\* it wants, from its creation on, in order and once each, however its polls, its
\* sends and other watches of the connection interleave (watch of the service).
CompleteUnlessLagged ==
  \A id \in DOMAIN watchers \ lagged :
    sent[id] = IF NextOf(id) = 1 THEN <<>> ELSE Wanted(id, since[id].from, NextOf(id) - 1)

\* A watch that was overtaken still gets events in order, once each, and none that
\* it did not ask for.
InOrder ==
  \A id \in DOMAIN since :
    /\ \A i, j \in DOMAIN sent[id] : i < j => sent[id][i] < sent[id][j]
    /\ \A i \in DOMAIN sent[id] : Matches(since[id].filter, events[sent[id][i]])

\* An event that a watch wants is sent to it in the end, if its receiver is not
\* overtaken, the watch is not cancelled and its client stays: once no more events are
\* published, every watch has everything (the poll branch of the task, which waits for
\* room in the response channel).
EventuallySent ==
  []<>(\A id \in DOMAIN watchers \ lagged :
         (\A c \in Conn : open[c]) /\ since[id].from > 0 =>
           sent[id] = Wanted(id, since[id].from, Len(events)))

\* What publish says, "Publish an event to all watchers", and the service,
\* "Receive WatchResponse with events as keys change": no event is skipped.
NothingMissed ==
  \A id \in DOMAIN watchers :
    sent[id] = IF NextOf(id) = 1 THEN <<>> ELSE Wanted(id, since[id].from, NextOf(id) - 1)

\* What the end of the task says, "Cleanup: cancel all watchers on disconnect".
CanceledOnDisconnect ==
  \A c \in Conn : task[c].pc \in {"closed", "returned"} => Own(c) \cap DOMAIN watchers = {}
=============================================================================
