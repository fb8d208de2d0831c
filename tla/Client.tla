-------------------------------- MODULE Client --------------------------------
(***************************************************************************)
(* KvClient: a write (put or delete), a get and a range call.  A client    *)
(* tries the node it believes to lead, follows the hint of a node that     *)
(* does not, and goes round the nodes on other errors, max_retries times.  *)
(* A connection that cannot be opened ends the call.  The servers are      *)
(* modelled by how the client uses them: those that believe to lead serve,  *)
(* the others name the leader they know of, or none; nodes stop and start, *)
(* leadership moves, calls fail and answers get lost.                      *)
(***************************************************************************)
EXTENDS Integers, Sequences, FiniteSets

CONSTANTS Order,       \* the nodes, in the order of the client's map
          None,
          max_retries,
          MaxCalls,    \* bound: calls
          MaxEvents    \* bound: changes of the servers, and calls that fail in a leader

Node == {Order[i] : i \in 1..Len(Order)}

VARIABLES
  leader_id, connections,      \* KvClient
  call, node_id, attempt,      \* the call under way: its kind, its node, its loop
  up, leading, knows,          \* the servers: which run, which lead, whom each names
  calls, events,               \* bounds
  proposed, lost,              \* history of the call: proposals made, answers lost
  calm, refused,               \* were the servers settled all along; did a connection fail
  result                       \* of the last call

client == <<leader_id, connections>>
servers == <<up, leading, knows>>
history == <<proposed, lost, calm, refused>>
vars == <<client, call, node_id, attempt, servers, calls, events, history, result>>

Init ==
  /\ leader_id = None /\ connections = {}
  /\ call = "none" /\ node_id = None /\ attempt = 0
  /\ up \in SUBSET Node /\ 2 * Cardinality(up) > Len(Order)
  /\ \E l \in up : /\ leading = {l} /\ knows \in [Node -> {l, None}]
                   /\ \A n \in Node : n \notin up \/ n = l => knows[n] = None
  /\ calls = 0 /\ events = 0 /\ proposed = 0 /\ lost = 0
  /\ calm = FALSE /\ refused = FALSE /\ result = "none"

-----------------------------------------------------------------------------
(* The client.                                                             *)

pick_node == IF leader_id = None THEN Order[1] ELSE leader_id

next_node(n) ==
  LET i == CHOOSE k \in 1..Len(Order) : Order[k] = n IN Order[(i % Len(Order)) + 1]

\* One node leads, and the nodes that run name no other.
Settled == \E l \in up : leading = {l} /\ \A n \in up : knows[n] \in {l, None}

Begin(kind) ==
  /\ call = "none" /\ calls < MaxCalls /\ calls' = calls + 1
  /\ call' = kind /\ node_id' = pick_node /\ attempt' = 0
  /\ proposed' = 0 /\ lost' = 0 /\ refused' = FALSE
  /\ calm' = (Settled /\ kind # "range")
  /\ result' = "none" /\ UNCHANGED <<client, servers, events>>

\* The call returns.
Return(r) == call' = "none" /\ node_id' = None /\ attempt' = 0 /\ result' = r

\* get_connection: a new connection needs a node that runs; `?' ends the call.
Unreachable ==
  /\ call # "none" /\ node_id \notin connections /\ node_id \notin up
  /\ Return("error") /\ refused' = TRUE
  /\ UNCHANGED <<client, servers, calls, events, proposed, lost, calm>>

Connected == call # "none" /\ (node_id \in connections \/ node_id \in up)

\* The next turn of the loop; after the last one the call returns an error.
TryNext(n) ==
  IF attempt + 1 < max_retries
  THEN node_id' = n /\ attempt' = attempt + 1 /\ UNCHANGED <<call, result>>
  ELSE Return("error")

\* The branch for other errors: the connection is dropped, the next node is tried.  A
\* range call has no loop and returns the error.
Failed ==
  IF call = "range"
  THEN connections' = connections \cup {node_id} /\ Return("error")
  ELSE connections' = connections \ {node_id} /\ TryNext(next_node(node_id))

\* Variant: the loop goes on after an answer.
ServedGoesOn ==
  /\ Connected /\ node_id \in leading
  /\ connections' = connections \cup {node_id}
  /\ leader_id' = IF call = "write" THEN node_id ELSE leader_id
  /\ proposed' = IF call = "write" THEN proposed + 1 ELSE proposed
  /\ TryNext(node_id)
  /\ UNCHANGED <<servers, calls, events, lost, calm, refused>>

\* The leader serves the call; a write makes it the client's leader.
Served ==
  /\ Connected /\ node_id \in leading
  /\ connections' = connections \cup {node_id}
  /\ leader_id' = IF call = "write" THEN node_id ELSE leader_id
  /\ proposed' = IF call = "write" THEN proposed + 1 ELSE proposed
  /\ Return("ok")
  /\ UNCHANGED <<servers, calls, events, lost, calm, refused>>

\* Variant: the hint is remembered and not followed.
NotLeaderIgnored ==
  /\ Connected /\ node_id \in up \ leading
  /\ UNCHANGED <<servers, calls, events, history>>
  /\ IF knows[node_id] # None /\ call # "range"
     THEN /\ leader_id' = knows[node_id]
          /\ connections' = connections \cup {node_id} /\ TryNext(node_id)
     ELSE Failed /\ UNCHANGED leader_id

\* check_leader refuses: with a hint the client follows it, at once.
NotLeader ==
  /\ Connected /\ node_id \in up \ leading
  /\ UNCHANGED <<servers, calls, events, history>>
  /\ IF knows[node_id] # None /\ call # "range"
     THEN /\ leader_id' = knows[node_id]
          /\ connections' = connections \cup {node_id} /\ TryNext(knows[node_id])
     ELSE Failed /\ UNCHANGED leader_id

\* A cached connection to a node that has stopped.
Broken ==
  /\ call # "none" /\ node_id \in connections /\ node_id \notin up
  /\ Failed /\ UNCHANGED <<leader_id, servers, calls, events, history>>

\* The call fails in a leader: before it proposes (a transfer, a read that times out),
\* or after, when only the answer is lost.
LeaderFails(made) ==
  /\ Connected /\ node_id \in leading
  /\ events < MaxEvents /\ events' = events + 1
  /\ proposed' = IF made /\ call = "write" THEN proposed + 1 ELSE proposed
  /\ lost' = IF made THEN lost + 1 ELSE lost
  /\ calm' = FALSE
  /\ Failed /\ UNCHANGED <<leader_id, servers, calls, refused>>

-----------------------------------------------------------------------------
(* The servers.                                                            *)

Change ==
  /\ events < MaxEvents /\ events' = events + 1 /\ calm' = FALSE
  /\ UNCHANGED <<client, call, node_id, attempt, calls, proposed, lost, refused, result>>

Stop(n) ==
  /\ Change /\ n \in up /\ up' = up \ {n} /\ leading' = leading \ {n}
  /\ knows' = [knows EXCEPT ![n] = None]

Start(n) == Change /\ n \notin up /\ up' = up \cup {n} /\ UNCHANGED <<leading, knows>>

\* A node is elected; a former leader and the others learn of it later.
Elected(n) ==
  /\ Change /\ n \in up \ leading /\ leading' = leading \cup {n} /\ UNCHANGED <<up, knows>>

StepsDown(n) ==
  /\ Change /\ n \in leading /\ leading' = leading \ {n}
  /\ knows' = [knows EXCEPT ![n] = None] /\ UNCHANGED up

Learn(n, l) ==
  /\ n \in up \ leading /\ l \in leading /\ knows[n] # l
  /\ knows' = [knows EXCEPT ![n] = l]
  /\ UNCHANGED <<client, call, node_id, attempt, up, leading, calls, events, history, result>>

Next ==
  \/ \E kind \in {"write", "get", "range"} : Begin(kind)
  \/ Served \/ NotLeader \/ Broken \/ Unreachable
  \/ \E made \in BOOLEAN : LeaderFails(made)
  \/ \E n \in Node : \/ Stop(n) \/ Start(n) \/ Elected(n) \/ StepsDown(n)
                     \/ \E l \in Node : Learn(n, l)

Spec == Init /\ [][Next]_vars

-----------------------------------------------------------------------------
(* Properties.                                                             *)

\* Every variable has the type its declaration gives it; the loop has max_retries turns.
ClientTypeOK ==
  /\ leader_id \in Node \cup {None} /\ connections \subseteq Node
  /\ call \in {"none", "write", "get", "range"}
  /\ attempt < max_retries /\ (call = "none") = (node_id = None)
  /\ leading \subseteq up /\ up \subseteq Node /\ knows \in [Node -> Node \cup {None}]
  /\ result \in {"none", "ok", "error"}

\* put and delete retry a write, which is then proposed again, but only as often as an
\* answer was lost: a hint, a broken connection and a refusal never repeat a write.
RepeatedOnlyIfLost == proposed <= lost + 1

\* A call during which one node leads, and none names another, is served: by hints, or
\* by the round of the nodes, within max_retries turns.
CalmIsServed == calm => result # "error"

\* The same for the calls that met no node they could not connect to.
CalmIsServedUnlessRefused == calm /\ ~refused => result # "error"

=============================================================================
