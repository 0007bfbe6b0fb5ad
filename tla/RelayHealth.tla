----------------------------- MODULE RelayHealth -----------------------------
(***************************************************************************)
(* The relays of a mesh that share one RelayRegistry, and the heartbeats   *)
(* by which they keep its records: every relay runs a heartbeat loop that  *)
(* sweeps over the registered relays and pings each over a connection of   *)
(* its own.  A ping's result is decided at the peer and applied some awaits *)
(* later.  Relays start, stop gracefully, and end without stop().          *)
(***************************************************************************)
EXTENDS Naturals, FiniteSets

CONSTANTS
  Peers,       \* the registered relays, named by relay_id
  MaxStarts,   \* bound: start() calls per relay
  Slow,        \* the relays that may be too slow to answer though they run
  PingResets   \* whether a ping's connection may be reset

ASSUME RelayHealthAssumption ==
  MaxStarts \in Nat /\ Slow \subseteq Peers /\ PingResets \in BOOLEAN

VARIABLES
  server,     \* server[r]: r's listening socket is "up" or "down"
  healthy,    \* healthy[r]: RelayRecord.healthy of r
  loop,       \* loop[r]: where r's _heartbeat_loop stands
  todo,       \* todo[r]: records of the snapshot r has not pinged yet
  target,     \* target[r]: the relay r is pinging, or pinged last
  alive,      \* alive[r]: the result of that ping
  starts      \* starts[r]: start() calls of r

healthVars == <<server, healthy, loop, todo, target, alive, starts>>

HealthInit ==
  /\ server = [r \in Peers |-> "down"]
  /\ healthy = [r \in Peers |-> TRUE]
  /\ loop = [r \in Peers |-> "none"]
  /\ todo = [r \in Peers |-> {}]
  /\ target = [r \in Peers |-> r]
  /\ alive = [r \in Peers |-> FALSE]
  /\ starts = [r \in Peers |-> 0]

----------------------------------------------------------------------------
(* RelayNode.start() and stop().                                           *)

\* start() marks its own record before it binds the port.
Starting(r, bound) ==
  /\ server[r] = "down" /\ starts[r] < MaxStarts
  /\ starts' = [starts EXCEPT ![r] = @ + 1]
  /\ healthy' = [healthy EXCEPT ![r] = TRUE]
  /\ server' = [server EXCEPT ![r] = IF bound THEN "up" ELSE "down"]
  /\ loop' = [loop EXCEPT ![r] = IF bound THEN "sleeping" ELSE "none"]
  /\ UNCHANGED <<todo, target, alive>>

StartRelay(r) == Starting(r, TRUE)

\* The port is taken: the loop is cancelled, the record stays as it is.
StartFails(r) == Starting(r, FALSE)

EndLoop(r) ==
  /\ server' = [server EXCEPT ![r] = "down"]
  /\ loop' = [loop EXCEPT ![r] = "none"]
  /\ todo' = [todo EXCEPT ![r] = {}]
  /\ target' = [target EXCEPT ![r] = r]
  /\ alive' = [alive EXCEPT ![r] = FALSE]
  /\ UNCHANGED starts

\* The loop is cancelled wherever it stands, then the record is marked and the
\* server closed.  Awaiting a loop that ended with an exception raises it again,
\* out of stop() and before anything is changed.
StopRelay(r) ==
  /\ server[r] = "up" /\ loop[r] # "crashed"
  /\ healthy' = [healthy EXCEPT ![r] = FALSE]
  /\ EndLoop(r)

\* The task of start() is cancelled, or the relay's process ends.
End(r) ==
  /\ server[r] = "up"
  /\ EndLoop(r)
  /\ UNCHANGED healthy

----------------------------------------------------------------------------
(* RelayNode._heartbeat_loop and _ping_relay.                              *)

\* A sweep over the relays believed healthy only.
SweepHealthyOnly(r) ==
  /\ loop[r] = "sleeping"
  /\ loop' = [loop EXCEPT ![r] = "sweeping"]
  /\ todo' = [todo EXCEPT ![r] = {q \in Peers \ {r} : healthy[q]}]
  /\ UNCHANGED <<server, healthy, target, alive, starts>>

Sweep(r) ==
  /\ loop[r] = "sleeping"
  /\ loop' = [loop EXCEPT ![r] = "sweeping"]
  /\ todo' = [todo EXCEPT ![r] = Peers \ {r}]
  /\ UNCHANGED <<server, healthy, target, alive, starts>>

SweepDone(r) ==
  /\ loop[r] = "sweeping" /\ todo[r] = {}
  /\ loop' = [loop EXCEPT ![r] = "sleeping"]
  /\ UNCHANGED <<server, healthy, todo, target, alive, starts>>

Ping(r) ==
  /\ loop[r] = "sweeping"
  /\ \E q \in todo[r] :
       /\ target' = [target EXCEPT ![r] = q]
       /\ todo' = [todo EXCEPT ![r] = @ \ {q}]
  /\ loop' = [loop EXCEPT ![r] = "pinging"]
  /\ UNCHANGED <<server, healthy, alive, starts>>

PingEnds(r, answered) ==
  /\ loop[r] = "pinging"
  /\ loop' = [loop EXCEPT ![r] = "judging"]
  /\ alive' = [alive EXCEPT ![r] = answered]
  /\ UNCHANGED <<server, healthy, todo, target, starts>>

\* Taking a connection that is refused for an answer.
PingAnsweredAnyway(r) == PingEnds(r, TRUE)

PingAnswered(r) == server[target[r]] = "up" /\ PingEnds(r, TRUE)

\* The connection is refused, or the answer does not come in time.
PingSilent(r) == (server[target[r]] = "down" \/ target[r] \in Slow) /\ PingEnds(r, FALSE)

\* send() lets a ConnectionResetError through: the loop ends with it.
PingReset(r) ==
  /\ PingResets /\ loop[r] = "pinging"
  /\ loop' = [loop EXCEPT ![r] = "crashed"]
  /\ UNCHANGED <<server, healthy, todo, target, alive, starts>>

\* Judging that writes down success only.
JudgeAliveOnly(r) ==
  /\ loop[r] = "judging"
  /\ healthy' = [healthy EXCEPT ![target[r]] = @ \/ alive[r]]
  /\ loop' = [loop EXCEPT ![r] = "sweeping"]
  /\ UNCHANGED <<server, todo, target, alive, starts>>

\* mark_healthy() or mark_unhealthy(), on one result.
Judge(r) ==
  /\ loop[r] = "judging"
  /\ healthy' = [healthy EXCEPT ![target[r]] = alive[r]]
  /\ loop' = [loop EXCEPT ![r] = "sweeping"]
  /\ UNCHANGED <<server, todo, target, alive, starts>>

----------------------------------------------------------------------------
LoopStep(r) ==
  \/ Sweep(r) \/ SweepDone(r) \/ Ping(r)
  \/ PingAnswered(r) \/ PingSilent(r) \/ PingReset(r) \/ Judge(r)

HealthNext ==
  \E r \in Peers :
    LoopStep(r) \/ StartRelay(r) \/ StartFails(r) \/ StopRelay(r) \/ End(r)

\* The loop's sleep is over some time, and its pings end.
HealthFairness == \A r \in Peers : WF_healthVars(LoopStep(r))

HealthSpec == HealthInit /\ [][HealthNext]_healthVars /\ HealthFairness

----------------------------------------------------------------------------
(* Properties.                                                             *)

StaysUp(r) == <>[](server[r] = "up")
StaysDown(r) == <>[](server[r] = "down")

\* Another relay's heartbeat loop goes on.
Watched(r) == \E p \in Peers \ {r} : <>[](loop[p] \notin {"none", "crashed"})

\* A relay that stays down ends up unhealthy for good, whatever results of
\* earlier pings are still under way, as long as another relay watches it.
DeadMarked == \A r \in Peers : StaysDown(r) /\ Watched(r) => <>[](~healthy[r])

\* A relay that stays up and answers in time ends up healthy for good, though
\* pings from before its restart may still report it dead.
LiveRestored ==
  \A r \in Peers \ Slow : StaysUp(r) /\ Watched(r) => <>[](healthy[r])

\* The relays that have a result of pinging r and have yet to write it down.
UnderWay(r, answered) ==
  {p \in Peers : loop[p] = "judging" /\ target[p] = r /\ alive[p] = answered}

\* A step that neither starts nor stops r adds no result that is not true of it,
\* and one that makes its record wrong uses up such a result.
NoNewMistake(r) ==
  /\ server[r] = "down" /\ starts'[r] = starts[r] =>
       /\ UnderWay(r, TRUE)' \subseteq UnderWay(r, TRUE)
       /\ healthy'[r] /\ ~healthy[r] => UnderWay(r, TRUE)' # UnderWay(r, TRUE)
  /\ server[r] = "up" /\ server'[r] = "up" /\ r \notin Slow =>
       /\ UnderWay(r, FALSE)' \subseteq UnderWay(r, FALSE)
       /\ healthy[r] /\ ~healthy'[r] => UnderWay(r, FALSE)' # UnderWay(r, FALSE)

\* While a relay is down, its record is set healthy only by an answer it gave
\* before, and while it is up and answers in time, unhealthy only by a ping that
\* found it down before: by each watcher once at most (_heartbeat_loop).
OldResultsOnly == [][\A r \in Peers : NoNewMistake(r)]_healthVars

\* "If a peer relay goes silent, route around it": any relay that runs is
\* enough to find out.
DeadRoutedAround ==
  \A r \in Peers :
    StaysDown(r) /\ (\E p \in Peers \ {r} : StaysUp(p)) => <>[](~healthy[r])
=============================================================================
