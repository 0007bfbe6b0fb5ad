------------------------------- MODULE Launcher -------------------------------
(***************************************************************************)
(* CityLauncher (city/launcher.py): launch() makes one task per bot, each  *)
(* of which runs BaseNode.start(); shutdown() stops the bots one after the *)
(* other and cancels the tasks.  Both are coroutines of one event loop, so *)
(* that shutdown() may find a bot anywhere in its start.  Connections that *)
(* a closing server waits for are left out.                                *)
(***************************************************************************)
EXTENDS Naturals, Sequences, SequencesExt

CONSTANT Fleet  \* the bots, in the order in which launch() makes them

ASSUME FleetAssumption == IsInjective(Fleet)

VARIABLES
  shutdown,  \* "launching", "stopping", "closing", "returned"
  turn,      \* the bot shutdown() is at: an index of Fleet
  task,      \* the task that runs start()
  cancelled, \* the tasks cancel() was called for
  listening, \* the bots whose port is open
  server,    \* the bots whose _server is set
  caught     \* tasks cancelled between opening a port and setting _server

launcherVars == <<shutdown, turn, task, cancelled, listening, server, caught>>

Bots == Range(Fleet)

\* launch() up to its gather(): the tasks are there, none has run.
LauncherInit ==
  /\ shutdown = "launching" /\ turn = 1
  /\ task = [b \in Bots |-> "created"]
  /\ cancelled = {} /\ listening = {} /\ server = {} /\ caught = {}

Task(b, stage) == task' = [task EXCEPT ![b] = stage]
Runs(b, stage) == task[b] = stage /\ b \notin cancelled

----------------------------------------------------------------------------
(* start(), and what asyncio does in it.                                   *)

\* asyncio.start_server() opens the port, and yields once before it returns.
OpenPort(b) ==
  /\ Runs(b, "created")
  /\ Task(b, "opening") /\ listening' = listening \cup {b}
  /\ UNCHANGED <<shutdown, turn, cancelled, server, caught>>

\* The port is in use: gather() collects the error and launch() goes on.
PortInUse(b) ==
  /\ Runs(b, "created")
  /\ Task(b, "ended")
  /\ UNCHANGED <<shutdown, turn, cancelled, listening, server, caught>>

Serve(b) ==
  /\ Runs(b, "opening")
  /\ Task(b, "serving") /\ server' = server \cup {b}
  /\ UNCHANGED <<shutdown, turn, cancelled, listening, caught>>

\* close() has ended serve_forever().
ServingEnds(b) ==
  /\ Runs(b, "serving") /\ b \notin listening
  /\ Task(b, "ended")
  /\ UNCHANGED <<shutdown, turn, cancelled, listening, server, caught>>

\* A cancelled task leaves "async with self._server", which closes the port;
\* one that has no server yet has nothing to close.
TaskCancelled(b) ==
  /\ b \in cancelled /\ task[b] # "ended"
  /\ Task(b, "ended")
  /\ listening' = IF b \in server THEN listening \ {b} ELSE listening
  /\ UNCHANGED <<shutdown, turn, cancelled, server, caught>>

----------------------------------------------------------------------------
(* shutdown().                                                             *)

ShutdownBegins ==
  /\ shutdown = "launching" /\ shutdown' = "stopping"
  /\ UNCHANGED <<turn, task, cancelled, listening, server, caught>>

\* bot.stop() closes what it finds, and then waits.
CloseServer ==
  /\ shutdown = "stopping" /\ turn <= Len(Fleet) /\ Fleet[turn] \in server
  /\ listening' = listening \ {Fleet[turn]}
  /\ shutdown' = "closing"
  /\ UNCHANGED <<turn, task, cancelled, server, caught>>

ServerClosed ==
  /\ shutdown = "closing"
  /\ shutdown' = "stopping" /\ turn' = turn + 1
  /\ UNCHANGED <<task, cancelled, listening, server, caught>>

\* stop() of a bot that has no server returns without a pause.
NoServer ==
  /\ shutdown = "stopping" /\ turn <= Len(Fleet) /\ Fleet[turn] \notin server
  /\ turn' = turn + 1
  /\ UNCHANGED <<shutdown, task, cancelled, listening, server, caught>>

\* Returning once every bot has been stopped.
ReturnAtOnce ==
  /\ shutdown = "stopping" /\ turn > Len(Fleet)
  /\ shutdown' = "returned"
  /\ UNCHANGED <<turn, task, cancelled, listening, server, caught>>

CancelTasks ==
  /\ shutdown = "stopping" /\ turn > Len(Fleet)
  /\ shutdown' = "returned"
  /\ cancelled' = {b \in Bots : task[b] # "ended"}
  /\ caught' = {b \in Bots : task[b] = "opening"}
  /\ UNCHANGED <<turn, task, listening, server>>

LauncherNext ==
  \/ \E b \in Bots : \/ OpenPort(b) \/ PortInUse(b) \/ Serve(b)
                     \/ ServingEnds(b) \/ TaskCancelled(b)
  \/ ShutdownBegins \/ CloseServer \/ ServerClosed \/ NoServer \/ CancelTasks

LauncherSpec == LauncherInit /\ [][LauncherNext]_launcherVars

----------------------------------------------------------------------------
\* The task of b has nothing left to do.
AtRest(b) ==
  \/ task[b] = "ended"
  \/ task[b] = "serving" /\ b \notin cancelled /\ b \in listening

\* After shutdown() no bot goes on accepting connections, wherever in its
\* start each of them was found: those stopped before they had begun are
\* reached by the cancellation.  Left out is a task cancelled after it had
\* opened its port and before it was handed the server, which nobody closes
\* (CityLauncher.shutdown).
ShutdownComplete ==
  /\ shutdown = "returned"
  /\ \A b \in Bots : AtRest(b)
  => listening \subseteq caught
=============================================================================
