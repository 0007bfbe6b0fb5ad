---------------------------- MODULE CommandCenter ----------------------------
(***************************************************************************)
(* A device's connection to its Command Center: CommandCenterClient and    *)
(* the lifecycle of the CommandCenterNode that owns it.                    *)
(*                                                                         *)
(* Every connection that registers starts a heartbeat loop and a command   *)
(* listener, numbered like the connection.  Either may find the connection *)
(* lost and then reconnects by itself, with a back-off; the loops share    *)
(* the client's fields, which a reconnect replaces under the others.  All  *)
(* run on one asyncio loop: an action is the code between two awaits.      *)
(***************************************************************************)
EXTENDS Naturals

CONSTANT MaxConns    \* bound: connections opened in a behaviour

Conns == 1..MaxConns

ASSUME CommandCenterAssumption == MaxConns \in Nat

VARIABLES
  node,        \* where the node stands between start() and the end of stop()
  connected,   \* CommandCenterClient._connected
  writer,      \* the connection of _reader and _writer, 0 for None
  latest,      \* the pair of loops in _heartbeat_task and _listener_task
  opened,      \* connections opened so far
  wire,        \* wire[c]: what the client's end of c knows
  heart,       \* heart[c]: where _heartbeat_loop number c stands
  sendsOn,     \* sendsOn[c]: the connection whose drain() it waits for, or 0
  listener,    \* listener[c]: where _command_listener number c stands
  readsFrom,   \* readsFrom[c]: the connection it reads, or 0
  victims,     \* the pair of loops disconnect() cancels
  shutdown,    \* the listener whose handler called stop(), 0 if none did
  quiet,       \* disconnect() began with no reconnect under way (history)
  raised       \* the connections on which a frame ended a listener (history)

clientVars == <<connected, writer, latest, opened, wire>>
loopVars == <<heart, sendsOn, listener, readsFrom>>
restVars == <<victims, shutdown, quiet, raised>>
vars == <<node, clientVars, loopVars, restVars>>

Init ==
  /\ node = "off"
  /\ connected = FALSE /\ writer = 0 /\ latest = 0 /\ opened = 0
  /\ wire = [c \in Conns |-> "unused"]
  /\ heart = [c \in Conns |-> "none"] /\ sendsOn = [c \in Conns |-> 0]
  /\ listener = [c \in Conns |-> "none"] /\ readsFrom = [c \in Conns |-> 0]
  /\ victims = 0 /\ shutdown = 0 /\ quiet = FALSE /\ raised = {}

----------------------------------------------------------------------------
(* _do_connect.                                                            *)

\* A connection that makes a listener only where the last one is done.
OpensSparing(hearts, listeners) ==
  LET c == opened + 1
      l == IF latest = 0 \/ listeners[latest] = "over" THEN "reading" ELSE "over"
  IN
  /\ opened < MaxConns
  /\ opened' = c
  /\ wire' = [wire EXCEPT ![c] = "up"]
  /\ connected' = TRUE /\ writer' = c /\ latest' = c
  /\ heart' = [hearts EXCEPT ![c] = "sleeping"]
  /\ listener' = [listeners EXCEPT ![c] = l]
  /\ readsFrom' = [readsFrom EXCEPT ![c] = c]
  /\ UNCHANGED sendsOn

\* open_connection() succeeds and REGISTER is sent: a pair of loops is created
\* beside the caller's, which go on as hearts and listeners say.
Opens(hearts, listeners) ==
  LET c == opened + 1 IN
  /\ opened < MaxConns
  /\ opened' = c
  /\ wire' = [wire EXCEPT ![c] = "up"]
  /\ connected' = TRUE /\ writer' = c /\ latest' = c
  /\ heart' = [hearts EXCEPT ![c] = "sleeping"]
  /\ listener' = [listeners EXCEPT ![c] = "reading"]
  /\ readsFrom' = [readsFrom EXCEPT ![c] = c]
  /\ UNCHANGED sendsOn

\* The connection is reset before REGISTER is out: _connected is set by then,
\* and no loop is created.
RegisterFails(hearts, listeners) ==
  LET c == opened + 1 IN
  /\ opened < MaxConns
  /\ opened' = c
  /\ wire' = [wire EXCEPT ![c] = "reset"]
  /\ connected' = TRUE /\ writer' = c
  /\ heart' = hearts /\ listener' = listeners
  /\ UNCHANGED <<latest, sendsOn, readsFrom>>

\* writer.close(); a connection that was reset stays so.
Closed(c) ==
  IF c = 0 \/ wire[c] = "reset" THEN wire ELSE [wire EXCEPT ![c] = "closed"]

\* _reconnect_with_backoff up to its first sleep.
Reconnect ==
  /\ connected' = FALSE
  /\ wire' = Closed(writer)
  /\ writer' = 0
  /\ UNCHANGED <<latest, opened>>

----------------------------------------------------------------------------
(* _heartbeat_loop number c.                                               *)

\* The loop condition fails: some reconnect or disconnect() is under way.  A
\* heartbeat that is sent, or has no writer to be sent on, changes nothing.
HeartStops(c) ==
  /\ heart[c] = "sleeping" /\ ~connected
  /\ heart' = [heart EXCEPT ![c] = "over"]
  /\ UNCHANGED <<node, clientVars, sendsOn, listener, readsFrom, restVars>>

\* The send buffer is full.
HeartStalls(c) ==
  /\ heart[c] = "sleeping" /\ connected /\ writer # 0 /\ wire[writer] \in {"up", "eof"}
  /\ heart' = [heart EXCEPT ![c] = "draining"]
  /\ sendsOn' = [sendsOn EXCEPT ![c] = writer]
  /\ UNCHANGED <<node, clientVars, listener, readsFrom, restVars>>

HeartDrained(c) ==
  /\ heart[c] = "draining" /\ wire[sendsOn[c]] \in {"up", "eof"}
  /\ heart' = [heart EXCEPT ![c] = "sleeping"]
  /\ sendsOn' = [sendsOn EXCEPT ![c] = 0]
  /\ UNCHANGED <<node, clientVars, listener, readsFrom, restVars>>

\* A loop that logs the failure and goes on.
HeartIgnoresFailure(c) == FALSE

\* drain() raises: at once, or while the loop waits in it.
HeartFails(c) ==
  /\ \/ heart[c] = "sleeping" /\ connected /\ writer # 0 /\ wire[writer] \in {"reset", "closed"}
     \/ heart[c] = "draining" /\ wire[sendsOn[c]] \in {"reset", "closed"}
  /\ heart' = [heart EXCEPT ![c] = "backoff"]
  /\ sendsOn' = [sendsOn EXCEPT ![c] = 0]
  /\ Reconnect
  /\ UNCHANGED <<node, listener, readsFrom, restVars>>

\* The reconnect is over and this loop goes on beside the one it created.
HeartResumes(c) == [heart EXCEPT ![c] = "sleeping"]

HeartReconnects(c) ==
  /\ heart[c] = "backoff"
  /\ Opens(HeartResumes(c), listener) \/ RegisterFails(HeartResumes(c), listener)
  /\ UNCHANGED <<node, restVars>>

\* The attempt fails, and by now another loop has reconnected.
HeartGivesUp(c) ==
  /\ heart[c] = "backoff" /\ connected
  /\ heart' = HeartResumes(c)
  /\ UNCHANGED <<node, clientVars, sendsOn, listener, readsFrom, restVars>>

----------------------------------------------------------------------------
(* _command_listener number c.                                             *)

ListenerMoves(c, to) ==
  /\ listener' = [listener EXCEPT ![c] = to]
  /\ readsFrom' = [readsFrom EXCEPT ![c] = 0]
  /\ UNCHANGED <<heart, sendsOn>>

ReceiveCommand(c) ==
  /\ listener[c] = "reading" /\ wire[readsFrom[c]] = "up"
  /\ ListenerMoves(c, "handling")
  /\ UNCHANGED <<node, clientVars, restVars>>

\* A frame that decodes to no object, or to one whose intent cannot be looked up,
\* raises before the handler's try: the listener's task ends and nobody is told.
ListenerRaises(c) ==
  /\ listener[c] = "reading" /\ wire[readsFrom[c]] = "up"
  /\ ListenerMoves(c, "over")
  /\ raised' = raised \cup {readsFrom[c]}
  /\ UNCHANGED <<node, clientVars, victims, shutdown, quiet>>

\* The handler is done.  The next read is from whatever _reader holds by now;
\* a second reader of one stream is refused with a RuntimeError.
CommandHandled(c) ==
  /\ listener[c] = "handling" /\ shutdown # c
  /\ IF connected /\ writer # 0
          /\ \A d \in Conns : ~(listener[d] = "reading" /\ readsFrom[d] = writer)
       THEN /\ listener' = [listener EXCEPT ![c] = "reading"]
            /\ readsFrom' = [readsFrom EXCEPT ![c] = writer]
            /\ UNCHANGED <<heart, sendsOn>>
       ELSE ListenerMoves(c, "over")
  /\ UNCHANGED <<node, clientVars, restVars>>

\* A listener that reconnects whatever became of the client meanwhile.
NoFrameBlindly(c) ==
  /\ Reconnect /\ ListenerMoves(c, "backoff")
  /\ UNCHANGED <<node, restVars>>

\* _recv_frame returns None: the listener reconnects, unless it sees that the
\* client is disconnected or that another loop is reconnecting.
NoFrame(c) ==
  /\ IF connected THEN Reconnect /\ ListenerMoves(c, "backoff")
                  ELSE UNCHANGED clientVars /\ ListenerMoves(c, "over")
  /\ UNCHANGED <<node, restVars>>

ListenerEnds(c) ==
  listener[c] = "reading" /\ wire[readsFrom[c]] \in {"eof", "closed"} /\ NoFrame(c)

\* A frame that cannot be decoded is taken for the end of the connection.
BadFrame(c) == listener[c] = "reading" /\ wire[readsFrom[c]] = "up" /\ NoFrame(c)

\* _recv_frame lets a ConnectionResetError through.
ListenerDies(c) ==
  /\ listener[c] = "reading" /\ wire[readsFrom[c]] = "reset"
  /\ ListenerMoves(c, "over")
  /\ UNCHANGED <<node, clientVars, restVars>>

ListenerLeaves(c) == [listener EXCEPT ![c] = "over"]

ListenerReconnects(c) ==
  /\ listener[c] = "backoff"
  /\ Opens(heart, ListenerLeaves(c)) \/ RegisterFails(heart, ListenerLeaves(c))
  /\ UNCHANGED <<node, restVars>>

ListenerGivesUp(c) ==
  /\ listener[c] = "backoff" /\ connected
  /\ ListenerMoves(c, "over")
  /\ UNCHANGED <<node, clientVars, restVars>>

----------------------------------------------------------------------------
(* CommandCenterNode.start() and stop(), disconnect().                     *)

\* The first connect() may fail: the node then runs standalone.
Start ==
  /\ node = "off"
  /\ node' = "running"
  /\ \/ Opens(heart, listener)
     \/ RegisterFails(heart, listener)
     \/ UNCHANGED <<clientVars, loopVars>>
  /\ UNCHANGED restVars

\* The loops that may still reconnect when disconnect() has begun: the heartbeat
\* loops it spares, and any listener before it is cancelled.
Revivers ==
  {c \in Conns : c # latest /\ heart[c] \in {"draining", "backoff"}}
    \cup {c \in Conns : listener[c] = "backoff"}

Over(loops, c) ==
  IF c = 0 \/ loops[c] = "none" THEN loops ELSE [loops EXCEPT ![c] = "over"]

\* disconnect() is called only while the client is connected; it takes the two
\* latest loops and cancels the heartbeat loop.
Disconnect ==
  /\ connected' = FALSE
  /\ victims' = latest
  /\ quiet' = (Revivers = {})
  /\ heart' = Over(heart, latest)
  /\ node' = "cancelling"
  /\ UNCHANGED <<writer, latest, opened, wire, sendsOn, listener, readsFrom, raised>>

SkipDisconnect ==
  /\ node' = "stopped"
  /\ UNCHANGED <<clientVars, loopVars, victims, quiet, raised>>

\* stop() looks at is_connected: a client that is reconnecting is left alone.
StopBy(c) ==
  /\ node = "running"
  /\ shutdown' = c
  /\ IF connected THEN Disconnect ELSE SkipDisconnect

Stop == StopBy(0)

\* The handler of the "shutdown" command calls stop() inside its listener.
Shutdown(c) == listener[c] = "handling" /\ StopBy(c)

\* The listener is cancelled, and awaited, unless it is the caller itself.
ListenerCancelled ==
  IF victims = shutdown THEN listener ELSE Over(listener, victims)

CancelListener ==
  /\ node = "cancelling"
  /\ listener' = ListenerCancelled
  /\ wire' = Closed(writer)
  /\ node' = "closing"
  /\ UNCHANGED <<connected, writer, latest, opened, heart, sendsOn, readsFrom, restVars>>

\* wait_closed() returns; _reader and _writer are cleared whatever they hold.
Closes ==
  /\ node = "closing"
  /\ writer' = 0
  /\ node' = "stopped"
  /\ UNCHANGED <<connected, latest, opened, wire, loopVars, restVars>>

\* stop() returns to the handler that called it, whose listener goes on.
ShutdownReturns(c) ==
  /\ shutdown = c /\ node = "stopped"
  /\ shutdown' = 0
  /\ UNCHANGED <<node, clientVars, loopVars, victims, quiet, raised>>

----------------------------------------------------------------------------
\* The peer closes the connection, or it is reset.
Lose(c) ==
  /\ \/ wire[c] = "up" /\ \E w \in {"eof", "reset"} : wire' = [wire EXCEPT ![c] = w]
     \/ wire[c] = "eof" /\ wire' = [wire EXCEPT ![c] = "reset"]
  /\ UNCHANGED <<node, connected, writer, latest, opened, loopVars, restVars>>

----------------------------------------------------------------------------
HeartStep(c) == HeartStops(c) \/ HeartDrained(c) \/ HeartFails(c) \/ HeartGivesUp(c)

ListenerStep(c) ==
  CommandHandled(c) \/ ListenerEnds(c) \/ ListenerDies(c) \/ ListenerGivesUp(c)

StopStep == CancelListener \/ Closes \/ \E c \in Conns : ShutdownReturns(c)

Next ==
  \/ Start \/ Stop \/ StopStep
  \/ \E c \in Conns :
       \/ HeartStep(c) \/ HeartStalls(c) \/ HeartReconnects(c)
       \/ ListenerStep(c) \/ ReceiveCommand(c) \/ ListenerRaises(c) \/ BadFrame(c)
       \/ ListenerReconnects(c)
       \/ Shutdown(c) \/ Lose(c)

\* The loop runs its tasks and its sleeps end; the peer owes nothing.
Fairness ==
  /\ \A c \in Conns : WF_vars(HeartStep(c)) /\ WF_vars(ListenerStep(c))
  /\ WF_vars(StopStep)

Spec == Init /\ [][Next]_vars /\ Fairness

----------------------------------------------------------------------------
(* Properties.                                                             *)

HeartAlive(c) == heart[c] \in {"sleeping", "draining", "backoff"}
ListenerAlive(c) == listener[c] \in {"reading", "handling", "backoff"}

\* The client believes in a connection that is up.
Live == connected /\ writer # 0 /\ wire[writer] = "up"

Listened ==
  \E c \in Conns : listener[c] = "handling" \/ (listener[c] = "reading" /\ readsFrom[c] = writer)

\* As long as the client believes in a connection that is up, some loop sends
\* its heartbeats, and some listener takes its commands unless a frame of this
\* connection has ended its listener, whichever loops reconnected, gave up or
\* collided on the reader before.
Attended ==
  Live => /\ \E c \in Conns : heart[c] \in {"sleeping", "draining"}
          /\ Listened \/ writer \in raised

\* disconnect() "gracefully stop[s] background tasks": a node that was stopped
\* stays disconnected, unless stop() found a reconnect under way.
StopsQuietly == node \in {"cancelling", "closing", "stopped"} /\ quiet => ~connected

\* stop() disconnects from the Command Center, for good.
StopDisconnects == node = "stopped" => ~connected

\* "Reconnects automatically": a client never stays on a connection that was
\* lost while one of its loops is alive, unless a frame ended the last listener
\* and only an end of file has come since, which no heartbeat meets.
LossNoticed ==
  []<>(\/ ~connected \/ writer = 0 \/ wire[writer] = "up"
       \/ writer \in raised /\ wire[writer] = "eof" /\ ~Listened
       \/ \A c \in Conns : ~HeartAlive(c) /\ ~ListenerAlive(c))
=============================================================================
