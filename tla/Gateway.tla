------------------------------- MODULE Gateway -------------------------------
(***************************************************************************)
(* The public gateway (GatewayNode and its _NodeChannel), the private      *)
(* nodes' clients (GatewayClient) and the TCP connections between them.    *)
(*                                                                         *)
(* A private node connects outbound and registers; the gateway keeps the   *)
(* connection in the routing table, forwards the requests of public        *)
(* clients over it, and matches the answers by correlation id.             *)
(*                                                                         *)
(* Everything in one process runs on one asyncio loop, so an action is the *)
(* code between two awaits.  There is one task per registered connection   *)
(* (handler), one read loop per channel (reader), one task per request     *)
(* (phase) and, in each private node, a read loop and a heartbeat loop.    *)
(*                                                                         *)
(* A connection is used once.  NodeOf says which node opens it, so two     *)
(* connections of one node are a node that reconnects.  A connection has   *)
(* two ends that learn separately that it is gone, by an end of file or by *)
(* a reset; what was in flight is lost from some point on.  An end that is *)
(* closed reads no more, but stays connected until its send buffer, if it  *)
(* is over its mark, has been taken by the other end.                      *)
(***************************************************************************)
EXTENDS Naturals, Sequences

CONSTANTS
  Nodes,          \* private nodes, named by node_id
  Conns,          \* TCP connections private nodes may open to the gateway
  Requests,       \* requests public clients send, each handled by one task
  Ids,            \* message ids
  NodeOf,         \* NodeOf[c]: the node that opens connection c
  Target,         \* Target[r]: receiver_id of request r
  MessageId,      \* MessageId[r]: message_id of request r
  NoConn, NoRequest, NoId,
  Endings,        \* how an end may learn that its connection is gone
  HighWater,      \* messages a send buffer holds before drain() waits
  MaxHeartbeats   \* bound: heartbeats each node sends in a behaviour

ASSUME GatewayAssumption ==
  /\ NodeOf \in [Conns -> Nodes]
  /\ Target \in [Requests -> Nodes]
  /\ MessageId \in [Requests -> Ids]
  /\ NoConn \notin Conns /\ NoRequest \notin Requests /\ NoId \notin Ids
  /\ Endings \subseteq {"eof", "reset"}
  /\ HighWater \in Nat /\ MaxHeartbeats \in Nat

VARIABLES
  wire,      \* wire[c]: "unused", "up" or "down"
  gwEnd,     \* what the gateway's end of c knows: "open", "eof", "reset", "closed"
  nodeEnd,   \* the same for the node's end
  up,        \* up[c]: messages on their way to the gateway
  down,      \* down[c]: messages on their way to the node
  running,   \* GatewayNode._running: the listening socket is open
  handler,   \* handler[c]: where the _handle_connection task of c stands
  reader,    \* reader[c]: where _NodeChannel._read_loop of c stands
  routes,    \* GatewayNode._routes, NoConn where a node has no entry
  pending,   \* pending[c]: the requests whose futures are in _pending
  ledger,    \* the entries the gateway recorded
  phase,     \* phase[r]: where the task of request r stands
  chanOf,    \* chanOf[r]: the channel r was forwarded on
  fut,       \* the future of r
  answer,    \* the request whose response resolved the future of r
  client,    \* client[n]: where the read loop of n's GatewayClient stands
  conn,      \* conn[n]: its current connection
  job,       \* job[n]: the message its handler is dispatching (Ack when none is)
  executed,  \* executed[r]: how often r was dispatched to a handler (history)
  beats      \* beats[n]: heartbeats n has sent

netVars  == <<wire, gwEnd, nodeEnd, up, down>>
gwVars   == <<running, handler, reader, routes, pending, ledger>>
reqVars  == <<phase, chanOf, fut, answer>>
nodeVars == <<client, conn, job, executed, beats>>
vars == <<netVars, gwVars, reqVars, nodeVars>>

----------------------------------------------------------------------------
(* Messages.  An answer carries the id of the message it answers and, as a *)
(* history, the request whose handling produced it.                        *)

Ack         == [kind |-> "ack", req |-> NoRequest]
PingReply   == [kind |-> "heartbeat", req |-> NoRequest]
Forwarded(r) == [kind |-> "forward", req |-> r]
DownMessages == {Ack, PingReply} \cup {Forwarded(r) : r \in Requests}

Ping      == [kind |-> "heartbeat", cid |-> NoId, from |-> NoRequest]
PingEcho  == [kind |-> "respond", cid |-> NoId, from |-> NoRequest]
Response(r) == [kind |-> "respond", cid |-> MessageId[r], from |-> r]
UpMessages == {Ping, PingEcho} \cup {Response(r) : r \in Requests}

\* What dispatch() of the node returns for m: every built-in handler answers
\* with the id of the message it was given.
AnswerTo(m) == IF m.req = NoRequest THEN PingEcho ELSE Response(m.req)

Registered(c)   == <<"registered", c>>
Disconnected(c) == <<"disconnected", c>>
Answered(r)     == <<"forwarded", r>>

\* writer.write(m) on a connection that is gone loses the message.
Written(q, c, m) == [q EXCEPT ![c] = IF wire[c] = "up" THEN Append(@, m) ELSE @]

\* writer.drain() returns at once while the buffer is below its mark, waits
\* until the peer has taken enough, and raises an OSError once the connection
\* was reset, or closed and its buffer flushed.  close() wakes nobody who waits
\* in drain(): the transport first flushes what was written.  After an end of
\* file a write still succeeds.
Drained(q, c) == Len(q[c]) <= HighWater
GatewayBroken(c) == gwEnd[c] = "reset" \/ (gwEnd[c] = "closed" /\ Drained(down, c))

\* Where a task of the gateway stands after it wrote q' on c: past its drain()
\* or waiting in it.
AfterWrite(c, past, waiting) ==
  IF Drained(down', c) /\ ~GatewayBroken(c) THEN past ELSE waiting

----------------------------------------------------------------------------
Init ==
  /\ wire = [c \in Conns |-> "unused"]
  /\ gwEnd = [c \in Conns |-> "open"]
  /\ nodeEnd = [c \in Conns |-> "open"]
  /\ up = [c \in Conns |-> <<>>]
  /\ down = [c \in Conns |-> <<>>]
  /\ running = TRUE
  /\ handler = [c \in Conns |-> "none"]
  /\ reader = [c \in Conns |-> "none"]
  /\ routes = [n \in Nodes |-> NoConn]
  /\ pending = [c \in Conns |-> {}]
  /\ ledger = {}
  /\ phase = [r \in Requests |-> "idle"]
  /\ chanOf = [r \in Requests |-> NoConn]
  /\ fut = [r \in Requests |-> "none"]
  /\ answer = [r \in Requests |-> NoRequest]
  /\ client = [n \in Nodes |-> "off"]
  /\ conn = [n \in Nodes |-> NoConn]
  /\ job = [n \in Nodes |-> Ack]
  /\ executed = [r \in Requests |-> 0]
  /\ beats = [n \in Nodes |-> 0]

----------------------------------------------------------------------------
(* GatewayNode: registration of a private node's connection c.             *)

\* The entry is removed by node_id, whichever channel it holds by now.
WithoutRoute(c) == [routes EXCEPT ![NodeOf[c]] = NoConn]

\* writer.close() on the connections C: the gateway reads no more.  The socket
\* is closed, and what was not read is lost, once the buffer has been flushed.
CloseAtGateway(C) ==
  LET flushed == {c \in C : Drained(down, c)} IN
  /\ gwEnd' = [c \in Conns |-> IF c \in C /\ gwEnd[c] # "reset" THEN "closed" ELSE gwEnd[c]]
  /\ wire' = [c \in Conns |-> IF c \in flushed THEN "down" ELSE wire[c]]
  /\ up' = [c \in Conns |-> IF c \in flushed THEN <<>> ELSE up[c]]
  /\ UNCHANGED <<nodeEnd, down>>

\* The finally clause of _read_loop: the futures still waiting are cancelled.
CancelPending(C) ==
  /\ fut' = [r \in Requests |->
               IF \E c \in C : r \in pending[c] /\ fut[r] = "pending"
                 THEN "cancelled" ELSE fut[r]]
  /\ pending' = [c \in Conns |-> IF c \in C THEN {} ELSE pending[c]]
  /\ UNCHANGED <<phase, chanOf, answer>>

\* The channel is published and the ACK left to a step after an await.
RegisterBeforeAck(c) ==
  /\ handler[c] = "accepted" /\ gwEnd[c] \in {"open", "eof"}
  /\ handler' = [handler EXCEPT ![c] = "serving"]
  /\ reader' = [reader EXCEPT ![c] = "reading"]
  /\ routes' = [routes EXCEPT ![NodeOf[c]] = c]
  /\ ledger' = ledger \cup {Registered(c)}
  /\ UNCHANGED <<netVars, running, pending, reqVars, nodeVars>>

\* A registration with a valid signature: the read loop is started, the route
\* set and the ACK written with no await in between.
Register(c) ==
  /\ handler[c] = "accepted" /\ gwEnd[c] \in {"open", "eof"}
  /\ reader' = [reader EXCEPT ![c] = "reading"]
  /\ routes' = [routes EXCEPT ![NodeOf[c]] = c]
  /\ ledger' = ledger \cup {Registered(c)}
  /\ down' = Written(down, c, Ack)
  /\ handler' = [handler EXCEPT ![c] = AfterWrite(c, "serving", "acking")]
  /\ UNCHANGED <<wire, gwEnd, nodeEnd, up, running, pending, reqVars, nodeVars>>

\* No sender_id, a bad signature, or a first message that never arrives.
Reject(c) ==
  /\ handler[c] = "accepted"
  /\ handler' = [handler EXCEPT ![c] = "done"]
  /\ CloseAtGateway({c})
  /\ UNCHANGED <<running, reader, routes, pending, ledger, reqVars, nodeVars>>

AckDrained(c) ==
  /\ handler[c] = "acking" /\ Drained(down, c)
  /\ handler' = [handler EXCEPT ![c] = "serving"]
  /\ UNCHANGED <<netVars, running, reader, routes, pending, ledger, reqVars, nodeVars>>

\* The ACK cannot be sent: the channel is closed and forgotten, with no entry
\* in the ledger.
AckFails(c) ==
  /\ handler[c] = "acking" /\ GatewayBroken(c)
  /\ handler' = [handler EXCEPT ![c] = "done"]
  /\ reader' = [reader EXCEPT ![c] = "cancelled"]
  /\ routes' = WithoutRoute(c)
  /\ CancelPending({c})
  /\ CloseAtGateway({c})
  /\ UNCHANGED <<running, ledger, nodeVars>>

\* The cleanup that leaves the entry of a channel that is gone.
UnregisterKeepsRoute(c) ==
  /\ handler[c] = "serving" /\ reader[c] \in {"ended", "cancelled"}
  /\ handler' = [handler EXCEPT ![c] = "done"]
  /\ ledger' = ledger \cup {Disconnected(c)}
  /\ CloseAtGateway({c})
  /\ UNCHANGED <<running, routes, reader, pending, reqVars, nodeVars>>

\* The read loop returned or was cancelled.
Unregister(c) ==
  /\ handler[c] = "serving" /\ reader[c] \in {"ended", "cancelled"}
  /\ handler' = [handler EXCEPT ![c] = "done"]
  /\ routes' = WithoutRoute(c)
  /\ ledger' = ledger \cup {Disconnected(c)}
  /\ CloseAtGateway({c})
  /\ UNCHANGED <<running, reader, pending, reqVars, nodeVars>>

\* The read loop raised: the exception leaves _register_node at its await and
\* neither the route nor the ledger is touched.
RegistrationRaises(c) ==
  /\ handler[c] = "serving" /\ reader[c] = "raised"
  /\ handler' = [handler EXCEPT ![c] = "done"]
  /\ CloseAtGateway({c})
  /\ UNCHANGED <<running, reader, routes, pending, ledger, reqVars, nodeVars>>

----------------------------------------------------------------------------
(* _NodeChannel: the read loop of c and the send lock.                     *)

\* A send lock that a failed forward keeps.
LockKept(c) ==
  /\ reader[c] # "replying"
  /\ \A r \in Requests : ~(chanOf[r] = c /\ phase[r] \in {"sending", "failed"})

\* Whoever is inside `async with self._send_lock` is writing or draining.
LockFree(c) ==
  /\ reader[c] # "replying"
  /\ \A r \in Requests : ~(chanOf[r] = c /\ phase[r] = "sending")

CanRead(c) == reader[c] = "reading" /\ gwEnd[c] \in {"open", "eof"} /\ up[c] # <<>>

Taken(q, c) == [q EXCEPT ![c] = Tail(@)]

SendPingReply(c) ==
  /\ down' = Written(down, c, PingReply)
  /\ reader' = [reader EXCEPT ![c] = AfterWrite(c, "reading", "replying")]

ReadHeartbeat(c) ==
  /\ CanRead(c) /\ Head(up[c]).kind = "heartbeat"
  /\ up' = Taken(up, c)
  /\ IF LockFree(c) THEN SendPingReply(c)
     ELSE reader' = [reader EXCEPT ![c] = "locking"] /\ UNCHANGED down
  /\ UNCHANGED <<wire, gwEnd, nodeEnd, running, handler, routes, pending, ledger,
                 reqVars, nodeVars>>

HeartbeatReply(c) ==
  /\ reader[c] = "locking" /\ LockFree(c)
  /\ SendPingReply(c)
  /\ UNCHANGED <<wire, gwEnd, nodeEnd, up, running, handler, routes, pending, ledger,
                 reqVars, nodeVars>>

HeartbeatReplied(c) ==
  /\ reader[c] = "replying" /\ Drained(down, c)
  /\ reader' = [reader EXCEPT ![c] = "reading"]
  /\ UNCHANGED <<netVars, running, handler, routes, pending, ledger, reqVars, nodeVars>>

HeartbeatReplyFails(c) ==
  /\ reader[c] = "replying" /\ GatewayBroken(c)
  /\ reader' = [reader EXCEPT ![c] = "ended"]
  /\ CancelPending({c})
  /\ UNCHANGED <<netVars, running, handler, routes, ledger, nodeVars>>

\* The first waiting future, whatever id the response carries.
AnyWaiting(c, m) == pending[c]

\* The requests of c a response resolves: those waiting under its id.
Waiting(c, m) == {r \in pending[c] : MessageId[r] = m.cid}

ReadResponse(c) ==
  /\ CanRead(c) /\ Head(up[c]).kind = "respond"
  /\ up' = Taken(up, c)
  /\ LET m == Head(up[c])
         woken == {r \in Waiting(c, m) : fut[r] = "pending"}
     IN  /\ pending' = [pending EXCEPT ![c] = @ \ Waiting(c, m)]
         /\ fut' = [r \in Requests |-> IF r \in woken THEN "result" ELSE fut[r]]
         /\ answer' = [r \in Requests |-> IF r \in woken THEN m.from ELSE answer[r]]
  /\ UNCHANGED <<wire, gwEnd, nodeEnd, down, running, handler, reader, routes, ledger,
                 phase, chanOf, nodeVars>>

\* A read loop that takes the None of a closed connection for a bad frame.
ReadEndSkipped(c) ==
  /\ reader[c] = "reading" /\ gwEnd[c] = "eof" /\ up[c] = <<>>
  /\ UNCHANGED vars

ReadEnd(c) ==
  /\ reader[c] = "reading" /\ gwEnd[c] = "eof" /\ up[c] = <<>>
  /\ reader' = [reader EXCEPT ![c] = "ended"]
  /\ CancelPending({c})
  /\ UNCHANGED <<netVars, running, handler, routes, ledger, nodeVars>>

\* _recv_message lets a ConnectionResetError through.
ReadReset(c) ==
  /\ reader[c] = "reading" /\ gwEnd[c] = "reset"
  /\ reader' = [reader EXCEPT ![c] = "raised"]
  /\ CancelPending({c})
  /\ UNCHANGED <<netVars, running, handler, routes, ledger, nodeVars>>

----------------------------------------------------------------------------
(* GatewayNode._forward_request and _NodeChannel.forward: request r.       *)

ForwardRefused(r) ==
  /\ phase[r] = "idle" /\ routes[Target[r]] = NoConn
  /\ phase' = [phase EXCEPT ![r] = "refused"]
  /\ UNCHANGED <<netVars, gwVars, chanOf, fut, answer, nodeVars>>

\* _pending is a dict: a request with the same id takes the entry over.
WithFuture(c, r) ==
  [pending EXCEPT ![c] = {q \in @ : MessageId[q] # MessageId[r]} \cup {r}]

\* A cleanup that clears the whole table.
WithoutFutures(c, r) == [pending EXCEPT ![c] = {}]

WithoutFuture(c, r) == [pending EXCEPT ![c] = {q \in @ : MessageId[q] # MessageId[r]}]

SendForwarded(c, r) ==
  /\ down' = Written(down, c, Forwarded(r))
  /\ phase' = [phase EXCEPT ![r] = AfterWrite(c, "awaiting", "sending")]

Forward(r) ==
  LET c == routes[Target[r]] IN
  /\ phase[r] = "idle" /\ c # NoConn
  /\ chanOf' = [chanOf EXCEPT ![r] = c]
  /\ fut' = [fut EXCEPT ![r] = "pending"]
  /\ pending' = WithFuture(c, r)
  /\ IF LockFree(c) THEN SendForwarded(c, r)
     ELSE phase' = [phase EXCEPT ![r] = "locking"] /\ UNCHANGED down
  /\ UNCHANGED <<wire, gwEnd, nodeEnd, up, running, handler, reader, routes, ledger, answer,
                 nodeVars>>

ForwardWrite(r) ==
  /\ phase[r] = "locking" /\ LockFree(chanOf[r])
  /\ SendForwarded(chanOf[r], r)
  /\ UNCHANGED <<wire, gwEnd, nodeEnd, up, gwVars, chanOf, fut, answer, nodeVars>>

ForwardSent(r) ==
  /\ phase[r] = "sending" /\ Drained(down, chanOf[r])
  /\ phase' = [phase EXCEPT ![r] = "awaiting"]
  /\ UNCHANGED <<netVars, gwVars, chanOf, fut, answer, nodeVars>>

\* forward() returns None and the error reply goes out.
ForwardFails(r) ==
  /\ phase' = [phase EXCEPT ![r] = "failed"]
  /\ pending' = WithoutFuture(chanOf[r], r)
  /\ UNCHANGED <<netVars, running, handler, reader, routes, ledger, chanOf, fut, answer,
                 nodeVars>>

ForwardBroken(r) ==
  /\ phase[r] = "sending" /\ GatewayBroken(chanOf[r])
  /\ ForwardFails(r)

\* The timer may also win against an answer that has just arrived.
ForwardTimeout(r) == phase[r] = "awaiting" /\ ForwardFails(r)

ForwardAnswered(r) ==
  /\ phase[r] = "awaiting" /\ fut[r] = "result"
  /\ phase' = [phase EXCEPT ![r] = "answered"]
  /\ pending' = WithoutFuture(chanOf[r], r)
  /\ ledger' = ledger \cup {Answered(r)}
  /\ UNCHANGED <<netVars, running, handler, reader, routes, chanOf, fut, answer, nodeVars>>

----------------------------------------------------------------------------
\* GatewayNode.stop(): the channels in the routing table are closed; one whose
\* buffer is full stays up until the node has taken it.
Stop ==
  LET routed == {c \in Conns : routes[NodeOf[c]] = c}
      live   == {c \in routed : reader[c] \in {"reading", "locking", "replying"}}
  IN
  /\ running
  /\ running' = FALSE
  /\ routes' = [n \in Nodes |-> NoConn]
  /\ CloseAtGateway(routed)
  /\ reader' = [c \in Conns |-> IF c \in live THEN "cancelled" ELSE reader[c]]
  /\ CancelPending(live)
  /\ UNCHANGED <<handler, ledger, nodeVars>>

----------------------------------------------------------------------------
(* GatewayClient: the private node n.                                      *)

\* connect() up to the registration message; the gateway accepts the socket.
Connect(c) ==
  LET n == NodeOf[c] IN
  /\ running /\ wire[c] = "unused" /\ client[n] = "off"
  /\ wire' = [wire EXCEPT ![c] = "up"]
  /\ handler' = [handler EXCEPT ![c] = "accepted"]
  /\ client' = [client EXCEPT ![n] = "registering"]
  /\ conn' = [conn EXCEPT ![n] = c]
  /\ UNCHANGED <<gwEnd, nodeEnd, up, down, running, reader, routes, pending, ledger,
                 reqVars, job, executed, beats>>

Readable(n) == nodeEnd[conn[n]] # "reset" /\ down[conn[n]] # <<>>

ReceiveAck(n) ==
  /\ client[n] = "registering" /\ Readable(n) /\ Head(down[conn[n]]) = Ack
  /\ down' = Taken(down, conn[n])
  /\ client' = [client EXCEPT ![n] = "reading"]
  /\ UNCHANGED <<wire, gwEnd, nodeEnd, up, gwVars, reqVars, conn, job, executed, beats>>

\* The node leaves its connection; what it has written still arrives.
Leave(n, flushed) ==
  /\ wire' = [wire EXCEPT ![conn[n]] = IF flushed THEN "down" ELSE @]
  /\ nodeEnd' = [nodeEnd EXCEPT ![conn[n]] = "closed"]
  /\ down' = [down EXCEPT ![conn[n]] = IF flushed THEN <<>> ELSE @]
  /\ client' = [client EXCEPT ![n] = "off"]
  /\ conn' = [conn EXCEPT ![n] = NoConn]
  /\ job' = [job EXCEPT ![n] = Ack]
  /\ UNCHANGED <<gwEnd, up, gwVars, reqVars, executed, beats>>

\* writer.close() of the node: the socket, too, is closed when it is flushed.
CloseAtNode(n) == Leave(n, Drained(up, conn[n]))

\* No ACK in time, another first message, or the connection is lost.
RegistrationFails(n) == client[n] = "registering" /\ CloseAtNode(n)

Disconnect(n) ==
  /\ client[n] \in {"reading", "dispatching", "sending", "dead"}
  /\ CloseAtNode(n)

\* The end of the node's process: its kernel closes the socket at once.
NodeEnds(n) == client[n] # "off" /\ Leave(n, TRUE)

Dispatched(m) == [r \in Requests |-> executed[r] + (IF m.req = r THEN 1 ELSE 0)]

\* A node that leaves the message in its buffer while it dispatches it.
ReadForwardedKept(n) ==
  LET m == Head(down[conn[n]]) IN
  /\ client[n] = "reading" /\ Readable(n)
  /\ client' = [client EXCEPT ![n] = "dispatching"]
  /\ job' = [job EXCEPT ![n] = m]
  /\ executed' = Dispatched(m)
  /\ UNCHANGED <<netVars, gwVars, reqVars, conn, beats>>

\* The read loop dispatches whatever it reads, heartbeat replies included.
ReadForwarded(n) ==
  LET m == Head(down[conn[n]]) IN
  /\ client[n] = "reading" /\ Readable(n)
  /\ down' = Taken(down, conn[n])
  /\ client' = [client EXCEPT ![n] = "dispatching"]
  /\ job' = [job EXCEPT ![n] = m]
  /\ executed' = Dispatched(m)
  /\ UNCHANGED <<wire, gwEnd, nodeEnd, up, gwVars, reqVars, conn, beats>>

Respond(n) ==
  LET c == conn[n] IN
  /\ client[n] = "dispatching"
  /\ up' = Written(up, c, AnswerTo(job[n]))
  /\ client' = [client EXCEPT ![n] = IF Drained(up', c) /\ nodeEnd[c] # "reset"
                                       THEN "reading" ELSE "sending"]
  /\ job' = [job EXCEPT ![n] = Ack]
  /\ UNCHANGED <<wire, gwEnd, nodeEnd, down, gwVars, reqVars, conn, executed, beats>>

NodeMoves(n, to) ==
  /\ client' = [client EXCEPT ![n] = to]
  /\ job' = [job EXCEPT ![n] = Ack]
  /\ UNCHANGED <<netVars, gwVars, reqVars, conn, executed, beats>>

\* No handler for the intent, or the handler raised.
RespondNothing(n) == client[n] = "dispatching" /\ NodeMoves(n, "reading")

ResponseSent(n) ==
  client[n] = "sending" /\ Drained(up, conn[n]) /\ NodeMoves(n, "reading")

ResponseFails(n) ==
  client[n] = "sending" /\ nodeEnd[conn[n]] = "reset" /\ NodeMoves(n, "dead")

ReadDropped(n) ==
  /\ client[n] = "reading"
  /\ nodeEnd[conn[n]] = "reset" \/ (nodeEnd[conn[n]] = "eof" /\ down[conn[n]] = <<>>)
  /\ NodeMoves(n, "dead")

\* The heartbeat loop runs beside the read loop.
Heartbeat(n) ==
  /\ client[n] \in {"reading", "dispatching", "sending"}
  /\ beats[n] < MaxHeartbeats
  /\ beats' = [beats EXCEPT ![n] = @ + 1]
  /\ up' = Written(up, conn[n], Ping)
  /\ UNCHANGED <<wire, gwEnd, nodeEnd, down, gwVars, reqVars, client, conn, job, executed>>

----------------------------------------------------------------------------
(* The network.                                                            *)

\* The connection is lost; a prefix of what was in flight still arrives.
Drop(c) ==
  /\ wire[c] = "up"
  /\ wire' = [wire EXCEPT ![c] = "down"]
  /\ \E i \in 0..Len(up[c]) : up' = [up EXCEPT ![c] = SubSeq(@, 1, i)]
  /\ \E i \in 0..Len(down[c]) : down' = [down EXCEPT ![c] = SubSeq(@, 1, i)]
  /\ UNCHANGED <<gwEnd, nodeEnd, gwVars, reqVars, nodeVars>>

\* An end learns that the connection is gone; a reset may follow an end of file.
GatewayLearns(c) ==
  /\ wire[c] = "down"
  /\ \/ gwEnd[c] = "open" /\ \E e \in Endings : gwEnd' = [gwEnd EXCEPT ![c] = e]
     \/ /\ gwEnd[c] = "eof" \/ (gwEnd[c] = "closed" /\ ~Drained(down, c))
        /\ "reset" \in Endings
        /\ gwEnd' = [gwEnd EXCEPT ![c] = "reset"]
  /\ UNCHANGED <<wire, nodeEnd, up, down, gwVars, reqVars, nodeVars>>

NodeLearns(c) ==
  /\ wire[c] = "down"
  /\ \/ nodeEnd[c] = "open" /\ \E e \in Endings : nodeEnd' = [nodeEnd EXCEPT ![c] = e]
     \/ nodeEnd[c] = "eof" /\ "reset" \in Endings /\ nodeEnd' = [nodeEnd EXCEPT ![c] = "reset"]
  /\ UNCHANGED <<wire, gwEnd, up, down, gwVars, reqVars, nodeVars>>

----------------------------------------------------------------------------
\* A closed end whose buffer has been taken closes its socket.
GatewayFlushed(c) ==
  /\ gwEnd[c] = "closed" /\ wire[c] = "up" /\ Drained(down, c)
  /\ wire' = [wire EXCEPT ![c] = "down"]
  /\ up' = [up EXCEPT ![c] = <<>>]
  /\ UNCHANGED <<gwEnd, nodeEnd, down, gwVars, reqVars, nodeVars>>

NodeFlushed(c) ==
  /\ nodeEnd[c] = "closed" /\ wire[c] = "up" /\ Drained(up, c)
  /\ wire' = [wire EXCEPT ![c] = "down"]
  /\ down' = [down EXCEPT ![c] = <<>>]
  /\ UNCHANGED <<gwEnd, nodeEnd, up, gwVars, reqVars, nodeVars>>

----------------------------------------------------------------------------
RegistrationStep(c) == AckDrained(c) \/ AckFails(c) \/ Unregister(c) \/ RegistrationRaises(c)

ReaderStep(c) ==
  \/ ReadHeartbeat(c) \/ HeartbeatReply(c) \/ HeartbeatReplied(c) \/ HeartbeatReplyFails(c)
  \/ ReadResponse(c) \/ ReadEnd(c) \/ ReadReset(c)

RequestStep(r) ==
  \/ ForwardWrite(r) \/ ForwardSent(r) \/ ForwardBroken(r)
  \/ ForwardTimeout(r) \/ ForwardAnswered(r)

NodeStep(n) ==
  \/ ReceiveAck(n) \/ ReadForwarded(n) \/ Respond(n) \/ RespondNothing(n)
  \/ ResponseSent(n) \/ ResponseFails(n) \/ ReadDropped(n)

NetworkStep(c) ==
  GatewayLearns(c) \/ NodeLearns(c) \/ GatewayFlushed(c) \/ NodeFlushed(c)

Next ==
  \/ \E c \in Conns : RegistrationStep(c) \/ ReaderStep(c)
  \/ \E c \in Conns : Connect(c) \/ Register(c) \/ Reject(c) \/ Drop(c) \/ NetworkStep(c)
  \/ \E r \in Requests : ForwardRefused(r) \/ Forward(r) \/ RequestStep(r)
  \/ \E n \in Nodes : NodeStep(n) \/ Heartbeat(n)
  \/ \E n \in Nodes : RegistrationFails(n) \/ Disconnect(n) \/ NodeEnds(n)
  \/ Stop

\* The event loop runs every task of the gateway that can run; timers fire.
GatewayFairness ==
  /\ \A c \in Conns : WF_vars(RegistrationStep(c)) /\ WF_vars(ReaderStep(c))
  /\ \A r \in Requests : WF_vars(RequestStep(r))

\* The private nodes run, TCP reports a connection that is gone, and a closed
\* end that is flushed closes its socket.
PeerFairness ==
  /\ \A n \in Nodes : WF_vars(NodeStep(n))
  /\ \A c \in Conns : WF_vars(GatewayLearns(c)) /\ WF_vars(NodeLearns(c))
  /\ \A c \in Conns : WF_vars(GatewayFlushed(c)) /\ WF_vars(NodeFlushed(c))

Spec == Init /\ [][Next]_vars /\ GatewayFairness

SpecWithLivePeers == Spec /\ PeerFairness

----------------------------------------------------------------------------
(* Properties.                                                             *)

Sent == {"locking", "sending", "awaiting"}

TypeOK ==
  /\ wire \in [Conns -> {"unused", "up", "down"}]
  /\ gwEnd \in [Conns -> {"open", "eof", "reset", "closed"}]
  /\ nodeEnd \in [Conns -> {"open", "eof", "reset", "closed"}]
  /\ up \in [Conns -> Seq(UpMessages)]
  /\ down \in [Conns -> Seq(DownMessages)]
  /\ running \in BOOLEAN
  /\ handler \in [Conns -> {"none", "accepted", "acking", "serving", "done"}]
  /\ reader \in [Conns -> {"none", "reading", "locking", "replying", "ended", "raised",
                           "cancelled"}]
  /\ routes \in [Nodes -> Conns \cup {NoConn}]
  /\ pending \in [Conns -> SUBSET Requests]
  /\ ledger \subseteq ({"registered", "disconnected"} \X Conns) \cup ({"forwarded"} \X Requests)
  /\ phase \in [Requests -> {"idle", "refused", "answered", "failed"} \cup Sent]
  /\ chanOf \in [Requests -> Conns \cup {NoConn}]
  /\ fut \in [Requests -> {"none", "pending", "result", "cancelled"}]
  /\ answer \in [Requests -> Requests \cup {NoRequest}]
  /\ \A r \in Requests : fut[r] = "result" => answer[r] \in Requests
  /\ client \in [Nodes -> {"off", "registering", "reading", "dispatching", "sending", "dead"}]
  /\ conn \in [Nodes -> Conns \cup {NoConn}]
  /\ job \in [Nodes -> DownMessages]
  /\ executed \in [Requests -> Nat]
  /\ beats \in [Nodes -> 0..MaxHeartbeats]

\* The answer a client is given was produced by its own request: concurrent
\* requests multiplexed on one channel are never crossed (_read_loop matches
\* correlation_id, forward() registers the future before it sends).
OwnAnswer == \A r \in Requests : phase[r] = "answered" => answer[r] = r

\* A retry that repeats the id of an earlier request is only ever given the
\* answer to a message with that id.
SameIdAnswer ==
  \A r \in Requests : phase[r] = "answered" =>
    answer[r] \in Requests /\ MessageId[answer[r]] = MessageId[r]

\* The read loop of c takes m off its connection.
Reads(c, m) ==
  /\ CanRead(c) /\ Head(up[c]) = m
  /\ up'[c] = Tail(up[c]) /\ wire'[c] = wire[c] /\ gwEnd'[c] = gwEnd[c]

\* An answer that is read while its request waits, for the lock, in drain() or
\* for the answer, settles it, whatever timeouts and cancellations of other
\* requests have done to _pending in between.
AnswerReachesWaiter ==
  [][\A c \in Conns, r \in Requests :
       Reads(c, Response(r)) /\ phase[r] \in Sent /\ fut[r] = "pending"
         => fut'[r] = "result" /\ answer'[r] = r]_vars

\* connect() takes the first message it reads for the ACK: nothing may reach
\* a node before it, though its route is published before the ACK is sent.
AckFirst ==
  \A n \in Nodes :
    client[n] = "registering" /\ down[conn[n]] # <<>> => Head(down[conn[n]]) = Ack

\* A route leads to a connection whose handler is still there to remove it.
RoutedIsServed ==
  \A n \in Nodes : routes[n] # NoConn =>
    NodeOf[routes[n]] = n /\ handler[routes[n]] \in {"acking", "serving"}

\* connected_nodes lists every node with a live registered connection.
ConnectedNodesListed ==
  \A c \in Conns :
    running /\ handler[c] = "serving" /\ reader[c] = "reading" /\ wire[c] = "up"
      => routes[NodeOf[c]] # NoConn

\* connected_nodes stops listing a connection the gateway knows to be gone,
\* unless its read loop raised.
DeadRouteForgotten ==
  \A c \in Conns :
    gwEnd[c] # "open" /\ handler[c] # "accepted"
      ~> routes[NodeOf[c]] # c \/ reader[c] = "raised"

\* Neither end takes what the other has sent: the gateway's read loop waits to
\* send or its channel is closed and not flushed, and so is the node's end.
GatewayTakesNothing(c) ==
  reader[c] \in {"locking", "replying"} \/ (gwEnd[c] = "closed" /\ ~Drained(down, c))

NodeTakesNothing(c) ==
  \/ client[NodeOf[c]] = "sending" /\ conn[NodeOf[c]] = c
  \/ nodeEnd[c] = "closed" /\ ~Drained(up, c)

StuckTogether(c) == GatewayTakesNothing(c) /\ NodeTakesNothing(c)

\* forward() comes to an end, though its timeout covers neither the wait for
\* the send lock nor drain(), and neither stop() nor disconnect() wakes it: the
\* only thing that can keep a request from being settled is that, for good,
\* neither end takes what the other has sent.
SettledUnlessStuck ==
  \A r \in Requests, c \in Conns :
    [](phase[r] \in Sent /\ chanOf[r] = c =>
         <>(phase[r] \in {"answered", "failed"} \/ []StuckTogether(c)))

\* The gateway keeps the promise of RequestReply to its clients.
Service == INSTANCE RequestReply WITH
  status <- [r \in Requests |-> IF phase[r] \in Sent THEN "open" ELSE phase[r]]

KeepsPromise == Service!Spec
=============================================================================
