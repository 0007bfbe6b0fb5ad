---------------------------- MODULE GatewayProofs ----------------------------
(***************************************************************************)
(* Proofs about Gateway, for any number of nodes, connections and requests *)
(* and any choice of message ids: the state stays well formed, an answer   *)
(* is only given for a request with the id of the one it answers, the ACK  *)
(* is the first message a registering node reads, where connections are    *)
(* never reset every route leads to a connection that is served, a request *)
(* is executed at most once, an answer that is read settles the request    *)
(* that waits for it, and every step is a step of RequestReply.            *)
(***************************************************************************)
EXTENDS Gateway, SequenceTheorems, TLAPS

----------------------------------------------------------------------------
(* The inductive invariant.                                                *)

\* A client that is not off works on a connection of its own.
ClientInv ==
  \A n \in Nodes : client[n] # "off" => conn[n] \in Conns /\ NodeOf[conn[n]] = n

\* Routes and forwarded requests lead to connections that were registered.
Begun(c) == handler[c] \notin {"none", "accepted"}

RouteInv ==
  \A n \in Nodes : routes[n] # NoConn => NodeOf[routes[n]] = n /\ Begun(routes[n])

ChanInv ==
  \A r \in Requests : phase[r] \in Sent => chanOf[r] \in Conns /\ Begun(chanOf[r])

\* Nothing happens on a connection before its registration.
ConnInv ==
  \A c \in Conns :
    /\ wire[c] = "unused" => handler[c] = "none" /\ down[c] = <<>>
    /\ reader[c] # "none" => Begun(c)

WellFormed == TypeOK /\ ClientInv /\ RouteInv /\ ChanInv /\ ConnInv

----------------------------------------------------------------------------
(* Lemmas about the data.                                                  *)

\* Writing and taking keep queues of messages queues of messages.
LEMMA WrittenType ==
  ASSUME NEW S, NEW q \in [Conns -> Seq(S)], NEW c \in Conns, NEW m \in S
  PROVE  Written(q, c, m) \in [Conns -> Seq(S)]
<1>1. q[c] \in Seq(S) /\ Append(q[c], m) \in Seq(S)
  BY AppendProperties
<1>2. CASE wire[c] = "up"
  BY <1>1, <1>2 DEF Written
<1>3. CASE wire[c] # "up"
  BY <1>1, <1>3 DEF Written
<1> QED BY <1>2, <1>3

LEMMA TakenType ==
  ASSUME NEW S, NEW q \in [Conns -> Seq(S)], NEW c \in Conns, q[c] # <<>>
  PROVE  Taken(q, c) \in [Conns -> Seq(S)] /\ Head(q[c]) \in S
BY HeadTailProperties DEF Taken

LEMMA MessageTypes ==
  /\ Ack \in DownMessages /\ PingReply \in DownMessages
  /\ \A r \in Requests : Forwarded(r) \in DownMessages
  /\ Ping \in UpMessages /\ PingEcho \in UpMessages
  /\ \A m \in DownMessages : AnswerTo(m) \in UpMessages
<1>1. /\ Ack \in DownMessages /\ PingReply \in DownMessages
      /\ \A r \in Requests : Forwarded(r) \in DownMessages
  BY DEF DownMessages
<1>2. Ping \in UpMessages /\ PingEcho \in UpMessages /\ \A r \in Requests : Response(r) \in UpMessages
  BY DEF UpMessages
<1>3. ASSUME NEW m \in DownMessages PROVE m.req = NoRequest \/ m.req \in Requests
  BY DEF DownMessages, Ack, PingReply, Forwarded
<1> QED BY <1>1, <1>2, <1>3 DEF AnswerTo

\* A response that resolves a future comes from a request with its id.
LEMMA ResponseIds ==
  ASSUME NEW m \in UpMessages, NEW c \in Conns, NEW r \in Waiting(c, m), pending[c] \subseteq Requests
  PROVE  m.from \in Requests /\ MessageId[m.from] = MessageId[r]
<1>1. m.cid = MessageId[r] /\ r \in Requests
  BY DEF Waiting
<1>2. MessageId[r] \in Ids /\ NoId \notin Ids
  BY <1>1, GatewayAssumption
<1>3. PICK q \in Requests : m = Response(q)
  BY <1>1, <1>2 DEF UpMessages, Ping, PingEcho
<1> QED BY <1>1, <1>3 DEF Response

LEMMA EmptiedType ==
  ASSUME NEW S, NEW q \in [Conns -> Seq(S)], NEW c \in Conns
  PROVE  [q EXCEPT ![c] = <<>>] \in [Conns -> Seq(S)]
<1>1. <<>> \in Seq(S)
  OBVIOUS
<1> QED BY <1>1

\* What closing connections at the gateway changes: those it closes are known
\* there to be closed, and one that is flushed goes down with what was not read.
LEMMA ClosedAtGateway ==
  ASSUME TypeOK, NEW C \in SUBSET Conns, CloseAtGateway(C)
  PROVE  /\ gwEnd' \in [Conns -> {"open", "eof", "reset", "closed"}]
         /\ wire' \in [Conns -> {"unused", "up", "down"}]
         /\ up' \in [Conns -> Seq(UpMessages)]
         /\ nodeEnd' = nodeEnd /\ down' = down
         /\ \A d \in Conns : wire'[d] = wire[d] \/ wire'[d] = "down"
         /\ \A d \in Conns : up'[d] = up[d] \/ up'[d] = <<>>
         /\ \A d \in Conns : d \notin C => gwEnd'[d] = gwEnd[d] /\ up'[d] = up[d]
         /\ \A d \in C : gwEnd'[d] = IF gwEnd[d] = "reset" THEN "reset" ELSE "closed"
BY DEF CloseAtGateway, TypeOK

\* What a node that leaves its connection changes of it.
LEMMA LeftByNode ==
  ASSUME TypeOK, NEW n \in Nodes, conn[n] \in Conns,
         RegistrationFails(n) \/ Disconnect(n) \/ NodeEnds(n)
  PROVE  /\ client[n] # "off" /\ client' = [client EXCEPT ![n] = "off"]
         /\ conn' = [conn EXCEPT ![n] = NoConn] /\ job' = [job EXCEPT ![n] = Ack]
         /\ nodeEnd' = [nodeEnd EXCEPT ![conn[n]] = "closed"]
         /\ UNCHANGED <<gwEnd, up, gwVars, reqVars, executed, beats>>
         /\ \/ wire' = wire /\ down' = down
            \/ /\ wire' = [wire EXCEPT ![conn[n]] = "down"]
               /\ down' = [down EXCEPT ![conn[n]] = <<>>]
BY DEF RegistrationFails, Disconnect, CloseAtNode, NodeEnds, Leave, TypeOK

\* What the steps of the network change: an end learns of the connection's
\* loss, or a closed end that is flushed takes the connection down.
LEMMA NetworkChanges ==
  ASSUME TypeOK, NEW c \in Conns, NetworkStep(c)
  PROVE  /\ UNCHANGED <<gwVars, reqVars, nodeVars>>
         /\ \/ UNCHANGED <<wire, up, down>>
            \/ /\ wire' = [wire EXCEPT ![c] = "down"] /\ UNCHANGED <<gwEnd, nodeEnd>>
               /\ \/ gwEnd[c] = "closed" /\ up' = [up EXCEPT ![c] = <<>>] /\ down' = down
                  \/ down' = [down EXCEPT ![c] = <<>>] /\ up' = up
         /\ gwEnd' = gwEnd \/ \E e \in Endings : gwEnd' = [gwEnd EXCEPT ![c] = e]
         /\ nodeEnd' = nodeEnd \/ \E e \in Endings : nodeEnd' = [nodeEnd EXCEPT ![c] = e]
<1>1. CASE GatewayLearns(c) \/ NodeLearns(c)
  BY <1>1 DEF GatewayLearns, NodeLearns
<1>2. CASE GatewayFlushed(c) \/ NodeFlushed(c)
  BY <1>2 DEF GatewayFlushed, NodeFlushed
<1> QED BY <1>1, <1>2 DEF NetworkStep

----------------------------------------------------------------------------
(* The state is well formed.                                               *)

LEMMA InitWellFormed == Init => WellFormed
<1> SUFFICES ASSUME Init PROVE WellFormed
  OBVIOUS
<1>1. TypeOK
  BY GatewayAssumption, MessageTypes DEF Init, TypeOK
<1>2. ClientInv /\ RouteInv /\ ChanInv /\ ConnInv
  BY DEF Init, ClientInv, RouteInv, ChanInv, ConnInv, Begun, Sent
<1> QED BY <1>1, <1>2 DEF WellFormed

\* The steps that register and serve a connection.
LEMMA ConnectionWellFormed ==
  ASSUME NEW c \in Conns, WellFormed,
         \/ Connect(c) \/ Register(c) \/ Reject(c)
         \/ AckDrained(c) \/ AckFails(c) \/ Unregister(c) \/ RegistrationRaises(c)
  PROVE  WellFormed'
<1> USE DEF WellFormed
<1>0. NodeOf[c] \in Nodes
  BY GatewayAssumption
<1>1. CASE Connect(c)
  <2> USE <1>0, <1>1 DEF Connect
  <2>1. TypeOK'
    BY DEF TypeOK, gwVars, reqVars, netVars
  <2>2. ClientInv' /\ RouteInv' /\ ChanInv' /\ ConnInv'
    BY DEF TypeOK, ClientInv, RouteInv, ChanInv, ConnInv, Begun, reqVars
  <2> QED BY <2>1, <2>2
<1>2. CASE Register(c)
  <2> USE <1>0, <1>2 DEF Register, nodeVars, reqVars
  <2>0. down' \in [Conns -> Seq(DownMessages)]
    BY WrittenType, MessageTypes DEF TypeOK
  <2>a. ledger' \subseteq ({"registered", "disconnected"} \X Conns) \cup ({"forwarded"} \X Requests)
    BY DEF TypeOK, Registered
  <2>b. handler' = [handler EXCEPT ![c] = "serving"] \/ handler' = [handler EXCEPT ![c] = "acking"]
    BY DEF AfterWrite
  <2>1. TypeOK'
    BY <2>0, <2>a, <2>b DEF TypeOK
  <2>2. ClientInv' /\ ChanInv'
    BY DEF TypeOK, ClientInv, ChanInv, Begun, AfterWrite
  <2>3. RouteInv'
    BY DEF TypeOK, RouteInv, Begun, AfterWrite
  <2>4. ConnInv'
    BY DEF TypeOK, ConnInv, Begun, AfterWrite, Written
  <2> QED BY <2>1, <2>2, <2>3, <2>4
<1>3. CASE Reject(c)
  <2>0. /\ gwEnd' \in [Conns -> {"open", "eof", "reset", "closed"}]
        /\ wire' \in [Conns -> {"unused", "up", "down"}]
        /\ up' \in [Conns -> Seq(UpMessages)]
        /\ nodeEnd' = nodeEnd /\ down' = down
        /\ \A d \in Conns : wire'[d] = wire[d] \/ wire'[d] = "down"
    BY <1>3, ClosedAtGateway DEF Reject
  <2> USE <1>0, <1>3, <2>0 DEF Reject, nodeVars, reqVars
  <2>1. TypeOK'
    BY DEF TypeOK
  <2>2. ClientInv' /\ RouteInv' /\ ChanInv' /\ ConnInv'
    BY DEF TypeOK, ClientInv, RouteInv, ChanInv, ConnInv, Begun
  <2> QED BY <2>1, <2>2
<1>4. CASE AckDrained(c)
  <2> USE <1>0, <1>4 DEF AckDrained, netVars, nodeVars, reqVars
  <2>1. TypeOK'
    BY DEF TypeOK
  <2>2. ClientInv' /\ RouteInv' /\ ChanInv' /\ ConnInv'
    BY DEF TypeOK, ClientInv, RouteInv, ChanInv, ConnInv, Begun
  <2> QED BY <2>1, <2>2
<1>5. CASE AckFails(c)
  <2>0. /\ gwEnd' \in [Conns -> {"open", "eof", "reset", "closed"}]
        /\ wire' \in [Conns -> {"unused", "up", "down"}]
        /\ up' \in [Conns -> Seq(UpMessages)]
        /\ nodeEnd' = nodeEnd /\ down' = down
        /\ \A d \in Conns : wire'[d] = wire[d] \/ wire'[d] = "down"
    BY <1>5, ClosedAtGateway DEF AckFails
  <2> USE <1>0, <1>5, <2>0 DEF AckFails, CancelPending, WithoutRoute, nodeVars
  <2>1. TypeOK'
    BY DEF TypeOK
  <2>2. ClientInv' /\ RouteInv' /\ ChanInv' /\ ConnInv'
    BY DEF TypeOK, ClientInv, RouteInv, ChanInv, ConnInv, Begun
  <2> QED BY <2>1, <2>2
<1>6. CASE Unregister(c)
  <2>0. /\ gwEnd' \in [Conns -> {"open", "eof", "reset", "closed"}]
        /\ wire' \in [Conns -> {"unused", "up", "down"}]
        /\ up' \in [Conns -> Seq(UpMessages)]
        /\ nodeEnd' = nodeEnd /\ down' = down
        /\ \A d \in Conns : wire'[d] = wire[d] \/ wire'[d] = "down"
    BY <1>6, ClosedAtGateway DEF Unregister
  <2> USE <1>0, <1>6, <2>0 DEF Unregister, WithoutRoute, nodeVars, reqVars
  <2>a. ledger' \subseteq ({"registered", "disconnected"} \X Conns) \cup ({"forwarded"} \X Requests)
    BY DEF TypeOK, Disconnected
  <2>1. TypeOK'
    BY <2>a DEF TypeOK
  <2>2. ClientInv' /\ RouteInv' /\ ChanInv' /\ ConnInv'
    BY DEF TypeOK, ClientInv, RouteInv, ChanInv, ConnInv, Begun
  <2> QED BY <2>1, <2>2
<1>7. CASE RegistrationRaises(c)
  <2>0. /\ gwEnd' \in [Conns -> {"open", "eof", "reset", "closed"}]
        /\ wire' \in [Conns -> {"unused", "up", "down"}]
        /\ up' \in [Conns -> Seq(UpMessages)]
        /\ nodeEnd' = nodeEnd /\ down' = down
        /\ \A d \in Conns : wire'[d] = wire[d] \/ wire'[d] = "down"
    BY <1>7, ClosedAtGateway DEF RegistrationRaises
  <2> USE <1>0, <1>7, <2>0 DEF RegistrationRaises, nodeVars, reqVars
  <2>1. TypeOK'
    BY DEF TypeOK
  <2>2. ClientInv' /\ RouteInv' /\ ChanInv' /\ ConnInv'
    BY DEF TypeOK, ClientInv, RouteInv, ChanInv, ConnInv, Begun
  <2> QED BY <2>1, <2>2
<1> QED BY <1>1, <1>2, <1>3, <1>4, <1>5, <1>6, <1>7

\* The steps of the read loop of a connection.
LEMMA ReaderWellFormed ==
  ASSUME NEW c \in Conns, WellFormed, ReaderStep(c)
  PROVE  WellFormed'
<1> USE DEF WellFormed
<1>1. CASE ReadHeartbeat(c)
  <2> USE <1>1 DEF ReadHeartbeat, CanRead, nodeVars, reqVars
  <2>0. up' \in [Conns -> Seq(UpMessages)]
    BY TakenType DEF TypeOK
  <2>1. down' \in [Conns -> Seq(DownMessages)]
    <3>1. CASE LockFree(c)
      <4>1. down' = Written(down, c, PingReply)
        BY <3>1 DEF SendPingReply
      <4> QED BY <4>1, WrittenType, MessageTypes DEF TypeOK
    <3>2. CASE ~LockFree(c)
      BY <3>2 DEF TypeOK
    <3> QED BY <3>1, <3>2
  <2>2. TypeOK'
    <3>1. reader' \in [Conns -> {"none", "reading", "locking", "replying", "ended", "raised",
                                 "cancelled"}]
      <4>1. \E x \in {"reading", "locking", "replying"} : reader' = [reader EXCEPT ![c] = x]
        BY DEF SendPingReply, AfterWrite
      <4> QED BY <4>1 DEF TypeOK
    <3> QED BY <2>0, <2>1, <3>1 DEF TypeOK
  <2>3. ClientInv' /\ RouteInv' /\ ChanInv'
    BY DEF TypeOK, ClientInv, RouteInv, ChanInv, Begun
  <2>4. ConnInv'
    BY DEF TypeOK, ConnInv, Begun, SendPingReply, AfterWrite, Written
  <2> QED BY <2>2, <2>3, <2>4
<1>2. CASE HeartbeatReply(c)
  <2> USE <1>2 DEF HeartbeatReply, SendPingReply, nodeVars, reqVars
  <2>1. down' \in [Conns -> Seq(DownMessages)]
    BY WrittenType, MessageTypes DEF TypeOK
  <2>2. TypeOK'
    BY <2>1 DEF TypeOK, AfterWrite
  <2>3. ClientInv' /\ RouteInv' /\ ChanInv'
    BY DEF TypeOK, ClientInv, RouteInv, ChanInv, Begun
  <2>4. ConnInv'
    BY DEF TypeOK, ConnInv, Begun, AfterWrite, Written
  <2> QED BY <2>2, <2>3, <2>4
<1>3. CASE HeartbeatReplied(c)
  <2> USE <1>3 DEF HeartbeatReplied, netVars, nodeVars, reqVars
  <2>1. TypeOK'
    BY DEF TypeOK
  <2>2. ClientInv' /\ RouteInv' /\ ChanInv' /\ ConnInv'
    BY DEF TypeOK, ClientInv, RouteInv, ChanInv, ConnInv, Begun
  <2> QED BY <2>1, <2>2
<1>4. CASE HeartbeatReplyFails(c) \/ ReadEnd(c) \/ ReadReset(c)
  <2>1. /\ reader[c] # "none" /\ CancelPending({c})
        /\ \E to \in {"ended", "raised"} : reader' = [reader EXCEPT ![c] = to]
        /\ UNCHANGED <<netVars, running, handler, routes, ledger, nodeVars>>
    BY <1>4 DEF HeartbeatReplyFails, ReadEnd, ReadReset
  <2> USE <2>1 DEF CancelPending, netVars, nodeVars
  <2>2. TypeOK'
    BY DEF TypeOK
  <2>3. ClientInv' /\ RouteInv' /\ ChanInv' /\ ConnInv'
    BY DEF TypeOK, ClientInv, RouteInv, ChanInv, ConnInv, Begun
  <2> QED BY <2>2, <2>3
<1>5. CASE ReadResponse(c)
  <2> USE <1>5 DEF ReadResponse, CanRead, nodeVars
  <2> DEFINE m == Head(up[c])
  <2>0. up' \in [Conns -> Seq(UpMessages)] /\ m \in UpMessages
    BY TakenType DEF TypeOK
  <2>1. pending[c] \subseteq Requests
    BY DEF TypeOK
  <2>2. \A r \in Waiting(c, m) : m.from \in Requests
    BY <2>0, <2>1, ResponseIds
  <2>3. pending' \in [Conns -> SUBSET Requests]
    BY <2>1 DEF TypeOK
  <2>4. /\ fut' \in [Requests -> {"none", "pending", "result", "cancelled"}]
        /\ answer' \in [Requests -> Requests \cup {NoRequest}]
        /\ \A r \in Requests : fut'[r] = "result" => answer'[r] \in Requests
    BY <2>2 DEF TypeOK
  <2>5. TypeOK'
    BY <2>0, <2>3, <2>4 DEF TypeOK
  <2>6. ClientInv' /\ RouteInv' /\ ChanInv' /\ ConnInv'
    BY DEF TypeOK, ClientInv, RouteInv, ChanInv, ConnInv, Begun
  <2> QED BY <2>5, <2>6
<1> QED BY <1>1, <1>2, <1>3, <1>4, <1>5 DEF ReaderStep

\* The steps of a request's task.
LEMMA RequestWellFormed ==
  ASSUME NEW r \in Requests, WellFormed, ForwardRefused(r) \/ Forward(r) \/ RequestStep(r)
  PROVE  WellFormed'
<1> USE DEF WellFormed
<1>0. Target[r] \in Nodes
  BY GatewayAssumption
<1>1. CASE ForwardRefused(r)
  <2> USE <1>1 DEF ForwardRefused, netVars, gwVars, nodeVars
  <2>1. TypeOK'
    BY DEF TypeOK, Sent
  <2>2. ClientInv' /\ RouteInv' /\ ChanInv' /\ ConnInv'
    BY DEF TypeOK, ClientInv, RouteInv, ChanInv, ConnInv, Begun, Sent
  <2> QED BY <2>1, <2>2
<1>2. CASE Forward(r)
  <2> USE <1>0, <1>2 DEF Forward, nodeVars
  <2> DEFINE c == routes[Target[r]]
  <2>0. c \in Conns /\ Begun(c)
    BY DEF TypeOK, RouteInv
  <2>1. down' \in [Conns -> Seq(DownMessages)]
    <3>1. CASE LockFree(c)
      <4>1. down' = Written(down, c, Forwarded(r))
        BY <3>1 DEF SendForwarded
      <4> QED BY <2>0, <4>1, WrittenType, MessageTypes DEF TypeOK
    <3>2. CASE ~LockFree(c)
      BY <3>2 DEF TypeOK
    <3> QED BY <3>1, <3>2
  <2>2. PICK to \in Sent : phase' = [phase EXCEPT ![r] = to]
    BY DEF SendForwarded, AfterWrite, Sent
  <2>3. pending' \in [Conns -> SUBSET Requests]
    BY <2>0 DEF TypeOK, WithFuture
  <2>4. TypeOK'
    BY <2>0, <2>1, <2>2, <2>3 DEF TypeOK
  <2>5. ClientInv' /\ RouteInv'
    BY DEF ClientInv, RouteInv, Begun
  <2>6. ChanInv'
    BY <2>0, <2>2 DEF TypeOK, ChanInv, Begun
  <2>7. \A d \in Conns : d # c => down'[d] = down[d]
    BY DEF TypeOK, SendForwarded, Written
  <2>8. ConnInv'
    BY <2>0, <2>7 DEF ConnInv, Begun
  <2> QED BY <2>4, <2>5, <2>6, <2>8
<1>3. CASE ForwardWrite(r)
  <2> USE <1>3 DEF ForwardWrite, SendForwarded, gwVars, nodeVars
  <2>0. chanOf[r] \in Conns /\ Begun(chanOf[r])
    BY DEF ChanInv, Sent
  <2>1. down' \in [Conns -> Seq(DownMessages)]
    BY <2>0, WrittenType, MessageTypes DEF TypeOK
  <2>2. PICK to \in Sent : phase' = [phase EXCEPT ![r] = to]
    BY DEF AfterWrite, Sent
  <2>3. TypeOK'
    BY <2>1, <2>2 DEF TypeOK
  <2>4. ClientInv' /\ RouteInv' /\ ChanInv'
    BY <2>0, <2>2 DEF TypeOK, ClientInv, RouteInv, ChanInv, Begun
  <2>5. \A d \in Conns : d # chanOf[r] => down'[d] = down[d]
    BY DEF TypeOK, Written
  <2>6. ConnInv'
    BY <2>0, <2>5 DEF ConnInv, Begun
  <2> QED BY <2>3, <2>4, <2>6
<1>4. CASE ForwardSent(r)
  <2> USE <1>4 DEF ForwardSent, netVars, gwVars, nodeVars
  <2>1. TypeOK'
    BY DEF TypeOK, Sent
  <2>2. ClientInv' /\ RouteInv' /\ ChanInv' /\ ConnInv'
    BY DEF TypeOK, ClientInv, RouteInv, ChanInv, ConnInv, Begun, Sent
  <2> QED BY <2>1, <2>2
<1>5. CASE ForwardBroken(r) \/ ForwardTimeout(r)
  <2>0. phase[r] \in Sent /\ ForwardFails(r)
    BY <1>5 DEF ForwardBroken, ForwardTimeout, Sent
  <2> USE <2>0 DEF ForwardFails, netVars, nodeVars
  <2>1. TypeOK'
    BY DEF TypeOK, WithoutFuture
  <2>2. ClientInv' /\ RouteInv' /\ ChanInv' /\ ConnInv'
    BY DEF TypeOK, ClientInv, RouteInv, ChanInv, ConnInv, Begun, Sent
  <2> QED BY <2>1, <2>2
<1>6. CASE ForwardAnswered(r)
  <2> USE <1>6 DEF ForwardAnswered, netVars, nodeVars
  <2>1. TypeOK'
    <3>1. ledger' \subseteq ({"registered", "disconnected"} \X Conns) \cup ({"forwarded"} \X Requests)
      BY DEF TypeOK, Answered
    <3>2. pending' \in [Conns -> SUBSET Requests]
      BY DEF TypeOK, WithoutFuture
    <3> QED BY <3>1, <3>2 DEF TypeOK
  <2>2. ClientInv' /\ RouteInv' /\ ChanInv' /\ ConnInv'
    BY DEF TypeOK, ClientInv, RouteInv, ChanInv, ConnInv, Begun, Sent
  <2> QED BY <2>1, <2>2
<1> QED BY <1>1, <1>2, <1>3, <1>4, <1>5, <1>6 DEF RequestStep

\* The steps of a private node's client.
LEMMA NodeWellFormed ==
  ASSUME NEW n \in Nodes, WellFormed,
         NodeStep(n) \/ Heartbeat(n) \/ RegistrationFails(n) \/ Disconnect(n) \/ NodeEnds(n)
  PROVE  WellFormed'
<1> USE DEF WellFormed
<1>0. client[n] # "off" => conn[n] \in Conns
  BY DEF ClientInv
<1>1. CASE ReceiveAck(n)
  <2> USE <1>0, <1>1 DEF ReceiveAck, Readable, gwVars, reqVars
  <2>0. down' \in [Conns -> Seq(DownMessages)]
    BY TakenType DEF TypeOK
  <2>1. TypeOK'
    BY <2>0 DEF TypeOK
  <2>2. ClientInv' /\ RouteInv' /\ ChanInv' /\ ConnInv'
    BY DEF TypeOK, ClientInv, RouteInv, ChanInv, ConnInv, Begun, Taken
  <2> QED BY <2>1, <2>2
<1>2. CASE RegistrationFails(n) \/ Disconnect(n) \/ NodeEnds(n)
  <2>a. conn[n] \in Conns
    BY <1>0, <1>2 DEF RegistrationFails, Disconnect, NodeEnds
  <2>0. /\ client' = [client EXCEPT ![n] = "off"]
        /\ conn' = [conn EXCEPT ![n] = NoConn] /\ job' = [job EXCEPT ![n] = Ack]
        /\ nodeEnd' = [nodeEnd EXCEPT ![conn[n]] = "closed"]
        /\ UNCHANGED <<gwEnd, up, gwVars, reqVars, executed, beats>>
        /\ \/ wire' = wire /\ down' = down
           \/ /\ wire' = [wire EXCEPT ![conn[n]] = "down"]
              /\ down' = [down EXCEPT ![conn[n]] = <<>>]
    BY <1>2, <2>a, LeftByNode
  <2>b. wire' \in [Conns -> {"unused", "up", "down"}] /\ down' \in [Conns -> Seq(DownMessages)]
    <3>1. /\ wire' = wire \/ wire' = [wire EXCEPT ![conn[n]] = "down"]
          /\ down' = down \/ down' = [down EXCEPT ![conn[n]] = <<>>]
      BY <2>0
    <3>2. wire \in [Conns -> {"unused", "up", "down"}] /\ down \in [Conns -> Seq(DownMessages)]
      BY DEF TypeOK
    <3>3. [down EXCEPT ![conn[n]] = <<>>] \in [Conns -> Seq(DownMessages)]
      BY <2>a, <3>2, EmptiedType
    <3>4. [wire EXCEPT ![conn[n]] = "down"] \in [Conns -> {"unused", "up", "down"}]
      BY <2>a, <3>2
    <3> QED BY ONLY <3>1, <3>2, <3>3, <3>4
  <2> USE <2>a, <2>0 DEF gwVars, reqVars
  <2>1. TypeOK'
    BY <2>b, MessageTypes DEF TypeOK
  <2>2. ClientInv' /\ RouteInv' /\ ChanInv' /\ ConnInv'
    BY DEF TypeOK, ClientInv, RouteInv, ChanInv, ConnInv, Begun
  <2> QED BY <2>1, <2>2
<1>3. CASE ReadForwarded(n)
  <2> USE <1>0, <1>3 DEF ReadForwarded, Readable, gwVars, reqVars
  <2>0. down' \in [Conns -> Seq(DownMessages)] /\ Head(down[conn[n]]) \in DownMessages
    BY TakenType DEF TypeOK
  <2>1. executed' \in [Requests -> Nat]
    BY DEF TypeOK, Dispatched
  <2>2. TypeOK'
    BY <2>0, <2>1 DEF TypeOK
  <2>3. ClientInv' /\ RouteInv' /\ ChanInv' /\ ConnInv'
    BY DEF TypeOK, ClientInv, RouteInv, ChanInv, ConnInv, Begun, Taken
  <2> QED BY <2>2, <2>3
<1>4. CASE Respond(n)
  <2> USE <1>0, <1>4 DEF Respond, gwVars, reqVars
  <2>0. up' \in [Conns -> Seq(UpMessages)]
    BY WrittenType, MessageTypes DEF TypeOK
  <2>1. client' = [client EXCEPT ![n] = "reading"] \/ client' = [client EXCEPT ![n] = "sending"]
    OBVIOUS
  <2>2. TypeOK'
    BY <2>0, <2>1, MessageTypes DEF TypeOK
  <2>3. ClientInv' /\ RouteInv' /\ ChanInv' /\ ConnInv'
    BY DEF TypeOK, ClientInv, RouteInv, ChanInv, ConnInv, Begun
  <2> QED BY <2>2, <2>3
<1>5. CASE RespondNothing(n) \/ ResponseSent(n) \/ ResponseFails(n) \/ ReadDropped(n)
  <2>0. client[n] # "off" /\ \E to \in {"reading", "dead"} : NodeMoves(n, to)
    BY <1>5 DEF RespondNothing, ResponseSent, ResponseFails, ReadDropped
  <2> USE <2>0 DEF NodeMoves, netVars, gwVars, reqVars
  <2>1. TypeOK'
    BY MessageTypes DEF TypeOK
  <2>2. ClientInv' /\ RouteInv' /\ ChanInv' /\ ConnInv'
    BY DEF TypeOK, ClientInv, RouteInv, ChanInv, ConnInv, Begun
  <2> QED BY <2>1, <2>2
<1>6. CASE Heartbeat(n)
  <2> USE <1>0, <1>6 DEF Heartbeat, gwVars, reqVars
  <2>0. up' \in [Conns -> Seq(UpMessages)]
    BY WrittenType, MessageTypes DEF TypeOK
  <2>1. beats' \in [Nodes -> 0..MaxHeartbeats]
    BY GatewayAssumption DEF TypeOK
  <2>2. TypeOK'
    BY <2>0, <2>1 DEF TypeOK
  <2>3. ClientInv' /\ RouteInv' /\ ChanInv' /\ ConnInv'
    BY DEF TypeOK, ClientInv, RouteInv, ChanInv, ConnInv, Begun
  <2> QED BY <2>2, <2>3
<1> QED BY <1>1, <1>2, <1>3, <1>4, <1>5, <1>6 DEF NodeStep

\* A queue cut short is a queue.
LEMMA CutType ==
  ASSUME NEW S, NEW q \in [Conns -> Seq(S)], NEW c \in Conns, NEW i \in 0..Len(q[c])
  PROVE  [q EXCEPT ![c] = SubSeq(@, 1, i)] \in [Conns -> Seq(S)]
<1>1. q[c] \in Seq(S) /\ Len(q[c]) \in Nat
  BY LenProperties
<1>2. SubSeq(q[c], 1, i) \in Seq(S)
  BY <1>1, SubSeqProperties
<1> QED BY <1>2

\* The steps of the network, and stop().
LEMMA NetworkWellFormed ==
  ASSUME WellFormed, Stop \/ \E c \in Conns : Drop(c) \/ NetworkStep(c)
  PROVE  WellFormed'
<1> USE DEF WellFormed
<1>1. ASSUME NEW c \in Conns, Drop(c) PROVE WellFormed'
  <2> USE <1>1 DEF Drop, gwVars, reqVars, nodeVars
  <2>1. up' \in [Conns -> Seq(UpMessages)] /\ down' \in [Conns -> Seq(DownMessages)]
    BY CutType DEF TypeOK
  <2>2. TypeOK'
    BY <2>1 DEF TypeOK
  <2>3. ClientInv' /\ RouteInv' /\ ChanInv' /\ ConnInv'
    BY DEF TypeOK, ClientInv, RouteInv, ChanInv, ConnInv, Begun
  <2> QED BY <2>2, <2>3
<1>2. ASSUME NEW c \in Conns, NetworkStep(c) PROVE WellFormed'
  <2>0. /\ UNCHANGED <<gwVars, reqVars, nodeVars>>
        /\ wire' = wire \/ wire' = [wire EXCEPT ![c] = "down"]
        /\ down' = down \/ down' = [down EXCEPT ![c] = <<>>]
        /\ up' = up \/ up' = [up EXCEPT ![c] = <<>>]
        /\ gwEnd' = gwEnd \/ \E e \in Endings : gwEnd' = [gwEnd EXCEPT ![c] = e]
        /\ nodeEnd' = nodeEnd \/ \E e \in Endings : nodeEnd' = [nodeEnd EXCEPT ![c] = e]
    BY <1>2, NetworkChanges
  <2>1. \A e \in Endings : e \in {"eof", "reset"}
    BY GatewayAssumption
  <2>2. /\ wire' \in [Conns -> {"unused", "up", "down"}]
        /\ down' \in [Conns -> Seq(DownMessages)] /\ up' \in [Conns -> Seq(UpMessages)]
    <3>1. /\ wire \in [Conns -> {"unused", "up", "down"}]
          /\ down \in [Conns -> Seq(DownMessages)] /\ up \in [Conns -> Seq(UpMessages)]
      BY DEF TypeOK
    <3>2. /\ [wire EXCEPT ![c] = "down"] \in [Conns -> {"unused", "up", "down"}]
          /\ [down EXCEPT ![c] = <<>>] \in [Conns -> Seq(DownMessages)]
          /\ [up EXCEPT ![c] = <<>>] \in [Conns -> Seq(UpMessages)]
      BY <3>1, EmptiedType
    <3>3. /\ wire' = wire \/ wire' = [wire EXCEPT ![c] = "down"]
          /\ down' = down \/ down' = [down EXCEPT ![c] = <<>>]
          /\ up' = up \/ up' = [up EXCEPT ![c] = <<>>]
      BY <2>0
    <3> QED BY ONLY <3>1, <3>2, <3>3
  <2>3. /\ gwEnd' \in [Conns -> {"open", "eof", "reset", "closed"}]
        /\ nodeEnd' \in [Conns -> {"open", "eof", "reset", "closed"}]
    <3>1. /\ gwEnd \in [Conns -> {"open", "eof", "reset", "closed"}]
          /\ nodeEnd \in [Conns -> {"open", "eof", "reset", "closed"}]
      BY DEF TypeOK
    <3>2. gwEnd' = gwEnd \/ \E e \in {"eof", "reset"} : gwEnd' = [gwEnd EXCEPT ![c] = e]
      BY <2>0, <2>1
    <3>3. nodeEnd' = nodeEnd \/ \E e \in {"eof", "reset"} : nodeEnd' = [nodeEnd EXCEPT ![c] = e]
      BY <2>0, <2>1
    <3> QED BY <3>1, <3>2, <3>3
  <2>4. TypeOK'
    BY <2>0, <2>2, <2>3 DEF TypeOK, gwVars, reqVars, nodeVars
  <2> USE <2>0 DEF gwVars, reqVars, nodeVars
  <2>5. ClientInv' /\ RouteInv' /\ ChanInv' /\ ConnInv'
    BY DEF TypeOK, ClientInv, RouteInv, ChanInv, ConnInv, Begun
  <2> QED BY <2>4, <2>5
<1>3. CASE Stop
  <2>0. \E C \in SUBSET Conns : CloseAtGateway(C)
    BY <1>3 DEF Stop
  <2> USE <1>3 DEF Stop, CancelPending, nodeVars
  <2>a. /\ gwEnd' \in [Conns -> {"open", "eof", "reset", "closed"}]
        /\ wire' \in [Conns -> {"unused", "up", "down"}]
        /\ up' \in [Conns -> Seq(UpMessages)]
        /\ nodeEnd' = nodeEnd /\ down' = down
        /\ \A d \in Conns : wire'[d] = wire[d] \/ wire'[d] = "down"
    BY <2>0, ClosedAtGateway
  <2>1. TypeOK'
    BY <2>a DEF TypeOK
  <2>2. ClientInv' /\ ChanInv'
    BY DEF ClientInv, ChanInv, Begun
  <2>3. RouteInv'
    BY DEF RouteInv
  <2>4. ConnInv'
    BY <2>a DEF TypeOK, ConnInv, Begun
  <2> QED BY <2>1, <2>2, <2>3, <2>4
<1> QED BY <1>1, <1>2, <1>3

LEMMA NextWellFormed == WellFormed /\ [Next]_vars => WellFormed'
<1> SUFFICES ASSUME WellFormed, [Next]_vars PROVE WellFormed'
  OBVIOUS
<1>1. CASE UNCHANGED vars
  BY <1>1 DEF vars, netVars, gwVars, reqVars, nodeVars, WellFormed, TypeOK, ClientInv, RouteInv,
     ChanInv, ConnInv, Begun
<1>2. CASE Next
  BY <1>2, ConnectionWellFormed, ReaderWellFormed, RequestWellFormed, NodeWellFormed,
     NetworkWellFormed DEF Next, RegistrationStep
<1> QED BY <1>1, <1>2

\* Type correctness of the gateway, its clients and their connections.
THEOREM TypeCorrect == Spec => []TypeOK
<1>1. WellFormed => TypeOK
  BY DEF WellFormed
<1> QED BY <1>1, InitWellFormed, NextWellFormed, PTL DEF Spec

----------------------------------------------------------------------------
(* Answers.                                                                *)

\* A resolved future holds a response with the id of its request, and an
\* answered request keeps it.
AnswerInv ==
  \A r \in Requests :
    /\ fut[r] = "result" => answer[r] \in Requests /\ MessageId[answer[r]] = MessageId[r]
    /\ phase[r] = "answered" => fut[r] = "result"

LEMMA AnswerStep == WellFormed /\ AnswerInv /\ [Next]_vars => AnswerInv'
<1> SUFFICES ASSUME WellFormed, AnswerInv, [Next]_vars PROVE AnswerInv'
  OBVIOUS
<1>0. TypeOK
  BY DEF WellFormed
<1>1. CASE UNCHANGED reqVars
  BY <1>1 DEF AnswerInv, reqVars
\* Steps that cancel futures touch none that has its result.
<1>2. ASSUME NEW C \in SUBSET Conns, CancelPending(C) PROVE AnswerInv'
  BY <1>0, <1>2 DEF AnswerInv, CancelPending, TypeOK
<1>3. ASSUME NEW c \in Conns, ReadResponse(c) PROVE AnswerInv'
  <2> DEFINE m == Head(up[c])
             woken == {r \in Waiting(c, m) : fut[r] = "pending"}
  <2>1. up[c] # <<>> /\ up \in [Conns -> Seq(UpMessages)] /\ pending[c] \subseteq Requests
    BY <1>0, <1>3 DEF ReadResponse, CanRead, TypeOK
  <2>2. m \in UpMessages
    BY <2>1, TakenType
  <2>3. \A r \in woken : m.from \in Requests /\ MessageId[m.from] = MessageId[r]
    BY <2>1, <2>2, ResponseIds
  <2>4. /\ fut' = [r \in Requests |-> IF r \in woken THEN "result" ELSE fut[r]]
        /\ answer' = [r \in Requests |-> IF r \in woken THEN m.from ELSE answer[r]]
        /\ phase' = phase
    BY <1>3 DEF ReadResponse
  <2> HIDE DEF m, woken
  <2> QED BY <2>3, <2>4 DEF AnswerInv
<1>4. ASSUME NEW r \in Requests, Forward(r) PROVE AnswerInv'
  <2>1. /\ phase[r] = "idle" /\ fut' = [fut EXCEPT ![r] = "pending"] /\ answer' = answer
        /\ \E to \in Sent : phase' = [phase EXCEPT ![r] = to]
    BY <1>4 DEF Forward, SendForwarded, AfterWrite, Sent
  <2> QED BY <1>0, <2>1 DEF AnswerInv, TypeOK, Sent
<1>5. ASSUME NEW r \in Requests,
             ForwardRefused(r) \/ ForwardWrite(r) \/ ForwardSent(r) \/ ForwardBroken(r) \/ ForwardTimeout(r)
      PROVE  AnswerInv'
  <2>1. /\ \E to \in Sent \cup {"refused", "failed"} : phase' = [phase EXCEPT ![r] = to]
        /\ fut' = fut /\ answer' = answer
    BY <1>5 DEF ForwardRefused, ForwardWrite, SendForwarded, AfterWrite, ForwardSent, ForwardBroken,
       ForwardTimeout, ForwardFails, Sent
  <2> QED BY <1>0, <2>1 DEF AnswerInv, TypeOK, Sent
<1>6. ASSUME NEW r \in Requests, ForwardAnswered(r) PROVE AnswerInv'
  BY <1>0, <1>6 DEF AnswerInv, ForwardAnswered, TypeOK
<1>7. ASSUME NEW c \in Conns, RegistrationStep(c) \/ ReaderStep(c) PROVE AnswerInv'
  <2>1. UNCHANGED reqVars \/ CancelPending({c}) \/ ReadResponse(c)
    BY <1>7 DEF RegistrationStep, AckDrained, AckFails, Unregister, RegistrationRaises, ReaderStep,
       ReadHeartbeat, HeartbeatReply, HeartbeatReplied, HeartbeatReplyFails, ReadEnd, ReadReset
  <2> QED BY <1>1, <1>2, <1>3, <2>1
<1>8. ASSUME NEW c \in Conns, Connect(c) \/ Register(c) \/ Reject(c) \/ Drop(c) \/ NetworkStep(c)
      PROVE  AnswerInv'
  <2>1. UNCHANGED reqVars
    BY <1>0, <1>8, NetworkChanges DEF Connect, Register, Reject, Drop
  <2> QED BY <1>1, <2>1
<1>9. ASSUME NEW n \in Nodes, NodeStep(n) \/ Heartbeat(n) \/ RegistrationFails(n) \/ Disconnect(n) \/ NodeEnds(n)
      PROVE  AnswerInv'
  <2>1. UNCHANGED reqVars
    BY <1>9 DEF NodeStep, ReceiveAck, ReadForwarded, Respond, RespondNothing, ResponseSent,
       ResponseFails, ReadDropped, NodeMoves, Heartbeat, RegistrationFails, Disconnect, CloseAtNode, NodeEnds, Leave
  <2> QED BY <1>1, <2>1
<1>10. CASE Stop
  <2>1. \E C \in SUBSET Conns : CancelPending(C)
    BY <1>10 DEF Stop
  <2> QED BY <1>2, <2>1
<1>11. CASE UNCHANGED vars
  BY <1>1, <1>11 DEF vars
<1> QED BY <1>4, <1>5, <1>6, <1>7, <1>8, <1>9, <1>10, <1>11 DEF Next, RequestStep

LEMMA SpecAnswerInv == Spec => [](WellFormed /\ AnswerInv)
<1>1. Init => AnswerInv
  BY DEF Init, AnswerInv
<1>2. WellFormed /\ AnswerInv /\ [Next]_vars => (WellFormed /\ AnswerInv)'
  BY NextWellFormed, AnswerStep
<1> QED BY <1>1, <1>2, InitWellFormed, PTL DEF Spec

\* Whatever ids requests carry, repeated ones included, the answer a client
\* is given answers a message with the id of its own.
THEOREM AnswersMatchIds == Spec => []SameIdAnswer
<1>1. AnswerInv => SameIdAnswer
  BY DEF AnswerInv, SameIdAnswer
<1> QED BY <1>1, SpecAnswerInv, PTL

\* When every request has an id of its own, no two requests multiplexed on a
\* channel are ever crossed.
THEOREM AnswersNeverCross ==
  (\A q, r \in Requests : MessageId[q] = MessageId[r] => q = r) => (Spec => []OwnAnswer)
<1> SUFFICES ASSUME \A q, r \in Requests : MessageId[q] = MessageId[r] => q = r
    PROVE  Spec => []OwnAnswer
  OBVIOUS
<1>1. AnswerInv => OwnAnswer
  BY DEF AnswerInv, OwnAnswer
<1> QED BY <1>1, SpecAnswerInv, PTL

----------------------------------------------------------------------------
(* The ACK comes first.                                                    *)

\* While a node registers nothing is written to it before the ACK; from then
\* on, as long as the connection is up, the ACK heads its queue.
AckFirstOn(c) ==
  /\ ~Begun(c) => down[c] = <<>>
  /\ down[c] # <<>> => Head(down[c]) = Ack
  /\ wire[c] = "up" /\ Begun(c) => down[c] # <<>>

AckInv == \A n \in Nodes : client[n] = "registering" => AckFirstOn(conn[n])

\* What a step on connection c may do without harm: nothing, or add a message
\* behind the others of a registered connection, or lose the connection.
Harmless(c) ==
  /\ Begun(c)' <=> Begun(c)
  /\ \/ down'[c] = down[c] /\ (wire'[c] = "up" => wire[c] = "up")
     \/ Begun(c) /\ wire' = wire /\ \E m \in DownMessages : down'[c] = Written(down, c, m)[c]
     \/ wire'[c] # "up" /\ (down'[c] # <<>> => down[c] # <<>> /\ Head(down'[c]) = Head(down[c]))

LEMMA HarmlessStep ==
  ASSUME WellFormed, AckInv,
         \A n \in Nodes : client'[n] = "registering" =>
           client[n] = "registering" /\ conn'[n] = conn[n] /\ Harmless(conn[n])
  PROVE  AckInv'
<1> SUFFICES ASSUME NEW n \in Nodes, client'[n] = "registering" PROVE AckFirstOn(conn[n])'
  BY DEF AckInv
<1> DEFINE c == conn[n]
<1>1. client[n] = "registering" /\ conn'[n] = c /\ Harmless(c) /\ AckFirstOn(c) /\ c \in Conns
  BY DEF AckInv, WellFormed, ClientInv
<1>2. down \in [Conns -> Seq(DownMessages)] /\ down[c] \in Seq(DownMessages)
  BY <1>1 DEF WellFormed, TypeOK
<1> SUFFICES /\ ~Begun(c)' => down'[c] = <<>>
             /\ down'[c] # <<>> => Head(down'[c]) = Ack
             /\ wire'[c] = "up" /\ Begun(c)' => down'[c] # <<>>
  BY <1>1 DEF AckFirstOn, Begun
<1>3. CASE down'[c] = down[c] /\ (wire'[c] = "up" => wire[c] = "up")
  BY <1>1, <1>3 DEF AckFirstOn, Harmless
<1>4. CASE Begun(c) /\ wire' = wire /\ \E m \in DownMessages : down'[c] = Written(down, c, m)[c]
  <2>1. PICK m \in DownMessages : down'[c] = Written(down, c, m)[c]
    BY <1>4
  <2>2. CASE wire[c] = "up"
    <3>1. down'[c] = Append(down[c], m) /\ down[c] # <<>> /\ Head(down[c]) = Ack
      BY <1>1, <1>2, <1>4, <2>1, <2>2 DEF Written, AckFirstOn
    <3>2. Append(down[c], m) # <<>> /\ Head(Append(down[c], m)) = Head(down[c])
      BY <1>2, <3>1, HeadTailAppend
    <3> QED BY <1>1, <1>4, <3>1, <3>2 DEF Harmless
  <2>3. CASE wire[c] # "up"
    BY <1>1, <1>2, <1>4, <2>1, <2>3 DEF Written, AckFirstOn, Harmless
  <2> QED BY <2>2, <2>3
<1>5. CASE wire'[c] # "up" /\ (down'[c] # <<>> => down[c] # <<>> /\ Head(down'[c]) = Head(down[c]))
  BY <1>1, <1>5 DEF AckFirstOn, Harmless
<1> QED BY <1>1, <1>3, <1>4, <1>5 DEF Harmless

\* The steps of a connection's own tasks.
LEMMA ConnectionAckInv ==
  ASSUME NEW c \in Conns, WellFormed, AckInv,
         \/ Connect(c) \/ Register(c) \/ Reject(c)
         \/ AckDrained(c) \/ AckFails(c) \/ Unregister(c) \/ RegistrationRaises(c)
         \/ ReaderStep(c)
  PROVE  AckInv'
<1>0. TypeOK /\ ClientInv /\ ConnInv /\ NodeOf[c] \in Nodes
  BY GatewayAssumption DEF WellFormed
<1>1. \A n \in Nodes : client[n] = "registering" =>
        conn[n] \in Conns /\ NodeOf[conn[n]] = n /\ AckFirstOn(conn[n])
  BY <1>0 DEF ClientInv, AckInv
<1>2. CASE Connect(c)
  <2> SUFFICES ASSUME NEW n \in Nodes, client'[n] = "registering" PROVE AckFirstOn(conn[n])'
    BY DEF AckInv
  <2>1. CASE n = NodeOf[c]
    <3>1. conn'[n] = c /\ down'[c] = <<>> /\ ~Begun(c)'
      BY <1>0, <1>2, <2>1 DEF Connect, ConnInv, TypeOK, Begun
    <3> QED BY <3>1 DEF AckFirstOn, Begun
  <2>2. CASE n # NodeOf[c]
    <3>1. /\ client[n] = "registering" /\ conn'[n] = conn[n] /\ conn[n] # c /\ conn[n] \in Conns
          /\ AckFirstOn(conn[n])
      BY <1>0, <1>1, <1>2, <2>2 DEF Connect, TypeOK
    <3>2. /\ handler'[conn[n]] = handler[conn[n]] /\ wire'[conn[n]] = wire[conn[n]]
          /\ down'[conn[n]] = down[conn[n]]
      BY <1>0, <1>2, <3>1 DEF Connect, TypeOK
    <3> QED BY <3>1, <3>2 DEF AckFirstOn, Begun
  <2> QED BY <2>1, <2>2
<1>3. CASE Register(c) \/ Reject(c)
  <2>0. client' = client /\ conn' = conn
    BY <1>3 DEF Register, Reject, nodeVars
  <2> SUFFICES ASSUME NEW n \in Nodes, client[n] = "registering" PROVE AckFirstOn(conn[n])'
    BY <2>0 DEF AckInv
  <2>1. CASE conn[n] = c
    <3>1. down[c] = <<>> /\ handler[c] = "accepted" /\ AckFirstOn(c) /\ Begun(c)'
      BY <1>0, <1>1, <1>3, <2>1 DEF AckFirstOn, Begun, Register, Reject, TypeOK, AfterWrite
    <3>2. CASE Register(c)
      <4>1. wire' = wire /\ down'[c] = (IF wire[c] = "up" THEN Append(<<>>, Ack) ELSE <<>>)
        BY <1>0, <3>1, <3>2 DEF Register, Written, TypeOK
      <4>2. Append(<<>>, Ack) # <<>> /\ Head(Append(<<>>, Ack)) = Ack
        OBVIOUS
      <4> QED BY <2>0, <2>1, <3>1, <4>1, <4>2 DEF AckFirstOn, Begun
    <3>3. CASE Reject(c)
      <4>1. down'[c] = <<>> /\ wire'[c] = "down"
        <5>1. Len(down[c]) = 0 /\ Drained(down, c)
          BY <3>1, GatewayAssumption DEF Drained
        <5> QED BY <1>0, <3>1, <3>3, <5>1 DEF Reject, CloseAtGateway, TypeOK
      <4> QED BY <2>0, <2>1, <3>1, <4>1 DEF AckFirstOn, Begun
    <3> QED BY <1>3, <3>2, <3>3
  <2>2. CASE conn[n] # c
    <3>1. /\ handler'[conn[n]] = handler[conn[n]] /\ wire'[conn[n]] = wire[conn[n]]
          /\ down'[conn[n]] = down[conn[n]]
      BY <1>0, <1>1, <1>3, <2>2 DEF Register, Reject, CloseAtGateway, Written, TypeOK
    <3> QED BY <1>1, <2>0, <3>1 DEF AckFirstOn, Begun
  <2> QED BY <2>1, <2>2
<1>4. CASE AckDrained(c) \/ AckFails(c) \/ Unregister(c) \/ RegistrationRaises(c)
  <2>1. /\ client' = client /\ conn' = conn /\ down' = down
        /\ \A d \in Conns : (Begun(d)' <=> Begun(d)) /\ (wire'[d] = "up" => wire[d] = "up")
    BY <1>0, <1>4 DEF AckDrained, AckFails, Unregister, RegistrationRaises, CloseAtGateway,
       nodeVars, netVars, Begun, TypeOK
  <2> QED BY <1>1, <2>1, HarmlessStep DEF Harmless
<1>5. CASE ReaderStep(c)
  <2>1. client' = client /\ conn' = conn /\ handler' = handler /\ wire' = wire
    BY <1>5 DEF ReaderStep, ReadHeartbeat, HeartbeatReply, HeartbeatReplied, HeartbeatReplyFails,
       ReadResponse, ReadEnd, ReadReset, nodeVars, netVars
  <2>2. Begun(c)
    BY <1>0, <1>5 DEF ReaderStep, ReadHeartbeat, HeartbeatReply, HeartbeatReplied,
       HeartbeatReplyFails, ReadResponse, ReadEnd, ReadReset, CanRead, ConnInv
  <2>3. down' = down \/ down' = Written(down, c, PingReply)
    BY <1>5 DEF ReaderStep, ReadHeartbeat, HeartbeatReply, HeartbeatReplied, HeartbeatReplyFails,
       ReadResponse, ReadEnd, ReadReset, netVars, SendPingReply
  <2>4. \A d \in Conns : d # c => Written(down, c, PingReply)[d] = down[d]
    BY <1>0 DEF Written, TypeOK
  <2>5. \A d \in Conns : Harmless(d)
    BY <2>1, <2>2, <2>3, <2>4, MessageTypes DEF Harmless, Begun
  <2> QED BY <1>1, <2>1, <2>5, HarmlessStep
<1> QED BY <1>2, <1>3, <1>4, <1>5

\* The steps of requests, of nodes, of the network, and stop().
LEMMA OtherAckInv ==
  ASSUME WellFormed, AckInv,
         \/ \E r \in Requests : ForwardRefused(r) \/ Forward(r) \/ RequestStep(r)
         \/ \E n \in Nodes : NodeStep(n) \/ Heartbeat(n) \/ RegistrationFails(n) \/ Disconnect(n) \/ NodeEnds(n)
         \/ \E c \in Conns : Drop(c) \/ NetworkStep(c)
         \/ Stop
  PROVE  AckInv'
<1>0. TypeOK /\ ClientInv /\ RouteInv /\ ChanInv /\ ConnInv
  BY DEF WellFormed
<1>1. \A n \in Nodes : client[n] = "registering" =>
        conn[n] \in Conns /\ NodeOf[conn[n]] = n /\ AckFirstOn(conn[n])
  BY <1>0 DEF ClientInv, AckInv
<1>2. ASSUME NEW r \in Requests, ForwardRefused(r) \/ Forward(r) \/ RequestStep(r) PROVE AckInv'
  <2>1. client' = client /\ conn' = conn /\ handler' = handler /\ wire' = wire
    BY <1>2 DEF RequestStep, ForwardRefused, Forward, ForwardWrite, ForwardSent, ForwardBroken,
       ForwardTimeout, ForwardFails, ForwardAnswered, nodeVars, netVars, gwVars
  <2>2. \/ down' = down
        \/ \E c \in Conns : Begun(c) /\ down' = Written(down, c, Forwarded(r))
    <3>1. CASE Forward(r)
      <4>0. Target[r] \in Nodes /\ routes[Target[r]] # NoConn
        BY <3>1, GatewayAssumption DEF Forward
      <4>1. routes[Target[r]] \in Conns /\ Begun(routes[Target[r]])
        BY <1>0, <4>0 DEF RouteInv, TypeOK
      <4>2. down' = down \/ down' = Written(down, routes[Target[r]], Forwarded(r))
        BY <3>1 DEF Forward, SendForwarded
      <4> QED BY <4>1, <4>2
    <3>2. CASE ForwardWrite(r)
      <4>1. chanOf[r] \in Conns /\ Begun(chanOf[r])
        BY <1>0, <3>2 DEF ForwardWrite, ChanInv, Sent
      <4> QED BY <3>2, <4>1 DEF ForwardWrite, SendForwarded
    <3>3. CASE ForwardRefused(r) \/ ForwardSent(r) \/ ForwardBroken(r) \/ ForwardTimeout(r) \/ ForwardAnswered(r)
      BY <3>3 DEF ForwardRefused, ForwardSent, ForwardBroken, ForwardTimeout, ForwardFails,
         ForwardAnswered, netVars
    <3> QED BY <1>2, <3>1, <3>2, <3>3 DEF RequestStep
  <2>3. \A c, d \in Conns : d # c => Written(down, c, Forwarded(r))[d] = down[d]
    BY <1>0 DEF Written, TypeOK
  <2>4. \A d \in Conns : Harmless(d)
    BY <2>1, <2>2, <2>3, MessageTypes DEF Harmless, Begun
  <2> QED BY <1>1, <2>1, <2>4, HarmlessStep
<1>3. ASSUME NEW n \in Nodes, NodeStep(n) \/ Heartbeat(n) \/ RegistrationFails(n) \/ Disconnect(n) \/ NodeEnds(n)
      PROVE  AckInv'
  <2>1. \/ client[n] = "registering" /\ client'[n] # "registering"
        \/ client[n] # "registering" /\ client'[n] # "registering"
    BY <1>0, <1>3 DEF NodeStep, ReceiveAck, ReadForwarded, Respond, RespondNothing, ResponseSent,
       ResponseFails, ReadDropped, NodeMoves, Heartbeat, RegistrationFails, Disconnect, CloseAtNode, NodeEnds, Leave,
       TypeOK
  <2>2. /\ handler' = handler /\ client[n] # "off"
        /\ \A m \in Nodes : m # n => client'[m] = client[m] /\ conn'[m] = conn[m]
        /\ \A d \in Conns : d # conn[n] => down'[d] = down[d] /\ wire'[d] = wire[d]
    <3>1. CASE ReceiveAck(n)
      BY <1>0, <3>1 DEF ReceiveAck, Taken, TypeOK, gwVars
    <3>2. CASE ReadForwarded(n)
      BY <1>0, <3>2 DEF ReadForwarded, Taken, TypeOK, gwVars
    <3>3. CASE Respond(n) \/ Heartbeat(n)
      BY <1>0, <3>3 DEF Respond, Heartbeat, TypeOK, gwVars
    <3>4. CASE RespondNothing(n) \/ ResponseSent(n) \/ ResponseFails(n) \/ ReadDropped(n)
      BY <1>0, <3>4 DEF RespondNothing, ResponseSent, ResponseFails, ReadDropped, NodeMoves, TypeOK,
         gwVars, netVars
    <3>5. CASE RegistrationFails(n) \/ Disconnect(n) \/ NodeEnds(n)
      BY <1>0, <3>5 DEF RegistrationFails, Disconnect, CloseAtNode, NodeEnds, Leave, TypeOK, gwVars
    <3> QED BY <1>3, <3>1, <3>2, <3>3, <3>4, <3>5 DEF NodeStep
  <2>3. conn[n] \in Conns /\ NodeOf[conn[n]] = n
    BY <1>0, <2>2 DEF ClientInv
  <2>4. \A m \in Nodes : client'[m] = "registering" =>
          /\ client[m] = "registering" /\ conn'[m] = conn[m]
          /\ conn[m] \in Conns /\ conn[m] # conn[n]
    BY <1>1, <2>1, <2>2, <2>3
  <2>5. \A d \in Conns : d # conn[n] => Harmless(d)
    BY <2>2 DEF Harmless, Begun
  <2> QED BY <2>4, <2>5, HarmlessStep
<1>4. ASSUME NEW c \in Conns, Drop(c) \/ NetworkStep(c) PROVE AckInv'
  <2>1. client' = client /\ conn' = conn /\ handler' = handler
    BY <1>0, <1>4, NetworkChanges DEF Drop, nodeVars, gwVars
  <2>2. CASE NetworkStep(c)
    <3>1. \A d \in Conns : Harmless(d)
      <4>1. /\ wire' = wire \/ wire' = [wire EXCEPT ![c] = "down"]
            /\ \/ down' = down
               \/ wire' = [wire EXCEPT ![c] = "down"] /\ down' = [down EXCEPT ![c] = <<>>]
        BY <1>0, <2>2, NetworkChanges
      <4> QED BY <1>0, <2>1, <4>1 DEF Harmless, Begun, TypeOK
    <3> QED BY <1>1, <2>1, <3>1, HarmlessStep
  <2>3. CASE Drop(c)
    <3>1. PICK i \in 0..Len(down[c]) : down' = [down EXCEPT ![c] = SubSeq(@, 1, i)]
      BY <2>3 DEF Drop
    <3>2. /\ wire'[c] = "down" /\ down'[c] = SubSeq(down[c], 1, i)
          /\ \A d \in Conns : d # c => down'[d] = down[d] /\ wire'[d] = wire[d]
      BY <1>0, <2>3, <3>1 DEF Drop, TypeOK
    <3>3. down[c] \in Seq(DownMessages) /\ Len(down[c]) \in Nat /\ i \in Nat
      BY <1>0, LenProperties DEF TypeOK
    <3>4. down'[c] # <<>> => down[c] # <<>> /\ Head(down'[c]) = Head(down[c])
      BY <3>2, <3>3
    <3>5. \A d \in Conns : Harmless(d)
      BY <2>1, <3>2, <3>4 DEF Harmless, Begun
    <3> QED BY <1>1, <2>1, <3>5, HarmlessStep
  <2> QED BY <1>4, <2>2, <2>3
<1>5. CASE Stop
  <2>1. /\ client' = client /\ conn' = conn /\ handler' = handler /\ down' = down
        /\ \A d \in Conns : wire'[d] = "up" => wire[d] = "up"
    <3>1. \E C \in SUBSET Conns : CloseAtGateway(C)
      BY <1>5 DEF Stop
    <3>2. down' = down /\ \A d \in Conns : wire'[d] = wire[d] \/ wire'[d] = "down"
      BY <1>0, <3>1, ClosedAtGateway
    <3> QED BY <1>5, <3>2 DEF Stop, nodeVars
  <2>2. \A d \in Conns : Harmless(d)
    BY <2>1 DEF Harmless, Begun
  <2> QED BY <1>1, <2>1, <2>2, HarmlessStep
<1> QED BY <1>2, <1>3, <1>4, <1>5

\* Nothing reaches a registering node before the ACK, though its route is
\* published before the ACK is sent.
THEOREM AckComesFirst == Spec => []AckFirst
<1>1. Init => AckInv
  BY DEF Init, AckInv
<1>2. WellFormed /\ AckInv /\ [Next]_vars => (WellFormed /\ AckInv)'
  <2> SUFFICES ASSUME WellFormed, AckInv, [Next]_vars PROVE AckInv'
    BY NextWellFormed
  <2>1. CASE UNCHANGED vars
    BY <2>1 DEF vars, netVars, gwVars, nodeVars, AckInv, AckFirstOn, Begun
  <2>2. CASE Next
    BY <2>2, ConnectionAckInv, OtherAckInv DEF Next, RegistrationStep
  <2> QED BY <2>1, <2>2
<1>3. AckInv => AckFirst
  BY DEF AckInv, AckFirstOn, AckFirst
<1> QED BY <1>1, <1>2, <1>3, InitWellFormed, PTL DEF Spec

----------------------------------------------------------------------------
(* Routes, where no connection is ever reset.                              *)

\* The handler of a routed connection is still there, and no read loop raised.
ServedInv ==
  /\ \A c \in Conns : gwEnd[c] # "reset" /\ reader[c] # "raised"
  /\ \A n \in Nodes : routes[n] # NoConn => handler[routes[n]] \in {"acking", "serving"}

LEMMA ServedStep ==
  ASSUME "reset" \notin Endings, WellFormed, ServedInv, [Next]_vars
  PROVE  ServedInv'
<1>0. TypeOK /\ RouteInv
  BY DEF WellFormed
<1>1. \A n \in Nodes : routes[n] # NoConn =>
        routes[n] \in Conns /\ NodeOf[routes[n]] = n /\ handler[routes[n]] \in {"acking", "serving"}
  BY <1>0 DEF RouteInv, ServedInv, TypeOK
<1>2. CASE UNCHANGED <<gwEnd, reader, routes, handler>>
  BY <1>2 DEF ServedInv
<1>3. ASSUME NEW c \in Conns, Connect(c) \/ Register(c) \/ Reject(c) \/ RegistrationStep(c)
      PROVE  ServedInv'
  <2>0. NodeOf[c] \in Nodes
    BY GatewayAssumption
  <2>1. CASE Connect(c)
    <3>1. /\ handler[c] # "acking" /\ handler[c] # "serving"
          /\ handler' = [handler EXCEPT ![c] = "accepted"]
          /\ UNCHANGED <<gwEnd, reader, routes>>
      BY <1>0, <2>1 DEF Connect, WellFormed, ConnInv
    <3> QED BY <1>0, <1>1, <3>1 DEF ServedInv, TypeOK
  <2>2. CASE Register(c)
    <3>1. /\ \E to \in {"acking", "serving"} : handler' = [handler EXCEPT ![c] = to]
          /\ routes' = [routes EXCEPT ![NodeOf[c]] = c]
          /\ reader' = [reader EXCEPT ![c] = "reading"]
          /\ gwEnd' = gwEnd
      BY <2>2 DEF Register, AfterWrite
    <3> QED BY <1>0, <1>1, <2>0, <3>1 DEF ServedInv, TypeOK
  <2>3. CASE Reject(c)
    <3>1. /\ handler[c] = "accepted" /\ handler' = [handler EXCEPT ![c] = "done"]
          /\ UNCHANGED <<reader, routes>>
          /\ \A d \in Conns : gwEnd'[d] # "reset"
      BY <1>0, <2>3, ClosedAtGateway DEF Reject, ServedInv
    <3> QED BY <1>0, <1>1, <3>1 DEF ServedInv, TypeOK
  <2>4. CASE AckDrained(c)
    <3>1. /\ handler' = [handler EXCEPT ![c] = "serving"]
          /\ UNCHANGED <<gwEnd, reader, routes>>
      BY <2>4 DEF AckDrained, netVars
    <3> QED BY <1>0, <1>1, <3>1 DEF ServedInv, TypeOK
  <2>5. CASE AckFails(c) \/ Unregister(c)
    <3>1. /\ handler' = [handler EXCEPT ![c] = "done"]
          /\ \A d \in Conns : gwEnd'[d] # "reset"
          /\ reader' = reader \/ reader' = [reader EXCEPT ![c] = "cancelled"]
          /\ routes' = [routes EXCEPT ![NodeOf[c]] = NoConn]
      <4>1. CloseAtGateway({c})
        BY <2>5 DEF AckFails, Unregister
      <4>2. \A d \in Conns : gwEnd'[d] # "reset"
        BY <1>0, <4>1, ClosedAtGateway DEF ServedInv
      <4> QED BY <2>5, <4>2 DEF AckFails, Unregister, WithoutRoute
    <3> QED BY <1>0, <1>1, <2>0, <3>1 DEF ServedInv, TypeOK
  <2>6. ~RegistrationRaises(c)
    BY DEF RegistrationRaises, ServedInv
  <2> QED BY <1>3, <2>1, <2>2, <2>3, <2>4, <2>5, <2>6 DEF RegistrationStep
<1>4. ASSUME NEW c \in Conns, ReaderStep(c) PROVE ServedInv'
  <2>1. \E to \in {"reading", "locking", "replying", "ended"} :
          reader' = [reader EXCEPT ![c] = to] \/ reader' = reader
    BY <1>4 DEF ReaderStep, ReadHeartbeat, HeartbeatReply, SendPingReply, AfterWrite, HeartbeatReplied,
       HeartbeatReplyFails, ReadResponse, ReadEnd, ReadReset, ServedInv
  <2>2. UNCHANGED <<gwEnd, routes, handler>>
    BY <1>4 DEF ReaderStep, ReadHeartbeat, HeartbeatReply, HeartbeatReplied, HeartbeatReplyFails,
       ReadResponse, ReadEnd, ReadReset, netVars
  <2> QED BY <1>0, <2>1, <2>2 DEF ServedInv, TypeOK
<1>5. ASSUME NEW r \in Requests, ForwardRefused(r) \/ Forward(r) \/ RequestStep(r) PROVE ServedInv'
  <2>1. UNCHANGED <<gwEnd, reader, routes, handler>>
    BY <1>5 DEF RequestStep, ForwardRefused, Forward, ForwardWrite, ForwardSent, ForwardBroken,
       ForwardTimeout, ForwardFails, ForwardAnswered, netVars, gwVars
  <2> QED BY <1>2, <2>1
<1>6. ASSUME NEW n \in Nodes, NodeStep(n) \/ Heartbeat(n) \/ RegistrationFails(n) \/ Disconnect(n) \/ NodeEnds(n)
      PROVE  ServedInv'
  <2>1. UNCHANGED <<gwEnd, reader, routes, handler>>
    BY <1>6 DEF NodeStep, ReceiveAck, ReadForwarded, Respond, RespondNothing, ResponseSent,
       ResponseFails, ReadDropped, NodeMoves, Heartbeat, RegistrationFails, Disconnect, CloseAtNode, NodeEnds, Leave,
       gwVars, netVars
  <2> QED BY <1>2, <2>1
<1>7. ASSUME NEW c \in Conns, Drop(c) \/ NetworkStep(c) PROVE ServedInv'
  <2>1. gwEnd' = gwEnd \/ gwEnd' = [gwEnd EXCEPT ![c] = "eof"]
    <3>1. \A e \in Endings : e = "eof"
      BY GatewayAssumption
    <3> QED BY <1>0, <1>7, <3>1, NetworkChanges DEF Drop
  <2>2. UNCHANGED <<reader, routes, handler>>
    BY <1>0, <1>7, NetworkChanges DEF Drop, gwVars
  <2> QED BY <1>0, <2>1, <2>2 DEF ServedInv, TypeOK
<1>8. CASE Stop
  <2>1. \E C \in SUBSET Conns : CloseAtGateway(C)
    BY <1>8 DEF Stop
  <2>2. \A d \in Conns : gwEnd'[d] # "reset"
    BY <1>0, <2>1, ClosedAtGateway DEF ServedInv
  <2> QED BY <1>0, <1>8, <2>2 DEF Stop, ServedInv, TypeOK
<1>9. CASE UNCHANGED vars
  BY <1>2, <1>9 DEF vars, netVars, gwVars
<1> QED BY <1>3, <1>4, <1>5, <1>6, <1>7, <1>8, <1>9 DEF Next

\* Where connections end but are never reset, a route always leads to a
\* connection of its node whose handler is there to remove it (_register_node).
THEOREM RoutesAreServed == "reset" \notin Endings => (Spec => []RoutedIsServed)
<1> SUFFICES ASSUME "reset" \notin Endings PROVE Spec => []RoutedIsServed
  OBVIOUS
<1>1. Init => ServedInv
  BY DEF Init, ServedInv
<1>2. WellFormed /\ ServedInv /\ [Next]_vars => (WellFormed /\ ServedInv)'
  BY NextWellFormed, ServedStep
<1>3. WellFormed /\ ServedInv => RoutedIsServed
  BY DEF WellFormed, RouteInv, ServedInv, RoutedIsServed
<1> QED BY <1>1, <1>2, <1>3, InitWellFormed, PTL DEF Spec

----------------------------------------------------------------------------
(* Executions.                                                             *)

\* A request whose message was written to its channel.
Placed(r) == phase[r] \in {"sending", "awaiting", "answered", "failed"}

\* A message on its way to a node is the only copy of a request that was not
\* executed yet, and it is on the channel of that request.
CopyInv ==
  \A c \in Conns, r \in Requests : \A i \in 1..Len(down[c]) : down[c][i].req = r =>
    /\ chanOf[r] = c /\ executed[r] = 0 /\ Placed(r)
    /\ \A j \in 1..Len(down[c]) : down[c][j].req = r => j = i

\* What is executed was placed, and was executed once.
OnceInv == \A r \in Requests : executed[r] \in 0..1 /\ (executed[r] = 1 => Placed(r))

\* What a node works on, what it answers and what an answer resolved was
\* executed.
SourceInv ==
  /\ \A n \in Nodes, r \in Requests : job[n].req = r => executed[r] = 1
  /\ \A c \in Conns, r \in Requests : \A i \in 1..Len(up[c]) : up[c][i].from = r => executed[r] = 1
  /\ \A r \in Requests : fut[r] = "result" => executed[answer[r]] = 1

ExecInv == CopyInv /\ OnceInv /\ SourceInv

\* q' holds messages of q, in their order and in their places or all of them
\* one place further on, and messages of the set Quiet.
Carried(q, new, Quiet) ==
  \E k \in {0, 1} : \A i \in 1..Len(new) :
    new[i] \in Quiet \/ (i + k \in 1..Len(q) /\ new[i] = q[i + k])

QuietDown == {Ack, PingReply}
QuietUp == {Ping, PingEcho}

\* The messages about no request are the quiet ones.
LEMMA QuietMessages ==
  /\ \A m \in QuietDown, r \in Requests : m.req # r
  /\ \A m \in QuietUp, r \in Requests : m.from # r
  /\ \A r, q \in Requests : Forwarded(r).req = q <=> q = r
  /\ \A r \in Requests : Response(r).from = r
BY GatewayAssumption DEF QuietDown, QuietUp, Ack, PingReply, Ping, PingEcho, Forwarded, Response

\* A queue that is left alone, emptied, cut short, read from, or written a
\* quiet message carries what it held.
LEMMA SameCarried ==
  ASSUME NEW S, NEW q \in Seq(S), NEW Quiet
  PROVE  Carried(q, q, Quiet) /\ Carried(q, <<>>, Quiet)
BY DEF Carried

LEMMA CutCarried ==
  ASSUME NEW S, NEW q \in Seq(S), NEW Quiet, NEW n \in 0..Len(q)
  PROVE  Carried(q, SubSeq(q, 1, n), Quiet)
<1>1. Len(SubSeq(q, 1, n)) = n /\ \A i \in 1..n : SubSeq(q, 1, n)[i] = q[i]
  BY SubSeqProperties
<1> QED BY <1>1 DEF Carried

LEMMA TailCarried ==
  ASSUME NEW S, NEW q \in Seq(S), NEW Quiet, q # <<>>
  PROVE  Carried(q, Tail(q), Quiet)
<1>1. Len(q) \in Nat \ {0} /\ Len(Tail(q)) = Len(q) - 1
      /\ \A i \in 1..Len(Tail(q)) : Tail(q)[i] = q[i + 1]
  BY HeadTailProperties, LenProperties, EmptySeq
<1>2. \A i \in 1..Len(Tail(q)) : i + 1 \in 1..Len(q) /\ Tail(q)[i] = q[i + 1]
  BY <1>1
<1> QED BY <1>2 DEF Carried

LEMMA AppendCarried ==
  ASSUME NEW S, NEW q \in Seq(S), NEW Quiet, NEW m \in Quiet
  PROVE  Carried(q, Append(q, m), Quiet)
<1>1. /\ Len(q) \in Nat /\ Len(Append(q, m)) = Len(q) + 1
      /\ Append(q, m)[Len(q) + 1] = m /\ \A i \in 1..Len(q) : Append(q, m)[i] = q[i]
  OBVIOUS
<1>2. \A i \in 1..Len(Append(q, m)) : Append(q, m)[i] \in Quiet \/ (i + 0 \in 1..Len(q) /\ Append(q, m)[i] = q[i + 0])
  BY <1>1
<1> QED BY <1>2 DEF Carried

LEMMA WrittenCarried ==
  ASSUME NEW S, NEW q \in [Conns -> Seq(S)], NEW c \in Conns, NEW Quiet, NEW m \in Quiet
  PROVE  \A d \in Conns : Carried(q[d], Written(q, c, m)[d], Quiet)
<1> SUFFICES ASSUME NEW d \in Conns PROVE Carried(q[d], Written(q, c, m)[d], Quiet)
  OBVIOUS
<1>1. Written(q, c, m)[d] = q[d] \/ Written(q, c, m)[d] = Append(q[d], m)
  BY DEF Written
<1> QED BY <1>1, SameCarried, AppendCarried

LEMMA TakenCarried ==
  ASSUME NEW S, NEW q \in [Conns -> Seq(S)], NEW c \in Conns, NEW Quiet, q[c] # <<>>
  PROVE  \A d \in Conns : Carried(q[d], Taken(q, c)[d], Quiet)
<1> SUFFICES ASSUME NEW d \in Conns PROVE Carried(q[d], Taken(q, c)[d], Quiet)
  OBVIOUS
<1>1. Taken(q, c)[d] = q[d] \/ (q[d] # <<>> /\ Taken(q, c)[d] = Tail(q[d]))
  BY DEF Taken
<1> QED BY <1>1, SameCarried, TailCarried

----------------------------------------------------------------------------
(* How the parts of ExecInv are kept.                                      *)

\* CopyInv survives a step that writes no request and moves none back.
LEMMA CopyKept ==
  ASSUME TypeOK, CopyInv,
         \A c \in Conns : Carried(down[c], down'[c], QuietDown),
         \A r \in Requests : /\ executed'[r] = executed[r] /\ chanOf'[r] = chanOf[r]
                             /\ Placed(r) => Placed(r)'
  PROVE  CopyInv'
<1> SUFFICES ASSUME NEW c \in Conns, NEW r \in Requests, NEW i \in 1..Len(down'[c]),
                    down'[c][i].req = r
    PROVE  /\ chanOf'[r] = c /\ executed'[r] = 0 /\ Placed(r)'
           /\ \A j \in 1..Len(down'[c]) : down'[c][j].req = r => j = i
  BY DEF CopyInv
<1>1. PICK k \in {0, 1} : \A j \in 1..Len(down'[c]) :
        down'[c][j] \in QuietDown \/ (j + k \in 1..Len(down[c]) /\ down'[c][j] = down[c][j + k])
  BY DEF Carried
<1>2. \A j \in 1..Len(down'[c]) : down'[c][j].req = r => j + k \in 1..Len(down[c]) /\ down[c][j + k].req = r
  BY <1>1, QuietMessages
<1>3. /\ chanOf[r] = c /\ executed[r] = 0 /\ Placed(r)
      /\ \A j \in 1..Len(down[c]) : down[c][j].req = r => j = i + k
  BY <1>2 DEF CopyInv
<1>4. ASSUME NEW j \in 1..Len(down'[c]), down'[c][j].req = r PROVE j = i
  <2>1. j + k = i + k
    BY <1>2, <1>3, <1>4
  <2> QED BY <2>1
<1> QED BY <1>3, <1>4

\* A step that executes nothing, writes nothing but quiet messages, resolves
\* no future and takes no request back.
Plain ==
  /\ executed' = executed
  /\ \A c \in Conns : Carried(down[c], down'[c], QuietDown) /\ Carried(up[c], up'[c], QuietUp)
  /\ \A n \in Nodes : job'[n] = job[n] \/ job'[n] = Ack
  /\ \A r \in Requests :
       /\ chanOf'[r] = chanOf[r] /\ (Placed(r) => Placed(r)')
       /\ fut'[r] = "result" => fut[r] = "result" /\ answer'[r] = answer[r]

LEMMA ExecKept ==
  ASSUME TypeOK, ExecInv, Plain
  PROVE  ExecInv'
<1> USE DEF Plain
<1>1. CopyInv'
  BY CopyKept DEF ExecInv
<1>2. OnceInv'
  BY DEF ExecInv, OnceInv
<1>3. SourceInv'
  <2>1. \A n \in Nodes, r \in Requests : job'[n].req = r => executed'[r] = 1
    BY QuietMessages DEF ExecInv, SourceInv, QuietDown
  <2>2. ASSUME NEW c \in Conns, NEW r \in Requests, NEW i \in 1..Len(up'[c]), up'[c][i].from = r
        PROVE  executed'[r] = 1
    <3>1. PICK k \in {0, 1} : up'[c][i] \in QuietUp \/ (i + k \in 1..Len(up[c]) /\ up'[c][i] = up[c][i + k])
      BY DEF Carried
    <3>2. i + k \in 1..Len(up[c]) /\ up[c][i + k].from = r
      BY <2>2, <3>1, QuietMessages
    <3> QED BY <3>2 DEF ExecInv, SourceInv
  <2>3. \A r \in Requests : fut'[r] = "result" => executed'[answer'[r]] = 1
    BY DEF ExecInv, SourceInv
  <2> QED BY <2>1, <2>2, <2>3 DEF SourceInv
<1> QED BY <1>1, <1>2, <1>3 DEF ExecInv

\* The steps of a connection's tasks, but for the one that reads a response.
LEMMA ConnectionPlain ==
  ASSUME NEW c \in Conns, TypeOK,
         \/ Connect(c) \/ Register(c) \/ Reject(c) \/ RegistrationStep(c)
         \/ ReaderStep(c) /\ ~ReadResponse(c)
  PROVE  Plain /\ phase' = phase
<1>0. up \in [Conns -> Seq(UpMessages)] /\ down \in [Conns -> Seq(DownMessages)]
  BY DEF TypeOK
<1>1. executed' = executed /\ job' = job
  BY DEF Connect, Register, Reject, RegistrationStep, AckDrained, AckFails, Unregister,
     RegistrationRaises, ReaderStep, ReadHeartbeat, HeartbeatReply, HeartbeatReplied,
     HeartbeatReplyFails, ReadEnd, ReadReset, nodeVars
<1>2. UNCHANGED reqVars \/ CancelPending({c})
  BY DEF Connect, Register, Reject, RegistrationStep, AckDrained, AckFails, Unregister,
     RegistrationRaises, ReaderStep, ReadHeartbeat, HeartbeatReply, HeartbeatReplied,
     HeartbeatReplyFails, ReadEnd, ReadReset
<1>3. /\ chanOf' = chanOf /\ phase' = phase /\ answer' = answer
      /\ \A r \in Requests : fut'[r] = "result" => fut[r] = "result"
  BY <1>2 DEF reqVars, CancelPending
<1>4. down' = down \/ \E m \in QuietDown : down' = Written(down, c, m)
  <2>1. Ack \in QuietDown /\ PingReply \in QuietDown
    BY DEF QuietDown
  <2> QED BY <2>1 DEF Connect, Register, Reject, RegistrationStep, AckDrained, AckFails, Unregister,
     RegistrationRaises, CloseAtGateway, ReaderStep, ReadHeartbeat, SendPingReply, HeartbeatReply,
     HeartbeatReplied, HeartbeatReplyFails, ReadEnd, ReadReset, netVars
<1>5. \/ \A d \in Conns : up'[d] = up[d] \/ up'[d] = <<>>
      \/ up[c] # <<>> /\ up' = Taken(up, c)
  BY ClosedAtGateway DEF Connect, Register, Reject, RegistrationStep, AckDrained, AckFails, Unregister,
     RegistrationRaises, ReaderStep, ReadHeartbeat, CanRead, HeartbeatReply,
     HeartbeatReplied, HeartbeatReplyFails, ReadEnd, ReadReset, netVars
<1>6. \A d \in Conns : Carried(down[d], down'[d], QuietDown)
  BY <1>0, <1>4, SameCarried, WrittenCarried
<1>7. \A d \in Conns : Carried(up[d], up'[d], QuietUp)
  <2>1. CASE \A d \in Conns : up'[d] = up[d] \/ up'[d] = <<>>
    BY <1>0, <2>1, SameCarried
  <2>2. CASE up[c] # <<>> /\ up' = Taken(up, c)
    BY <1>0, <2>2, TakenCarried
  <2> QED BY <1>5, <2>1, <2>2
<1> QED BY <1>1, <1>3, <1>6, <1>7 DEF Plain, Placed

\* The steps of a request's task, but for those that write it.
LEMMA RequestPlain ==
  ASSUME NEW r \in Requests, TypeOK,
         \/ ForwardRefused(r) \/ ForwardSent(r) \/ ForwardBroken(r) \/ ForwardTimeout(r)
         \/ ForwardAnswered(r)
  PROVE  Plain
<1>0. up \in [Conns -> Seq(UpMessages)] /\ down \in [Conns -> Seq(DownMessages)]
  BY DEF TypeOK
<1>1. executed' = executed /\ job' = job /\ down' = down /\ up' = up
      /\ chanOf' = chanOf /\ fut' = fut /\ answer' = answer
  BY DEF ForwardRefused, ForwardSent, ForwardBroken, ForwardTimeout, ForwardFails, ForwardAnswered,
     nodeVars, netVars
<1>2. \/ phase[r] = "idle" /\ phase' = [phase EXCEPT ![r] = "refused"]
      \/ \E to \in {"awaiting", "failed", "answered"} : phase' = [phase EXCEPT ![r] = to]
  BY DEF ForwardRefused, ForwardSent, ForwardBroken, ForwardTimeout, ForwardFails, ForwardAnswered
<1>3. \A q \in Requests : Placed(q) => Placed(q)'
  BY <1>2 DEF Placed, TypeOK
<1> QED BY <1>0, <1>1, <1>3, SameCarried DEF Plain

\* The steps of a node, but for those that dispatch and answer a message.
LEMMA NodePlain ==
  ASSUME NEW n \in Nodes, TypeOK, ClientInv,
         \/ ReceiveAck(n) \/ RespondNothing(n) \/ ResponseSent(n) \/ ResponseFails(n)
         \/ ReadDropped(n) \/ Heartbeat(n) \/ RegistrationFails(n) \/ Disconnect(n) \/ NodeEnds(n)
  PROVE  Plain /\ phase' = phase
<1>0. up \in [Conns -> Seq(UpMessages)] /\ down \in [Conns -> Seq(DownMessages)]
  BY DEF TypeOK
<1>3. conn[n] \in Conns
  <2>1. client[n] # "off"
    BY DEF ReceiveAck, RespondNothing, ResponseSent, ResponseFails, ReadDropped, Heartbeat,
       RegistrationFails, Disconnect, NodeEnds
  <2> QED BY <2>1 DEF ClientInv
<1>1. executed' = executed /\ UNCHANGED reqVars
  BY <1>3, LeftByNode
     DEF ReceiveAck, RespondNothing, ResponseSent, ResponseFails, ReadDropped, NodeMoves, Heartbeat
<1>2. job' = job \/ job' = [job EXCEPT ![n] = Ack]
  BY <1>3, LeftByNode
     DEF ReceiveAck, RespondNothing, ResponseSent, ResponseFails, ReadDropped, NodeMoves, Heartbeat
<1>4. \/ down' = down \/ down' = [down EXCEPT ![conn[n]] = <<>>]
      \/ down[conn[n]] # <<>> /\ down' = Taken(down, conn[n])
  BY <1>3, LeftByNode
     DEF ReceiveAck, Readable, RespondNothing, ResponseSent, ResponseFails, ReadDropped, NodeMoves,
     Heartbeat, netVars
<1>5. up' = up \/ up' = Written(up, conn[n], Ping)
  BY <1>3, LeftByNode
     DEF ReceiveAck, RespondNothing, ResponseSent, ResponseFails, ReadDropped, NodeMoves, Heartbeat,
     netVars
<1>6. \A d \in Conns : Carried(down[d], down'[d], QuietDown)
  <2>1. CASE down' = down \/ down' = [down EXCEPT ![conn[n]] = <<>>]
    BY <1>0, <2>1, SameCarried
  <2>2. CASE down[conn[n]] # <<>> /\ down' = Taken(down, conn[n])
    BY <1>0, <1>3, <2>2, TakenCarried
  <2> QED BY <1>4, <2>1, <2>2
<1>7. \A d \in Conns : Carried(up[d], up'[d], QuietUp)
  <2>1. Ping \in QuietUp
    BY DEF QuietUp
  <2> QED BY <1>0, <1>3, <1>5, <2>1, SameCarried, WrittenCarried
<1> QED BY <1>1, <1>2, <1>6, <1>7 DEF Plain, Placed, reqVars, TypeOK

\* The steps of the network, stop(), and a stutter.
LEMMA NetworkPlain ==
  ASSUME TypeOK, Stop \/ UNCHANGED vars \/ \E c \in Conns : Drop(c) \/ NetworkStep(c)
  PROVE  Plain /\ phase' = phase
<1>0. up \in [Conns -> Seq(UpMessages)] /\ down \in [Conns -> Seq(DownMessages)]
  BY DEF TypeOK
<1>1. executed' = executed /\ job' = job
  BY NetworkChanges DEF Stop, vars, nodeVars, Drop
<1>2. UNCHANGED reqVars \/ \E C \in SUBSET Conns : CancelPending(C)
  BY NetworkChanges DEF Stop, vars, Drop
<1>3. /\ chanOf' = chanOf /\ phase' = phase /\ answer' = answer
      /\ \A r \in Requests : fut'[r] = "result" => fut[r] = "result"
  BY <1>2 DEF reqVars, CancelPending
<1>4. \A d \in Conns : Carried(down[d], down'[d], QuietDown) /\ Carried(up[d], up'[d], QuietUp)
  <2>1. CASE Stop \/ UNCHANGED vars \/ \E c \in Conns : NetworkStep(c)
    <3>1. CASE Stop
      <4>1. \E C \in SUBSET Conns : CloseAtGateway(C)
        BY <3>1 DEF Stop
      <4>2. down' = down /\ \A d \in Conns : up'[d] = up[d] \/ up'[d] = <<>>
        BY <4>1, ClosedAtGateway
      <4> QED BY <1>0, <4>2, SameCarried
    <3>2. CASE UNCHANGED vars
      BY <1>0, <3>2, SameCarried DEF vars, netVars
    <3>3. ASSUME NEW c \in Conns, NetworkStep(c)
          PROVE  \A d \in Conns : Carried(down[d], down'[d], QuietDown) /\ Carried(up[d], up'[d], QuietUp)
      <4>1. /\ down' = down \/ down' = [down EXCEPT ![c] = <<>>]
            /\ up' = up \/ up' = [up EXCEPT ![c] = <<>>]
        BY <3>3, NetworkChanges
      <4> QED BY <1>0, <4>1, SameCarried
    <3> QED BY <2>1, <3>1, <3>2, <3>3
  <2>2. ASSUME NEW c \in Conns, Drop(c)
        PROVE  \A d \in Conns : Carried(down[d], down'[d], QuietDown) /\ Carried(up[d], up'[d], QuietUp)
    <3>1. PICK i \in 0..Len(up[c]), j \in 0..Len(down[c]) :
            up' = [up EXCEPT ![c] = SubSeq(@, 1, i)] /\ down' = [down EXCEPT ![c] = SubSeq(@, 1, j)]
      BY <2>2 DEF Drop
    <3> QED BY <1>0, <3>1, SameCarried, CutCarried
  <2> QED BY <2>1, <2>2
<1> QED BY <1>1, <1>3, <1>4 DEF Plain, Placed

\* A response in the gateway's hands comes from a request that was executed.
LEMMA ReadResponseExec ==
  ASSUME NEW c \in Conns, WellFormed, ExecInv, ReadResponse(c)
  PROVE  ExecInv'
<1> DEFINE m == Head(up[c])
           woken == {r \in Waiting(c, m) : fut[r] = "pending"}
<1>0. TypeOK /\ up \in [Conns -> Seq(UpMessages)] /\ down \in [Conns -> Seq(DownMessages)]
  BY DEF WellFormed, TypeOK
<1>1. /\ up[c] # <<>> /\ up' = Taken(up, c)
      /\ UNCHANGED <<down, phase, chanOf, job, executed>>
      /\ fut' = [r \in Requests |-> IF r \in woken THEN "result" ELSE fut[r]]
      /\ answer' = [r \in Requests |-> IF r \in woken THEN m.from ELSE answer[r]]
  BY DEF ReadResponse, CanRead, nodeVars
<1>2. \A d \in Conns : Carried(down[d], down'[d], QuietDown) /\ Carried(up[d], up'[d], QuietUp)
  BY <1>0, <1>1, SameCarried, TakenCarried
<1>3. CopyInv' /\ OnceInv'
  <2>1. CopyInv'
    BY <1>0, <1>1, <1>2, CopyKept DEF ExecInv, Placed
  <2> QED BY <1>1, <2>1 DEF ExecInv, OnceInv, Placed
<1>4. SourceInv'
  <2>1. \A r \in woken : m.from \in Requests
    <3>1. m \in UpMessages /\ pending[c] \subseteq Requests
      BY <1>0, <1>1, TakenType DEF TypeOK
    <3> QED BY <3>1, ResponseIds
  <2>2. m = up[c][1] /\ 1 \in 1..Len(up[c])
    BY <1>0, <1>1, HeadTailProperties, LenProperties, EmptySeq
  <2>3. \A r \in woken : executed[m.from] = 1
    BY <2>1, <2>2 DEF ExecInv, SourceInv
  <2>4. ASSUME NEW d \in Conns, NEW r \in Requests, NEW i \in 1..Len(up'[d]), up'[d][i].from = r
        PROVE  executed[r] = 1
    <3>1. PICK k \in {0, 1} : up'[d][i] \in QuietUp \/ (i + k \in 1..Len(up[d]) /\ up'[d][i] = up[d][i + k])
      BY <1>2 DEF Carried
    <3>2. i + k \in 1..Len(up[d]) /\ up[d][i + k].from = r
      BY <2>4, <3>1, QuietMessages
    <3> QED BY <3>2 DEF ExecInv, SourceInv
  <2> HIDE DEF m, woken
  <2> QED BY <1>1, <2>3, <2>4 DEF ExecInv, SourceInv
<1> QED BY <1>3, <1>4 DEF ExecInv

\* The step that forwards a request writes its only copy.
LEMMA ForwardExec ==
  ASSUME NEW r \in Requests, WellFormed, ExecInv, Forward(r) \/ ForwardWrite(r)
  PROVE  ExecInv'
<1>0. TypeOK /\ RouteInv /\ ChanInv /\ down \in [Conns -> Seq(DownMessages)]
  BY DEF WellFormed, TypeOK
<1>1. PICK c \in Conns :
        /\ chanOf' = [chanOf EXCEPT ![r] = c]
        /\ \/ down' = down
           \/ down' = Written(down, c, Forwarded(r)) /\ phase'[r] \in {"sending", "awaiting"}
  <2>1. CASE Forward(r)
    <3>0. Target[r] \in Nodes /\ routes[Target[r]] # NoConn
      BY <2>1, GatewayAssumption DEF Forward
    <3>1. routes[Target[r]] \in Conns
      BY <1>0, <3>0 DEF TypeOK
    <3>2. \/ down' = down
          \/ /\ down' = Written(down, routes[Target[r]], Forwarded(r))
             /\ phase'[r] \in {"sending", "awaiting"}
      BY <1>0, <2>1 DEF Forward, SendForwarded, AfterWrite, TypeOK
    <3> QED BY <2>1, <3>1, <3>2 DEF Forward
  <2>2. CASE ForwardWrite(r)
    <3>1. chanOf[r] \in Conns /\ chanOf' = [chanOf EXCEPT ![r] = chanOf[r]]
      BY <1>0, <2>2 DEF ForwardWrite, ChanInv, Sent, TypeOK
    <3>2. /\ down' = Written(down, chanOf[r], Forwarded(r))
          /\ \E to \in {"sending", "awaiting"} : phase' = [phase EXCEPT ![r] = to]
      BY <2>2 DEF ForwardWrite, SendForwarded, AfterWrite
    <3>3. phase'[r] \in {"sending", "awaiting"}
      BY <1>0, <3>2 DEF TypeOK
    <3> QED BY <3>1, <3>2, <3>3
  <2> QED BY <2>1, <2>2
<1>2. /\ phase[r] \in {"idle", "locking"} /\ \E to \in Sent : phase' = [phase EXCEPT ![r] = to]
      /\ UNCHANGED <<up, job, executed, answer>>
      /\ \A q \in Requests : fut'[q] = "result" => fut[q] = "result"
  BY <1>0 DEF Forward, ForwardWrite, SendForwarded, AfterWrite, nodeVars, Sent, TypeOK
<1>3. /\ ~Placed(r) /\ executed[r] = 0
      /\ \A d \in Conns : \A i \in 1..Len(down[d]) : down[d][i].req # r
  BY <1>0, <1>2 DEF Placed, ExecInv, OnceInv, CopyInv
<1>4. \A q \in Requests \ {r} : chanOf'[q] = chanOf[q] /\ phase'[q] = phase[q] /\ (Placed(q)' <=> Placed(q))
  BY <1>0, <1>1, <1>2 DEF TypeOK, Placed
<1>5. CopyInv'
  <2> SUFFICES ASSUME NEW d \in Conns, NEW q \in Requests, NEW i \in 1..Len(down'[d]),
                      down'[d][i].req = q
      PROVE  /\ chanOf'[q] = d /\ executed'[q] = 0 /\ Placed(q)'
             /\ \A j \in 1..Len(down'[d]) : down'[d][j].req = q => j = i
    BY DEF CopyInv
  <2>1. CASE down'[d] = down[d]
    BY <1>2, <1>3, <1>4, <2>1 DEF ExecInv, CopyInv
  <2>2. CASE down'[d] # down[d]
    <3>1. d = c /\ down'[d] = Append(down[d], Forwarded(r)) /\ phase'[r] \in {"sending", "awaiting"}
      BY <1>0, <1>1, <2>2 DEF Written
    <3> DEFINE L == Len(down[d])
    <3>2. /\ L \in Nat /\ Len(down'[d]) = L + 1 /\ down'[d][L + 1] = Forwarded(r)
          /\ \A j \in 1..L : down'[d][j] = down[d][j]
      <4>1. down[d] \in Seq(DownMessages)
        BY <1>0
      <4> QED BY <3>1, <4>1
    <3>3. CASE i = L + 1
      <4>1. q = r
        BY <3>2, <3>3, QuietMessages
      <4>2. chanOf'[r] = d /\ executed'[r] = 0 /\ Placed(r)'
        BY <1>0, <1>1, <1>2, <1>3, <3>1 DEF TypeOK, Placed
      <4> QED BY <1>3, <3>2, <3>3, <4>1, <4>2
    <3>4. CASE i \in 1..L
      <4>1. q # r /\ down[d][i].req = q
        BY <1>3, <3>2, <3>4
      <4>2. /\ chanOf[q] = d /\ executed[q] = 0 /\ Placed(q)
            /\ \A j \in 1..L : down[d][j].req = q => j = i
        BY <3>4, <4>1 DEF ExecInv, CopyInv
      <4>3. \A j \in 1..(L + 1) : down'[d][j].req = q => j \in 1..L
        BY <3>2, <4>1, QuietMessages
      <4> QED BY <1>2, <1>4, <3>2, <4>1, <4>2, <4>3
    <3> QED BY <3>2, <3>3, <3>4
  <2> QED BY <2>1, <2>2
<1>6. OnceInv' /\ SourceInv'
  <2>1. OnceInv'
    BY <1>2, <1>3, <1>4 DEF ExecInv, OnceInv
  <2> QED BY <1>2, <2>1 DEF ExecInv, SourceInv
<1> QED BY <1>5, <1>6 DEF ExecInv

\* The step that dispatches a message takes the only copy of its request.
LEMMA ReadForwardedExec ==
  ASSUME NEW n \in Nodes, WellFormed, ExecInv, ReadForwarded(n)
  PROVE  /\ ExecInv'
         /\ \A r \in Requests : executed'[r] # executed[r] =>
              /\ executed[r] = 0 /\ Placed(r)
              /\ executed' = [executed EXCEPT ![r] = 1]
<1> DEFINE c == conn[n]
           m == Head(down[c])
<1>0. TypeOK /\ down \in [Conns -> Seq(DownMessages)] /\ c \in Conns
  BY DEF WellFormed, TypeOK, ClientInv, ReadForwarded
<1>1. /\ down[c] # <<>> /\ down' = Taken(down, c) /\ job' = [job EXCEPT ![n] = m]
      /\ executed' = [r \in Requests |-> executed[r] + (IF m.req = r THEN 1 ELSE 0)]
      /\ UNCHANGED <<up, phase, chanOf, fut, answer>>
  BY DEF ReadForwarded, Readable, Dispatched, reqVars
<1>2. m = down[c][1] /\ 1 \in 1..Len(down[c])
  BY <1>0, <1>1, HeadTailProperties, LenProperties, EmptySeq
<1>3. \A d \in Conns : Carried(down[d], down'[d], QuietDown)
  BY <1>0, <1>1, TakenCarried
<1>4. \A r \in Requests : m.req = r =>
        /\ chanOf[r] = c /\ executed[r] = 0 /\ Placed(r)
        /\ \A j \in 1..Len(down[c]) : down[c][j].req = r => j = 1
  BY <1>0, <1>2 DEF ExecInv, CopyInv
<1>5. \A r \in Requests :
        /\ m.req = r => executed'[r] = 1
        /\ m.req # r => executed'[r] = executed[r]
  BY <1>0, <1>1, <1>4 DEF TypeOK
\* No copy of the request is left.
<1>6. ASSUME NEW r \in Requests, m.req = r,
             NEW d \in Conns, NEW i \in 1..Len(down'[d]), down'[d][i].req = r
      PROVE  FALSE
  <2>1. CASE d # c
    <3>1. down'[d] = down[d]
      BY <1>0, <1>1, <2>1 DEF Taken
    <3> QED BY <1>4, <1>6, <2>1, <3>1 DEF ExecInv, CopyInv
  <2>2. CASE d = c
    <3>1. down'[c] = Tail(down[c]) /\ down[c] \in Seq(DownMessages)
      BY <1>0, <1>1 DEF Taken
    <3>2. i + 1 \in 1..Len(down[c]) /\ down'[c][i] = down[c][i + 1]
      <4>1. /\ Len(down[c]) \in Nat \ {0} /\ Len(Tail(down[c])) = Len(down[c]) - 1
            /\ \A j \in 1..Len(Tail(down[c])) : Tail(down[c])[j] = down[c][j + 1]
        BY <1>1, <3>1, HeadTailProperties, LenProperties, EmptySeq
      <4>2. i \in 1..Len(Tail(down[c]))
        BY <1>6, <2>2, <3>1
      <4> QED BY <3>1, <4>1, <4>2
    <3>3. i + 1 = 1
      BY <1>4, <1>6, <2>2, <3>2
    <3> QED BY <3>3
  <2> QED BY <2>1, <2>2
<1>7. CopyInv'
  <2> SUFFICES ASSUME NEW d \in Conns, NEW r \in Requests, NEW i \in 1..Len(down'[d]),
                      down'[d][i].req = r
      PROVE  /\ chanOf'[r] = d /\ executed'[r] = 0 /\ Placed(r)'
             /\ \A j \in 1..Len(down'[d]) : down'[d][j].req = r => j = i
    BY DEF CopyInv
  <2>0. m.req # r /\ executed'[r] = executed[r]
    BY <1>5, <1>6
  <2>1. PICK k \in {0, 1} : \A j \in 1..Len(down'[d]) :
          down'[d][j] \in QuietDown \/ (j + k \in 1..Len(down[d]) /\ down'[d][j] = down[d][j + k])
    BY <1>3 DEF Carried
  <2>2. \A j \in 1..Len(down'[d]) : down'[d][j].req = r => j + k \in 1..Len(down[d]) /\ down[d][j + k].req = r
    BY <2>1, QuietMessages
  <2>3. /\ chanOf[r] = d /\ executed[r] = 0 /\ Placed(r)
        /\ \A j \in 1..Len(down[d]) : down[d][j].req = r => j = i + k
    BY <2>2 DEF ExecInv, CopyInv
  <2>4. ASSUME NEW j \in 1..Len(down'[d]), down'[d][j].req = r PROVE j = i
    <3>1. j + k = i + k
      BY <2>2, <2>3, <2>4
    <3> QED BY <3>1
  <2> QED BY <1>1, <2>0, <2>3, <2>4 DEF Placed
<1>8. OnceInv'
  BY <1>1, <1>4, <1>5 DEF ExecInv, OnceInv, Placed
<1>9. SourceInv'
  <2>1. \A r \in Requests : executed[r] = 1 => executed'[r] = 1
    BY <1>4, <1>5
  <2>2. \A k \in Nodes, r \in Requests : job'[k].req = r => executed'[r] = 1
    <3>1. \A k \in Nodes : job'[k] = job[k] \/ job'[k] = m
      BY <1>0, <1>1 DEF TypeOK
    <3> QED BY <1>5, <2>1, <3>1 DEF ExecInv, SourceInv
  <2>3. \A r \in Requests : fut'[r] = "result" => executed'[answer'[r]] = 1
    <3>1. \A r \in Requests : fut[r] = "result" => answer[r] \in Requests
      BY <1>0 DEF TypeOK
    <3> QED BY <1>1, <2>1, <3>1 DEF ExecInv, SourceInv
  <2> QED BY <1>1, <2>1, <2>2, <2>3 DEF ExecInv, SourceInv
<1>10. ASSUME NEW r \in Requests, executed'[r] # executed[r]
       PROVE  executed[r] = 0 /\ Placed(r) /\ executed' = [executed EXCEPT ![r] = 1]
  <2>1. m.req = r /\ executed[r] = 0 /\ Placed(r)
    BY <1>4, <1>5, <1>10
  <2>2. \A q \in Requests : executed'[q] = IF q = r THEN 1 ELSE executed[q]
    BY <1>5, <2>1
  <2>3. executed' = [q \in Requests |-> executed'[q]] /\ executed \in [Requests -> Nat]
    BY <1>0, <1>1 DEF TypeOK
  <2>4. executed' = [executed EXCEPT ![r] = 1]
    BY <2>2, <2>3
  <2> QED BY <2>1, <2>4
<1> QED BY <1>7, <1>8, <1>9, <1>10 DEF ExecInv

\* A node answers what it executed.
LEMMA RespondExec ==
  ASSUME NEW n \in Nodes, WellFormed, ExecInv, Respond(n)
  PROVE  ExecInv'
<1> DEFINE c == conn[n]
           a == AnswerTo(job[n])
<1>0. TypeOK /\ up \in [Conns -> Seq(UpMessages)] /\ down \in [Conns -> Seq(DownMessages)] /\ c \in Conns
  BY DEF WellFormed, TypeOK, ClientInv, Respond
<1>1. /\ up' = Written(up, c, a) /\ job' = [job EXCEPT ![n] = Ack]
      /\ UNCHANGED <<down, phase, chanOf, fut, answer, executed>>
  BY DEF Respond, reqVars
<1>2. \A r \in Requests : a.from = r => executed[r] = 1
  <2>1. job[n] \in DownMessages
    BY <1>0 DEF TypeOK
  <2>2. job[n].req = NoRequest \/ job[n].req \in Requests
    BY <2>1 DEF DownMessages, Ack, PingReply, Forwarded
  <2>3. CASE job[n].req = NoRequest
    <3>1. a = PingEcho /\ PingEcho \in QuietUp
      BY <2>3 DEF AnswerTo, QuietUp
    <3> QED BY <3>1, QuietMessages
  <2>4. CASE job[n].req \in Requests
    <3>1. a.from = job[n].req
      BY <2>4, QuietMessages, GatewayAssumption DEF AnswerTo
    <3> QED BY <2>4, <3>1 DEF ExecInv, SourceInv
  <2> QED BY <2>2, <2>3, <2>4
<1>3. ASSUME NEW d \in Conns, NEW r \in Requests, NEW i \in 1..Len(up'[d]), up'[d][i].from = r
      PROVE  executed[r] = 1
  <2>1. up[d] \in Seq(UpMessages)
    BY <1>0
  <2>2. up'[d] = up[d] \/ up'[d] = Append(up[d], a)
    BY <1>0, <1>1 DEF Written
  <2>3. CASE up'[d] = up[d]
    BY <1>3, <2>3 DEF ExecInv, SourceInv
  <2>4. CASE up'[d] = Append(up[d], a)
    <3>1. (i \in 1..Len(up[d]) /\ up'[d][i] = up[d][i]) \/ up'[d][i] = a
      BY <2>1, <2>4
    <3> QED BY <1>2, <1>3, <3>1 DEF ExecInv, SourceInv
  <2> QED BY <2>2, <2>3, <2>4
<1>4. CopyInv' /\ OnceInv'
  BY <1>1 DEF ExecInv, CopyInv, OnceInv, Placed
<1>5. SourceInv'
  <2>1. \A k \in Nodes, r \in Requests : job'[k].req = r => executed'[r] = 1
    <3>1. \A k \in Nodes : job'[k] = job[k] \/ job'[k] = Ack
      BY <1>0, <1>1 DEF TypeOK
    <3> QED BY <1>1, <3>1, QuietMessages DEF ExecInv, SourceInv, QuietDown
  <2> QED BY <1>1, <1>3, <2>1 DEF ExecInv, SourceInv
<1> QED BY <1>4, <1>5 DEF ExecInv

LEMMA NextExec == WellFormed /\ ExecInv /\ [Next]_vars => ExecInv'
<1> SUFFICES ASSUME WellFormed, ExecInv, [Next]_vars PROVE ExecInv'
  OBVIOUS
<1>0. TypeOK /\ ClientInv
  BY DEF WellFormed
<1>1. ASSUME NEW c \in Conns,
             Connect(c) \/ Register(c) \/ Reject(c) \/ RegistrationStep(c) \/ ReaderStep(c)
      PROVE  ExecInv'
  BY <1>0, <1>1, ConnectionPlain, ExecKept, ReadResponseExec
<1>2. ASSUME NEW r \in Requests, ForwardRefused(r) \/ Forward(r) \/ RequestStep(r) PROVE ExecInv'
  BY <1>0, <1>2, RequestPlain, ExecKept, ForwardExec DEF RequestStep
<1>3. ASSUME NEW n \in Nodes, NodeStep(n) \/ Heartbeat(n) \/ RegistrationFails(n) \/ Disconnect(n) \/ NodeEnds(n)
      PROVE  ExecInv'
  BY <1>0, <1>3, NodePlain, ExecKept, ReadForwardedExec, RespondExec DEF NodeStep
<1>4. CASE Stop \/ UNCHANGED vars \/ \E c \in Conns : Drop(c) \/ NetworkStep(c)
  BY <1>0, <1>4, NetworkPlain, ExecKept
<1> QED BY <1>1, <1>2, <1>3, <1>4 DEF Next

LEMMA SpecExecInv == Spec => [](WellFormed /\ AnswerInv /\ ExecInv)
<1>1. Init => ExecInv
  BY GatewayAssumption, QuietMessages
     DEF Init, ExecInv, CopyInv, OnceInv, SourceInv, QuietDown
<1>2. WellFormed /\ ExecInv /\ [Next]_vars => (WellFormed /\ ExecInv)'
  BY NextWellFormed, NextExec
<1> QED BY <1>1, <1>2, InitWellFormed, SpecAnswerInv, PTL DEF Spec

\* Whatever ids requests carry and whatever is lost, a request is executed at
\* most once, and only a request that was written to a channel is executed
\* (_NodeChannel.forward sends once, the node's read loop takes what it reads).
THEOREM ExecutedAtMostOnce ==
  Spec => []\A r \in Requests : executed[r] <= 1 /\ (executed[r] = 1 => Placed(r))
<1>1. ExecInv => \A r \in Requests : executed[r] <= 1 /\ (executed[r] = 1 => Placed(r))
  BY DEF ExecInv, OnceInv
<1> QED BY <1>1, SpecExecInv, PTL

----------------------------------------------------------------------------
(* Nothing is lost between _pending and the futures.                       *)

\* What a node works on and what it answers belongs to its connection.
OriginInv ==
  /\ \A n \in Nodes, r \in Requests :
       job[n].req = r => client[n] = "dispatching" /\ chanOf[r] = conn[n]
  /\ \A c \in Conns, r \in Requests : \A i \in 1..Len(up[c]) : up[c][i].from = r => chanOf[r] = c

\* _pending of a channel holds just the requests that wait on it with a future
\* that nothing has settled.
PendingExact ==
  \A r \in Requests, c \in Conns :
    r \in pending[c] <=> phase[r] \in Sent /\ chanOf[r] = c /\ fut[r] = "pending"

\* A step that writes no response and begins no dispatch, and moves a node to
\* another connection or another place only when it dispatches nothing.
Settled ==
  /\ \A c \in Conns : Carried(up[c], up'[c], QuietUp)
  /\ \A n \in Nodes :
       job'[n] = Ack \/ (job'[n] = job[n] /\ (client[n] = "dispatching" => UNCHANGED <<client[n], conn[n]>>))
  /\ \A r \in Requests : Placed(r) => chanOf'[r] = chanOf[r]

LEMMA OriginKept ==
  ASSUME ExecInv, OriginInv, Settled
  PROVE  OriginInv'
<1>1. ASSUME NEW n \in Nodes, NEW r \in Requests, job'[n].req = r
      PROVE  client'[n] = "dispatching" /\ chanOf'[r] = conn'[n]
  <2>1. job'[n] = job[n] /\ (client[n] = "dispatching" => UNCHANGED <<client[n], conn[n]>>)
    BY <1>1, QuietMessages DEF Settled, QuietDown
  <2>2. client[n] = "dispatching" /\ chanOf[r] = conn[n] /\ executed[r] = 1
    BY <1>1, <2>1 DEF OriginInv, ExecInv, SourceInv
  <2>3. Placed(r)
    BY <2>2 DEF ExecInv, OnceInv
  <2> QED BY <2>1, <2>2, <2>3 DEF Settled
<1>2. ASSUME NEW c \in Conns, NEW r \in Requests, NEW i \in 1..Len(up'[c]), up'[c][i].from = r
      PROVE  chanOf'[r] = c
  <2>1. PICK k \in {0, 1} : up'[c][i] \in QuietUp \/ (i + k \in 1..Len(up[c]) /\ up'[c][i] = up[c][i + k])
    BY DEF Settled, Carried
  <2>2. i + k \in 1..Len(up[c]) /\ up[c][i + k].from = r
    BY <1>2, <2>1, QuietMessages
  <2>3. chanOf[r] = c /\ executed[r] = 1
    BY <2>2 DEF OriginInv, ExecInv, SourceInv
  <2>4. Placed(r)
    BY <2>3 DEF ExecInv, OnceInv
  <2> QED BY <2>3, <2>4 DEF Settled
<1> QED BY <1>1, <1>2 DEF OriginInv

\* The gateway's steps on a connection, and those of a request.
LEMMA GatewayOrigin ==
  ASSUME WellFormed, ExecInv, OriginInv,
         \/ \E c \in Conns : Connect(c) \/ Register(c) \/ Reject(c) \/ RegistrationStep(c) \/ ReaderStep(c)
         \/ \E r \in Requests : ForwardRefused(r) \/ Forward(r) \/ RequestStep(r)
  PROVE  OriginInv'
<1>0. /\ TypeOK /\ up \in [Conns -> Seq(UpMessages)]
  BY DEF WellFormed, TypeOK
<1>1. ASSUME NEW c \in Conns, Connect(c) \/ Register(c) \/ Reject(c) \/ RegistrationStep(c)
                              \/ (ReaderStep(c) /\ ~ReadResponse(c))
      PROVE  Settled
  <2>1. Plain
    BY <1>0, <1>1, ConnectionPlain
  <2>2. job' = job
    BY <1>1 DEF Connect, Register, Reject, RegistrationStep, AckDrained, AckFails, Unregister,
       RegistrationRaises, ReaderStep, ReadHeartbeat, HeartbeatReply, HeartbeatReplied,
       HeartbeatReplyFails, ReadEnd, ReadReset, nodeVars
  <2>3. \/ UNCHANGED <<client, conn>>
        \/ /\ client[NodeOf[c]] = "off"
           /\ client' = [client EXCEPT ![NodeOf[c]] = "registering"]
           /\ conn' = [conn EXCEPT ![NodeOf[c]] = c]
    BY <1>1 DEF Connect, Register, Reject, RegistrationStep, AckDrained, AckFails, Unregister,
       RegistrationRaises, ReaderStep, ReadHeartbeat, HeartbeatReply, HeartbeatReplied,
       HeartbeatReplyFails, ReadEnd, ReadReset, nodeVars
  <2>4. \A n \in Nodes : client[n] = "dispatching" => client'[n] = client[n] /\ conn'[n] = conn[n]
    BY <1>0, <2>3 DEF TypeOK
  <2> QED BY <2>1, <2>2, <2>4 DEF Settled, Plain
<1>2. ASSUME NEW c \in Conns, ReadResponse(c) PROVE Settled
  <2>1. up[c] # <<>> /\ up' = Taken(up, c) /\ UNCHANGED <<job, client, conn, chanOf>>
    BY <1>2 DEF ReadResponse, CanRead, nodeVars
  <2>2. \A d \in Conns : Carried(up[d], up'[d], QuietUp)
    BY <1>0, <2>1, TakenCarried
  <2> QED BY <2>1, <2>2 DEF Settled
<1>3. ASSUME NEW r \in Requests, ForwardRefused(r) \/ Forward(r) \/ RequestStep(r) PROVE Settled
  <2>1. UNCHANGED <<up, job, client, conn>>
    BY <1>3 DEF ForwardRefused, Forward, RequestStep, ForwardWrite, ForwardSent, ForwardBroken,
       ForwardTimeout, ForwardFails, ForwardAnswered, netVars, nodeVars
  <2>2. \A q \in Requests : Placed(q) => chanOf'[q] = chanOf[q]
    <3>1. \/ chanOf' = chanOf
          \/ ~Placed(r) /\ chanOf' = [chanOf EXCEPT ![r] = routes[Target[r]]]
      BY <1>3 DEF ForwardRefused, Forward, RequestStep, ForwardWrite, ForwardSent, ForwardBroken,
         ForwardTimeout, ForwardFails, ForwardAnswered, Placed
    <3> QED BY <1>0, <3>1 DEF TypeOK
  <2>3. \A d \in Conns : Carried(up[d], up'[d], QuietUp)
    BY <1>0, <2>1, SameCarried
  <2> QED BY <2>1, <2>2, <2>3 DEF Settled
<1> QED BY <1>1, <1>2, <1>3, OriginKept

\* The nodes' steps, the network's, and stop().
LEMMA OtherOrigin ==
  ASSUME WellFormed, ExecInv, OriginInv,
         \/ \E n \in Nodes : NodeStep(n) \/ Heartbeat(n) \/ RegistrationFails(n) \/ Disconnect(n) \/ NodeEnds(n)
         \/ Stop \/ UNCHANGED vars \/ \E c \in Conns : Drop(c) \/ NetworkStep(c)
  PROVE  OriginInv'
<1>0. /\ TypeOK /\ ClientInv
      /\ up \in [Conns -> Seq(UpMessages)] /\ down \in [Conns -> Seq(DownMessages)]
  BY DEF WellFormed, TypeOK
<1>1. ASSUME Stop \/ UNCHANGED vars \/ \E c \in Conns : Drop(c) \/ NetworkStep(c)
      PROVE  Settled
  <2>1. Plain
    BY <1>0, <1>1, NetworkPlain
  <2>2. UNCHANGED <<job, client, conn>>
    BY <1>0, <1>1, NetworkChanges DEF Stop, vars, nodeVars, Drop
  <2> QED BY <2>1, <2>2 DEF Settled, Plain
<1>2. ASSUME NEW n \in Nodes,
             \/ ReceiveAck(n) \/ RespondNothing(n) \/ ResponseSent(n) \/ ResponseFails(n)
             \/ ReadDropped(n) \/ Heartbeat(n) \/ RegistrationFails(n) \/ Disconnect(n) \/ NodeEnds(n)
      PROVE  Settled
  <2>1. Plain
    BY <1>0, <1>2, NodePlain
  <2>0. conn[n] \in Conns
    BY <1>0, <1>2 DEF ReceiveAck, RespondNothing, ResponseSent, ResponseFails, ReadDropped, Heartbeat,
       RegistrationFails, Disconnect, NodeEnds, ClientInv
  <2>2. \A k \in Nodes : k # n => job'[k] = job[k] /\ client'[k] = client[k] /\ conn'[k] = conn[k]
    BY <1>0, <1>2, <2>0, LeftByNode DEF ReceiveAck, RespondNothing, ResponseSent, ResponseFails, ReadDropped, NodeMoves,
       Heartbeat, TypeOK
  <2>3. \/ job'[n] = Ack
        \/ job'[n] = job[n] /\ (client[n] = "dispatching" => client'[n] = client[n] /\ conn'[n] = conn[n])
    BY <1>0, <1>2, <2>0, LeftByNode DEF ReceiveAck, RespondNothing, ResponseSent, ResponseFails, ReadDropped, NodeMoves,
       Heartbeat, TypeOK
  <2> QED BY <2>1, <2>2, <2>3 DEF Settled, Plain
<1>3. ASSUME NEW n \in Nodes, ReadForwarded(n) PROVE OriginInv'
  <2> DEFINE c == conn[n]
             m == Head(down[c])
  <2>1. /\ c \in Conns /\ down[c] # <<>> /\ m = down[c][1] /\ 1 \in 1..Len(down[c])
        /\ UNCHANGED <<up, chanOf, conn>>
        /\ client' = [client EXCEPT ![n] = "dispatching"] /\ job' = [job EXCEPT ![n] = m]
    <3>1. c \in Conns /\ down[c] # <<>>
      BY <1>0, <1>3 DEF ReadForwarded, Readable, ClientInv
    <3>2. m = down[c][1] /\ 1 \in 1..Len(down[c])
      BY <1>0, <3>1, HeadTailProperties, LenProperties, EmptySeq
    <3> QED BY <1>3, <3>1, <3>2 DEF ReadForwarded, reqVars
  <2>2. \A r \in Requests : m.req = r => chanOf[r] = c
    BY <2>1 DEF ExecInv, CopyInv
  <2> HIDE DEF m, c
  <2>3. ASSUME NEW k \in Nodes, NEW r \in Requests, job'[k].req = r
        PROVE  client'[k] = "dispatching" /\ chanOf'[r] = conn'[k]
    <3>1. CASE k = n
      BY <1>0, <2>1, <2>2, <2>3, <3>1 DEF TypeOK, c
    <3>2. CASE k # n
      BY <1>0, <2>1, <2>3, <3>2 DEF TypeOK, OriginInv
    <3> QED BY <3>1, <3>2
  <2> QED BY <2>1, <2>3 DEF OriginInv
<1>4. ASSUME NEW n \in Nodes, Respond(n) PROVE OriginInv'
  <2> DEFINE c == conn[n]
             a == AnswerTo(job[n])
  <2>1. /\ c \in Conns /\ up' = Written(up, c, a) /\ job' = [job EXCEPT ![n] = Ack]
        /\ UNCHANGED <<chanOf, conn>> /\ \A k \in Nodes : k # n => client'[k] = client[k]
    BY <1>0, <1>4 DEF Respond, reqVars, ClientInv, TypeOK
  <2>2. \A r \in Requests : a.from = r => chanOf[r] = c
    <3>1. job[n] \in DownMessages
      BY <1>0 DEF TypeOK
    <3>2. job[n].req = NoRequest \/ job[n].req \in Requests
      BY <3>1 DEF DownMessages, Ack, PingReply, Forwarded
    <3>3. CASE job[n].req = NoRequest
      <4>1. a = PingEcho /\ PingEcho \in QuietUp
        BY <3>3 DEF AnswerTo, QuietUp
      <4> QED BY <4>1, QuietMessages
    <3>4. CASE job[n].req \in Requests
      <4>1. a.from = job[n].req
        BY <3>4, QuietMessages, GatewayAssumption DEF AnswerTo
      <4> QED BY <3>4, <4>1 DEF OriginInv
    <3> QED BY <3>2, <3>3, <3>4
  <2> HIDE DEF a, c
  <2>3. ASSUME NEW k \in Nodes, NEW r \in Requests, job'[k].req = r
        PROVE  client'[k] = "dispatching" /\ chanOf'[r] = conn'[k]
    <3>1. k # n
      BY <1>0, <2>1, <2>3, QuietMessages DEF QuietDown, TypeOK
    <3> QED BY <1>0, <2>1, <2>3, <3>1 DEF TypeOK, OriginInv
  <2>4. ASSUME NEW d \in Conns, NEW r \in Requests, NEW i \in 1..Len(up'[d]), up'[d][i].from = r
        PROVE  chanOf'[r] = d
    <3>1. up[d] \in Seq(UpMessages)
      BY <1>0
    <3>2. up'[d] = up[d] \/ (d = c /\ up'[d] = Append(up[d], a))
      BY <1>0, <2>1 DEF Written
    <3>3. CASE up'[d] = up[d]
      BY <2>1, <2>4, <3>3 DEF OriginInv
    <3>4. CASE d = c /\ up'[d] = Append(up[d], a)
      <4>1. (i \in 1..Len(up[d]) /\ up'[d][i] = up[d][i]) \/ up'[d][i] = a
        BY <3>1, <3>4
      <4> QED BY <2>1, <2>2, <2>4, <3>4, <4>1 DEF OriginInv
    <3> QED BY <3>2, <3>3, <3>4
  <2> QED BY <2>3, <2>4 DEF OriginInv
<1> QED BY <1>1, <1>2, <1>3, <1>4, OriginKept DEF NodeStep

\* The steps that leave _pending, the futures and the requests alone, and those
\* by which a read loop ends.
LEMMA PendingKept ==
  ASSUME TypeOK, PendingExact,
         \/ UNCHANGED <<pending, reqVars>>
         \/ \E C \in SUBSET Conns : CancelPending(C)
  PROVE  PendingExact'
<1>1. CASE UNCHANGED <<pending, reqVars>>
  BY <1>1 DEF PendingExact, reqVars
<1>2. ASSUME NEW C \in SUBSET Conns, CancelPending(C) PROVE PendingExact'
  <2> SUFFICES ASSUME NEW r \in Requests, NEW c \in Conns
      PROVE  r \in pending'[c] <=> phase'[r] \in Sent /\ chanOf'[r] = c /\ fut'[r] = "pending"
    BY DEF PendingExact
  <2>1. /\ phase' = phase /\ chanOf' = chanOf
        /\ pending'[c] = IF c \in C THEN {} ELSE pending[c]
        /\ fut'[r] = IF \E d \in C : r \in pending[d] /\ fut[r] = "pending" THEN "cancelled" ELSE fut[r]
    BY <1>2 DEF CancelPending
  <2> QED BY <2>1 DEF PendingExact
<1> QED BY <1>1, <1>2

\* A response takes the requests that wait under its id out of _pending and
\* settles their futures.
LEMMA ReadResponsePending ==
  ASSUME TypeOK, PendingExact, NEW c \in Conns, ReadResponse(c)
  PROVE  PendingExact'
<1> SUFFICES ASSUME NEW r \in Requests, NEW d \in Conns
    PROVE  r \in pending'[d] <=> phase'[r] \in Sent /\ chanOf'[r] = d /\ fut'[r] = "pending"
  BY DEF PendingExact
<1> DEFINE W == Waiting(c, Head(up[c]))
<1>1. /\ phase' = phase /\ chanOf' = chanOf
      /\ pending' = [pending EXCEPT ![c] = @ \ W]
      /\ fut'[r] = IF r \in W /\ fut[r] = "pending" THEN "result" ELSE fut[r]
  BY DEF ReadResponse
<1>2. r \in W => r \in pending[c]
  BY DEF Waiting
<1> HIDE DEF W
<1>3. r \in pending'[d] <=> r \in pending[d] /\ (d = c => r \notin W)
  BY <1>1 DEF TypeOK
<1> QED BY <1>1, <1>2, <1>3 DEF PendingExact

\* forward() enters its own future and removes no other: ids differ.
LEMMA RequestPending ==
  ASSUME \A q, r \in Requests : MessageId[q] = MessageId[r] => q = r,
         WellFormed, PendingExact,
         NEW r \in Requests, ForwardRefused(r) \/ Forward(r) \/ RequestStep(r)
  PROVE  PendingExact'
<1>0. TypeOK /\ RouteInv /\ ChanInv /\ \A c \in Conns : pending[c] \subseteq Requests
  BY DEF WellFormed, TypeOK
<1> SUFFICES ASSUME NEW q \in Requests, NEW d \in Conns
    PROVE  q \in pending'[d] <=> phase'[q] \in Sent /\ chanOf'[q] = d /\ fut'[q] = "pending"
  BY DEF PendingExact
<1>1. CASE Forward(r)
  <2> DEFINE c == routes[Target[r]]
  <2>0. Target[r] \in Nodes /\ routes[Target[r]] # NoConn
    BY <1>1, GatewayAssumption DEF Forward
  <2>1. c \in Conns
    BY <1>0, <2>0 DEF TypeOK
  <2>2. /\ phase[r] = "idle" /\ \E to \in Sent : phase' = [phase EXCEPT ![r] = to]
        /\ chanOf' = [chanOf EXCEPT ![r] = c] /\ fut' = [fut EXCEPT ![r] = "pending"]
        /\ pending' = WithFuture(c, r)
    BY <1>1 DEF Forward, SendForwarded, AfterWrite, Sent
  <2> HIDE DEF c
  <2>3. q \in pending'[d] <=> q \in pending[d] \/ (d = c /\ q = r)
    BY <1>0, <2>1, <2>2 DEF WithFuture, TypeOK
  <2>4. CASE q = r
    <3>1. phase'[r] \in Sent /\ chanOf'[r] = c /\ fut'[r] = "pending"
      BY <1>0, <2>2 DEF TypeOK
    <3>2. r \notin pending[d]
      BY <2>2 DEF PendingExact, Sent
    <3> QED BY <2>3, <2>4, <3>1, <3>2
  <2>5. CASE q # r
    <3>1. phase'[q] = phase[q] /\ chanOf'[q] = chanOf[q] /\ fut'[q] = fut[q]
      BY <1>0, <2>2, <2>5 DEF TypeOK
    <3> QED BY <2>3, <2>5, <3>1 DEF PendingExact
  <2> QED BY <2>4, <2>5
<1>2. CASE ForwardBroken(r) \/ ForwardTimeout(r) \/ ForwardAnswered(r)
  <2>1. /\ phase[r] \in Sent /\ \E to \in {"failed", "answered"} : phase' = [phase EXCEPT ![r] = to]
        /\ UNCHANGED <<chanOf, fut>> /\ pending' = WithoutFuture(chanOf[r], r)
    BY <1>2 DEF ForwardBroken, ForwardTimeout, ForwardAnswered, ForwardFails, Sent
  <2>2. chanOf[r] \in Conns
    BY <1>0, <2>1 DEF ChanInv
  <2>3. q \in pending'[d] <=> q \in pending[d] /\ (d = chanOf[r] => q # r)
    BY <1>0, <2>1, <2>2 DEF WithoutFuture, TypeOK
  <2>4. CASE q = r
    <3>1. phase'[r] \notin Sent
      BY <1>0, <2>1 DEF Sent, TypeOK
    <3> QED BY <2>3, <2>4, <3>1 DEF PendingExact
  <2>5. CASE q # r
    <3>1. phase'[q] = phase[q]
      BY <1>0, <2>1, <2>5 DEF TypeOK
    <3> QED BY <2>1, <2>3, <2>5, <3>1 DEF PendingExact
  <2> QED BY <2>4, <2>5
<1>3. CASE ForwardRefused(r) \/ ForwardWrite(r) \/ ForwardSent(r)
  <2>1. /\ UNCHANGED <<pending, chanOf, fut>>
        /\ phase'[q] = phase[q] \/ (phase[q] \in Sent /\ phase'[q] \in Sent)
           \/ (phase[q] \notin Sent /\ phase'[q] \notin Sent)
    BY <1>0, <1>3 DEF ForwardRefused, ForwardWrite, SendForwarded, AfterWrite, ForwardSent, Sent, gwVars,
       TypeOK
  <2> QED BY <2>1 DEF PendingExact
<1> QED BY <1>1, <1>2, <1>3 DEF RequestStep

WaiterInv == OriginInv /\ PendingExact

LEMMA NextWaiterInv ==
  ASSUME \A q, r \in Requests : MessageId[q] = MessageId[r] => q = r,
         WellFormed, ExecInv, WaiterInv, [Next]_vars
  PROVE  WaiterInv'
<1>0. TypeOK /\ OriginInv /\ PendingExact
  BY DEF WellFormed, WaiterInv
<1>1. OriginInv'
  BY <1>0, GatewayOrigin, OtherOrigin DEF Next
<1>2. PendingExact'
  <2>1. ASSUME NEW c \in Conns,
               \/ Connect(c) \/ Register(c) \/ Reject(c) \/ RegistrationStep(c)
               \/ (ReaderStep(c) /\ ~ReadResponse(c))
        PROVE  PendingExact'
    <3>1. UNCHANGED <<pending, reqVars>> \/ CancelPending({c})
      BY <2>1 DEF Connect, Register, Reject, RegistrationStep, AckDrained, AckFails, Unregister,
         RegistrationRaises, ReaderStep, ReadHeartbeat, HeartbeatReply, HeartbeatReplied,
         HeartbeatReplyFails, ReadEnd, ReadReset, reqVars
    <3> QED BY <1>0, <3>1, PendingKept
  <2>2. ASSUME NEW n \in Nodes, NodeStep(n) \/ Heartbeat(n) \/ RegistrationFails(n) \/ Disconnect(n) \/ NodeEnds(n)
        PROVE  PendingExact'
    <3>1. UNCHANGED <<gwVars, reqVars>>
      BY <2>2 DEF NodeStep, ReceiveAck, ReadForwarded, Respond, RespondNothing, ResponseSent,
         ResponseFails, ReadDropped, NodeMoves, Heartbeat, RegistrationFails, Disconnect, CloseAtNode, NodeEnds, Leave
    <3> QED BY <1>0, <3>1, PendingKept DEF gwVars
  <2>3. CASE Stop \/ UNCHANGED vars \/ \E c \in Conns : Drop(c) \/ NetworkStep(c)
    <3>1. UNCHANGED <<gwVars, reqVars>> \/ \E C \in SUBSET Conns : CancelPending(C)
      BY <1>0, <2>3, NetworkChanges DEF Stop, vars, Drop
    <3> QED BY <1>0, <3>1, PendingKept DEF gwVars
  <2> QED BY <1>0, <2>1, <2>2, <2>3, ReadResponsePending, RequestPending DEF Next
<1> QED BY <1>1, <1>2 DEF WaiterInv

LEMMA SpecWaiterInv ==
  ASSUME \A q, r \in Requests : MessageId[q] = MessageId[r] => q = r
  PROVE  Spec => [](WellFormed /\ ExecInv /\ WaiterInv)
<1>1. Init => WaiterInv
  BY GatewayAssumption, QuietMessages
     DEF Init, WaiterInv, OriginInv, PendingExact, Sent, QuietDown
<1>2. WellFormed /\ ExecInv /\ WaiterInv /\ [Next]_vars => WaiterInv'
  BY NextWaiterInv
<1> QED BY <1>1, <1>2, SpecExecInv, PTL DEF Spec

\* When every request has an id of its own, _pending of a channel holds the
\* futures of the requests that wait on it and no others: timeouts, answers,
\* lost connections and stop() leave none behind and take none too many.
THEOREM NoFutureIsLost ==
  (\A q, r \in Requests : MessageId[q] = MessageId[r] => q = r) => (Spec => []PendingExact)
<1> SUFFICES ASSUME \A q, r \in Requests : MessageId[q] = MessageId[r] => q = r
    PROVE  Spec => []PendingExact
  OBVIOUS
<1>1. WaiterInv => PendingExact
  BY DEF WaiterInv
<1> QED BY <1>1, SpecWaiterInv, PTL

\* Only the step that reads it takes a response off a connection.
LEMMA OnlyReadResponseReads ==
  ASSUME WellFormed, NEW c \in Conns, NEW r \in Requests, Reads(c, Response(r)), [Next]_vars
  PROVE  ReadResponse(c)
<1>0. /\ TypeOK /\ ClientInv /\ up \in [Conns -> Seq(UpMessages)] /\ gwEnd \in [Conns -> {"open", "eof", "reset", "closed"}]
      /\ up[c] # <<>> /\ Head(up[c]).kind = "respond" /\ gwEnd[c] \in {"open", "eof"}
      /\ up'[c] = Tail(up[c]) /\ wire'[c] = wire[c] /\ gwEnd'[c] = gwEnd[c]
  BY DEF WellFormed, TypeOK, Reads, CanRead, Response
<1>1. Len(Tail(up[c])) = Len(up[c]) - 1 /\ Len(up[c]) \in Nat /\ up'[c] # up[c]
  <2>1. Len(Tail(up[c])) = Len(up[c]) - 1 /\ Len(up[c]) \in Nat
    BY <1>0, HeadTailProperties, LenProperties, EmptySeq
  <2>2. CASE up'[c] = up[c]
    <3>1. Len(up[c]) = Len(up[c]) - 1
      BY ONLY <1>0, <2>1, <2>2
    <3> QED BY ONLY <2>1, <3>1
  <2> QED BY <2>1, <2>2
\* Closing the connection is seen at the gateway's end.
<1>2. ASSUME NEW C \in SUBSET Conns, CloseAtGateway(C) PROVE FALSE
  BY <1>0, <1>1, <1>2, ClosedAtGateway
<1>3. ASSUME NEW d \in Conns, Connect(d) \/ Register(d) \/ Reject(d) \/ RegistrationStep(d) PROVE FALSE
  <2>1. up' = up
    BY <1>2, <1>3 DEF Connect, Register, Reject, RegistrationStep, AckDrained, AckFails, Unregister,
       RegistrationRaises, netVars
  <2> QED BY <1>1, <2>1
<1>4. ASSUME NEW d \in Conns, ReaderStep(d) PROVE ReadResponse(c)
  <2>1. \/ ReadHeartbeat(d) \/ ReadResponse(d) \/ up' = up
    BY <1>4 DEF ReaderStep, HeartbeatReply, HeartbeatReplied, HeartbeatReplyFails, ReadEnd, ReadReset, netVars
  <2>2. CASE ReadHeartbeat(d)
    <3>1. up' = [up EXCEPT ![d] = Tail(@)] /\ Head(up[d]).kind = "heartbeat"
      BY <2>2 DEF ReadHeartbeat, Taken
    <3>2. d = c
      BY <1>0, <1>1, <3>1
    <3> QED BY <1>0, <3>1, <3>2
  <2>3. CASE ReadResponse(d)
    <3>1. up' = [up EXCEPT ![d] = Tail(@)]
      BY <2>3 DEF ReadResponse, Taken
    <3>2. d = c
      BY <1>0, <1>1, <3>1
    <3> QED BY <2>3, <3>2
  <2> QED BY <1>1, <2>1, <2>2, <2>3
\* What a node writes makes the queue longer.
<1>5. ASSUME NEW n \in Nodes, NodeStep(n) \/ Heartbeat(n) \/ RegistrationFails(n) \/ Disconnect(n) \/ NodeEnds(n)
      PROVE  FALSE
  <2>1. up' = up \/ \E m : up' = Written(up, conn[n], m)
    BY <1>5 DEF NodeStep, ReceiveAck, ReadForwarded, Respond, RespondNothing, ResponseSent,
       ResponseFails, ReadDropped, NodeMoves, Heartbeat, RegistrationFails, Disconnect, CloseAtNode, NodeEnds, Leave, netVars
  <2>2. ASSUME NEW m, up' = Written(up, conn[n], m) PROVE FALSE
    <3>1. up'[c] = up[c] \/ up'[c] = Append(up[c], m)
      BY <1>0, <2>2 DEF Written
    <3>2. Len(Append(up[c], m)) = Len(up[c]) + 1
      BY <1>0
    <3>3. Len(up'[c]) = Len(up[c]) - 1
      BY ONLY <1>0, <1>1
    <3>4. CASE up'[c] = Append(up[c], m)
      BY ONLY <1>1, <3>2, <3>3, <3>4
    <3> QED BY <1>1, <3>1, <3>4
  <2> QED BY <1>1, <2>1, <2>2
<1>6. ASSUME NEW d \in Conns, Drop(d) PROVE FALSE
  <2>1. wire[d] = "up" /\ wire' = [wire EXCEPT ![d] = "down"] /\ \A e \in Conns : e # d => up'[e] = up[e]
    BY <1>0, <1>6 DEF Drop
  <2> QED BY <1>0, <1>1, <2>1 DEF TypeOK
<1>7. CASE Stop \/ UNCHANGED vars \/ \E d \in Conns : NetworkStep(d)
  <2>1. CASE Stop
    <3>1. \E C \in SUBSET Conns : CloseAtGateway(C)
      BY <2>1 DEF Stop
    <3> QED BY <1>2, <3>1
  <2>2. CASE UNCHANGED vars
    BY <1>1, <2>2 DEF vars, netVars
  <2>3. ASSUME NEW d \in Conns, NetworkStep(d) PROVE FALSE
    <3>1. up' = up \/ (gwEnd[d] = "closed" /\ up' = [up EXCEPT ![d] = <<>>])
      BY <1>0, <2>3, NetworkChanges
    <3> QED BY <1>0, <1>1, <3>1
  <2> QED BY <1>7, <2>1, <2>2, <2>3
<1>8. ASSUME NEW q \in Requests, ForwardRefused(q) \/ Forward(q) \/ RequestStep(q) PROVE FALSE
  BY <1>1, <1>8 DEF ForwardRefused, Forward, RequestStep, ForwardWrite, ForwardSent, ForwardBroken,
     ForwardTimeout, ForwardFails, ForwardAnswered, netVars
<1> QED BY <1>3, <1>4, <1>5, <1>6, <1>7, <1>8 DEF Next

\* When every request has an id of its own, an answer that is read while its
\* request waits settles it (_read_loop and forward() share _pending).
THEOREM AnswersReachWaiters ==
  (\A q, r \in Requests : MessageId[q] = MessageId[r] => q = r) => (Spec => AnswerReachesWaiter)
<1> SUFFICES ASSUME \A q, r \in Requests : MessageId[q] = MessageId[r] => q = r
    PROVE  Spec => AnswerReachesWaiter
  OBVIOUS
<1>1. ASSUME WellFormed, WaiterInv, [Next]_vars,
             NEW c \in Conns, NEW r \in Requests,
             Reads(c, Response(r)), phase[r] \in Sent, fut[r] = "pending"
      PROVE  fut'[r] = "result" /\ answer'[r] = r
  <2>1. ReadResponse(c) /\ Head(up[c]) = Response(r) /\ up[c] # <<>> /\ up[c] \in Seq(UpMessages)
    BY <1>1, OnlyReadResponseReads DEF Reads, CanRead, WellFormed, TypeOK
  <2>2. Head(up[c]).from = r /\ Head(up[c]).cid = MessageId[r]
    BY <2>1 DEF Response
  <2>3. chanOf[r] = c
    <3>1. Head(up[c]) = up[c][1] /\ 1 \in 1..Len(up[c])
      BY <2>1, HeadTailProperties, LenProperties, EmptySeq
    <3> QED BY <1>1, <2>2, <3>1 DEF WaiterInv, OriginInv
  <2>4. r \in Waiting(c, Head(up[c]))
    BY <1>1, <2>2, <2>3 DEF WaiterInv, PendingExact, Waiting
  <2> QED BY <1>1, <2>1, <2>2, <2>4 DEF ReadResponse
<1>2. WellFormed /\ WaiterInv /\ [Next]_vars =>
        [\A c \in Conns, r \in Requests :
           Reads(c, Response(r)) /\ phase[r] \in Sent /\ fut[r] = "pending"
             => fut'[r] = "result" /\ answer'[r] = r]_vars
  BY <1>1
<1> QED BY <1>2, SpecWaiterInv, PTL DEF Spec, AnswerReachesWaiter

----------------------------------------------------------------------------
(* The gateway implements RequestReply.                                    *)

\* The status RequestReply gives request r.
StatusOf(r) == IF phase[r] \in Sent THEN "open" ELSE phase[r]

\* A request's step from one phase to another is a step of its status.
LEMMA Moved ==
  ASSUME TypeOK, NEW r \in Requests, NEW to, phase' = [phase EXCEPT ![r] = to]
  PROVE  [q \in Requests |-> StatusOf(q)]'
           = [[q \in Requests |-> StatusOf(q)] EXCEPT ![r] = IF to \in Sent THEN "open" ELSE to]
BY DEF StatusOf, TypeOK

\* Every step of the gateway is a step of RequestReply or leaves it alone.
LEMMA ServiceStep ==
  ASSUME \A q, r \in Requests : MessageId[q] = MessageId[r] => q = r,
         WellFormed, AnswerInv, ExecInv, [Next]_vars
  PROVE  [Service!Next]_(Service!vars)
<1> DEFINE status == [q \in Requests |-> StatusOf(q)]
<1>0. TypeOK /\ ClientInv
  BY DEF WellFormed
<1>1. status = [r \in Requests |-> IF phase[r] \in Sent THEN "open" ELSE phase[r]]
  BY DEF StatusOf
<1>2. ASSUME executed' = executed, phase' = phase PROVE UNCHANGED Service!vars
  BY <1>2 DEF Service!vars, Sent
<1>3. ASSUME NEW r \in Requests, NEW to, phase' = [phase EXCEPT ![r] = to], executed' = executed
      PROVE  /\ phase[r] = "idle" /\ to \in Sent => Service!Accept(r)
             /\ phase[r] = "idle" /\ to = "refused" => Service!Refuse(r)
             /\ phase[r] \in Sent /\ to = "failed" => Service!Fail(r)
             /\ phase[r] \in Sent /\ to = "answered" /\ executed[r] = 1 => Service!Answer(r)
             /\ phase[r] \in Sent /\ to \in Sent => UNCHANGED Service!vars
  <2>1. status' = [status EXCEPT ![r] = IF to \in Sent THEN "open" ELSE to]
    BY <1>0, <1>3, Moved
  <2>2. status[r] = StatusOf(r) /\ status = [status EXCEPT ![r] = status[r]]
    OBVIOUS
  <2>3. status[r] = IF phase[r] \in Sent THEN "open" ELSE phase[r]
    BY <2>2 DEF StatusOf
  <2>4. "refused" \notin Sent /\ "failed" \notin Sent /\ "answered" \notin Sent /\ "idle" \notin Sent
    BY DEF Sent
  <2>5. status' = [q \in Requests |-> IF phase'[q] \in Sent THEN "open" ELSE phase'[q]]
    BY DEF StatusOf
  <2> HIDE DEF status
  <2> QED BY <1>1, <1>3, <2>1, <2>2, <2>3, <2>4, <2>5
      DEF Service!Accept, Service!Refuse, Service!Fail, Service!Answer, Service!Moves, Service!vars
<1>4. ASSUME NEW c \in Conns,
             Connect(c) \/ Register(c) \/ Reject(c) \/ RegistrationStep(c) \/ ReaderStep(c)
      PROVE  UNCHANGED Service!vars
  <2>1. executed' = executed /\ phase' = phase
    BY <1>0, <1>4, ConnectionPlain DEF Plain, ReadResponse, nodeVars
  <2> QED BY <1>2, <2>1
<1>5. ASSUME NEW r \in Requests, ForwardRefused(r) \/ Forward(r) \/ RequestStep(r)
      PROVE  Service!Next \/ UNCHANGED Service!vars
  <2>1. executed' = executed
    BY <1>5 DEF ForwardRefused, Forward, RequestStep, ForwardWrite, ForwardSent, ForwardBroken,
       ForwardTimeout, ForwardFails, ForwardAnswered, nodeVars
  <2>2. CASE ForwardRefused(r)
    <3>1. Service!Refuse(r)
      BY <1>3, <2>1, <2>2 DEF ForwardRefused
    <3> QED BY <3>1 DEF Service!Next
  <2>3. CASE Forward(r)
    <3>1. phase[r] = "idle" /\ \E to \in Sent : phase' = [phase EXCEPT ![r] = to]
      BY <2>3 DEF Forward, SendForwarded, AfterWrite, Sent
    <3>2. Service!Accept(r)
      BY <1>3, <2>1, <3>1
    <3> QED BY <3>2 DEF Service!Next
  <2>4. CASE ForwardWrite(r) \/ ForwardSent(r)
    <3>1. phase[r] \in Sent /\ \E to \in Sent : phase' = [phase EXCEPT ![r] = to]
      BY <2>4 DEF ForwardWrite, SendForwarded, AfterWrite, ForwardSent, Sent
    <3> QED BY <1>3, <2>1, <3>1
  <2>5. CASE ForwardBroken(r) \/ ForwardTimeout(r)
    <3>1. phase[r] \in Sent /\ phase' = [phase EXCEPT ![r] = "failed"]
      BY <2>5 DEF ForwardBroken, ForwardTimeout, ForwardFails, Sent
    <3>2. Service!Fail(r)
      BY <1>3, <2>1, <3>1
    <3> QED BY <3>2 DEF Service!Next
  <2>6. CASE ForwardAnswered(r)
    <3>1. phase[r] \in Sent /\ phase' = [phase EXCEPT ![r] = "answered"] /\ fut[r] = "result"
      BY <2>6 DEF ForwardAnswered, Sent
    <3>2. answer[r] = r /\ executed[answer[r]] = 1
      BY <3>1 DEF AnswerInv, ExecInv, SourceInv
    <3>3. Service!Answer(r)
      BY <1>3, <2>1, <3>1, <3>2
    <3> QED BY <3>3 DEF Service!Next
  <2> QED BY <1>5, <2>2, <2>3, <2>4, <2>5, <2>6 DEF RequestStep
<1>6. ASSUME NEW n \in Nodes, NodeStep(n) \/ Heartbeat(n) \/ RegistrationFails(n) \/ Disconnect(n) \/ NodeEnds(n)
      PROVE  Service!Next \/ UNCHANGED Service!vars
  <2>1. CASE ~ReadForwarded(n)
    <3>1. executed' = executed /\ phase' = phase
      BY <1>0, <1>6, <2>1, NodePlain DEF NodeStep, Plain, Respond, reqVars
    <3> QED BY <1>2, <3>1
  <2>2. CASE ReadForwarded(n)
    <3>1. phase' = phase
      BY <2>2 DEF ReadForwarded, reqVars
    <3>2. CASE executed' = executed
      BY <1>2, <3>1, <3>2
    <3>3. CASE executed' # executed
      <4>1. PICK r \in Requests : executed'[r] # executed[r]
        <5>1. executed \in [Requests -> Nat] /\ executed' = [r \in Requests |-> executed'[r]]
          BY <1>0, <2>2 DEF TypeOK, ReadForwarded, Dispatched
        <5> QED BY <3>3, <5>1
      <4>2. executed[r] = 0 /\ Placed(r) /\ executed' = [executed EXCEPT ![r] = 1]
        BY <2>2, <4>1, ReadForwardedExec
      <4>3. phase[r] # "answered"
        BY <4>2 DEF AnswerInv, ExecInv, SourceInv
      <4>4. status[r] \in {"open", "failed"} /\ status' = status
        BY <3>1, <4>2, <4>3 DEF Placed, StatusOf, Sent
      <4>5. Service!Execute(r)
        BY <1>1, <3>1, <4>2, <4>4 DEF Service!Execute
      <4> QED BY <4>5 DEF Service!Next
    <3> QED BY <3>2, <3>3
  <2> QED BY <2>1, <2>2
<1>7. CASE Stop \/ UNCHANGED vars \/ \E c \in Conns : Drop(c) \/ NetworkStep(c)
  <2>1. executed' = executed /\ phase' = phase
    BY <1>0, <1>7, NetworkPlain DEF Plain
  <2> QED BY <1>2, <2>1
<1> QED BY <1>4, <1>5, <1>6, <1>7 DEF Next

\* When every request has an id of its own, as AIMMessage makes them, the
\* gateway does what RequestReply says: a request is executed at most once, an
\* answer is given only for a request that was executed, a refused request
\* never is.  (That every request is settled is a matter of fairness.)
THEOREM GatewayImplementsService ==
  (\A q, r \in Requests : MessageId[q] = MessageId[r] => q = r) => (Spec => Service!SafeSpec)
<1> SUFFICES ASSUME \A q, r \in Requests : MessageId[q] = MessageId[r] => q = r
    PROVE  Spec => Service!SafeSpec
  OBVIOUS
<1>1. Init => Service!Init
  BY DEF Init, Service!Init, Sent
<1>2. WellFormed /\ AnswerInv /\ ExecInv /\ [Next]_vars => [Service!Next]_(Service!vars)
  BY ServiceStep
<1> QED BY <1>1, <1>2, SpecExecInv, PTL DEF Spec, Service!SafeSpec
=============================================================================
