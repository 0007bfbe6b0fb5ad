------------------------- MODULE CommandCenterProofs -------------------------
(***************************************************************************)
(* Proofs about CommandCenter, for any number of connections: a client that *)
(* believes in a connection that is up attends to it, unless a frame ended  *)
(* the listener, and a node that was stopped while no reconnect was under   *)
(* way never comes back.                                                    *)
(*                                                                         *)
(* Attended is inductive with the types: a loop that leaves a connection    *)
(* found it down, takes connected with it, or was ended by a frame, and a   *)
(* connection that comes up brings its own pair of loops.  StopsQuietly     *)
(* needs QuietInv: after a quiet disconnect() no loop stands where it could *)
(* still open a connection, and none can get there without one.             *)
(***************************************************************************)
EXTENDS CommandCenter, TLAPS

HeartStates    == {"none", "sleeping", "draining", "backoff", "over"}
ListenerStates == {"none", "reading", "handling", "backoff", "over"}

TypeOK ==
  /\ node \in {"off", "running", "cancelling", "closing", "stopped"}
  /\ connected \in BOOLEAN
  /\ writer \in 0..MaxConns /\ latest \in 0..MaxConns /\ opened \in 0..MaxConns
  /\ wire \in [Conns -> {"unused", "up", "eof", "reset", "closed"}]
  /\ heart \in [Conns -> HeartStates] /\ sendsOn \in [Conns -> 0..MaxConns]
  /\ listener \in [Conns -> ListenerStates] /\ readsFrom \in [Conns -> 0..MaxConns]
  /\ victims \in 0..MaxConns /\ shutdown \in 0..MaxConns /\ quiet \in BOOLEAN
  /\ raised \subseteq 0..MaxConns

\* After a quiet disconnect() no loop is left in a reconnect or on its way.
QuietInv ==
  quiet =>
    /\ node \in {"cancelling", "closing", "stopped"} /\ ~connected
    /\ \A c \in Conns : heart[c] \notin {"draining", "backoff"} /\ listener[c] # "backoff"

IInv == TypeOK /\ QuietInv /\ Attended

----------------------------------------------------------------------------
(* Lemmas about the parts of actions.                                      *)

LEMMA ConnFacts ==
  /\ 0 \in 0..MaxConns /\ Conns \subseteq 0..MaxConns /\ 0 \notin Conns
  /\ \A c \in 0..MaxConns : c = 0 \/ c \in Conns
BY CommandCenterAssumption DEF Conns

\* What opening a connection leaves, whatever becomes of the loop that does it:
\* either the new connection is attended or it was reset.
LEMMA OpensKeeps ==
  ASSUME TypeOK, NEW hearts \in [Conns -> HeartStates],
         NEW listeners \in [Conns -> ListenerStates],
         Opens(hearts, listeners) \/ RegisterFails(hearts, listeners),
         node' \in {"off", "running", "cancelling", "closing", "stopped"},
         UNCHANGED restVars
  PROVE  TypeOK' /\ Attended'
<1>1. CASE Opens(hearts, listeners)
  <2>1. PICK c \in Conns : c = opened + 1
    BY <1>1, CommandCenterAssumption DEF Opens, TypeOK, Conns
  <2>2. c \in 0..MaxConns /\ c # 0
    BY ConnFacts
  <2>3. /\ opened' = c /\ wire' = [wire EXCEPT ![c] = "up"]
        /\ connected' = TRUE /\ writer' = c /\ latest' = c
        /\ heart' = [hearts EXCEPT ![c] = "sleeping"]
        /\ listener' = [listeners EXCEPT ![c] = "reading"]
        /\ readsFrom' = [readsFrom EXCEPT ![c] = c]
        /\ sendsOn' = sendsOn
    BY <1>1, <2>1 DEF Opens
  <2>4. TypeOK'
    BY <2>2, <2>3 DEF TypeOK, restVars, HeartStates, ListenerStates
  <2>5. heart'[c] = "sleeping" /\ listener'[c] = "reading" /\ readsFrom'[c] = c
    BY <2>3 DEF TypeOK
  <2> QED
    BY <2>3, <2>4, <2>5 DEF Attended, Live, Listened
<1>2. CASE RegisterFails(hearts, listeners)
  <2>1. PICK c \in Conns : c = opened + 1
    BY <1>2, CommandCenterAssumption DEF RegisterFails, TypeOK, Conns
  <2>2. c \in 0..MaxConns /\ c # 0
    BY ConnFacts
  <2>3. /\ opened' = c /\ wire' = [wire EXCEPT ![c] = "reset"]
        /\ connected' = TRUE /\ writer' = c /\ heart' = hearts /\ listener' = listeners
        /\ UNCHANGED <<latest, sendsOn, readsFrom>>
    BY <1>2, <2>1 DEF RegisterFails
  <2>4. TypeOK'
    BY <2>2, <2>3 DEF TypeOK, restVars
  <2>5. wire'[writer'] = "reset"
    BY <2>3 DEF TypeOK
  <2> QED
    BY <2>4, <2>5 DEF Attended, Live, Listened
<1> QED
  BY <1>1, <1>2

\* Closing the client's connection leaves it down.
LEMMA ClosedFacts ==
  ASSUME TypeOK
  PROVE  /\ Closed(writer) \in [Conns -> {"unused", "up", "eof", "reset", "closed"}]
         /\ writer # 0 => Closed(writer)[writer] # "up"
BY ConnFacts DEF TypeOK, Closed

\* A reconnect leaves the client unconnected.
LEMMA ReconnectFacts ==
  ASSUME TypeOK, Reconnect
  PROVE  /\ connected' = FALSE /\ writer' = 0 /\ UNCHANGED <<latest, opened>>
         /\ wire' \in [Conns -> {"unused", "up", "eof", "reset", "closed"}]
BY ClosedFacts DEF Reconnect

\* Cancelling loops, if there are any.
LEMMA OverFacts ==
  ASSUME NEW S, "over" \in S, NEW loops \in [Conns -> S], NEW c \in 0..MaxConns
  PROVE  /\ Over(loops, c) \in [Conns -> S]
         /\ \A d \in Conns : Over(loops, c)[d] \in {loops[d], "over"}
         /\ c \in Conns => Over(loops, c)[c] \in {"none", "over"}
BY ConnFacts DEF Over

\* A step that spares the listeners and leaves a heartbeat loop.
LEMMA AttendedStays ==
  ASSUME Attended, UNCHANGED <<connected, writer, listener, readsFrom, raised>>,
         \A c \in Conns : heart[c] \in {"sleeping", "draining"} =>
                           heart'[c] \in {"sleeping", "draining"},
         writer # 0 /\ wire'[writer] = "up" => wire[writer] = "up"
  PROVE  Attended'
BY DEF Attended, Live, Listened

----------------------------------------------------------------------------
(* Every action preserves the invariant.                                   *)

LEMMA InitIInv == Init => IInv
<1> SUFFICES ASSUME Init PROVE IInv
  OBVIOUS
<1>1. TypeOK
  BY ConnFacts DEF Init, TypeOK, HeartStates, ListenerStates
<1>2. QuietInv /\ Attended
  BY DEF Init, QuietInv, Attended, Live, Listened
<1> QED BY <1>1, <1>2 DEF IInv

LEMMA HeartKeepsIInv ==
  ASSUME IInv, NEW c \in Conns,
         HeartStep(c) \/ HeartStalls(c) \/ HeartReconnects(c)
  PROVE  IInv'
<1> USE DEF IInv
<1>1. CASE HeartStops(c)
  <2>1. TypeOK' /\ ~connected'
    BY <1>1 DEF HeartStops, TypeOK, clientVars, restVars, HeartStates
  <2> QED
    BY <1>1, <2>1 DEF HeartStops, TypeOK, clientVars, restVars, QuietInv, Attended, Live, Listened
<1>2. CASE HeartStalls(c)
  <2>1. TypeOK' /\ connected
    BY <1>2 DEF HeartStalls, TypeOK, clientVars, restVars, HeartStates
  <2>2. ~quiet'
    BY <1>2, <2>1 DEF HeartStalls, QuietInv, restVars
  <2>3. Attended'
    <3>1. /\ UNCHANGED <<connected, writer, wire, listener, readsFrom, raised>>
          /\ heart' = [heart EXCEPT ![c] = "draining"]
      BY <1>2 DEF HeartStalls, clientVars, restVars
    <3> QED
      BY <3>1, AttendedStays DEF TypeOK
  <2> QED
    BY <2>1, <2>2, <2>3 DEF QuietInv
<1>3. CASE HeartDrained(c)
  <2>1. TypeOK'
    BY <1>3, ConnFacts DEF HeartDrained, TypeOK, clientVars, restVars, HeartStates
  <2>2. QuietInv'
    BY <1>3 DEF HeartDrained, TypeOK, clientVars, restVars, QuietInv
  <2>3. Attended'
    <3>1. /\ UNCHANGED <<connected, writer, wire, listener, readsFrom, raised>>
          /\ heart' = [heart EXCEPT ![c] = "sleeping"]
      BY <1>3 DEF HeartDrained, clientVars, restVars
    <3> QED
      BY <3>1, AttendedStays DEF TypeOK
  <2> QED
    BY <2>1, <2>2, <2>3
<1>4. CASE HeartFails(c)
  <2>1. /\ connected' = FALSE /\ writer' = 0 /\ UNCHANGED <<latest, opened>>
        /\ wire' \in [Conns -> {"unused", "up", "eof", "reset", "closed"}]
    BY <1>4, ReconnectFacts DEF HeartFails
  <2>2. ~quiet'
    BY <1>4 DEF HeartFails, QuietInv, restVars
  <2>3. TypeOK'
    BY <1>4, <2>1, ConnFacts DEF HeartFails, TypeOK, restVars, HeartStates
  <2> QED
    BY <2>1, <2>2, <2>3 DEF QuietInv, Attended, Live, Listened
<1>5. CASE HeartReconnects(c)
  <2>1. HeartResumes(c) \in [Conns -> HeartStates]
    BY DEF HeartResumes, TypeOK, HeartStates
  <2>2. TypeOK' /\ Attended'
    BY <1>5, <2>1, OpensKeeps DEF HeartReconnects, TypeOK
  <2>3. ~quiet'
    BY <1>5 DEF HeartReconnects, QuietInv, restVars
  <2> QED
    BY <2>2, <2>3 DEF QuietInv
<1>6. CASE HeartGivesUp(c)
  <2>1. TypeOK' /\ ~quiet'
    BY <1>6 DEF HeartGivesUp, HeartResumes, TypeOK, QuietInv, clientVars, restVars, HeartStates
  <2>2. Attended'
    <3>1. /\ UNCHANGED <<connected, writer, wire, listener, readsFrom, raised>>
          /\ heart' = [heart EXCEPT ![c] = "sleeping"]
      BY <1>6 DEF HeartGivesUp, HeartResumes, clientVars, restVars
    <3> QED
      BY <3>1, AttendedStays DEF TypeOK
  <2> QED
    BY <2>1, <2>2 DEF QuietInv
<1> QED
  BY <1>1, <1>2, <1>3, <1>4, <1>5, <1>6 DEF HeartStep

LEMMA NoFrameKeepsIInv ==
  ASSUME IInv, NEW c \in Conns, NoFrame(c)
  PROVE  IInv'
<1> USE DEF IInv
<1>1. CASE connected
  <2>1. /\ connected' = FALSE /\ writer' = 0 /\ UNCHANGED <<latest, opened>>
        /\ wire' \in [Conns -> {"unused", "up", "eof", "reset", "closed"}]
    BY <1>1, ReconnectFacts DEF NoFrame
  <2>2. ~quiet'
    BY <1>1 DEF NoFrame, QuietInv, restVars
  <2>3. TypeOK'
    <3>1. /\ UNCHANGED <<node, restVars, heart, sendsOn>>
          /\ listener' = [listener EXCEPT ![c] = "backoff"]
          /\ readsFrom' = [readsFrom EXCEPT ![c] = 0]
      BY <1>1 DEF NoFrame, ListenerMoves
    <3> QED
      BY <2>1, <3>1, ConnFacts DEF TypeOK, restVars, ListenerStates
  <2> QED
    BY <2>1, <2>2, <2>3 DEF QuietInv, Attended, Live, Listened
<1>2. CASE ~connected
  <2>1. /\ UNCHANGED <<node, clientVars, restVars, heart, sendsOn>>
        /\ listener' = [listener EXCEPT ![c] = "over"]
        /\ readsFrom' = [readsFrom EXCEPT ![c] = 0]
    BY <1>2 DEF NoFrame, ListenerMoves
  <2>2. TypeOK'
    BY <2>1, ConnFacts DEF TypeOK, clientVars, restVars, ListenerStates
  <2>3. QuietInv'
    BY <2>1 DEF TypeOK, clientVars, restVars, QuietInv
  <2> QED
    BY <1>2, <2>1, <2>2, <2>3 DEF Attended, Live, Listened, clientVars
<1> QED
  BY <1>1, <1>2

LEMMA ListenerKeepsIInv ==
  ASSUME IInv, NEW c \in Conns,
         \/ ListenerStep(c) \/ ReceiveCommand(c) \/ ListenerRaises(c) \/ BadFrame(c)
         \/ ListenerReconnects(c)
  PROVE  IInv'
<1> USE DEF IInv
<1>1. CASE ReceiveCommand(c)
  <2>1. /\ UNCHANGED <<node, clientVars, restVars, heart, sendsOn>>
        /\ listener' = [listener EXCEPT ![c] = "handling"]
        /\ readsFrom' = [readsFrom EXCEPT ![c] = 0]
    BY <1>1 DEF ReceiveCommand, ListenerMoves
  <2>2. TypeOK' /\ QuietInv'
    BY <2>1, ConnFacts DEF TypeOK, clientVars, restVars, QuietInv, ListenerStates
  <2>3. listener'[c] = "handling"
    BY <2>1 DEF TypeOK
  <2> QED
    BY <2>1, <2>2, <2>3 DEF Attended, Live, Listened, clientVars
<1>2. CASE CommandHandled(c)
  <2>0. UNCHANGED <<node, clientVars, restVars, heart, sendsOn>>
    BY <1>2 DEF CommandHandled, ListenerMoves
  <2>1. CASE connected /\ writer # 0
             /\ \A d \in Conns : ~(listener[d] = "reading" /\ readsFrom[d] = writer)
    <3>1. /\ listener' = [listener EXCEPT ![c] = "reading"]
          /\ readsFrom' = [readsFrom EXCEPT ![c] = writer]
      BY <1>2, <2>1 DEF CommandHandled
    <3>2. TypeOK' /\ QuietInv'
      BY <2>0, <2>1, <3>1 DEF TypeOK, clientVars, restVars, QuietInv, ListenerStates
    <3>3. listener'[c] = "reading" /\ readsFrom'[c] = writer'
      BY <2>0, <3>1 DEF TypeOK, clientVars
    <3> QED
      BY <2>0, <3>2, <3>3 DEF Attended, Live, Listened, clientVars
  <2>2. CASE ~(connected /\ writer # 0
               /\ \A d \in Conns : ~(listener[d] = "reading" /\ readsFrom[d] = writer))
    <3>1. /\ listener' = [listener EXCEPT ![c] = "over"]
          /\ readsFrom' = [readsFrom EXCEPT ![c] = 0]
      BY <1>2, <2>2 DEF CommandHandled, ListenerMoves
    <3>2. TypeOK' /\ QuietInv'
      BY <2>0, <3>1, ConnFacts DEF TypeOK, clientVars, restVars, QuietInv, ListenerStates
    \* Somebody else is the reader.
    <3>3. ASSUME connected, writer # 0
          PROVE  \E d \in Conns : listener'[d] = "reading" /\ readsFrom'[d] = writer
      <4>1. PICK d \in Conns : listener[d] = "reading" /\ readsFrom[d] = writer
        BY <2>2, <3>3
      <4>2. d # c
        BY <1>2, <4>1 DEF CommandHandled
      <4> QED
        BY <3>1, <4>1, <4>2 DEF TypeOK
    <3> QED
      BY <2>0, <3>2, <3>3 DEF Attended, Live, Listened, clientVars
  <2> QED
    BY <2>1, <2>2
<1>3. CASE ListenerEnds(c) \/ BadFrame(c)
  BY <1>3, NoFrameKeepsIInv DEF ListenerEnds, BadFrame
\* A listener that was not attending to the client's connection leaves.
<1>4. CASE ListenerDies(c) \/ ListenerGivesUp(c)
  <2>1. /\ UNCHANGED <<node, clientVars, restVars, heart, sendsOn>>
        /\ listener' = [listener EXCEPT ![c] = "over"]
        /\ readsFrom' = [readsFrom EXCEPT ![c] = 0]
        /\ listener[c] # "handling"
        /\ listener[c] = "reading" => wire[readsFrom[c]] = "reset"
    BY <1>4 DEF ListenerDies, ListenerGivesUp, ListenerMoves
  <2>2. TypeOK' /\ QuietInv'
    BY <2>1, ConnFacts DEF TypeOK, clientVars, restVars, QuietInv, ListenerStates
  <2>3. ASSUME connected, writer # 0, wire[writer] = "up", writer \notin raised
        PROVE  \E d \in Conns : listener'[d] = "handling"
                                  \/ (listener'[d] = "reading" /\ readsFrom'[d] = writer)
    <3>1. PICK d \in Conns : listener[d] = "handling"
                               \/ (listener[d] = "reading" /\ readsFrom[d] = writer)
      BY <2>3 DEF Attended, Live, Listened
    <3>2. d # c
      BY <2>1, <2>3, <3>1
    <3> QED
      BY <2>1, <3>1, <3>2 DEF TypeOK
  <2> QED
    BY <2>1, <2>2, <2>3 DEF Attended, Live, Listened, clientVars, restVars
\* The listener that a frame ends was not attending to the client's connection, or
\* is the reason why nobody does.
<1>6. CASE ListenerRaises(c)
  <2>1. /\ UNCHANGED <<node, clientVars, victims, shutdown, quiet, heart, sendsOn>>
        /\ listener' = [listener EXCEPT ![c] = "over"]
        /\ readsFrom' = [readsFrom EXCEPT ![c] = 0]
        /\ raised' = raised \cup {readsFrom[c]}
        /\ listener[c] = "reading"
    BY <1>6 DEF ListenerRaises, ListenerMoves
  <2>2. TypeOK' /\ QuietInv'
    BY <2>1, ConnFacts DEF TypeOK, clientVars, QuietInv, ListenerStates
  <2>3. ASSUME Live, writer \notin raised'
        PROVE  \E d \in Conns : listener'[d] = "handling"
                                  \/ (listener'[d] = "reading" /\ readsFrom'[d] = writer)
    <3>1. PICK d \in Conns : listener[d] = "handling"
                               \/ (listener[d] = "reading" /\ readsFrom[d] = writer)
      BY <2>1, <2>3 DEF Attended, Listened
    <3>2. d # c
      BY <2>1, <2>3, <3>1
    <3> QED
      BY <2>1, <3>1, <3>2 DEF TypeOK
  <2> QED
    BY <2>1, <2>2, <2>3 DEF Attended, Live, Listened, clientVars
<1>5. CASE ListenerReconnects(c)
  <2>1. ListenerLeaves(c) \in [Conns -> ListenerStates] /\ heart \in [Conns -> HeartStates]
    BY DEF ListenerLeaves, TypeOK, ListenerStates
  <2>2. TypeOK' /\ Attended'
    BY <1>5, <2>1, OpensKeeps DEF ListenerReconnects, TypeOK
  <2>3. ~quiet'
    BY <1>5 DEF ListenerReconnects, QuietInv, restVars
  <2> QED
    BY <2>2, <2>3 DEF QuietInv
<1> QED
  BY <1>1, <1>2, <1>3, <1>4, <1>5, <1>6 DEF ListenerStep

LEMMA StopByKeepsIInv ==
  ASSUME IInv, NEW c \in 0..MaxConns, StopBy(c)
  PROVE  IInv'
<1> USE DEF IInv
<1>1. CASE connected
  <2>1. /\ node' = "cancelling" /\ connected' = FALSE /\ shutdown' = c /\ victims' = latest
        /\ quiet' = (Revivers = {}) /\ heart' = Over(heart, latest)
        /\ UNCHANGED <<writer, latest, opened, wire, sendsOn, listener, readsFrom, raised>>
    BY <1>1 DEF StopBy, Disconnect
  <2>2. /\ heart' \in [Conns -> HeartStates]
        /\ \A d \in Conns : heart'[d] \in {heart[d], "over"}
        /\ latest \in Conns => heart'[latest] \in {"none", "over"}
    BY <2>1, OverFacts DEF TypeOK, HeartStates
  <2>3. TypeOK'
    BY <2>1, <2>2 DEF TypeOK
  <2>4. ASSUME quiet', NEW d \in Conns
        PROVE  heart'[d] \notin {"draining", "backoff"} /\ listener'[d] # "backoff"
    BY <2>1, <2>2, <2>4 DEF Revivers
  <2> QED
    BY <2>1, <2>3, <2>4 DEF QuietInv, Attended, Live, Listened
<1>2. CASE ~connected
  <2>1. ~quiet
    BY DEF StopBy, QuietInv
  <2> QED
    BY <1>2, <2>1 DEF StopBy, SkipDisconnect, TypeOK, QuietInv, Attended, Live, Listened, clientVars, loopVars
<1> QED
  BY <1>1, <1>2

LEMMA StopStepKeepsIInv ==
  ASSUME IInv, StopStep
  PROVE  IInv'
<1> USE DEF IInv
<1>1. CASE CancelListener
  <2>1. /\ node' = "closing" /\ wire' = Closed(writer)
        /\ UNCHANGED <<connected, writer, latest, opened, heart, sendsOn, readsFrom, restVars>>
    BY <1>1 DEF CancelListener
  <2>2. /\ listener' \in [Conns -> ListenerStates]
        /\ \A d \in Conns : listener'[d] \in {listener[d], "over"}
    BY <1>1, OverFacts DEF CancelListener, ListenerCancelled, TypeOK, ListenerStates
  <2>3. TypeOK'
    BY <2>1, <2>2, ClosedFacts DEF TypeOK, restVars
  <2>4. QuietInv'
    BY <2>1, <2>2 DEF QuietInv, restVars
  <2> QED
    BY <2>1, <2>3, <2>4, ClosedFacts DEF Attended, Live, Listened
<1>2. CASE Closes
  <2>1. TypeOK'
    BY <1>2, ConnFacts DEF Closes, TypeOK, loopVars, restVars
  <2> QED
    BY <1>2, <2>1 DEF Closes, QuietInv, Attended, Live, Listened, loopVars, restVars
<1>3. CASE \E c \in Conns : ShutdownReturns(c)
  BY <1>3, ConnFacts DEF ShutdownReturns, TypeOK, QuietInv, Attended, Live, Listened, clientVars, loopVars
<1> QED
  BY <1>1, <1>2, <1>3 DEF StopStep

LEMMA LoseKeepsIInv ==
  ASSUME IInv, NEW c \in Conns, Lose(c)
  PROVE  IInv'
<1>1. PICK w \in {"eof", "reset"} : wire' = [wire EXCEPT ![c] = w]
  BY DEF Lose
<1>2. UNCHANGED <<node, connected, writer, latest, opened, loopVars, restVars>>
  BY DEF Lose
<1>3. \A d \in Conns : wire'[d] = "up" => wire[d] = "up"
  BY <1>1 DEF IInv, TypeOK
<1>4. TypeOK' /\ QuietInv'
  BY <1>1, <1>2 DEF IInv, TypeOK, QuietInv, loopVars, restVars
<1>5. Attended'
  BY <1>2, <1>3, ConnFacts, AttendedStays DEF IInv, TypeOK, loopVars, restVars
<1> QED
  BY <1>4, <1>5 DEF IInv

LEMMA StartKeepsIInv == ASSUME IInv, Start PROVE IInv'
<1>1. ~quiet' /\ UNCHANGED restVars
  BY DEF IInv, QuietInv, Start, restVars
<1>2. TypeOK' /\ Attended'
  <2>1. CASE Opens(heart, listener) \/ RegisterFails(heart, listener)
    BY <1>1, <2>1, OpensKeeps DEF IInv, TypeOK, Start
  <2>2. CASE UNCHANGED <<clientVars, loopVars>>
    BY <1>1, <2>2 DEF IInv, TypeOK, Start, Attended, Live, Listened, clientVars, loopVars, restVars
  <2> QED
    BY <2>1, <2>2 DEF Start
<1> QED
  BY <1>1, <1>2 DEF IInv, QuietInv

LEMMA NextIInv == IInv /\ [Next]_vars => IInv'
<1> SUFFICES ASSUME IInv, [Next]_vars PROVE IInv'
  OBVIOUS
<1>1. CASE UNCHANGED vars
  BY <1>1 DEF vars, clientVars, loopVars, restVars, IInv, TypeOK, QuietInv, Attended, Live, Listened
<1>2. CASE Stop \/ \E c \in Conns : Shutdown(c)
  BY <1>2, ConnFacts, StopByKeepsIInv DEF Stop, Shutdown
<1> QED
  BY <1>1, <1>2, StartKeepsIInv, StopStepKeepsIInv, HeartKeepsIInv, ListenerKeepsIInv,
     LoseKeepsIInv DEF Next

LEMMA SpecIInv == Spec => []IInv
BY InitIInv, NextIInv, PTL DEF Spec

----------------------------------------------------------------------------
(* The theorems.                                                           *)

\* The client's fields and loops keep their form.
THEOREM ClientTypeCorrect == Spec => []TypeOK
BY SpecIInv, PTL DEF IInv

\* A connection the client believes in, and that is up, has a loop that sends
\* its heartbeats, and a listener that takes its commands unless a frame that is no
\* command ended one on it, whichever loops reconnected, gave up or collided on the
\* reader before (_heartbeat_loop, _command_listener, _handle_remote_command).
THEOREM ConnectionAttended == Spec => []Attended
BY SpecIInv, PTL DEF IInv

\* A node whose stop() found no reconnect under way stays disconnected, however
\* its loops were interleaved with disconnect().
THEOREM QuietStopLasts == Spec => []StopsQuietly
<1>1. IInv => StopsQuietly
  BY DEF IInv, QuietInv, StopsQuietly
<1> QED
  BY <1>1, SpecIInv, PTL
=============================================================================
