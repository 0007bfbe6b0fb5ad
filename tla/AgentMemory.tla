------------------------------ MODULE AgentMemory ------------------------------
(***************************************************************************)
(* The shared memory of an AgentNode (node/agent.py) as its peers use it   *)
(* over BaseNode.send() (node/base.py): a connection for each call, which  *)
(* waits a limited time for its answer while the request may be served     *)
(* later, or never.  One key stands for all, as a handler touches the one  *)
(* it is given.  The value a call sets is named after the call.            *)
(***************************************************************************)
EXTENDS FiniteSets, Naturals

CONSTANTS Setters,  \* the calls of remote_memory_set()
          Getters,  \* the calls of remote_memory_get()
          Locals,   \* the node's own calls of memory_set()
          NoValue,
          MaxRestarts

ASSUME MemoryAssumption ==
  /\ Setters \cap Getters = {} /\ Locals \cap (Setters \cup Getters) = {}
  /\ NoValue \notin Setters \cup Locals
  /\ MaxRestarts \in Nat

VARIABLES
  memory,     \* _memory at the key
  introduced, \* the announcement that puts the node into the callers' _peers
  caller,     \* where a call stands, at the caller
  request,    \* and what became of its message
  shown,      \* what the node answered to a getter
  set,        \* the setters and local calls known to be done, since the start
  doneBefore, \* those done when a setter or a local call was begun
  restarts,
  outdated    \* what a getter must not be shown

memoryVars == <<memory, introduced, caller, request, shown, set, doneBefore,
                restarts, outdated>>

MemoryCalls == Setters \cup Getters
Writers == Setters \cup Locals

MemoryInit ==
  /\ memory = NoValue /\ introduced = "not"
  /\ caller = [c \in MemoryCalls \cup Locals |-> "idle"]
  /\ request = [c \in MemoryCalls |-> "none"]
  /\ shown = [g \in Getters |-> NoValue]
  /\ set = {} /\ doneBefore = [w \in Writers |-> {}]
  /\ restarts = 0
  /\ outdated = [g \in Getters |-> {}]

Caller(c, at)  == caller' = [caller EXCEPT ![c] = at]
Request(c, at) == request' = [request EXCEPT ![c] = at]

\* Values that were replaced by a call begun after they were set, and done.
Replaced == {v \in set : \E w \in set : v \in doneBefore[w]}

Unwritten == IF set = {} THEN {} ELSE {NoValue}

----------------------------------------------------------------------------
(* The announcement, which no node answers: announce_to() waits in vain.   *)

AnnounceTo ==
  /\ introduced = "not" /\ introduced' = "sent"
  /\ UNCHANGED <<memory, caller, request, shown, set, doneBefore, restarts,
                 outdated>>

OnAnnounce ==
  /\ introduced = "sent" /\ introduced' = "known"
  /\ UNCHANGED <<memory, caller, request, shown, set, doneBefore, restarts,
                 outdated>>

----------------------------------------------------------------------------
(* The caller: send_to_peer() and send().                                  *)

\* "Unknown peer".
PeerUnknown(c) ==
  /\ caller[c] = "idle" /\ introduced # "known"
  /\ Caller(c, "nothing")
  /\ UNCHANGED <<memory, introduced, request, shown, set, doneBefore, restarts,
                 outdated>>

BeginSet(c) ==
  /\ c \in Setters /\ caller[c] = "idle" /\ introduced = "known"
  /\ Caller(c, "dialing")
  /\ doneBefore' = [doneBefore EXCEPT ![c] = set]
  /\ UNCHANGED <<memory, introduced, request, shown, set, restarts, outdated>>

BeginGet(c) ==
  /\ c \in Getters /\ caller[c] = "idle" /\ introduced = "known"
  /\ Caller(c, "dialing")
  /\ outdated' = [outdated EXCEPT ![c] = Replaced \cup Unwritten]
  /\ UNCHANGED <<memory, introduced, request, shown, set, doneBefore, restarts>>

CannotConnect(c) ==
  /\ caller[c] = "dialing"
  /\ Caller(c, "nothing")
  /\ UNCHANGED <<memory, introduced, request, shown, set, doneBefore, restarts,
                 outdated>>

Send(c) ==
  /\ caller[c] = "dialing"
  /\ Caller(c, "waiting") /\ Request(c, "sent")
  /\ UNCHANGED <<memory, introduced, shown, set, doneBefore, restarts, outdated>>

Receive(c) ==
  /\ caller[c] = "waiting" /\ request[c] \in {"served", "served before"}
  /\ Caller(c, "answered")
  /\ set' = IF c \in Setters /\ request[c] = "served" THEN set \cup {c} ELSE set
  /\ UNCHANGED <<memory, introduced, request, shown, doneBefore, restarts,
                 outdated>>

\* The message is still on its way, the answer is, or the connection is lost:
\* None is returned, or an exception is raised.
TimesOut(c) ==
  /\ caller[c] = "waiting"
  /\ Caller(c, "nothing")
  /\ UNCHANGED <<memory, introduced, request, shown, set, doneBefore, restarts,
                 outdated>>

----------------------------------------------------------------------------
(* The node: its handlers, and the connections it serves them on.          *)

\* Storing only what is not there yet.
StoreOnce(c) ==
  /\ c \in Setters /\ request[c] = "sent"
  /\ memory' = IF memory = NoValue THEN c ELSE memory
  /\ Request(c, "served")
  /\ UNCHANGED <<introduced, caller, shown, set, doneBefore, restarts, outdated>>

OnMemorySet(c) ==
  /\ c \in Setters /\ request[c] = "sent"
  /\ memory' = c
  /\ Request(c, "served")
  /\ UNCHANGED <<introduced, caller, shown, set, doneBefore, restarts, outdated>>

OnMemoryGet(c) ==
  /\ c \in Getters /\ request[c] = "sent"
  /\ shown' = [shown EXCEPT ![c] = memory]
  /\ Request(c, "served")
  /\ UNCHANGED <<memory, introduced, caller, set, doneBefore, restarts, outdated>>

\* The connection of a caller that has given up breaks before it is read.
NeverRead(c) ==
  /\ request[c] = "sent" /\ caller[c] = "nothing"
  /\ Request(c, "lost")
  /\ UNCHANGED <<memory, introduced, caller, shown, set, doneBefore, restarts,
                 outdated>>

\* memory_set().
SetLocally(w) ==
  /\ w \in Locals /\ caller[w] = "idle"
  /\ Caller(w, "answered")
  /\ memory' = w
  /\ set' = set \cup {w}
  /\ doneBefore' = [doneBefore EXCEPT ![w] = set]
  /\ UNCHANGED <<introduced, request, shown, restarts, outdated>>

\* The node ends and another takes its address: the memory is gone, and the
\* requests that were not served; an answer may still be on its way.
NodeRestarts ==
  /\ restarts < MaxRestarts /\ restarts' = restarts + 1
  /\ memory' = NoValue /\ set' = {}
  /\ request' = [c \in MemoryCalls |->
                   CASE request[c] = "sent"   -> "lost"
                     [] request[c] = "served" -> "served before"
                     [] OTHER                 -> request[c]]
  /\ outdated' = [g \in Getters |-> outdated[g] \ {NoValue}]
  /\ UNCHANGED <<introduced, caller, shown, doneBefore>>

MemoryNext ==
  \/ AnnounceTo \/ OnAnnounce \/ NodeRestarts
  \/ \E w \in Locals : SetLocally(w)
  \/ \E c \in MemoryCalls :
       \/ PeerUnknown(c) \/ BeginSet(c) \/ BeginGet(c) \/ CannotConnect(c)
       \/ Send(c) \/ Receive(c) \/ TimesOut(c)
       \/ OnMemorySet(c) \/ OnMemoryGet(c) \/ NeverRead(c)

MemorySpec == MemoryInit /\ [][MemoryNext]_memoryVars

----------------------------------------------------------------------------
\* A caller is never shown a value that had been replaced before it asked: if
\* setting v was done before setting w was begun, and that was done before the
\* get, v has gone for good, whoever set them, though requests without an
\* answer are served at any later time; and once something was set the key is
\* not found empty, until the node restarts (_on_memory_set, _on_memory_get).
NoOldValue ==
  \A g \in Getters : caller[g] = "answered" => shown[g] \notin outdated[g]
=============================================================================
