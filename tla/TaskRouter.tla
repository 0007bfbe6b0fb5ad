------------------------------ MODULE TaskRouter ------------------------------
(***************************************************************************)
(* TaskRouter (compute/router.py): calls of route() over a node registry   *)
(* and a relay registry that change while the calls run.  A call has one   *)
(* leg per target.  With the strategy RELAY the leg goes to a relay inside *)
(* a FORWARD envelope and falls back to the node itself when no relay is   *)
(* healthy, when the relay cannot be reached, and when it stays silent.    *)
(* Relay and agent go on with a message whose sender has given up.  All    *)
(* agents have the capability the calls ask for.  A message that does not  *)
(* fit the send buffer has to be read before drain(), and at the end       *)
(* wait_closed(), return: no timeout covers either.                        *)
(***************************************************************************)
EXTENDS Naturals, Sequences, FiniteSets, Functions, Filtering

CONSTANTS Calls, Agents, Relays, TaskOf,
          FirstNodes,   \* the registry at the start: lists in the dict's order
          FirstHealthy, \* the healthy relays at the start
          RelayOrder,   \* the relay registry, in the order of its dict
          MaxChanges,   \* how often the registry of nodes may change
          MaxFlips,     \* how often the health of a relay may change
          Large,        \* calls whose task may not fit a connection's send buffer
          NoRelay

ASSUME RouterAssumption ==
  /\ FirstHealthy \subseteq SUBSET Relays
  \* The entries of a dict have different keys.
  /\ FirstNodes \subseteq Seq(Agents) /\ \A s \in FirstNodes : IsInjective(s)
  \* Relays are the ones in the registry.
  /\ RelayOrder \in Seq(Relays) /\ IsInjective(RelayOrder) /\ Range(RelayOrder) = Relays
  /\ NoRelay \notin Relays /\ Large \subseteq Calls
  /\ MaxChanges \in Nat /\ MaxFlips \in Nat

VARIABLES
  nodes,     \* NodeRegistry._records, as a sequence of node ids
  healthy,   \* the relays whose record is healthy
  nextNode,  \* _rr_counters[capability]
  nextRelay, \* RelayRegistry._rr_index
  changes, flips,
  leg,       \* where the dispatch of a call to an agent stands
  via,       \* the relay a leg has picked
  silent,    \* the calls that waited for a relay in vain
  unread,    \* the calls whose FORWARD is not read as a whole, though the leg went on
  envelope,  \* the FORWARD of a call at its relay
  delivery,  \* the task at the agent, by the path it came
  cached,    \* the relays' response caches
  nodePicks, relayPicks  \* selections since the list last changed

registries == <<nodes, healthy, changes, flips>>
picks      == <<nextNode, nextRelay, nodePicks, relayPicks>>
inFlight   == <<unread, envelope, delivery, cached>>
vars == <<registries, picks, leg, via, silent, inFlight>>

Paths == {"relay", "direct"}
Ended == {"idle", "answer", "error", "nothing"}
NoPicks(S) == [x \in S |-> 0]

Init ==
  /\ nodes \in FirstNodes /\ healthy \in FirstHealthy
  /\ nextNode = 0 /\ nextRelay = 0 /\ changes = 0 /\ flips = 0
  /\ leg = [c \in Calls |-> [a \in Agents |-> "new"]]
  /\ via = [c \in Calls |-> NoRelay]
  /\ silent = {} /\ unread = {}
  /\ envelope = [c \in Calls |-> "none"]
  /\ delivery = [c \in Calls |-> [a \in Agents |-> [p \in Paths |-> "none"]]]
  /\ cached = {}
  /\ nodePicks = NoPicks(Agents) /\ relayPicks = NoPicks(Relays)

----------------------------------------------------------------------------
(* The registries.  Changes that no call will read any more are left out.  *)

NodesRead   == \E c \in Calls : \A a \in Agents : leg[c][a] = "new"
HealthRead == \E c \in Calls, a \in Agents : leg[c][a] \in {"new", "pick"}

\* A new record goes to the end of the dict; a known one keeps its place, and
\* its id and capabilities are all that is modelled.
Register(a) ==
  /\ NodesRead /\ changes < MaxChanges /\ changes' = changes + 1
  /\ a \notin Range(nodes)
  /\ nodes' = Append(nodes, a)
  /\ nodePicks' = NoPicks(Agents)
  /\ UNCHANGED <<healthy, flips, nextNode, nextRelay, relayPicks, leg, via,
                 silent, inFlight>>

Deregister(a) ==
  /\ NodesRead /\ changes < MaxChanges /\ changes' = changes + 1
  /\ a \in Range(nodes)
  /\ nodes' = Filtered(nodes, Agents \ {a})
  /\ nodePicks' = NoPicks(Agents)
  /\ UNCHANGED <<healthy, flips, nextNode, nextRelay, relayPicks, leg, via,
                 silent, inFlight>>

\* mark_healthy and mark_unhealthy, which the heartbeat loops call.
MarkHealth(k) ==
  /\ HealthRead /\ flips < MaxFlips /\ flips' = flips + 1
  /\ healthy' = IF k \in healthy THEN healthy \ {k} ELSE healthy \cup {k}
  /\ relayPicks' = NoPicks(Relays)
  /\ UNCHANGED <<nodes, changes, nextNode, nextRelay, nodePicks, leg, via,
                 silent, inFlight>>

HealthyInOrder == Filtered(RelayOrder, healthy)

----------------------------------------------------------------------------
(* route().  The candidates are read and the targets chosen in one step;   *)
(* the legs run later, as tasks of gather().                               *)

At(c, a, where) == leg' = [leg EXCEPT ![c][a] = where]

\* The legs of the targets start at first.
Start(c, targets, first) ==
  leg' = [leg EXCEPT ![c] = [a \in Agents |->
                               IF a \in targets THEN first ELSE "idle"]]

\* BROADCAST: every candidate.
Broadcast(c) == Start(c, Range(nodes), "connect") /\ UNCHANGED picks

\* FIRST and RELAY: the first candidate.
First(c)   == Start(c, {nodes[1]}, "connect") /\ UNCHANGED picks
ByRelay(c) == Start(c, {nodes[1]}, "pick") /\ UNCHANGED picks

\* Storing the index that was used instead of the next one.
RoundRobinStuck(c) ==
  LET i == nextNode % Len(nodes) IN
  /\ Start(c, {nodes[i + 1]}, "connect")
  /\ nextNode' = i
  /\ nodePicks' = [nodePicks EXCEPT ![nodes[i + 1]] = @ + 1]
  /\ UNCHANGED <<nextRelay, relayPicks>>

RoundRobin(c) ==
  LET i == nextNode % Len(nodes) IN
  /\ Start(c, {nodes[i + 1]}, "connect")
  /\ nextNode' = i + 1
  /\ nodePicks' = [nodePicks EXCEPT ![nodes[i + 1]] = @ + 1]
  /\ UNCHANGED <<nextRelay, relayPicks>>

SelectTargets(c) == Broadcast(c) \/ First(c) \/ ByRelay(c) \/ RoundRobin(c)

IsNew(c) == \A a \in Agents : leg[c][a] = "new"

Route(c) ==
  /\ IsNew(c) /\ nodes # << >>
  /\ SelectTargets(c)
  /\ UNCHANGED <<registries, via, silent, inFlight>>

RouteToNobody(c) ==
  /\ IsNew(c) /\ nodes = << >>
  /\ Start(c, {}, "idle")
  /\ UNCHANGED <<registries, picks, via, silent, inFlight>>

\* gather() has the outcome of every leg, and the connection to the relay, which is
\* closed when the dispatch to the node has returned, is closed.
Returned(c) == c \notin unread /\ \A a \in Agents : leg[c][a] \in Ended

----------------------------------------------------------------------------
(* _dispatch_via_relay().                                                  *)

PickRelay(c, a) ==
  /\ leg[c][a] = "pick"
  /\ healthy # {}
  /\ LET k == HealthyInOrder[(nextRelay % Len(HealthyInOrder)) + 1] IN
       /\ via' = [via EXCEPT ![c] = k]
       /\ relayPicks' = [relayPicks EXCEPT ![k] = @ + 1]
  /\ nextRelay' = nextRelay + 1
  /\ At(c, a, "dial")
  /\ UNCHANGED <<registries, nextNode, nodePicks, silent, inFlight>>

\* No healthy relay: directly to the node.
PickNoRelay(c, a) ==
  /\ leg[c][a] = "pick" /\ healthy = {}
  /\ At(c, a, "connect")
  /\ UNCHANGED <<registries, picks, via, silent, inFlight>>

Dial(c, a) ==
  /\ leg[c][a] = "dial"
  /\ At(c, a, "relayed")
  /\ envelope' = [envelope EXCEPT ![c] = "received"]
  /\ UNCHANGED <<registries, picks, via, silent, unread, delivery, cached>>

\* The envelope does not fit the send buffer: drain() waits.
DialFull(c, a) ==
  /\ leg[c][a] = "dial" /\ c \in Large
  /\ At(c, a, "relayDraining")
  /\ UNCHANGED <<registries, picks, via, silent, inFlight>>

\* The relay reads the rest of it.
RelayReads(c, a) ==
  /\ leg[c][a] \in {"relayDraining", "relayWaiting"}
  /\ At(c, a, "relayed")
  /\ envelope' = [envelope EXCEPT ![c] = "received"]
  /\ UNCHANGED <<registries, picks, via, silent, unread, delivery, cached>>

\* drain() returns with a rest in the buffer, and the timeout begins.
DrainReturns(c, a) ==
  /\ \/ leg[c][a] = "relayDraining" /\ At(c, a, "relayWaiting")
     \/ leg[c][a] = "nodeDraining" /\ At(c, a, "nodeWaiting")
  /\ UNCHANGED <<registries, picks, via, silent, inFlight>>

\* The dispatch to the node comes before the finally clause, which closes the
\* relay's connection.
RelayTimesOut(c, a) ==
  /\ leg[c][a] = "relayWaiting"
  /\ At(c, a, "connect")
  /\ silent' = silent \cup {c} /\ unread' = unread \cup {c}
  /\ UNCHANGED <<registries, picks, via, envelope, delivery, cached>>

\* The relay reads the rest after all, or the connection is gone.
RelayReleases(c) ==
  /\ c \in unread
  /\ unread' = unread \ {c}
  /\ envelope' = [envelope EXCEPT ![c] = "received"] \/ UNCHANGED envelope
  /\ UNCHANGED <<registries, picks, leg, via, silent, delivery, cached>>

DialFails(c, a) ==
  /\ leg[c][a] = "dial"
  /\ At(c, a, "connect")
  /\ UNCHANGED <<registries, picks, via, silent, inFlight>>

\* Falling back to the node when the relay reports an error.
RelayAnswersRetrying(c, a) ==
  /\ leg[c][a] = "relayed" /\ envelope[c] \in {"answer", "error"}
  /\ At(c, a, IF envelope[c] = "error" THEN "connect" ELSE "answer")
  /\ UNCHANGED <<registries, picks, via, silent, inFlight>>

\* The relay's answer is unwrapped; an error of the relay is the result.
RelayAnswers(c, a) ==
  /\ leg[c][a] = "relayed" /\ envelope[c] \in {"answer", "error"}
  /\ At(c, a, envelope[c])
  /\ UNCHANGED <<registries, picks, via, silent, inFlight>>

\* Reading the relay's answer without a timeout.
RelaySilentAtEnd(c, a) ==
  /\ leg[c][a] = "relayed" /\ envelope[c] = "gone"
  /\ At(c, a, "connect")
  /\ silent' = silent \cup {c}
  /\ UNCHANGED <<registries, picks, via, inFlight>>

\* A timeout with nothing left in the buffer, or the end of the connection.
RelaySilent(c, a) ==
  /\ leg[c][a] \in {"relayed", "relayWaiting"}
  /\ At(c, a, "connect")
  /\ silent' = silent \cup {c}
  /\ UNCHANGED <<registries, picks, via, inFlight>>

\* A reset is no timeout: it leaves the leg without a fallback, and gather()
\* drops it.
RelayResets(c, a) ==
  /\ leg[c][a] \in {"relayDraining", "relayWaiting", "relayed"}
  /\ At(c, a, "nothing")
  /\ UNCHANGED <<registries, picks, via, silent, inFlight>>

----------------------------------------------------------------------------
(* _dispatch().                                                            *)

Connect(c, a) ==
  /\ leg[c][a] = "connect"
  /\ At(c, a, "asked")
  /\ delivery' = [delivery EXCEPT ![c][a]["direct"] = "sent"]
  /\ UNCHANGED <<registries, picks, via, silent, unread, envelope, cached>>

ConnectFull(c, a) ==
  /\ leg[c][a] = "connect" /\ c \in Large
  /\ At(c, a, "nodeDraining")
  /\ UNCHANGED <<registries, picks, via, silent, inFlight>>

NodeReads(c, a) ==
  /\ leg[c][a] \in {"nodeDraining", "nodeWaiting"}
  /\ At(c, a, "asked")
  /\ delivery' = [delivery EXCEPT ![c][a]["direct"] = "sent"]
  /\ UNCHANGED <<registries, picks, via, silent, unread, envelope, cached>>

\* No answer in time: wait_closed() waits for the rest to be read.
NodeTimesOut(c, a) ==
  /\ leg[c][a] = "nodeWaiting"
  /\ At(c, a, "nodeClosing")
  /\ UNCHANGED <<registries, picks, via, silent, inFlight>>

\* The node reads the rest, or the connection is gone.
NodeReleases(c, a) ==
  /\ leg[c][a] = "nodeClosing"
  /\ At(c, a, "nothing")
  /\ \/ delivery' = [delivery EXCEPT ![c][a]["direct"] = "sent"]
     \/ UNCHANGED delivery
  /\ UNCHANGED <<registries, picks, via, silent, unread, envelope, cached>>

NodeResets(c, a) ==
  /\ leg[c][a] \in {"nodeDraining", "nodeWaiting"}
  /\ At(c, a, "nothing")
  /\ UNCHANGED <<registries, picks, via, silent, inFlight>>

ConnectFails(c, a) ==
  /\ leg[c][a] = "connect"
  /\ At(c, a, "nothing")
  /\ UNCHANGED <<registries, picks, via, silent, inFlight>>

\* The node runs the task and its answer arrives.
NodeAnswers(c, a) ==
  /\ leg[c][a] = "asked"
  /\ At(c, a, "answer")
  /\ delivery' = [delivery EXCEPT ![c][a]["direct"] = "ran"]
  /\ UNCHANGED <<registries, picks, via, silent, unread, envelope, cached>>

\* A timeout, the end of the connection, or a reset.  The node may still run
\* the task, which nobody will see.
NodeSilent(c, a) ==
  /\ leg[c][a] = "asked"
  /\ At(c, a, "nothing")
  /\ UNCHANGED <<registries, picks, via, silent, inFlight>>

----------------------------------------------------------------------------
(* The relay's _handle_forward(), and the agent's TASK handler.  What a    *)
(* relay does with an envelope does not depend on the router's waiting.    *)

Reply(c, how) == envelope' = [envelope EXCEPT ![c] = how]
CacheKey(c, a) == <<via[c], TaskOf[c], a>>
IsTarget(c, a) == leg[c][a] \notin {"new", "idle"}

\* A cache key without the target's address.
RelayHitAnyTarget(c, a) ==
  /\ envelope[c] = "received" /\ IsTarget(c, a)
  /\ \E b \in Agents : CacheKey(c, b) \in cached
  /\ Reply(c, "answer")
  /\ UNCHANGED <<registries, picks, leg, via, silent, unread, delivery, cached>>

RelayHit(c, a) ==
  /\ envelope[c] = "received" /\ IsTarget(c, a)
  /\ CacheKey(c, a) \in cached
  /\ Reply(c, "answer")
  /\ UNCHANGED <<registries, picks, leg, via, silent, unread, delivery, cached>>

RelayDelivers(c, a) ==
  /\ envelope[c] = "received" /\ IsTarget(c, a)
  /\ CacheKey(c, a) \notin cached
  /\ Reply(c, "sent")
  /\ delivery' = [delivery EXCEPT ![c][a]["relay"] = "sent"]
  /\ UNCHANGED <<registries, picks, leg, via, silent, unread, cached>>

RelayRelays(c, a) ==
  /\ envelope[c] = "sent" /\ delivery[c][a]["relay"] = "ran"
  /\ Reply(c, "answer")
  /\ cached' = cached \cup {CacheKey(c, a)}
  /\ UNCHANGED <<registries, picks, leg, via, silent, unread, delivery>>

\* The agent cannot be reached, or is silent.
RelayGivesUp(c) ==
  /\ envelope[c] \in {"received", "sent"}
  /\ Reply(c, "error")
  /\ UNCHANGED <<registries, picks, leg, via, silent, unread, delivery, cached>>

\* The relay ends, or its handler raises: no reply.
RelayFails(c) ==
  /\ envelope[c] \in {"received", "sent"}
  /\ Reply(c, "gone")
  /\ UNCHANGED <<registries, picks, leg, via, silent, unread, delivery, cached>>

\* AgentNode.on_task answers whatever becomes of the task.
Execute(c, a) ==
  /\ delivery[c][a]["relay"] = "sent"
  /\ delivery' = [delivery EXCEPT ![c][a]["relay"] = "ran"]
  /\ UNCHANGED <<registries, picks, leg, via, silent, unread, envelope, cached>>

\* What the event loop and its timers bring about whatever the others do.
LegStep(c, a) ==
  \/ PickRelay(c, a) \/ PickNoRelay(c, a) \/ Dial(c, a) \/ DialFull(c, a) \/ DialFails(c, a)
  \/ RelayAnswers(c, a) \/ RelaySilent(c, a) \/ RelayTimesOut(c, a)
  \/ Connect(c, a) \/ ConnectFull(c, a) \/ ConnectFails(c, a)
  \/ NodeSilent(c, a) \/ NodeTimesOut(c, a)

\* What takes the other end of a connection.
PeerStep(c, a) ==
  \/ RelayReads(c, a) \/ NodeReads(c, a) \/ DrainReturns(c, a) \/ NodeReleases(c, a)
  \/ RelayResets(c, a) \/ NodeResets(c, a) \/ NodeAnswers(c, a)

CallStep(c) ==
  \/ Route(c) \/ RouteToNobody(c)
  \/ RelayReleases(c) \/ RelayGivesUp(c) \/ RelayFails(c)
  \/ \E a \in Agents :
       \/ LegStep(c, a) \/ PeerStep(c, a)
       \/ RelayHit(c, a) \/ RelayDelivers(c, a) \/ RelayRelays(c, a)
       \/ Execute(c, a)

Next ==
  \/ \E c \in Calls : CallStep(c)
  \/ \E a \in Agents : Register(a) \/ Deregister(a)
  \/ \E k \in Relays : MarkHealth(k)

\* The event loop runs every leg, and a wait for a connection or an answer has a
\* timeout.  Nothing is assumed of relays and nodes.
Fairness == \A c \in Calls, a \in Agents : WF_vars(LegStep(c, a))

Spec == Init /\ [][Next]_vars /\ Fairness

----------------------------------------------------------------------------
\* A task is delivered twice to a node, through the relay and directly, only
\* when the relay did not answer in time: an error it reports is final
\* (_dispatch_via_relay).
TwiceOnlyAfterSilence ==
  \A c \in Calls, a \in Agents :
    /\ delivery[c][a]["relay"] # "none"
    /\ delivery[c][a]["direct"] # "none"
    => c \in silent

\* A result that is a node's answer comes from a run on that node of this
\* call, or of one with the same task that the same relay forwarded there.
AnswerFromRun ==
  \A c \in Calls, a \in Agents :
    leg[c][a] = "answer" =>
      \/ \E p \in Paths : delivery[c][a][p] = "ran"
      \/ \E d \in Calls : /\ via[d] = via[c] /\ TaskOf[d] = TaskOf[c]
                          /\ delivery[d][a]["relay"] = "ran"

\* Over any stretch in which the list does not change, whatever the index was
\* before, round robin picks no entry twice more often than another
\* (_select_targets, pick_round_robin).
EvenSpread ==
  /\ \A a, b \in Range(nodes) : nodePicks[a] <= nodePicks[b] + 1
  /\ \A k, l \in healthy : relayPicks[k] <= relayPicks[l] + 1

\* A leg waits in drain() or wait_closed() for a relay or node that does not read.
HeldUp(c) ==
  c \in unread \/ \E a \in Agents : leg[c][a] \in {"relayDraining", "nodeDraining", "nodeClosing"}

\* A call that was started returns, whatever relays and nodes do and through
\* every fallback (route), unless from some time on a leg of it is held up by a
\* relay or node that never reads: drain() and wait_closed() have no timeout.
RouteReturns ==
  \A c \in Calls : [](~IsNew(c) => <>(Returned(c) \/ []HeldUp(c)))
=============================================================================
