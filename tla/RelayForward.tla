---------------------------- MODULE RelayForward ----------------------------
(***************************************************************************)
(* A relay (RelayNode) that proxies FORWARD messages to one agent node, and *)
(* its response cache.  Each FORWARD is handled by a task of its own; the   *)
(* actions are the code between its awaits.                                 *)
(*                                                                          *)
(* The agent keeps one memory cell: a forwarded operation is Read           *)
(* (MEMORY_GET) or the value to store (MEMORY_SET).  The cache key is the   *)
(* digest of target, intent and payload, which for one agent and one cell   *)
(* is the operation; message ids and senders are not part of it.            *)
(***************************************************************************)
EXTENDS Naturals, Sequences, SequencesExt

CONSTANTS
  Forwards,       \* FORWARD messages the relay receives
  Values,         \* values written to the agent's memory
  Read, NoValue, NoForward,
  OpOf,           \* OpOf[f]: the operation f carries
  Ttl,            \* Ttl[f]: its ttl when it reaches the relay
  EnableCache,    \* RelayNode(enable_cache)
  MaxCache,       \* _MAX_CACHE_SIZE
  Large,          \* forwards that may not fit the send buffer of a connection
  Resets          \* whether the agent's connection may be reset

ASSUME RelayForwardAssumption ==
  /\ Read \notin Values /\ NoValue \notin Values /\ NoForward \notin Forwards
  /\ OpOf \in [Forwards -> Values \cup {Read}]
  /\ Ttl \in [Forwards -> Nat]
  /\ Large \subseteq Forwards
  /\ EnableCache \in BOOLEAN /\ Resets \in BOOLEAN
  /\ MaxCache \in Nat \ {0}

VARIABLES
  phase,      \* phase[f]: where the task of f stands
  cache,      \* RelayNode._cache, oldest put first
  ledger,     \* ledger[f]: "success" or "failure" once RELAY_FORWARD is recorded
  answer,     \* answer[f]: the forward whose execution f's reply comes from
  memory,     \* the agent's memory cell
  executed,   \* executed[f]: how often the agent ran f (history)
  old         \* forwards answered before the last cache_invalidate() (history)

forwardVars == <<phase, cache, ledger, answer, memory, executed, old>>

ForwardInit ==
  /\ phase = [f \in Forwards |-> "idle"]
  /\ cache = <<>>
  /\ ledger = [f \in Forwards |-> "none"]
  /\ answer = [f \in Forwards |-> NoForward]
  /\ memory = NoValue
  /\ executed = [f \in Forwards |-> 0]
  /\ old = {}

Moves(f, to) == phase' = [phase EXCEPT ![f] = to]

Records(f, outcome) == ledger' = [ledger EXCEPT ![f] = outcome]

----------------------------------------------------------------------------
(* The response cache.                                                     *)

\* A key that leaves the payload out.
IntentKey(f) == IF OpOf[f] = Read THEN "get" ELSE "set"

CacheKey(f) == OpOf[f]

Entry(f) == [key |-> CacheKey(f), from |-> f]

Cached(f) == EnableCache /\ \E i \in 1..Len(cache) : cache[i].key = CacheKey(f)

Hit(f) == cache[CHOOSE i \in 1..Len(cache) : cache[i].key = CacheKey(f)]

\* A key is in the cache once at most.
WithoutKey(q, f) ==
  LET same == {i \in DOMAIN q : q[i].key = CacheKey(f)}
  IN IF same = {} THEN q ELSE RemoveAt(q, CHOOSE i \in same : TRUE)

\* A put that evicts only once the cache has overflowed.
CachePutLate(f) ==
  LET kept == IF Len(cache) > MaxCache THEN Tail(cache) ELSE cache
  IN Append(WithoutKey(kept, f), Entry(f))

\* A full cache evicts its oldest entry, the key's own one included.
CachePut(f) ==
  LET kept == IF Len(cache) >= MaxCache THEN Tail(cache) ELSE cache
  IN Append(WithoutKey(kept, f), Entry(f))

----------------------------------------------------------------------------
(* RelayNode._handle_forward and _forward_to.                              *)

\* "TTL exhausted": an error reply and nothing else.  A FORWARD without a target
\* or with no valid inner message is answered in the same way.
Drop(f) ==
  /\ phase[f] = "idle" /\ Ttl[f] = 0
  /\ Moves(f, "dropped")
  /\ UNCHANGED <<cache, ledger, answer, memory, executed, old>>

AnswerFromCache(f) ==
  /\ phase[f] = "idle" /\ Ttl[f] > 0 /\ Cached(f)
  /\ Moves(f, "hit")
  /\ answer' = [answer EXCEPT ![f] = Hit(f).from]
  /\ UNCHANGED <<cache, ledger, memory, executed, old>>

Forward(f) ==
  /\ phase[f] = "idle" /\ Ttl[f] > 0 /\ ~Cached(f)
  /\ Moves(f, "connecting")
  /\ UNCHANGED <<cache, ledger, answer, memory, executed, old>>

\* The message is handed to the network as a whole, or drain() waits for the
\* agent to read.
Connected(f) ==
  /\ phase[f] = "connecting"
  /\ Moves(f, "sent") \/ (f \in Large /\ Moves(f, "draining"))
  /\ UNCHANGED <<cache, ledger, answer, memory, executed, old>>

\* The agent has read enough for the rest to be handed to the network.
AgentReads(f) ==
  /\ phase[f] \in {"draining", "waiting"}
  /\ Moves(f, "sent")
  /\ UNCHANGED <<cache, ledger, answer, memory, executed, old>>

\* drain() returns while part of the message is still in the writer's buffer,
\* and the timeout of the response begins.
DrainReturns(f) ==
  /\ phase[f] = "draining"
  /\ Moves(f, "waiting")
  /\ UNCHANGED <<cache, ledger, answer, memory, executed, old>>

\* No answer in time: wait_closed() waits for that part to be read.
GiveUp(f) ==
  /\ phase[f] = "waiting"
  /\ Moves(f, "failing")
  /\ UNCHANGED <<cache, ledger, answer, memory, executed, old>>

\* The part was read, or the connection is gone.
ClosedAtLast(f) ==
  /\ phase[f] = "failing"
  /\ Moves(f, "failed")
  /\ Records(f, "failure")
  /\ UNCHANGED <<cache, answer, memory, executed, old>>

\* A response to any forward taken for the response to this one.
ResponseOfAny(f) ==
  /\ phase[f] = "sent" /\ \E g \in Forwards : executed[g] > 0
  /\ Moves(f, "closing")
  /\ UNCHANGED <<cache, ledger, answer, memory, executed, old>>

\* The response has arrived; the task waits for its connection to close.
ResponseArrives(f) ==
  /\ phase[f] = "sent" /\ executed[f] > 0
  /\ Moves(f, "closing")
  /\ UNCHANGED <<cache, ledger, answer, memory, executed, old>>

\* The response is recorded, cached and passed on.
Answer(f) ==
  /\ phase[f] = "closing"
  /\ Moves(f, "answered")
  /\ Records(f, "success")
  /\ cache' = IF EnableCache THEN CachePut(f) ELSE cache
  /\ answer' = [answer EXCEPT ![f] = f]
  /\ UNCHANGED <<memory, executed, old>>

\* A relay that sends its message again after a timeout.
FailRetries(f) ==
  /\ phase[f] = "sent"
  /\ Moves(f, "connecting")
  /\ UNCHANGED <<cache, ledger, answer, memory, executed, old>>

\* The connection is refused or takes too long: nothing was sent.
Unreachable(f) ==
  /\ phase[f] = "connecting"
  /\ Moves(f, "unreachable")
  /\ Records(f, "failure")
  /\ UNCHANGED <<cache, answer, memory, executed, old>>

\* No answer in time, or the agent closed the connection.  With nothing left in
\* the writer's buffer wait_closed() returns.
Fail(f) ==
  /\ phase[f] = "sent"
  /\ Moves(f, "failed")
  /\ Records(f, "failure")
  /\ UNCHANGED <<cache, answer, memory, executed, old>>

\* A ConnectionResetError leaves the handler: no entry, no reply.
Reset(f) ==
  /\ Resets /\ phase[f] \in {"sent", "draining", "waiting"}
  /\ Moves(f, "lost")
  /\ UNCHANGED <<cache, ledger, answer, memory, executed, old>>

\* An invalidation that drops the oldest entry only.
CacheInvalidateOldest ==
  /\ cache # <<>>
  /\ cache' = Tail(cache)
  /\ old' = {f \in Forwards : phase[f] = "answered"}
  /\ UNCHANGED <<phase, ledger, answer, memory, executed>>

CacheInvalidate ==
  /\ cache # <<>>
  /\ cache' = <<>>
  /\ old' = {f \in Forwards : phase[f] = "answered"}
  /\ UNCHANGED <<phase, ledger, answer, memory, executed>>

----------------------------------------------------------------------------
(* The agent node.                                                         *)

\* The message was sent, so it may be run even after the relay gave up.
Execute(f) ==
  /\ phase[f] \in {"sent", "failed", "lost"} /\ executed[f] = 0
  /\ executed' = [executed EXCEPT ![f] = 1]
  /\ memory' = IF OpOf[f] = Read THEN memory ELSE OpOf[f]
  /\ UNCHANGED <<phase, cache, ledger, answer, old>>

----------------------------------------------------------------------------
ForwardStep(f) ==
  \/ Connected(f) \/ Unreachable(f) \/ ResponseArrives(f) \/ Answer(f) \/ Fail(f) \/ GiveUp(f)

\* What depends on the agent's end of the connection: no timeout covers it.
PeerStep(f) == AgentReads(f) \/ DrainReturns(f) \/ ClosedAtLast(f) \/ Reset(f)

ForwardNext ==
  \/ \E f \in Forwards :
       \/ Drop(f) \/ AnswerFromCache(f) \/ Forward(f)
       \/ ForwardStep(f) \/ PeerStep(f) \/ Execute(f)
  \/ CacheInvalidate

\* The relay's loop runs its tasks and its timers fire.  Nothing is assumed of the
\* agent, which may stop reading for ever.
ForwardFairness == \A f \in Forwards : WF_forwardVars(ForwardStep(f))

ForwardSpec == ForwardInit /\ [][ForwardNext]_forwardVars /\ ForwardFairness

----------------------------------------------------------------------------
(* Properties.                                                             *)

InRelay == {"connecting", "draining", "waiting", "sent", "closing", "failing"}

\* The task waits in drain() or wait_closed() for an agent that does not read.
HeldUp(f) == phase[f] \in {"draining", "failing"}

\* The cache never outgrows its bound and never holds two answers for one
\* key, though any number of misses fill it at the same time.
CacheBounded ==
  /\ Len(cache) <= MaxCache
  /\ \A i, j \in 1..Len(cache) : cache[i].key = cache[j].key => i = j

\* Whoever is answered, from the cache or not, gets what the agent returned
\* for the same operation.
AnswerMatches ==
  \A f \in Forwards : phase[f] \in {"answered", "hit"} =>
    answer[f] \in Forwards /\ OpOf[answer[f]] = OpOf[f] /\ executed[answer[f]] = 1

\* cache_invalidate() forgets every answer given before it: no later request
\* is served one, unless a request in flight puts its answer back.
ForgottenStaysForgotten ==
  [][\A f \in Forwards : phase[f] = "idle" /\ phase'[f] = "hit" => answer'[f] \notin old]_forwardVars

\* "FORWARD (direct proxy)": a write the relay answers for was delivered.
WritesDelivered ==
  \A f \in Forwards : phase[f] \in {"answered", "hit"} /\ OpOf[f] # Read => executed[f] = 1

\* Whatever the agent ran is recorded in the ledger, if only as a failure,
\* unless its connection was reset: what it ran it has read, so that neither
\* drain() nor wait_closed() can keep the handler from its entry.
ExecutionsRecorded ==
  \A f \in Forwards : executed[f] = 1 ~> ledger[f] # "none" \/ phase[f] = "lost"

\* A forward that is dropped or answered from the cache is never executed, as if
\* it was refused; the client of one that is lost gives up by its own timeout.
Service == INSTANCE RequestReply WITH
  Requests <- Forwards,
  status <- [f \in Forwards |->
    CASE phase[f] \in InRelay -> "open"
      [] phase[f] \in {"unreachable", "lost"} -> "failed"
      [] phase[f] \in {"dropped", "hit"} -> "refused"
      [] OTHER -> phase[f]]

\* The relay keeps the promise of RequestReply but for one thing: a forward that
\* was accepted ends unless its task waits for ever in drain() or wait_closed(),
\* which no timeout of _forward_to covers, for an agent that does not read.
KeepsPromise ==
  /\ Service!SafeSpec
  /\ \A f \in Forwards :
       [](phase[f] \in InRelay => <>(phase[f] \notin InRelay \/ []HeldUp(f)))
=============================================================================
