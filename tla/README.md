# Verification of AIM in TLA+

This directory holds TLA+ specifications of the AIM mesh (`src/aim`), the TLC
configurations that check them on small instances, and proofs checked by TLAPS.
Line numbers are those of the commit the project was written against;
`PROJECT.json` maps every definition to the lines it stands for.

## 1. The system

AIM is a set of asyncio programs that exchange length-prefixed JSON messages
(`AIMMessage`) over TCP. Every process runs one event loop; within a process,
code is only interrupted at an `await`. A few stores are also used from threads
and take an `RLock`.

| Component | State it keeps | Operations | Talks to |
|---|---|---|---|
| Gateway (`gateway/node.py`, `gateway/client.py`) | routing table, a channel per private node (pending futures, send lock, read loop), ledger; in the client the connection and two loops | register, forward, heartbeat, stop; connect, disconnect, dispatch | private nodes and public clients, by TCP |
| Node (`node/base.py`, `protocol/*`) | handler table, peers, server | send, announce, dispatch, start, stop | every other node |
| Agent (`node/agent.py`) | memory, rules, tasks | QUERY, TASK, MEMORY_SET, MEMORY_GET | called by gateway, relay, router and peers |
| Relay (`relay/node.py`, `relay/registry.py`) | response cache, content cache, route table, peer health; the shared registry | FORWARD, routed intents, ANNOUNCE, cache_invalidate, heartbeat loop, start, stop | agents, peer relays |
| Executor (`compute/executor.py`) | queue, semaphore, running flag, task table | submit, start, stop | functions registered with it |
| Task router (`compute/router.py`) | round-robin counters | route, with fallback from relay to direct | relays, agents, both registries |
| Command center (`command_center/*`) | connection, two loops, handlers | connect, disconnect, reconnect with back-off, status | a central server |
| Virtual cloud (`vcloud/*`) and node registry | resources; node records | create, allocate, release, suspend, destroy | threads of the web server and the brain |
| Ledger and content (`identity/ledger.py`, `content/*`) | a list and its append-only file; the layer's items | record, load; post, delete; publish, list | everything that keeps an audit trail |
| Names (`ans/*`, `dns/bridge.py`) | name records with a time to live | register, resolve, deregister | builder, bridge |
| AI brain (`ai/brain.py`) | sessions | query, clear | remote nodes, virtual cloud |
| Web (`web/server.py`) | two JSON files, rate-limit buckets | HTTP handlers | brain, content, virtual cloud |
| City (`city/*`) | the bots' tables, checksums, the launched tasks | tasks of the bots, verify, launch, shutdown | ledger, node registry |
| Builder engine (`builder/engine.py`) | files on disk | build_module, build_script, build_config, expand, list_modules | names |

What is hard about it:

* **Interleavings at awaits.** A handler reads a table, awaits, and acts on what
  it read: the cleanup of a gateway connection, the fill of a relay's cache, the
  verdict of a ping.
* **Connections.** A connection ends at its two ends at different times, by an
  end of file (seen as `None`) or by a reset (a `ConnectionResetError` that
  `_recv_message` and `send` let through). A write into a dead connection
  succeeds at first.
* **Back-pressure.** `drain()` waits for the peer, in the gateway under a lock.
* **Timeouts and late answers.** The caller gives up; the callee may still run.
* **Queues and limits.** The executor's queue, spawned tasks and semaphore; the
  full cache.
* **Restarts and second calls** of `start()`, `stop()` and `connect()`.
* **Crashes between two writes**, in the files of ledger, content, web and
  builder, and lines that were cut in the middle.
* **Threads.** Manager, registries, stores and guard take a lock for each of
  their own steps, and none across two of them.

What would make each component correct is listed with its module below;
`PROJECT.json` lists the hazards one by one, at the line where each bites.

## 2. The modules

| Module | What it is |
|---|---|
| `RequestReply` | abstract: what a server that passes requests on promises its clients |
| `Gateway` | gateway, private nodes' clients and the connections between them |
| `MCGateway` | instances of `Gateway` for TLC |
| `GatewayProofs` | theorems about `Gateway` |
| `BoundedPool` | abstract: what a task pool promises |
| `Executor` | the task executor |
| `ExecutorProofs` | theorems about `Executor` |
| `RelayForward` | a relay's FORWARD handler, its response cache and the agent behind it |
| `MCRelayForward` | the instance of `RelayForward` for TLC |
| `RelayHealth` | the relays' lifecycle, heartbeat loops and shared registry |
| `MCRelay` | `MCRelayForward` and `RelayHealth`, the two duties of a relay, for one run |
| `RelayProofs` | theorems about `RelayForward` and `RelayHealth` |
| `Filtering` | what a loop that skips some entries keeps of a list |
| `FilteringProofs` | lemmas about it |
| `TaskRouter`, `MCTaskRouter` | the task router over relays and agents, and its instance |
| `TaskRouterProofs` | theorems about `TaskRouter` |
| `CommandCenter` | the command center's client and the node that owns it |
| `CommandCenterProofs` | theorems about `CommandCenter` |
| `LineFile` | what a file of lines holds after whole and cut writes, and how it is loaded |
| `ContentLedger` | the content layer over the ledger and its file |
| `ContentStore` | the content store, its file, and the content node's listings |
| `VCloud` | the virtual cloud's manager with the registry of nodes |
| `Names` | names of the mesh: registry, resolver and DNS bridge |
| `Builder` | the builder engine's files |
| `WebBridge` | the web server's rate limit and JSON files |
| `BrainSessions` | the history of a session of the brain |
| `World` | the tables of the city's bots over registry and ledger |
| `IntegrityGuard` | snapshots and verifications by threads |
| `Launcher` | launch and shutdown of the city |
| `AgentMemory` | an agent's memory as its peers use it |
| `StoresProofs` | theorems about `ContentLedger`, `ContentStore`, `Names`, `Builder`, `WebBridge`, `BrainSessions` and `AgentMemory` |
| `CityProofs` | theorems about `VCloud`, `World`, `IntegrityGuard` and `Launcher` |
| `MCStores` | the instance for TLC of the ten modules from `ContentLedger` on, and of `LineFile` |

```
RequestReply <|-- Gateway --- MCGateway, GatewayProofs
RequestReply <|-- RelayForward --- MCRelayForward --+
                  RelayHealth ----------------------+-- MCRelay
                  RelayForward, RelayHealth --- RelayProofs
BoundedPool  <|-- Executor --- ExecutorProofs
Filtering --- TaskRouter, ContentStore, FilteringProofs
TaskRouter --- MCTaskRouter, TaskRouterProofs
CommandCenter --- CommandCenterProofs
LineFile --- ContentLedger, ContentStore --+  --- StoresProofs
Names, Builder, WebBridge, BrainSessions,  |  --- StoresProofs
AgentMemory,                               |  --- StoresProofs
VCloud,                                    |  --- CityProofs
World, IntegrityGuard, Launcher -----------+  --- CityProofs
                                           +-- MCStores
```

(`<|--`: is implemented by; `---`: is extended by.) `MCRelay` and `MCStores` put
components side by side that share no variable: `busy` says which of them a
behaviour exercises, and the rest stays as it began.

An action is the code between two awaits. Definitions named as variants
(`AnyWaiting`, `RegisterBeforeAck`, `EntersBarging`, ...) are mutated forms of
the definition that follows them: they are used by no specification, and each
shows that some property fails when the code is changed in that way.

### Gateway

One task per registered connection (`handler`), one read loop per channel
(`reader`), one task per client request (`phase`, `chanOf`, `fut`), and in each
private node a read loop (`client`, `job`) and a heartbeat loop. `routes` is
`GatewayNode._routes`, `pending[c]` the keys of `_NodeChannel._pending`. A
connection is used once: `wire` says whether it carries data, `gwEnd` and
`nodeEnd` what each end has learned. `up` and `down` hold what is in flight;
`Drop` keeps a prefix of it. A write at or below `HighWater` returns from
`drain()` at once; above it the writer waits, holding the send lock if it took
it (`LockFree`). An end that is closed reads no more; its transport closes the
socket once its buffer is flushed (`CloseAtGateway`, `GatewayFlushed`, and the same
for the node), and until then the writer that waits in `drain()` waits on. The end of
a node's process (`NodeEnds`) closes its socket at once. An `AnswerTo` carries the id of the message answered and, as a
history variable's worth of data, the request whose handling produced it.

Safety: answers are given to the request they belong to (`OwnAnswer`; for ids that
may repeat, `SameIdAnswer`, which is proved and not in a run), the ACK is the first message of a connection (`AckFirst`),
every route has a handler that will remove it (`RoutedIsServed`), and an answer that
is read while its request waits settles it (`AnswerReachesWaiter`). Liveness: dead
routes are removed unless the read loop raised (`DeadRouteForgotten`), and a
request is settled unless from some time on neither end of its connection ever takes
what the other has sent (`SettledUnlessStuck`). `KeepsPromise` is the refinement of `RequestReply`: at
most one execution per request, no answer without an execution, no execution of
a refused request, an end to every accepted one. A request that failed may still
be executed, since nothing calls the message back.

The exceptions in these properties are what the code does. A read loop that
raises (`RegistrationRaises`) leaves the dead route, and an entry "registered"
without its "disconnected", for ever: `_register_node` catches only
`CancelledError` at its await. And the timeout of `forward()` covers only the
wait for the answer: when both directions of a channel are full, the gateway's
read loop waits in `drain()`, the node's waits in its own, and a request that
waits for the send lock or in `drain()` outlasts every timeout. `stop()` does not
free it: `_NodeChannel.close()` cancels the read loop and closes the writer, which
neither wakes a `drain()` nor drops the connection while the buffer is full; nor does
`disconnect()` in the node, for the same reason. `StuckTogether` names these cases, and
nothing else keeps a request from its end.

`connect()` on a client that was not disconnected, and two nodes that use one
`node_id`, are not in the model.

### Executor

A task goes through three queues: `queue` (`asyncio.Queue`), `spawned` (asyncio
tasks that were created and have not run) and `line` (waiting for the
semaphore). Each `start()` makes a worker and a semaphore of its own, indexed by
the start; `_run_task` uses the semaphore of the latest. A function may end
well, with an exception, or cancelled, which leaves its item RUNNING.
`ImplementsPool` maps a task in any of the queues to "queued" and refines
`BoundedPool`, a pool that `start()` opens once more each time: no more tasks run at a
time than the starts so far made slots. A second `start()` makes a second semaphore
beside the tasks of the first, which `stop()` does not wait for, so
`max_concurrency`, "maximum number of tasks running simultaneously"
(`compute/executor.py:53`), bounds the running tasks only until then:
the code does not keep this for ever; `BoundedByOneStart` is what is left of it and is
proved. The order of submission is the order of beginning
(`BegunInOrder`) until a second start, too. `SlotsConserved` is about each semaphore by
itself: no slot is lost, and no more are held than there are.

`stop()` clears `_running` first, and the worker leaves its loop at the next test
of it: tasks still queued are not taken, `join()` times out after ten seconds
(`StopTimesOut`), and they stay pending, where `compute/executor.py:166` says
"Stop the executor after draining the queue". So `PendingBegun` promises a
beginning only as long as the executor runs.

### RelayForward

The tasks of concurrent FORWARD messages around the response cache. Because the
model has one agent with one memory cell, the cache key (target, intent,
payload) is the operation. The cache is a sequence in the order of the time of
the put, so the evicted entry is its head. The agent may run a message the relay
gave up on. `AnswerMatches` says that whoever is answered gets what the agent
returned for the same operation, `CacheBounded` and `ForgottenStaysForgotten`
concern eviction and invalidation, `ExecutionsRecorded` relates the agent and
the ledger, and `KeepsPromise` is the safety of `RequestReply` under a refinement
mapping, and the end of every accepted forward. For that refinement a
forward that is answered from the cache counts as refused: it has no execution
of its own. `WritesDelivered` shows where that hurts. An answer in flight during
`cache_invalidate()` is put back after it; `ForgottenStaysForgotten` is about the
answers given before.

The timeouts of `_forward_to` cover the connection and the response only. A message of
`Large` may not fit the send buffer: then `drain()` waits for the agent to read
(`draining`), may return with a rest in the buffer (`waiting`), and when no answer comes
in time `wait_closed()` waits for that rest to be read (`failing`). An agent that never
reads keeps the handler there for ever (`HeldUp`), the one exception of `KeepsPromise`.

### RelayHealth

`loop[r]` follows `_heartbeat_loop` and `_ping_relay`: the verdict of a ping
(`alive`) is fixed when the answer arrives and written to the shared registry in
a later step, when the peer may have changed. A relay starts, fails to bind,
stops, or ends without `stop()`. `PingResets` adds the exception that ends a loop,
`Slow` is the set of peers that may not answer in time. `DeadMarked` and
`LiveRestored` say what the registry converges to as long as another relay's
loop goes on; `DeadRoutedAround` asks only that another relay runs, which a
reset refutes. `OldResultsOnly` is the safety behind the first two: while a relay is
down, only an answer it gave before can set its record healthy, and while it is up
and answers in time, only a ping that found it down before can set it unhealthy,
each of them once. After a reset `stop()` raises the loop's exception before it
closes the server, so `StopRelay` is disabled for such a relay. One failed ping marks
a relay unhealthy (`Judge`), where `docs/MESH_ARCHITECTURE.md:302` speaks of
three.

### CommandCenter

Each connection that registers starts a heartbeat loop and a listener, so both
are numbered by the connection; `writer` and `latest` are the fields the loops
share. A lost connection is found by a failing heartbeat (`HeartFails`) or by
the listener (`ListenerEnds`, `BadFrame`), and whoever finds it reconnects: the
heartbeat loop then goes on beside the new one, the listener leaves. The model
has the windows in which another loop acts: in the back-off, in a `drain()` on
the connection that is being closed, in a command's handler, and between the
steps of `disconnect()`. `RegisterFails` is the connection that is reset before
REGISTER is out: `_connected` is set by then and no loop is made.

A frame that decodes to something that is no object, or whose intent cannot be hashed,
raises before the `try` of `_handle_remote_command` and ends the listener
(`ListenerRaises`), while the connection stays up: from then
on the node, which "accepts remote commands" (`USAGE.md:236`), takes none on it. `raised`
remembers the connection.

`Attended` says that a live current connection always has a heartbeat loop, and a
listener unless such a frame ended one on this connection, whichever loops came and went.
`LossNoticed` says that the client never
stays on a lost connection while one of its loops is alive; it may after
`RegisterFails`, when the reconnecting listener leaves and the old heartbeat loop
has stopped, and it may after such a frame, when the server ends the connection in order,
which a heartbeat does not meet. This is as far as "Reconnects automatically"
(`USAGE.md:238`) holds. `StopsQuietly` says that a node stopped while no reconnect is under way
stays disconnected, and `StopDisconnects`, without that condition, is refuted.

### TaskRouter

A call of `route()` has one leg per target: `BROADCAST` has all candidates, the
other strategies one. With `RELAY` a leg picks a relay by round robin, sends the
task in a FORWARD envelope (`envelope`), and falls back to the node itself when no
relay is healthy, when the relay cannot be reached, and when it stays silent. The
relay's handler goes on with an envelope whose sender gave up, and the agent with
a task whose relay did: `delivery` says by which path a task came and whether it
ran. Nodes register and deregister, and relays change their health, while calls
run, up to `MaxChanges` and `MaxFlips` times. `TwiceOnlyAfterSilence` is what the
fallbacks leave of at-most-once; `AnswerFromRun` relates an answer to an execution,
through the caches of the relays as well; `EvenSpread` compares how often each
entry was picked since the list last changed; `RouteReturns` is the liveness of
all three fallbacks. An agent has no handler for DELEGATE, and an error that a
relay reports is a result like any other.

A task of a call in `Large` may not fit the send buffer of a connection. Then, to the
relay as to the node, `drain()` waits until the peer reads, and `wait_closed()` at the
end of the connection waits for what is left in the buffer; neither has a timeout. The
relay's connection is closed in the `finally` clause around the fallback, so a call whose
fallback has long returned may still wait there (`unread`). `RouteReturns` excepts the
calls that such a wait holds up for ever (`HeldUp`), and no others.

### LineFile, ContentLedger and ContentStore

A file is a sequence of chunks, each a whole line or a piece of one whose write
was cut, by an error or by the end of the process; a line written after a cut one
shares its line. `LegacyLedger` stops loading at the first line it cannot read
(`LoadUpToBad`), `ContentStore` skips such lines (`LoadSkipping`).

In `ContentLedger` a call of `post()` or `delete()` changes the layer, appends to
the ledger and writes to the file in three steps under two locks and none.
`LedgerAgrees` relates layer and ledger, `FileAgrees` ledger and file as long as no
write failed: entries may be in another order, and the deletion of an item may
come before its post, but none is lost or doubled. After a cut line, what later
runs append is never loaded again.

In `ContentStore`, `OneLostPerFailure` bounds what cut writes cost, and
`ListingsComplete` is about reads that consist of several: a count and a list, and
page after page, while posts are published. (`count` and `posts` of one listing
may disagree: the count is the older.)

### VCloud

The manager's store and the registry of nodes are each guarded by a lock of their
own, so creation (`Stored`, `RegisterServer`) and removal (`Destroy`,
`DeregisterServer`) take two steps each, and removals begin with a lookup, which
is what makes two removers of one connection both answer that they removed it.
`RegistryAgrees` says that the two agree on a server whenever nothing is under way
for it. It leaves out what the code gets wrong: a server destroyed before its
creation registered it (`overtaken`) leaves a record that nobody removes, and
servers created with one `node_id` deregister each other. A server without a port is
never registered, but has a `node_id` too and is deregistered like the others
(`Servers`, of which `Bound` are those with a port).

### Names

`resolve()` reads a record, judges its age and removes an expired one by its name,
in three steps; `register_from_dns()` asks DNS first. `NamesKept` says that the
newest registration lasts for its time to live, unless a lookup that read the
record before it (`met`) removes it instead: `deregister` takes a name and does
not look at the record. While one thread asks DNS, the default timeout of all new
sockets of the process is set (`timeout`), and the first that has finished resets
it for all. The list of records and the web server's `/api/ans` do not look at
ages at all.

### Builder

One build at a time, one file per step. The order of the files is what makes
`BuiltWhole` true: `__init__.py`, by which `list_modules()` knows a module, comes
last. A file that fails is skipped and the rest is written, so a module with a
failed file is listed as well; those are left out as `spoilt`. `build_config()`
with data that JSON cannot express raises out of the engine and leaves a cut file
(`ConfigRaises`). `expand()` builds the record to register with port 0, which
`ANSRecord` refuses; the exception is dropped, so that no module is ever "immediately
discoverable inside the mesh" (`builder/engine.py:381`).

### WebBridge

The server is one event loop, and the handlers do not wait between load and save,
so a request is one step; what remains is the window of the rate limit
(`RateBounded`, at every instant and not only at requests; a bucket is modelled by
which of the process's admitted POSTs it holds the time of) and a save that is cut.
`write_text()` empties the file and then writes it, so what is left is one of two
things. A text cut between characters is not JSON: the next load finds no list, and the
next save makes that permanent (`Cut`). A text cut inside a character of several bytes
does not decode, since the files are not ASCII (`ensure_ascii=False`), and the loaders
do not catch that error (`Mangled`): from then on every GET and POST of the feed, or of
the directory, raises and is not answered (`PostUnread`), against the docstrings
(`web/server.py:217`, `:289`). `FeedIsLatest` says that nothing saved
since the last cut is missing, in which order it is shown, and that a file that cannot
be read has taken nothing since, so that no client was told of a post that is not
there. The content handlers called without `await` at `web/server.py:907` and
`:912` raise, so that a client of those paths gets no answer; `SaveFails` and
`PostElsewhere` have that outcome.

### BrainSessions

`query()` keeps the list it found across the wait for a remote node. When a query
that ended in between has replaced the session's list by its last forty turns,
the answer is appended to the old one and lost. `SessionKept` says that the
history is the end of the conversation as long as queries do not overlap, or as
long as there is nothing to cut, which is as far as "Keep last 40 turns per
session" (`ai/brain.py:160`) holds.

### World, IntegrityGuard, Launcher

`World` has the tasks of governor, protector and builder, which never wait, so
each is one step. The tables begin empty at a launch, while the ledger goes on from the
file of earlier launches (`CityConfig.ledger_path`, `aim city start --ledger`): `loaded` counts
the entries found there, any at all. The guard of the launcher writes to the same ledger,
its audits and what `verify()` finds of its labels (`GuardVerifies`), which are no
threats of the protector. `LedgerReplays` says that the tables can be told from the
entries of this launch; replayed from the beginning the file would bring back citizens
and bots of earlier ones. A `CitizenNode` records that it joined in the ledger it was given without
the governor's knowledge and is left out, as are the educator and the architect,
whose tables no other part uses. `WorldAssumption` says that no member of the staff
has the id "registry" or "ledger" or a label of `verify()`, under which the guard makes
its entries; the staff's ids are UUIDs.

`IntegrityGuard` has `verify()` in its steps under and between the locks.
`TamperingNoticed` says that what was found good stays good until the next
snapshot, and that the report and the ledger agree. Two first calls of `verify()`
for one label both find nothing and both take a snapshot, the second of which
replaces the first (`raced`): both callers are told that their data is good.

`Launcher` has each bot anywhere in its start when `shutdown()` reaches it.
`ShutdownComplete` has one exception, `caught`: a task that is cancelled after
asyncio opened its port and before `start()` was given the server leaves the port
open, against "Gracefully stop all AI World entities" (`city/launcher.py:143`). A
bot whose port is taken stays in the registry and in the governor's table without
serving, since `gather` collects the error.

### AgentMemory

A call over `send()` waits a limited time, while the request may be served at any
later time or never. `outdated` collects, when a get begins, the values that a
caller cannot be shown any more, and `NoOldValue` says that it is not. It allows
what the code does: a request whose caller gave up may still overwrite newer
values, if its caller never learned that it was done. A restart empties the
memory. No handler answers ANNOUNCE, so `announce_to()` always waits for its
timeout.

## 3. The runs

| Run | Instance | Shows |
|---|---|---|
| `gateway_safety` | one node, two connections, two requests, end of file | `OwnAnswer`, `AckFirst`, `RoutedIsServed`, `AnswerReachesWaiter` |
| `gateway_promise` | one connection, two requests, a heartbeat, resets | `KeepsPromise`, `DeadRouteForgotten` |
| `gateway_pressure` | the same with `HighWater = 0` and one id for both requests | `SettledUnlessStuck` |
| `executor_pool` | five tasks, four of them known, one slot, two starts, cancellation | `SlotsConserved`, `BegunInOrder`, `PendingBegun`, `ImplementsPool` |
| `relay` | five forwards, two of them large, two values, a cache of two, resets; two relays started twice, one of them slow, resets | all properties of `RelayForward` and `RelayHealth` |
| `task_router` | two calls of one task, one of them large, one agent first and a second that may come, two relays, two changes of the nodes and one of the health | `TwiceOnlyAfterSilence`, `AnswerFromRun`, `EvenSpread`, `RouteReturns` |
| `command_center` | three connections | `Attended`, `StopsQuietly`, `LossNoticed` |
| `stores` | see below | one or two properties per component |

Two connections of one node are the smallest number with a reconnection, two
requests the smallest with an answer that could be crossed; a second node adds
nothing to either, because channels share only the routing table, indexed by
node. Four tasks that can run exceed one slot, and the two slots of two starts, while
others stand in the line and in the queue. Three cache keys
over two entries force evictions, and two forwards of one key force two fills.
Two relays started twice have verdicts of pings from before a restart; three
relays with one start each, where two watchers write one record, were explored
once (half a million states, no error). Three connections are the fewest in
which two loops reconnect over each other. Two calls of one task are the fewest
in which the second can be answered from a relay's cache; two changes of the nodes let
the list grow and shrink again, one of the relays' health
shows a pick before and after it, from any position of the index, since calls with
other strategies come in between.

`stores` bounds each component by itself: two posts and two deletions with a failed
write and a crash; three publications, a listing, a reader of pages (with limits
that make a page of one and a page of two) with a failed write and a crash; a
connection with a port, a server without one, a vcpu and a vcloud under two removers; two registrations and
two lookups of one name over three ticks; two modules, a script and a config in
three builds with two faults; two clients, four requests and four ticks around a
window of two; four queries of one session with a history of four; three entries
beyond the deployments of the city, after an empty ledger or one with a bot, a citizen
or a threat of an earlier launch; four calls of the guard; three bots; two
setters, a getter, a local write and a restart. Each is the least in which its
hazard occurs: two actors that meet, and a third step that would tell.

`gateway_pressure` is not vacuous: the deadlock its property excepts occurs in
that instance. Without the exception TLC ends with the reply to a heartbeat filling
one direction of the connection, the answer to a request the other, and a second
request waiting for the send lock. A `stop()` or `disconnect()` after that leaves the
request where it was, and so does either of them with a buffer full and the other end
not reading.

`CHECK_DEADLOCK FALSE` is set throughout: connections and tasks are finite, so
every instance comes to rest. Blocking is what the liveness properties are for.

These runs end in a counterexample, and each is a disagreement between the code
and what its documentation, docstrings or tests say:

| Run | Violated | What happens |
|---|---|---|
| `gateway_reregister` | `ConnectedNodesListed` | a node reconnects before the old handler has cleaned up; the cleanup removes the new route |
| `relay_writes` | `WritesDelivered` | a repeated write is answered from the cache |
| `relay_resets` | `DeadRoutedAround` | a reset connection ends the heartbeat loop |
| `command_center_stop` | `StopDisconnects` | `stop()` leaves a loop that reconnects after it |

Three more are steps of the models that no run singles out; the properties of the
passing runs except exactly what they lead to. An executor that is started again runs
tasks beside those of its first start, against `compute/executor.py:53` (`Start`). A frame
that is no command ends the listener of a connection that is up (`ListenerRaises`). A save
that ends inside a character leaves a file that no handler can load any more
(`Mangled`, `PostUnread`).

### Fairness

Fairness is weak, per task, and stands for the event loop: a task that can run
is run, and a timer fires. It covers the tasks of the process in question only.
`Gateway!Spec` assumes nothing about private nodes or the network;
`gateway_pressure` adds that the nodes run, that TCP reports lost connections and that a
closed end closes its socket once it is flushed (`SpecWithLivePeers`), so that two ends
which take nothing from each other are all that is left to keep a request waiting. In `CommandCenter` nothing is assumed of the server: a reconnect may
fail for ever. The executor's functions are assumed to end. A relay's
loop is one task, so the weak fairness is on the disjunction of its steps. In
`TaskRouter` it is per leg and in `RelayForward` per forward: a wait for a connection or
an answer ends within the timeout the code gives it, while relays and agents owe
nothing. There is no fairness on what takes the other end of a connection (`PeerStep`):
`drain()` and `wait_closed()` have no timeout, and a peer may never read. The modules
of `stores` have safety properties only and assume nothing.

## 4. The proofs

TLAPS checks the theorems below for every value of the constants that satisfies
the module's named assumption: any number of nodes, connections, requests,
threads, entries, faults and restarts. Each module of proofs states an inductive
invariant, proves that every action keeps it, one lemma per action or group of
actions, and reads the theorems off it.

**Gateway** (`GatewayProofs`). `WellFormed` is `TypeOK` with four groups of facts:
where a client stands and which connection it uses (`ClientInv`), which
connection a route may hold (`RouteInv`), the channel of a request and the
requests in `pending` (`ChanInv`), and what an unused or half-open connection may
hold (`ConnInv`). `TypeOK` alone is not inductive: `down[conn[n]]` is defined only
because a client that is not off has a connection. On top of it:

* `AnswerInv` says that each response in flight carries the id of the request it
  comes from, which gives `AnswersMatchIds` and, for distinct ids (they are UUIDs),
  `AnswersNeverCross`.
* `AckInv` says that a registering client's connection carries either nothing yet
  or the ACK at its head, and that no channel exists before: `AckComesFirst`.
* `ServedInv` gives `RoutesAreServed` where connections end by end of file.
* `ExecInv` follows a request through its channel. A message on its way to a node
  is the only copy of a request that was not executed (`CopyInv`); what is executed
  was placed (`OnceInv`); and what a node works on, answers or has answered was
  executed (`SourceInv`). `ExecutedAtMostOnce` follows, and
  `GatewayImplementsService`: each step is a step of `RequestReply` or leaves its
  variables alone.
* `WaiterInv` is about what waits. A response is only on the connection its request
  was forwarded on, since a node that changes its connection drops what it works on
  (`OriginInv`), and, for distinct ids, `_pending` of a channel holds just the futures
  of the requests that wait on it (`PendingExact`). The second is `NoFutureIsLost`:
  none is left behind and none is removed too early. Both give `AnswersReachWaiters`.
  With repeated ids both fail, as the second request takes the first one's entry, and
  the cleanup of the first removes that of the second.

**Executor** (`ExecutorProofs`). `IInv` is `TypeOK`, the sums of
slots and holders (`SlotsAddUp`) and `PipelineInv`: a task is in one place only, in the queue, spawned, or in one line,
in the order of submission, and only then pending. Without it a task could take a
slot twice and the sum of slots and holders would not be kept. `TypeCorrect`,
`SlotsAreConserved` and `ConcurrencyIsBounded` follow. For `TasksBegunInOrder` the
converse is needed too, that a pending task which left the queue is spawned or in
a line (`PlacedInv`): otherwise one could be passed over. `ExecutorImplementsPool`
shows each step to be one of `BoundedPool` or a stutter: each `start()` opens
`MaxConcurrency` slots, and no more tasks run than slots were opened, since each running
task holds one of a semaphore that some start made. For an executor started once that
is the bound of its docstring, `BoundedByOneStart`, which `ConcurrencyIsBounded` states.

**Relay** (`RelayProofs`). For `RelayForward`, `IInv` adds to `CacheBounded` and
`AnswerMatches` that each entry was given in answer to a forward with its key, since
the last invalidation (`CacheInv`), and that answers come from executions and
executions from messages that were sent (`ExecutionInv`). `CacheStaysBounded`,
`AnswersMatch` and the action property `InvalidationLasts` follow, and
`RelayImplementsService`, the same refinement as the gateway's. The lemmas on
`CachePut` say what removing a key and evicting the head leave, for caches of any
size. For `RelayHealth`, no relay pings itself and a relay that runs has a loop
(`LoopInv`, in `HealthTypeCorrect`); with that, each action adds to the results
under way (`UnderWay`) only true ones, and `Judge` removes the one it writes down:
`RecordsFollowPings`.

**Command center** (`CommandCenterProofs`). `Attended` is inductive together with
the types, because whoever reconnects makes both loops before the connection is
current, and a listener leaves a live one only to another or by a frame that ended it. `StopsQuietly` is not: `QuietInv` adds that after a quiet `disconnect()`
no loop is in a back-off or in a `drain()`, from which it would go on to
reconnect. `ConnectionAttended` and `QuietStopLasts` follow.

**Task router** (`TaskRouterProofs`). `LegInv` says where the legs of a call stand
and `EnvelopeInv` that a call with an envelope at a relay has one target, which is
not asked directly before the relay is found silent: `DeliveredTwiceOnlyAfterSilence`.
`UnreadInv` says the same of an envelope its relay may still come to read after the call
went on without it.
`CacheInv` and `RunInv` take each entry of a relay's cache and each of its answers
back to a run: `AnswersComeFromRuns`. `RoundRobinSpreads` is `EvenSpread`, which is not
inductive, as it does not say whose turn is next. `SpreadInv` does: going round the
list from the next turn, whoever comes later was picked as often as the earlier, or
once more (`LaterHaveMore`). A pick moves the turn on by one and the picked entry to
the end of the round; a change of the list, or of who is healthy, starts the counts
afresh, at whatever place the index then points to. `RouterAssumption` says that no
node or relay is listed twice, since both registries are dictionaries.

**Lists** (`FilteringProofs`). `TaskRouter` and `ContentStore` filter lists, with
`Filtered` and not `SelectSeq`, which is built into the prover without its definition.
`Filtered` is a recursive function, and what it computes is shown without induction on
the data: a function that obeys the same recursion agrees with it, because the least
number at which they differ would be one where the recursion makes them equal
(`KeptAgrees`). From that come the facts the other modules use: its entries are
those wanted, none more often than in the list (`FilteredFacts`), and a list that grows
by an entry keeps it or nothing more (`FilteredAppend`).

**Virtual cloud** (`CityProofs`). `RegistryAgrees` says nothing of a server between
the store and the registry and is not inductive. `IInv` adds where it stands then:
not registered before its creation has ended, in the store until then unless it
was overtaken (`CreationInv`), out of the store for good once a removal took it out
(`TakenInv`), and registered without being stored only while the thread that took
it out has yet to deregister it (`RegistryInv`). `RegistryAgreesAlways` and
`CloudTypeCorrect` follow.

**City** (`CityProofs`). `ShutdownClosesPorts`: an open port belongs to a task that
has not ended, or to one cancelled before it was handed its server (`PortInv`), and
a task that has one is reached by the shutdown (`ServerInv`, `CancelInv`).
`GoodStaysGood`: the guard's ledger tells of a violation exactly when its call has
ended (`ReportedInv`). `LedgerReplaysAlways`: `LedgerReplays` is inductive with the
types, the loaded entries being no more than there are; the work is in what each action
that appends to the ledger adds to the places, ids and numbers of this launch's entries
of each kind (`RecordsTells`). What earlier launches left may be any sequence of at most
`MaxEarlier` entries.

**Stores** (`StoresProofs`), one invariant per component:

* `NamesAreKept`. A lookup that has read a record and not yet removed it holds the
  newest one, which has expired if the lookup found it stale, unless the
  registration met it (`HeldInv`).
* `BuiltIsWhole`. The files before the next one are whole while nothing has failed
  (`WrittenInv`), and a first build has all others still to write (`FirstInv`).
* `NothingOldIsShown`. Of two writers, one of which was done before the other began,
  the older one's value is gone once the newer one is done, and never comes back,
  since a request is served once (`ReplacedInv`); so what a getter must not be shown
  is not in memory from then on (`OutdatedInv`).
* `LedgerAgreesWithLayer` and `FileAgreesWithLedger`. Nothing is told twice
  (`ToldOnce`); what a call still has to tell is not told yet, and no other call has
  the same to tell (`PendingInv`); what was done to an item is told or will be by its
  call (`AccountedInv`); and while no write has failed the file lacks exactly what
  the writers have in hand (`FileInv`).
* `FailureLosesOne`. A post whose write succeeded is in the file as a line of its own
  or behind a cut one, and there are at most as many cut ones as failures
  (`StoreInv`): the lost posts map into the cuts one to one.
* `NoPostIsSkipped`. What a reader was shown is the newest end of what matches, page
  upon page, and what it is owed is in there or further down (`PagesHold`); a post that
  is published between two pages pushes the others down and so skips none. What was
  counted is still there when it is listed (`CountHolds`). `PageFacts` says what a page
  is, of any list, offset and limit.
* `RateIsBounded`. A POST whose time is no longer in its bucket is out of every window
  that ends now or later (`BucketInv`), so that a window with a new POST in it holds
  no others but those the bucket still counts.
* `LatestIsShown`. The feed holds the last `MaxPosts` of what was saved since a save
  was cut, numbered without a gap, and the directory all of it; a file that does not
  decode counts as one to which nothing was saved since (`FilesInv`).
* `HistoryIsKept`. While queries do not overlap or nothing was cut, each waiting
  query holds the current list (`HistoryInv`), so that what it appends is not lost.

The type invariants of these modules are proved and not listed in the runs:
`TypeCorrect`, `RelayTypeCorrect`, `ClientTypeCorrect`, `CallsTypeCorrect`,
`CloudTypeCorrect`, `HealthTypeCorrect`.

Refinement is proved for the safety part, initial states and steps (`SafeSpec` of
`RequestReply` and `BoundedPool`). That every accepted request and every running
task comes to an end needs fairness, which TLAPS does not reason about; for that,
`KeepsPromise` and `ImplementsPool` are checked by TLC (`KeepsPromise` of the relay with
the exception named there). Only model-checked as well are
the other liveness properties: `DeadRouteForgotten`, `SettledUnlessStuck`,
`PendingBegun`, `ExecutionsRecorded`, `DeadMarked`, `LiveRestored`, `RouteReturns`,
`LossNoticed`. Every safety property of a passing run is also proved.

## 5. Not modelled, and the plan

Left out for good: hashing and signatures, TLS, the CLI, the publisher, static
pages, HTTP parsing, the health reporter's metrics, the rule engine and everything
that only formats text. A signature is either valid or not (`Register`, `Reject`);
a payload is a model value.

Left out because there is little to check: the relay's routing by receiver id. Its
handlers for QUERY and TASK come after the built-in ones, which answer first
(`relay/node.py:174`), and its table of healthy peers is written nowhere
(`relay/node.py:305`), so that the rest is a lookup in a table that ANNOUNCE fills.
The read of one post, the city's status reports and the lists of a vcloud's
servers change nothing that another part reads.

What could be done next: the liveness properties, if a prover for them is at hand, the
relay's content cache, and the educator and architect of the city.
