------------------------------ MODULE Executor ------------------------------
(***************************************************************************)
(* The task executor of a compute node (Executor).  submit() puts a task on *)
(* an unbounded FIFO queue; the worker started by start() takes tasks off   *)
(* it and spawns one asyncio task each, which runs the function inside the  *)
(* executor's semaphore; stop() clears the running flag and waits for the   *)
(* queue to be joined.                                                      *)
(*                                                                          *)
(* Tasks are numbered in the order they are submitted.  Every start() makes *)
(* a semaphore and a worker of its own, numbered by the start.              *)
(***************************************************************************)
EXTENDS Naturals, Sequences, FiniteSets

CONSTANTS
  NumTasks,        \* bound: tasks submitted in a behaviour
  MaxConcurrency,  \* Executor(max_concurrency)
  MaxStarts,       \* bound: calls of start()
  Known,           \* the tasks whose name has a registered function
  Endings          \* how a function may end: "done", "failed" or "cancelled"

Tasks  == 1..NumTasks
Starts == 1..MaxStarts

ASSUME ExecutorAssumption ==
  /\ NumTasks \in Nat /\ MaxConcurrency \in Nat /\ MaxStarts \in Nat
  /\ Known \subseteq Tasks
  /\ Endings \subseteq {"done", "failed", "cancelled"}

VARIABLES
  running,     \* Executor._running
  starts,      \* number of start() calls; the latest made self._semaphore
  stopper,     \* where the caller of stop() stands
  submitted,   \* number of tasks submitted
  queue,       \* Executor._queue
  unfinished,  \* the queue's count of items without a task_done()
  worker,      \* worker[s]: where the worker of start s stands
  spawned,     \* tasks created by a worker that have not run yet, in order
  free,        \* free[s]: free slots of the semaphore of start s
  line,        \* line[s]: tasks waiting for it, in order
  slot,        \* slot[t]: the semaphore whose slot t holds, 0 if none
  state        \* TaskItem.state, "new" before submit()

poolVars == <<spawned, free, line, slot>>
vars == <<running, starts, stopper, submitted, queue, unfinished, worker, state, poolVars>>

Init ==
  /\ running = FALSE /\ starts = 0 /\ stopper = "none"
  /\ submitted = 0 /\ queue = <<>> /\ unfinished = 0
  /\ worker = [s \in Starts |-> "none"]
  /\ spawned = <<>>
  /\ free = [s \in Starts |-> 0]
  /\ line = [s \in Starts |-> <<>>]
  /\ slot = [t \in Tasks |-> 0]
  /\ state = [t \in Tasks |-> "new"]

----------------------------------------------------------------------------
(* Callers.                                                                *)

Submit ==
  LET t == submitted + 1 IN
  /\ submitted < NumTasks
  /\ submitted' = t
  /\ state' = [state EXCEPT ![t] = "pending"]
  /\ queue' = Append(queue, t)
  /\ unfinished' = unfinished + 1
  /\ UNCHANGED <<running, starts, stopper, worker, poolVars>>

\* The new semaphore replaces the old one, whose slots may still be held.
Start ==
  /\ starts < MaxStarts
  /\ starts' = starts + 1
  /\ running' = TRUE
  /\ free' = [free EXCEPT ![starts + 1] = MaxConcurrency]
  /\ worker' = [worker EXCEPT ![starts + 1] = "created"]
  /\ UNCHANGED <<stopper, submitted, queue, unfinished, spawned, line, slot, state>>

Stop ==
  /\ stopper # "joining"
  /\ stopper' = "joining"
  /\ running' = FALSE
  /\ UNCHANGED <<starts, submitted, queue, unfinished, worker, state, poolVars>>

\* join() returns when every item put on the queue was taken off it.
StopJoined ==
  /\ stopper = "joining" /\ unfinished = 0
  /\ stopper' = "returned"
  /\ UNCHANGED <<running, starts, submitted, queue, unfinished, worker, state, poolVars>>

\* stop() waits ten seconds at most, ten times what a worker sleeps in get():
\* by then no worker is left that could still empty the queue.
StopTimesOut ==
  /\ stopper = "joining" /\ unfinished > 0
  /\ \A s \in Starts : worker[s] \in {"none", "over"}
  /\ stopper' = "returned"
  /\ UNCHANGED <<running, starts, submitted, queue, unfinished, worker, state, poolVars>>

----------------------------------------------------------------------------
(* Executor._worker of start s.                                            *)

\* A worker that takes one item and leaves.
OneItemOnly == "over"

\* The loop condition is evaluated again before every get().
AtLoopTop == IF running THEN "getting" ELSE "over"

WorkerBegins(s) ==
  /\ worker[s] = "created"
  /\ worker' = [worker EXCEPT ![s] = AtLoopTop]
  /\ UNCHANGED <<running, starts, stopper, submitted, queue, unfinished, state, poolVars>>

\* A worker that takes the item before it is removed by another.
WorkerPeeks(s) ==
  /\ worker[s] = "getting" /\ queue # <<>>
  /\ spawned' = Append(spawned, Head(queue))
  /\ unfinished' = unfinished - 1
  /\ worker' = [worker EXCEPT ![s] = AtLoopTop]
  /\ UNCHANGED <<running, starts, stopper, submitted, queue, state, free, line, slot>>

WorkerTakes(s) ==
  /\ worker[s] = "getting" /\ queue # <<>>
  /\ queue' = Tail(queue)
  /\ spawned' = Append(spawned, Head(queue))
  /\ unfinished' = unfinished - 1
  /\ worker' = [worker EXCEPT ![s] = AtLoopTop]
  /\ UNCHANGED <<running, starts, stopper, submitted, state, free, line, slot>>

\* get() waits at most a second; with the flag still set the worker waits on.
WorkerNotices(s) ==
  /\ worker[s] = "getting" /\ ~running
  /\ worker' = [worker EXCEPT ![s] = "over"]
  /\ UNCHANGED <<running, starts, stopper, submitted, queue, unfinished, state, poolVars>>

----------------------------------------------------------------------------
(* Executor._run_task.                                                     *)

\* Inside the semaphore s: a task with no function fails and leaves at once.
Enter(t, s) ==
  IF t \in Known
    THEN /\ slot' = [slot EXCEPT ![t] = s]
         /\ free' = [free EXCEPT ![s] = @ - 1]
         /\ state' = [state EXCEPT ![t] = "running"]
    ELSE /\ state' = [state EXCEPT ![t] = "failed"]
         /\ UNCHANGED <<slot, free>>

\* A semaphore that is entered without looking whether it is full.
EntersAlways(s) == TRUE

\* A newcomer that does not look at those who wait.
EntersBarging(s) == free[s] > 0

\* A newcomer enters only when a slot is free and nobody is ahead of it.
EntersAtOnce(s) == free[s] > 0 /\ line[s] = <<>>

TaskArrives ==
  LET t == Head(spawned) IN
  /\ spawned # <<>>
  /\ spawned' = Tail(spawned)
  /\ IF EntersAtOnce(starts)
       THEN Enter(t, starts) /\ UNCHANGED line
       ELSE /\ line' = [line EXCEPT ![starts] = Append(@, t)]
            /\ UNCHANGED <<free, slot, state>>
  /\ UNCHANGED <<running, starts, stopper, submitted, queue, unfinished, worker>>

WaiterEnters(s) ==
  /\ line[s] # <<>> /\ free[s] > 0
  /\ Enter(Head(line[s]), s)
  /\ line' = [line EXCEPT ![s] = Tail(@)]
  /\ UNCHANGED <<running, starts, stopper, submitted, queue, unfinished, worker, spawned>>

\* A slot that is not given back.
ReleaseLeaks(t) == slot' = [slot EXCEPT ![t] = 0] /\ UNCHANGED free

\* Leaving the `async with` block, by return or by exception.
Release(t) ==
  /\ free' = [free EXCEPT ![slot[t]] = @ + 1]
  /\ slot' = [slot EXCEPT ![t] = 0]

\* A CancelledError is no Exception: the item stays in state RUNNING.
TaskEnds(t) ==
  /\ slot[t] # 0
  /\ \E e \in Endings : state' = [state EXCEPT ![t] = IF e = "cancelled" THEN @ ELSE e]
  /\ Release(t)
  /\ UNCHANGED <<running, starts, stopper, submitted, queue, unfinished, worker, spawned, line>>

----------------------------------------------------------------------------
WorkerStep(s) == WorkerBegins(s) \/ WorkerTakes(s) \/ WorkerNotices(s)

Next ==
  \/ Submit \/ Start \/ Stop \/ StopJoined \/ StopTimesOut
  \/ \E s \in Starts : WorkerStep(s) \/ WaiterEnters(s)
  \/ TaskArrives
  \/ \E t \in Tasks : TaskEnds(t)

\* The loop runs every task that can run, and the functions come to an end.
Fairness ==
  /\ \A s \in Starts : WF_vars(WorkerStep(s)) /\ WF_vars(WaiterEnters(s))
  /\ WF_vars(TaskArrives)
  /\ \A t \in Tasks : WF_vars(TaskEnds(t))

Spec == Init /\ [][Next]_vars /\ Fairness

----------------------------------------------------------------------------
(* Properties.                                                             *)

TypeOK ==
  /\ running \in BOOLEAN
  /\ starts \in 0..MaxStarts
  /\ stopper \in {"none", "joining", "returned"}
  /\ submitted \in 0..NumTasks
  /\ queue \in Seq(Tasks)
  /\ unfinished \in Nat
  /\ worker \in [Starts -> {"none", "created", "getting", "over"}]
  /\ spawned \in Seq(Tasks)
  /\ free \in [Starts -> 0..MaxConcurrency]
  /\ line \in [Starts -> Seq(Tasks)]
  /\ slot \in [Tasks -> 0..MaxStarts]
  /\ state \in [Tasks -> {"new", "pending", "running", "done", "failed"}]

Executing == {t \in Tasks : slot[t] # 0}
Holders(s) == {t \in Tasks : slot[t] = s}

\* A slot taken is a slot given back, however the function ends, and no more are
\* taken than there are: the free slots and the holders of a semaphore always add
\* up to max_concurrency, and the holders never exceed it.
SlotsConserved ==
  \A s \in 1..starts :
    /\ free[s] + Cardinality(Holders(s)) = MaxConcurrency
    /\ Cardinality(Holders(s)) <= MaxConcurrency

\* "max_concurrency : maximum number of tasks running simultaneously"
\* (executor.py:53).  The code does not keep it for ever: a second start(), after
\* a stop() that does not wait for the tasks it spawned, runs new tasks beside
\* the old, which is why Pool below gives every start slots of its own.
ConcurrencyBounded == Cardinality(Executing) <= MaxConcurrency

\* What the code does keep: the bound holds until a second start() makes a
\* second semaphore beside the tasks of the first.
BoundedByOneStart == starts <= 1 => ConcurrencyBounded

\* Tasks are begun in the order they were submitted, through the queue, the
\* spawned asyncio tasks and the line of the one semaphore.
BegunInOrder ==
  starts <= 1 => \A t, u \in 1..submitted : t < u /\ state[u] # "pending" => state[t] # "pending"

\* While the executor is not stopped every task submitted is begun.
PendingBegun ==
  \A t \in Tasks : (state[t] = "pending" /\ running) ~> (state[t] # "pending" \/ ~running)

\* The executor is a bounded pool that every start() opens once more: no more
\* tasks run at a time than the starts so far made slots, each task runs at most
\* once, and what was begun is ended.
Pool == INSTANCE BoundedPool WITH
  Slots <- MaxConcurrency,
  opened <- starts,
  status <- [t \in Tasks |->
    CASE state[t] = "pending" -> "queued"
      [] state[t] = "running" /\ slot[t] = 0 -> "abandoned"
      [] OTHER -> state[t]]

ImplementsPool == Pool!Spec
=============================================================================
