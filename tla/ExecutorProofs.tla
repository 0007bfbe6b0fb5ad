--------------------------- MODULE ExecutorProofs ---------------------------
(***************************************************************************)
(* Proofs about Executor: its state stays well formed, and no slot of a    *)
(* semaphore is ever lost or duplicated, so that an executor started once  *)
(* never runs more than MaxConcurrency functions at a time.                *)
(*                                                                         *)
(* A slot is taken for a task at the head of a line or of the spawned      *)
(* tasks.  That it was not counted before needs the task to stand in the   *)
(* pipeline only once, and that follows from the order of the pipeline:    *)
(* numbers increase along each line, from older lines to newer ones, then  *)
(* along the spawned tasks, then along the queue.                          *)
(***************************************************************************)
EXTENDS Executor, FiniteSetTheorems, SequenceTheorems, WellFoundedInduction, TLAPS

----------------------------------------------------------------------------
(* The inductive invariant.                                                *)

\* Number of tasks taken off the queue.
TakenOff == submitted - unfinished

\* The queue holds the tasks not taken off, in the order of submission.
QueueInv ==
  /\ unfinished = Len(queue) /\ unfinished <= submitted
  /\ \A i \in 1..Len(queue) : queue[i] = submitted - Len(queue) + i

SpawnedInv ==
  /\ \A i \in 1..Len(spawned) : spawned[i] <= TakenOff /\ state[spawned[i]] = "pending"
  /\ \A i, j \in 1..Len(spawned) : i < j => spawned[i] < spawned[j]

LineInv ==
  \A s \in Starts :
    /\ \A i \in 1..Len(line[s]) : line[s][i] <= TakenOff /\ state[line[s][i]] = "pending"
    /\ \A i, j \in 1..Len(line[s]) : i < j => line[s][i] < line[s][j]
    /\ \A i \in 1..Len(line[s]), j \in 1..Len(spawned) : line[s][i] < spawned[j]

LinesInv ==
  \A s, u \in Starts : s < u =>
    \A i \in 1..Len(line[s]), j \in 1..Len(line[u]) : line[s][i] < line[u][j]

\* Tasks not submitted are new, tasks in the queue pending, and only a
\* running task holds a slot.
StateInv ==
  \A t \in Tasks :
    /\ t > submitted => state[t] = "new"
    /\ TakenOff < t /\ t <= submitted => state[t] = "pending"
    /\ slot[t] # 0 => state[t] = "running"

\* What a start has not made yet is not in use.
StartsInv ==
  /\ \A s \in Starts : s > starts => worker[s] = "none" /\ line[s] = <<>>
  /\ \A t \in Tasks : slot[t] <= starts
  /\ starts = 0 => spawned = <<>>

PipelineInv == QueueInv /\ SpawnedInv /\ LineInv /\ LinesInv /\ StateInv /\ StartsInv

\* Free slots and holders of each semaphore add up.
SlotsAddUp == \A s \in 1..starts : free[s] + Cardinality(Holders(s)) = MaxConcurrency

IInv == TypeOK /\ PipelineInv /\ SlotsAddUp

----------------------------------------------------------------------------
(* Lemmas about the data.                                                  *)

\* The tasks are a finite set, and so are the holders of a semaphore.
LEMMA HoldersFinite == \A s : IsFiniteSet(Holders(s)) /\ Cardinality(Holders(s)) \in Nat
<1> TAKE s
<1>1. IsFiniteSet(1..NumTasks)
  BY ExecutorAssumption, FS_Interval
<1>2. Holders(s) \subseteq 1..NumTasks
  BY DEF Holders, Tasks
<1>3. IsFiniteSet(Holders(s))
  BY <1>1, <1>2, FS_Subset
<1> QED BY <1>3, FS_CardinalityType

\* Entering a semaphore adds one holder to it and none to the others.
LEMMA EnterHolders ==
  ASSUME TypeOK, NEW t \in Tasks, NEW s \in Starts, slot[t] = 0,
         slot' = [slot EXCEPT ![t] = s]
  PROVE  \A u \in Starts :
           Cardinality(Holders(u)') = Cardinality(Holders(u)) + (IF u = s THEN 1 ELSE 0)
<1> TAKE u \in Starts
<1>0. 0 \notin Starts
  BY DEF Starts
<1>1. CASE u = s
  <2>1. Holders(u)' = Holders(u) \cup {t}
    BY <1>1 DEF Holders, TypeOK
  <2>2. t \notin Holders(u)
    BY <1>0, <1>1 DEF Holders
  <2> QED BY <1>1, <2>1, <2>2, HoldersFinite, FS_AddElement
<1>2. CASE u # s
  <2>1. Holders(u)' = Holders(u)
    BY <1>0, <1>2 DEF Holders, TypeOK
  <2> QED BY <1>2, <2>1, HoldersFinite
<1> QED BY <1>1, <1>2

\* Leaving a semaphore removes one holder from it and none from the others.
LEMMA ReleaseHolders ==
  ASSUME TypeOK, NEW t \in Tasks, slot[t] # 0,
         slot' = [slot EXCEPT ![t] = 0]
  PROVE  /\ slot[t] \in Starts
         /\ \A u \in Starts :
              Cardinality(Holders(u)') = Cardinality(Holders(u)) - (IF u = slot[t] THEN 1 ELSE 0)
         /\ Cardinality(Holders(slot[t])) >= 1
<1>0. slot[t] \in Starts /\ 0 \notin Starts
  BY ExecutorAssumption DEF Starts, TypeOK
<1>1. ASSUME NEW u \in Starts
      PROVE  Cardinality(Holders(u)') = Cardinality(Holders(u)) - (IF u = slot[t] THEN 1 ELSE 0)
  <2>1. CASE u = slot[t]
    <3>1. Holders(u)' = Holders(u) \ {t}
      BY <1>0, <2>1 DEF Holders, TypeOK
    <3>2. t \in Holders(u)
      BY <2>1 DEF Holders
    <3> QED BY <2>1, <3>1, <3>2, HoldersFinite, FS_RemoveElement
  <2>2. CASE u # slot[t]
    <3>1. Holders(u)' = Holders(u)
      BY <1>0, <2>2 DEF Holders, TypeOK
    <3> QED BY <2>2, <3>1, HoldersFinite
  <2> QED BY <2>1, <2>2
<1>2. Cardinality(Holders(slot[t])) >= 1
  <2>1. t \in Holders(slot[t])
    BY DEF Holders
  <2>2. Holders(slot[t]) # {}
    BY <2>1
  <2> QED BY <2>2, HoldersFinite, FS_EmptySet
<1> QED BY <1>0, <1>1, <1>2

\* Tasks are numbers, and so are the elements of sequences of tasks.
LEMMA TaskNumbers ==
  /\ Tasks \subseteq Nat
  /\ \A q \in Seq(Tasks) : \A i \in 1..Len(q) : q[i] \in Tasks /\ q[i] \in Nat
<1>1. Tasks \subseteq Nat
  BY ExecutorAssumption DEF Tasks
<1> QED BY <1>1, ElementOfSeq

\* Tail drops the head and shifts the rest.
LEMMA TailFacts ==
  ASSUME NEW S, NEW q \in Seq(S), q # <<>>
  PROVE  /\ Head(q) \in S /\ Head(q) = q[1]
         /\ Tail(q) \in Seq(S) /\ Len(q) \in Nat /\ Len(q) >= 1
         /\ Len(Tail(q)) = Len(q) - 1
         /\ \A i \in 1..Len(Tail(q)) : i + 1 \in 1..Len(q) /\ Tail(q)[i] = q[i + 1]
BY HeadTailProperties, LenProperties, ElementOfSeq

\* Append adds one element behind the others.
LEMMA AppendFacts ==
  ASSUME NEW S, NEW q \in Seq(S), NEW e \in S
  PROVE  /\ Append(q, e) \in Seq(S) /\ Len(q) \in Nat
         /\ Len(Append(q, e)) = Len(q) + 1
         /\ \A i \in 1..Len(q) : Append(q, e)[i] = q[i]
         /\ Append(q, e)[Len(q) + 1] = e
BY AppendProperties, LenProperties

----------------------------------------------------------------------------
(* The initial states.                                                     *)

LEMMA InitIInv == Init => IInv
<1> SUFFICES ASSUME Init PROVE IInv
  OBVIOUS
<1>1. TypeOK
  <2>1. 0 \in 0..MaxStarts /\ 0 \in 0..NumTasks /\ 0 \in 0..MaxConcurrency /\ 0 \in Nat
    BY ExecutorAssumption
  <2>2. <<>> \in Seq(Tasks)
    OBVIOUS
  <2> QED BY <2>1, <2>2 DEF Init, TypeOK
<1>2. PipelineInv
  BY ExecutorAssumption DEF Init, PipelineInv, QueueInv, SpawnedInv, LineInv, LinesInv,
     StateInv, StartsInv, TakenOff, Starts, Tasks
<1>3. SlotsAddUp
  BY DEF Init, SlotsAddUp
<1> QED BY <1>1, <1>2, <1>3 DEF IInv

----------------------------------------------------------------------------
(* The callers' steps.                                                     *)

LEMMA SubmitStep == IInv /\ Submit => IInv'
<1> SUFFICES ASSUME IInv, Submit PROVE IInv'
  OBVIOUS
<1> DEFINE t == submitted + 1
<1>0. TypeOK /\ QueueInv /\ SpawnedInv /\ LineInv /\ LinesInv /\ StateInv /\ StartsInv
  BY DEF IInv, PipelineInv
<1>1. t \in Tasks /\ submitted \in Nat /\ unfinished \in Nat
  BY <1>0, ExecutorAssumption DEF Submit, Tasks, TypeOK
<1>2. queue' \in Seq(Tasks) /\ Len(queue) \in Nat /\ Len(queue') = Len(queue) + 1
      /\ (\A i \in 1..Len(queue) : queue'[i] = queue[i]) /\ queue'[Len(queue) + 1] = t
  BY <1>0, <1>1, AppendFacts DEF Submit, TypeOK
<1>3. TypeOK'
  BY <1>0, <1>1, <1>2 DEF TypeOK, Submit, poolVars, Tasks
<1>4. QueueInv'
  BY <1>0, <1>1, <1>2 DEF QueueInv, Submit
<1>5. TakenOff' = TakenOff /\ TakenOff \in Nat /\ TakenOff <= submitted
  BY <1>0, <1>1 DEF Submit, TakenOff, QueueInv
<1>6. \A u \in Tasks : u # t => state'[u] = state[u]
  BY <1>0 DEF Submit, TypeOK
<1>7. \A u \in Tasks : u <= TakenOff => u # t
  BY <1>1, <1>5 DEF Tasks
<1>8. SpawnedInv'
  BY <1>0, <1>5, <1>6, <1>7 DEF SpawnedInv, Submit, poolVars, TypeOK
<1>9. LineInv'
  BY <1>0, <1>5, <1>6, <1>7, SMTT(20) DEF LineInv, Submit, poolVars, TypeOK
<1>10. LinesInv' /\ StartsInv' /\ SlotsAddUp'
  BY DEF IInv, PipelineInv, LinesInv, StartsInv, SlotsAddUp, Holders, Submit, poolVars
<1>11. StateInv'
  BY <1>0, <1>1, <1>5 DEF StateInv, Submit, poolVars, TypeOK, Tasks
<1> QED BY <1>3, <1>4, <1>8, <1>9, <1>10, <1>11 DEF IInv, PipelineInv

LEMMA StartStep == IInv /\ Start => IInv'
<1> SUFFICES ASSUME IInv, Start PROVE IInv'
  OBVIOUS
<1>0. TypeOK /\ StartsInv /\ SlotsAddUp /\ starts + 1 \in Starts /\ starts \in Nat
  BY ExecutorAssumption DEF IInv, PipelineInv, TypeOK, Start, Starts
<1>1. TypeOK'
  BY <1>0, ExecutorAssumption DEF TypeOK, Start, Starts
<1>2. QueueInv' /\ SpawnedInv' /\ LineInv' /\ LinesInv' /\ StateInv'
  BY DEF IInv, PipelineInv, QueueInv, SpawnedInv, LineInv, LinesInv, StateInv, TakenOff, Start
<1>3. StartsInv'
  <2>1. \A s \in Starts : s > starts' => worker'[s] = worker[s] /\ s > starts
    BY <1>0 DEF Start, TypeOK, Starts
  <2>2. \A u \in Tasks : slot[u] \in 0..MaxStarts /\ slot[u] <= starts
    BY <1>0 DEF StartsInv, TypeOK
  <2> QED BY <1>0, <2>1, <2>2, ExecutorAssumption DEF StartsInv, Start
<1>4. \A s : Holders(s)' = Holders(s)
  BY DEF Holders, Start
<1>5. \A s : s = starts + 1 => Holders(s) = {}
  BY <1>0 DEF StartsInv, Holders, TypeOK
<1>6. ASSUME NEW s \in 1..starts'
      PROVE  free'[s] + Cardinality(Holders(s)') = MaxConcurrency
  <2>1. CASE s = starts + 1
    <3>1. Cardinality(Holders(s)') = 0
      BY <1>4, <1>5, <2>1, FS_EmptySet
    <3>2. free'[s] = MaxConcurrency
      BY <1>0, <2>1 DEF Start, TypeOK
    <3> QED BY <3>1, <3>2, ExecutorAssumption
  <2>2. CASE s # starts + 1
    <3>1. s \in 1..starts /\ s \in Starts
      BY <1>0, <1>6, <2>2, ExecutorAssumption DEF Start, Starts
    <3> QED BY <1>0, <1>4, <2>2, <3>1 DEF SlotsAddUp, Start, TypeOK
  <2> QED BY <2>1, <2>2
<1> QED BY <1>1, <1>2, <1>3, <1>6 DEF IInv, PipelineInv, SlotsAddUp

LEMMA StopSteps == IInv /\ (Stop \/ StopJoined \/ StopTimesOut) => IInv'
<1> SUFFICES ASSUME IInv, Stop \/ StopJoined \/ StopTimesOut PROVE IInv'
  OBVIOUS
<1> USE DEF Stop, StopJoined, StopTimesOut, poolVars
<1>1. TypeOK'
  BY DEF IInv, TypeOK
<1>2. PipelineInv'
  BY DEF IInv, PipelineInv, QueueInv, SpawnedInv, LineInv, LinesInv, StateInv, StartsInv, TakenOff
<1>3. SlotsAddUp'
  BY DEF IInv, SlotsAddUp, Holders
<1> QED BY <1>1, <1>2, <1>3 DEF IInv

----------------------------------------------------------------------------
(* The worker's steps.                                                     *)

LEMMA WorkerStepInv == ASSUME NEW s \in Starts PROVE IInv /\ WorkerStep(s) => IInv'
<1> SUFFICES ASSUME IInv, WorkerStep(s) PROVE IInv'
  OBVIOUS
<1>1. CASE WorkerBegins(s) \/ WorkerNotices(s)
  <2>0. /\ UNCHANGED <<running, starts, stopper, submitted, queue, unfinished, state,
                         spawned, free, line, slot>>
        /\ worker[s] # "none"
        /\ worker' = [worker EXCEPT ![s] = AtLoopTop] \/ worker' = [worker EXCEPT ![s] = "over"]
    BY <1>1 DEF WorkerBegins, WorkerNotices, poolVars
  <2>1. TypeOK'
    BY <2>0 DEF IInv, TypeOK, AtLoopTop
  <2>2. StartsInv'
    BY <2>0 DEF IInv, PipelineInv, StartsInv, TypeOK
  <2>3. QueueInv' /\ SpawnedInv' /\ LineInv' /\ LinesInv' /\ StateInv'
    BY <2>0 DEF IInv, PipelineInv, QueueInv, SpawnedInv, LineInv, LinesInv, StateInv, TakenOff
  <2>4. SlotsAddUp'
    BY <2>0 DEF IInv, SlotsAddUp, Holders
  <2> QED BY <2>1, <2>2, <2>3, <2>4 DEF IInv, PipelineInv
<1>2. CASE WorkerTakes(s)
  <2>0. TypeOK /\ QueueInv /\ SpawnedInv /\ LineInv /\ LinesInv /\ StateInv /\ StartsInv
    BY DEF IInv, PipelineInv
  <2> DEFINE t == Head(queue)
  <2>1. /\ t \in Tasks /\ t = queue[1]
        /\ queue' \in Seq(Tasks) /\ Len(queue) \in Nat /\ Len(queue) >= 1
        /\ Len(queue') = Len(queue) - 1
        /\ \A i \in 1..Len(queue') : i + 1 \in 1..Len(queue) /\ queue'[i] = queue[i + 1]
    BY <1>2, <2>0, TailFacts DEF WorkerTakes, TypeOK
  <2>2. /\ spawned' \in Seq(Tasks) /\ Len(spawned) \in Nat
        /\ Len(spawned') = Len(spawned) + 1
        /\ \A i \in 1..Len(spawned) : spawned'[i] = spawned[i]
        /\ spawned'[Len(spawned) + 1] = t
    BY <1>2, <2>0, <2>1, AppendFacts DEF WorkerTakes, TypeOK
  <2>3. submitted \in Nat /\ unfinished \in Nat /\ unfinished >= 1 /\ unfinished' = unfinished - 1
    BY <1>2, <2>0, <2>1, ExecutorAssumption DEF WorkerTakes, TypeOK, QueueInv
  <2>4. TakenOff' = TakenOff + 1 /\ TakenOff \in Nat /\ t = TakenOff + 1 /\ t <= submitted
    BY <1>2, <2>0, <2>1, <2>3 DEF WorkerTakes, QueueInv, TakenOff
  <2>5. state[t] = "pending"
    BY <2>0, <2>1, <2>3, <2>4 DEF StateInv
  <2>6. TypeOK'
    BY <1>2, <2>0, <2>1, <2>2, <2>3 DEF TypeOK, WorkerTakes, AtLoopTop
  <2>7. QueueInv'
    BY <1>2, <2>0, <2>1, <2>3 DEF QueueInv, WorkerTakes
  <2>8. SpawnedInv'
    <3>1. \A i \in 1..Len(spawned) : spawned[i] \in Nat /\ spawned[i] < t
      BY <2>0, <2>4, TaskNumbers DEF SpawnedInv, TypeOK
    <3> QED BY <1>2, <2>0, <2>2, <2>4, <2>5, <3>1, SMTT(20) DEF SpawnedInv, WorkerTakes
  <2>9. LineInv'
    <3>1. \A u \in Starts : \A i \in 1..Len(line[u]) : line[u][i] \in Nat /\ line[u][i] < t
      BY <2>0, <2>4, TaskNumbers, SMTT(20) DEF LineInv, TypeOK
    <3> QED BY <1>2, <2>0, <2>2, <2>4, <3>1 DEF LineInv, WorkerTakes
  <2>10. LinesInv' /\ SlotsAddUp'
    BY <1>2 DEF IInv, PipelineInv, LinesInv, SlotsAddUp, Holders, WorkerTakes
  <2>11. StateInv'
    BY <1>2, <2>0, <2>3, <2>4 DEF StateInv, WorkerTakes, Tasks
  <2>12. StartsInv'
    <3>1. s <= starts /\ starts # 0
      BY <1>2, <2>0, ExecutorAssumption, SMTT(20) DEF WorkerTakes, StartsInv, Starts, TypeOK
    <3> QED BY <1>2, <2>0, <3>1, ExecutorAssumption DEF StartsInv, WorkerTakes, TypeOK, Starts
  <2> QED BY <2>6, <2>7, <2>8, <2>9, <2>10, <2>11, <2>12 DEF IInv, PipelineInv
<1> QED BY <1>1, <1>2 DEF WorkerStep

----------------------------------------------------------------------------
(* The tasks' steps.                                                       *)

\* A task that stands nowhere else in the pipeline enters a semaphore with a
\* free slot: the slots of every semaphore still add up.
LEMMA EnterSlots ==
  ASSUME IInv, NEW t \in Tasks, NEW s \in Starts, s <= starts, free[s] > 0,
         state[t] = "pending", Enter(t, s), starts' = starts
  PROVE  /\ SlotsAddUp'
         /\ free' \in [Starts -> 0..MaxConcurrency]
         /\ slot' \in [Tasks -> 0..MaxStarts]
         /\ state' \in [Tasks -> {"new", "pending", "running", "done", "failed"}]
         /\ \A u \in Tasks : u # t => state'[u] = state[u] /\ slot'[u] = slot[u]
         /\ slot'[t] # 0 => state'[t] = "running"
         /\ slot'[t] <= starts
         /\ state'[t] \in {"running", "failed"}
<1>0. TypeOK /\ StateInv /\ SlotsAddUp /\ StartsInv /\ starts \in Nat /\ s \in Nat
  BY ExecutorAssumption DEF IInv, PipelineInv, TypeOK, Starts
<1>1. slot[t] = 0
  BY <1>0 DEF StateInv
<1>2. CASE t \in Known
  <2>1. /\ slot' = [slot EXCEPT ![t] = s] /\ free' = [free EXCEPT ![s] = @ - 1]
        /\ state' = [state EXCEPT ![t] = "running"]
    BY <1>2 DEF Enter
  <2>2. \A u \in Starts :
          Cardinality(Holders(u)') = Cardinality(Holders(u)) + (IF u = s THEN 1 ELSE 0)
    BY <1>0, <1>1, <2>1, EnterHolders
  <2>3. \A u \in Starts : free'[u] = free[u] - (IF u = s THEN 1 ELSE 0)
    BY <1>0, <2>1, ExecutorAssumption DEF TypeOK
  <2>4. \A u \in 1..starts : u \in Starts
    BY <1>0, ExecutorAssumption DEF TypeOK, Starts
  <2>5. ASSUME NEW u \in 1..starts
        PROVE  free'[u] + Cardinality(Holders(u)') = MaxConcurrency
    <3>1. free[u] \in Nat /\ Cardinality(Holders(u)) \in Nat /\ u \in Starts
      BY <1>0, <2>4, HoldersFinite, ExecutorAssumption DEF TypeOK
    <3>2. free[u] + Cardinality(Holders(u)) = MaxConcurrency
      BY <1>0 DEF SlotsAddUp
    <3> QED BY <2>2, <2>3, <3>1, <3>2
  <2>6. free[s] \in 0..MaxConcurrency /\ free[s] - 1 \in 0..MaxConcurrency
    BY <1>0, ExecutorAssumption DEF TypeOK
  <2>7. free' \in [Starts -> 0..MaxConcurrency]
    BY <1>0, <2>1, <2>6 DEF TypeOK
  <2>8. s \in 0..MaxStarts
    BY ExecutorAssumption DEF Starts
  <2>9. SlotsAddUp'
    BY <2>5 DEF SlotsAddUp
  <2> QED BY <1>0, <2>1, <2>7, <2>8, <2>9 DEF TypeOK
<1>3. CASE t \notin Known
  <2>1. slot' = slot /\ free' = free /\ state' = [state EXCEPT ![t] = "failed"]
    BY <1>3 DEF Enter
  <2>2. SlotsAddUp'
    BY <1>0, <2>1 DEF SlotsAddUp, Holders
  <2> QED BY <1>0, <1>1, <2>1, <2>2 DEF TypeOK
<1> QED BY <1>2, <1>3

LEMMA TaskArrivesStep == IInv /\ TaskArrives => IInv'
<1> SUFFICES ASSUME IInv, TaskArrives PROVE IInv'
  OBVIOUS
<1> DEFINE t == Head(spawned)
<1>0. TypeOK /\ QueueInv /\ SpawnedInv /\ LineInv /\ LinesInv /\ StateInv /\ StartsInv
  BY DEF IInv, PipelineInv
<1>1. /\ t \in Tasks /\ t = spawned[1]
      /\ spawned' \in Seq(Tasks) /\ Len(spawned) \in Nat /\ Len(spawned) >= 1
      /\ Len(spawned') = Len(spawned) - 1
      /\ \A i \in 1..Len(spawned') : i + 1 \in 1..Len(spawned) /\ spawned'[i] = spawned[i + 1]
  BY <1>0, TailFacts DEF TaskArrives, TypeOK
<1>2. state[t] = "pending" /\ t <= TakenOff /\ t \in Nat
  BY <1>0, <1>1 DEF SpawnedInv, Tasks
<1>3. starts \in Starts /\ starts \in Nat
  BY <1>0, ExecutorAssumption DEF TaskArrives, StartsInv, TypeOK, Starts
<1>4. UNCHANGED <<running, starts, stopper, submitted, queue, unfinished, worker>>
  BY DEF TaskArrives
<1>5. TakenOff' = TakenOff /\ QueueInv'
  BY <1>0, <1>4 DEF TakenOff, QueueInv
<1>6. \A i \in 1..Len(spawned') : spawned'[i] # t /\ t < spawned'[i]
  <2> TAKE i \in 1..Len(spawned')
  <2>1. spawned'[i] = spawned[i + 1] /\ 1 < i + 1 /\ i + 1 \in 1..Len(spawned) /\ 1 \in 1..Len(spawned)
    BY <1>1
  <2>2. spawned[1] < spawned[i + 1]
    BY <1>0, <2>1 DEF SpawnedInv
  <2>3. spawned[i + 1] \in Nat
    BY <1>0, <2>1, TaskNumbers DEF TypeOK
  <2> QED BY <1>1, <1>2, <2>1, <2>2, <2>3
<1>7. \A s \in Starts : \A i \in 1..Len(line[s]) : line[s][i] < t /\ line[s][i] # t /\ line[s][i] \in Tasks
  <2> TAKE s \in Starts
  <2> TAKE i \in 1..Len(line[s])
  <2>1. line[s][i] \in Tasks /\ line[s][i] \in Nat
    BY <1>0, TaskNumbers DEF TypeOK
  <2>2. line[s][i] < spawned[1]
    BY <1>0, <1>1 DEF LineInv
  <2> QED BY <1>1, <1>2, <2>1, <2>2
<1>8. \A i, j \in 1..Len(spawned') : i < j => spawned'[i] < spawned'[j]
  BY <1>0, <1>1 DEF SpawnedInv
<1>9. \A i \in 1..Len(spawned') : spawned'[i] <= TakenOff /\ state[spawned'[i]] = "pending"
                                 /\ spawned'[i] \in Tasks
  BY <1>0, <1>1, ElementOfSeq, SMTT(20) DEF SpawnedInv, TypeOK
<1>10. \A s \in Starts : \A i \in 1..Len(line[s]), j \in 1..Len(spawned') : line[s][i] < spawned'[j]
  BY <1>0, <1>1 DEF LineInv
<1>11. CASE EntersAtOnce(starts)
  <2>1. line' = line /\ Enter(t, starts) /\ free[starts] > 0
    BY <1>11 DEF TaskArrives, EntersAtOnce
  <2>2. /\ SlotsAddUp'
        /\ free' \in [Starts -> 0..MaxConcurrency]
        /\ slot' \in [Tasks -> 0..MaxStarts]
        /\ state' \in [Tasks -> {"new", "pending", "running", "done", "failed"}]
        /\ \A u \in Tasks : u # t => state'[u] = state[u] /\ slot'[u] = slot[u]
        /\ slot'[t] # 0 => state'[t] = "running"
        /\ slot'[t] <= starts
    BY <1>1, <1>2, <1>3, <1>4, <2>1, EnterSlots
  <2>3. TypeOK'
    BY <1>0, <1>1, <1>4, <2>1, <2>2 DEF TypeOK
  <2>4. SpawnedInv'
    BY <1>5, <1>6, <1>8, <1>9, <2>2 DEF SpawnedInv
  <2>5. LineInv'
    BY <1>0, <1>5, <1>7, <1>10, <2>1, <2>2 DEF LineInv
  <2>6. LinesInv'
    BY <1>0, <2>1 DEF LinesInv
  <2>7. StateInv'
    BY <1>0, <1>1, <1>2, <1>4, <1>5, <2>2, SMTT(20) DEF StateInv, QueueInv, TypeOK, TakenOff
  <2>8. StartsInv'
    BY <1>0, <1>3, <1>4, <2>1, <2>2 DEF StartsInv, Starts
  <2> QED BY <1>5, <2>2, <2>3, <2>4, <2>5, <2>6, <2>7, <2>8 DEF IInv, PipelineInv
<1>12. CASE ~EntersAtOnce(starts)
  <2>1. line' = [line EXCEPT ![starts] = Append(@, t)] /\ UNCHANGED <<free, slot, state>>
    BY <1>12 DEF TaskArrives
  <2>2. /\ line'[starts] \in Seq(Tasks) /\ Len(line[starts]) \in Nat
        /\ Len(line'[starts]) = Len(line[starts]) + 1
        /\ \A i \in 1..Len(line[starts]) : line'[starts][i] = line[starts][i]
        /\ line'[starts][Len(line[starts]) + 1] = t
    BY <1>0, <1>1, <1>3, <2>1, AppendFacts DEF TypeOK
  <2>3. \A s \in Starts : s # starts => line'[s] = line[s]
    BY <1>0, <2>1 DEF TypeOK
  <2>4. TypeOK'
    BY <1>0, <1>1, <1>4, <2>1, <2>2 DEF TypeOK
  <2>5. SpawnedInv'
    BY <1>5, <1>8, <1>9, <2>1 DEF SpawnedInv
  <2>6. LineInv'
    <3> SUFFICES ASSUME NEW s \in Starts
        PROVE  /\ \A i \in 1..Len(line'[s]) :
                    line'[s][i] <= TakenOff /\ state[line'[s][i]] = "pending"
               /\ \A i, j \in 1..Len(line'[s]) : i < j => line'[s][i] < line'[s][j]
               /\ \A i \in 1..Len(line'[s]), j \in 1..Len(spawned') : line'[s][i] < spawned'[j]
      BY <1>5, <2>1 DEF LineInv
    <3>1. CASE s # starts
      BY <1>0, <1>10, <2>3, <3>1 DEF LineInv
    <3>2. CASE s = starts
      <4> DEFINE n == Len(line[starts])
      <4>1. \A i \in 1..Len(line'[starts]) : i \in 1..n \/ i = n + 1
        BY <2>2
      <4>2. \A i \in 1..Len(line'[starts]) :
              line'[starts][i] <= TakenOff /\ state[line'[starts][i]] = "pending"
        <5> TAKE i \in 1..Len(line'[starts])
        <5>1. CASE i \in 1..n
          <6>1. line'[starts][i] = line[starts][i]
            BY <2>2, <5>1
          <6>2. line[starts][i] <= TakenOff /\ state[line[starts][i]] = "pending"
            BY <1>0, <1>3, <5>1 DEF LineInv
          <6> QED BY <6>1, <6>2
        <5>2. CASE i = n + 1
          BY <1>0, <1>2, <1>3, <2>2, <5>2
        <5> QED BY <4>1, <5>1, <5>2
      <4>3. ASSUME NEW i \in 1..Len(line'[starts]), NEW j \in 1..Len(line'[starts]), i < j
            PROVE  line'[starts][i] < line'[starts][j]
        <5>1. i \in 1..n
          BY <2>2, <4>3
        <5>2. CASE j = n + 1
          BY <1>3, <1>7, <2>2, <5>1, <5>2
        <5>3. CASE j \in 1..n
          BY <1>0, <1>3, <2>2, <4>3, <5>1, <5>3 DEF LineInv
        <5> QED BY <4>1, <5>2, <5>3
      <4>4. ASSUME NEW i \in 1..Len(line'[starts]), NEW j \in 1..Len(spawned')
            PROVE  line'[starts][i] < spawned'[j]
        BY <1>3, <1>6, <1>10, <2>2, <4>1
      <4> QED BY <3>2, <4>2, <4>3, <4>4
    <3> QED BY <3>1, <3>2
  <2>7. LinesInv'
    <3> SUFFICES ASSUME NEW s \in Starts, NEW u \in Starts, s < u,
                        NEW i \in 1..Len(line'[s]), NEW j \in 1..Len(line'[u])
        PROVE  line'[s][i] < line'[u][j]
      BY DEF LinesInv
    <3>1. CASE s = starts
      <4>1. line'[u] = <<>>
        BY <1>0, <1>3, <2>3, <3>1 DEF StartsInv, Starts
      <4> QED BY <4>1
    <3>2. CASE u = starts
      <4>1. line'[s] = line[s] /\ s < starts
        BY <1>3, <2>3, <3>2 DEF Starts
      <4>2. CASE j \in 1..Len(line[starts])
        <5>1. i \in 1..Len(line[s])
          BY <4>1
        <5>2. line[s][i] < line[starts][j]
          BY <1>0, <1>3, <4>1, <4>2, <5>1 DEF LinesInv
        <5> QED BY <2>2, <3>2, <4>1, <4>2, <5>2
      <4>3. CASE j = Len(line[starts]) + 1
        BY <1>7, <2>2, <3>2, <4>1, <4>3
      <4> QED BY <2>2, <3>2, <4>2, <4>3
    <3>3. CASE s # starts /\ u # starts
      BY <1>0, <2>3, <3>3 DEF LinesInv
    <3> QED BY <3>1, <3>2, <3>3
  <2>8. StateInv' /\ SlotsAddUp'
    BY <1>0, <1>4, <1>5, <2>1 DEF IInv, StateInv, SlotsAddUp, Holders
  <2>9. StartsInv'
    BY <1>0, <1>3, <1>4, <2>1, <2>3 DEF StartsInv, Starts
  <2> QED BY <1>5, <2>4, <2>5, <2>6, <2>7, <2>8, <2>9 DEF IInv, PipelineInv
<1> QED BY <1>11, <1>12

LEMMA WaiterEntersStep == ASSUME NEW s \in Starts PROVE IInv /\ WaiterEnters(s) => IInv'
<1> SUFFICES ASSUME IInv, WaiterEnters(s) PROVE IInv'
  OBVIOUS
<1> DEFINE t == Head(line[s])
<1>0. TypeOK /\ QueueInv /\ SpawnedInv /\ LineInv /\ LinesInv /\ StateInv /\ StartsInv
  BY DEF IInv, PipelineInv
<1>1. /\ t \in Tasks /\ t = line[s][1]
      /\ Tail(line[s]) \in Seq(Tasks) /\ Len(line[s]) \in Nat /\ Len(line[s]) >= 1
      /\ Len(Tail(line[s])) = Len(line[s]) - 1
      /\ \A i \in 1..Len(Tail(line[s])) :
            i + 1 \in 1..Len(line[s]) /\ Tail(line[s])[i] = line[s][i + 1]
  BY <1>0, TailFacts DEF WaiterEnters, TypeOK
<1>2. state[t] = "pending" /\ t <= TakenOff /\ t \in Nat
  BY <1>0, <1>1, TaskNumbers DEF LineInv
<1>3. s <= starts /\ starts \in Nat /\ s \in Nat
  BY <1>0, ExecutorAssumption DEF WaiterEnters, StartsInv, TypeOK, Starts
<1>4. /\ UNCHANGED <<running, starts, stopper, submitted, queue, unfinished, worker, spawned>>
      /\ Enter(t, s) /\ free[s] > 0
      /\ line' = [line EXCEPT ![s] = Tail(line[s])]
  BY DEF WaiterEnters
<1>5. TakenOff' = TakenOff /\ QueueInv'
  BY <1>0, <1>4 DEF TakenOff, QueueInv
<1>6. /\ SlotsAddUp'
      /\ free' \in [Starts -> 0..MaxConcurrency]
      /\ slot' \in [Tasks -> 0..MaxStarts]
      /\ state' \in [Tasks -> {"new", "pending", "running", "done", "failed"}]
      /\ \A u \in Tasks : u # t => state'[u] = state[u] /\ slot'[u] = slot[u]
      /\ slot'[t] # 0 => state'[t] = "running"
      /\ slot'[t] <= starts
  BY <1>1, <1>2, <1>3, <1>4, EnterSlots
<1>7. TypeOK'
  BY <1>0, <1>1, <1>4, <1>6 DEF TypeOK
<1>8. line'[s] = Tail(line[s]) /\ \A u \in Starts : u # s => line'[u] = line[u]
  BY <1>0, <1>4 DEF TypeOK
\* Whoever stands in a line or is spawned is not t, or stood behind it.
<1>9. \A u \in Starts : \A i \in 1..Len(line'[u]) :
        /\ line'[u][i] \in Tasks /\ line'[u][i] # t
        /\ \E k \in 1..Len(line[u]) : line'[u][i] = line[u][k] /\ k = (IF u = s THEN i + 1 ELSE i)
  <2> SUFFICES ASSUME NEW u \in Starts, NEW i \in 1..Len(line'[u])
      PROVE  /\ line'[u][i] \in Tasks /\ line'[u][i] # t
             /\ \E k \in 1..Len(line[u]) :
                  line'[u][i] = line[u][k] /\ k = (IF u = s THEN i + 1 ELSE i)
    OBVIOUS
  <2>1. CASE u = s
    <3>1. i + 1 \in 1..Len(line[s]) /\ line'[s][i] = line[s][i + 1] /\ 1 \in 1..Len(line[s]) /\ 1 < i + 1
      <4>1. line'[u] = Tail(line[s]) /\ i \in 1..Len(Tail(line[s]))
        BY <1>8, <2>1
      <4> QED BY <1>1, <1>8, <4>1
    <3>2. line[s][1] < line[s][i + 1] /\ line[s][i + 1] \in Nat /\ line[s][i + 1] \in Tasks
      BY <1>0, <3>1, TaskNumbers DEF LineInv, TypeOK
    <3> QED BY <1>1, <1>2, <2>1, <3>1, <3>2
  <2>2. CASE u # s
    <3>1. line'[u] = line[u] /\ line[u][i] \in Tasks /\ line[u][i] \in Nat
      BY <1>0, <1>8, <2>2, TaskNumbers DEF TypeOK
    <3>2. u < s \/ s < u
      BY <2>2, ExecutorAssumption DEF Starts
    <3>3. line[u][i] # line[s][1]
      BY <1>0, <1>1, <1>2, <3>1, <3>2 DEF LinesInv
    <3> QED BY <1>1, <2>2, <3>1, <3>3
  <2> QED BY <2>1, <2>2
<1>10. \A i \in 1..Len(spawned) : spawned[i] \in Tasks /\ spawned[i] # t
  <2> TAKE i \in 1..Len(spawned)
  <2>1. line[s][1] < spawned[i]
    BY <1>0, <1>1 DEF LineInv
  <2>2. spawned[i] \in Nat /\ spawned[i] \in Tasks
    BY <1>0, TaskNumbers DEF TypeOK
  <2> QED BY <1>1, <1>2, <2>1, <2>2
<1>11. SpawnedInv'
  BY <1>0, <1>4, <1>5, <1>6, <1>10 DEF SpawnedInv
<1>12. LineInv'
  <2> SUFFICES ASSUME NEW u \in Starts
      PROVE  /\ \A i \in 1..Len(line'[u]) :
                  line'[u][i] <= TakenOff /\ state'[line'[u][i]] = "pending"
             /\ \A i, j \in 1..Len(line'[u]) : i < j => line'[u][i] < line'[u][j]
             /\ \A i \in 1..Len(line'[u]), j \in 1..Len(spawned) : line'[u][i] < spawned[j]
    BY <1>4, <1>5 DEF LineInv
  <2>1. \A i \in 1..Len(line'[u]) : line'[u][i] <= TakenOff /\ state'[line'[u][i]] = "pending"
    <3> TAKE i \in 1..Len(line'[u])
    <3>1. PICK k \in 1..Len(line[u]) : line'[u][i] = line[u][k]
      BY <1>9
    <3>2. line[u][k] <= TakenOff /\ state[line[u][k]] = "pending"
      BY <1>0 DEF LineInv
    <3>3. line'[u][i] \in Tasks /\ line'[u][i] # t
      BY <1>9
    <3> QED BY <1>6, <3>1, <3>2, <3>3
  <2>2. ASSUME NEW i \in 1..Len(line'[u]), NEW j \in 1..Len(line'[u]), i < j
        PROVE  line'[u][i] < line'[u][j]
    <3>1. PICK k \in 1..Len(line[u]) : line'[u][i] = line[u][k] /\ k = (IF u = s THEN i + 1 ELSE i)
      BY <1>9
    <3>2. PICK l \in 1..Len(line[u]) : line'[u][j] = line[u][l] /\ l = (IF u = s THEN j + 1 ELSE j)
      BY <1>9
    <3>3. k < l
      BY <2>2, <3>1, <3>2
    <3> QED BY <1>0, <3>1, <3>2, <3>3 DEF LineInv
  <2>3. \A i \in 1..Len(line'[u]), j \in 1..Len(spawned) : line'[u][i] < spawned[j]
    BY <1>0, <1>9 DEF LineInv
  <2> QED BY <2>1, <2>2, <2>3
<1>13. LinesInv'
  <2> SUFFICES ASSUME NEW u \in Starts, NEW v \in Starts, u < v,
                      NEW i \in 1..Len(line'[u]), NEW j \in 1..Len(line'[v])
      PROVE  line'[u][i] < line'[v][j]
    BY DEF LinesInv
  <2>1. PICK k \in 1..Len(line[u]) : line'[u][i] = line[u][k]
    BY <1>9
  <2>2. PICK l \in 1..Len(line[v]) : line'[v][j] = line[v][l]
    BY <1>9
  <2> QED BY <1>0, <2>1, <2>2 DEF LinesInv
<1>14. StateInv'
  <2> SUFFICES ASSUME NEW u \in Tasks
      PROVE  /\ u > submitted => state'[u] = "new"
             /\ TakenOff < u /\ u <= submitted => state'[u] = "pending"
             /\ slot'[u] # 0 => state'[u] = "running"
    BY <1>4, <1>5 DEF StateInv
  <2>1. CASE u = t
    <3>1. TakenOff <= submitted /\ TakenOff \in Nat /\ submitted \in Nat
      BY <1>0, ExecutorAssumption DEF QueueInv, TypeOK, TakenOff
    <3> QED BY <1>2, <1>6, <2>1, <3>1
  <2>2. CASE u # t
    BY <1>0, <1>6, <2>2 DEF StateInv
  <2> QED BY <2>1, <2>2
<1>15. StartsInv'
  <2>1. \A u \in Starts : u > starts => worker'[u] = "none" /\ line'[u] = <<>>
    <3> SUFFICES ASSUME NEW u \in Starts, u > starts PROVE worker[u] = "none" /\ line'[u] = <<>>
      BY <1>4
    <3>1. u # s
      BY <1>3
    <3> QED BY <1>0, <1>8, <3>1 DEF StartsInv
  <2>2. \A u \in Tasks : slot'[u] <= starts
    BY <1>0, <1>6 DEF StartsInv
  <2> QED BY <1>0, <1>4, <2>1, <2>2 DEF StartsInv
<1> QED BY <1>5, <1>6, <1>7, <1>11, <1>12, <1>13, <1>14, <1>15 DEF IInv, PipelineInv

LEMMA TaskEndsStep == ASSUME NEW t \in Tasks PROVE IInv /\ TaskEnds(t) => IInv'
<1> SUFFICES ASSUME IInv, TaskEnds(t) PROVE IInv'
  OBVIOUS
<1>0. TypeOK /\ QueueInv /\ SpawnedInv /\ LineInv /\ LinesInv /\ StateInv /\ StartsInv /\ SlotsAddUp
  BY DEF IInv, PipelineInv
<1>1. /\ slot[t] # 0 /\ slot' = [slot EXCEPT ![t] = 0]
      /\ free' = [free EXCEPT ![slot[t]] = @ + 1]
      /\ UNCHANGED <<running, starts, stopper, submitted, queue, unfinished, worker, spawned, line>>
  BY DEF TaskEnds, Release
<1>2. /\ state[t] = "running"
      /\ state' \in [Tasks -> {"new", "pending", "running", "done", "failed"}]
      /\ state'[t] # "pending" /\ \A u \in Tasks : u # t => state'[u] = state[u]
  <2>1. state[t] = "running"
    BY <1>0, <1>1 DEF StateInv
  <2>2. PICK e \in Endings : state' = [state EXCEPT ![t] = IF e = "cancelled" THEN @ ELSE e]
    BY DEF TaskEnds
  <2>3. e \in {"done", "failed", "cancelled"}
    BY ExecutorAssumption
  <2> QED BY <1>0, <2>1, <2>2, <2>3 DEF TypeOK
<1>3. /\ slot[t] \in Starts
      /\ \A u \in Starts :
           Cardinality(Holders(u)') = Cardinality(Holders(u)) - (IF u = slot[t] THEN 1 ELSE 0)
      /\ Cardinality(Holders(slot[t])) >= 1
  BY <1>0, <1>1, ReleaseHolders
<1>4. slot[t] \in 1..starts
  BY <1>0, <1>3, ExecutorAssumption DEF StartsInv, TypeOK, Starts
<1>5. free[slot[t]] + 1 \in 0..MaxConcurrency
  <2>1. free[slot[t]] + Cardinality(Holders(slot[t])) = MaxConcurrency
    BY <1>0, <1>4 DEF SlotsAddUp
  <2>2. free[slot[t]] \in Nat /\ Cardinality(Holders(slot[t])) \in Nat
    BY <1>0, <1>3, HoldersFinite, ExecutorAssumption DEF TypeOK
  <2> QED BY <1>3, <2>1, <2>2, ExecutorAssumption
<1>6. 0 \in 0..MaxStarts /\ 0 <= starts
  BY <1>0, ExecutorAssumption DEF TypeOK
<1>7. TypeOK'
  BY <1>0, <1>1, <1>2, <1>3, <1>5, <1>6 DEF TypeOK
<1>8. QueueInv' /\ TakenOff' = TakenOff
  BY <1>0, <1>1 DEF QueueInv, TakenOff
<1>9. SpawnedInv'
  BY <1>0, <1>1, <1>2, <1>8, TaskNumbers DEF SpawnedInv, TypeOK
<1>10. LineInv'
  BY <1>0, <1>1, <1>2, <1>8, TaskNumbers DEF LineInv, TypeOK
<1>11. LinesInv'
  BY <1>0, <1>1 DEF LinesInv
<1>12. StateInv'
  BY <1>0, <1>1, <1>2, <1>8 DEF StateInv, TypeOK
<1>13. StartsInv'
  BY <1>0, <1>1, <1>6 DEF StartsInv, TypeOK
<1>14. ASSUME NEW u \in 1..starts
       PROVE  free'[u] + Cardinality(Holders(u)') = MaxConcurrency
  <2>1. u \in Starts /\ free[u] + Cardinality(Holders(u)) = MaxConcurrency
    BY <1>0, ExecutorAssumption DEF SlotsAddUp, TypeOK, Starts
  <2>2. free[u] \in Nat /\ Cardinality(Holders(u)) \in Nat
    BY <1>0, <2>1, HoldersFinite, ExecutorAssumption DEF TypeOK
  <2>3. free'[u] = free[u] + (IF u = slot[t] THEN 1 ELSE 0)
    BY <1>0, <1>1, <1>3, <2>1 DEF TypeOK
  <2> QED BY <1>3, <2>1, <2>2, <2>3
<1>15. SlotsAddUp'
  BY <1>1, <1>14 DEF SlotsAddUp
<1> QED BY <1>7, <1>8, <1>9, <1>10, <1>11, <1>12, <1>13, <1>15 DEF IInv, PipelineInv

----------------------------------------------------------------------------
(* The theorems.                                                           *)

LEMMA NextIInv == IInv /\ [Next]_vars => IInv'
<1> SUFFICES ASSUME IInv, [Next]_vars PROVE IInv'
  OBVIOUS
<1>1. CASE UNCHANGED vars
  BY <1>1 DEF vars, poolVars, IInv, TypeOK, PipelineInv, QueueInv, SpawnedInv, LineInv, LinesInv,
     StateInv, StartsInv, SlotsAddUp, Holders, TakenOff
<1>2. CASE Next
  BY <1>2, SubmitStep, StartStep, StopSteps, WorkerStepInv, TaskArrivesStep, WaiterEntersStep,
     TaskEndsStep DEF Next
<1> QED BY <1>1, <1>2

LEMMA SpecIInv == Spec => []IInv
BY InitIInv, NextIInv, PTL DEF Spec

\* Type correctness of the executor.
THEOREM TypeCorrect == Spec => []TypeOK
BY SpecIInv, PTL DEF IInv

\* No slot of any semaphore is lost or made, whatever the functions do and
\* however often the executor is started (async with self._semaphore).
THEOREM SlotsAreConserved == Spec => []SlotsConserved
<1>1. IInv => SlotsConserved
  <2> SUFFICES ASSUME IInv, NEW s \in 1..starts
      PROVE  /\ free[s] + Cardinality(Holders(s)) = MaxConcurrency
             /\ Cardinality(Holders(s)) <= MaxConcurrency
    BY DEF SlotsConserved
  <2>1. TypeOK /\ s \in Starts /\ free[s] + Cardinality(Holders(s)) = MaxConcurrency
    <3>1. TypeOK /\ free[s] + Cardinality(Holders(s)) = MaxConcurrency
      BY DEF IInv, SlotsAddUp
    <3>2. starts \in 0..MaxStarts /\ MaxStarts \in Nat
      BY <3>1, ExecutorAssumption DEF TypeOK
    <3> QED BY <3>1, <3>2 DEF Starts
  <2>2. free[s] \in Nat /\ Cardinality(Holders(s)) \in Nat
    BY <2>1, HoldersFinite, ExecutorAssumption DEF TypeOK
  <2> QED BY <2>1, <2>2, ExecutorAssumption
<1> QED BY <1>1, SpecIInv, PTL

\* An executor that was started at most once runs at most max_concurrency
\* tasks simultaneously, as its documentation says.
THEOREM ConcurrencyIsBounded == Spec => []BoundedByOneStart
<1>1. IInv => BoundedByOneStart
  <2> SUFFICES ASSUME IInv, starts <= 1 PROVE Cardinality(Executing) <= MaxConcurrency
    BY DEF BoundedByOneStart, ConcurrencyBounded
  <2>0. TypeOK /\ StartsInv /\ SlotsAddUp
    BY DEF IInv, PipelineInv
  <2>1. CASE starts = 0
    <3>1. Executing = {}
      BY <2>0, <2>1 DEF Executing, StartsInv, TypeOK
    <3> QED BY <3>1, FS_EmptySet, ExecutorAssumption
  <2>2. CASE starts = 1
    <3>1. Executing = Holders(1)
      BY <2>0, <2>2, SMTT(20) DEF Executing, Holders, StartsInv, TypeOK
    <3>2. free[1] + Cardinality(Holders(1)) = MaxConcurrency
      BY <2>0, <2>2 DEF SlotsAddUp
    <3>3. free[1] \in Nat /\ Cardinality(Holders(1)) \in Nat
      BY <2>0, <2>2, HoldersFinite, ExecutorAssumption DEF TypeOK, Starts
    <3> QED BY <3>1, <3>2, <3>3, ExecutorAssumption
  <2> QED BY <2>0, <2>1, <2>2 DEF TypeOK
<1> QED BY <1>1, SpecIInv, PTL

----------------------------------------------------------------------------
(* Tasks are begun in the order of submission.                             *)

\* A task that waits for a semaphore, or to run for the first time.
Waits(t) ==
  \/ \E i \in 1..Len(spawned) : spawned[i] = t
  \/ \E s \in Starts : \E i \in 1..Len(line[s]) : line[s][i] = t

\* No task is lost between the queue and a semaphore.
PlacedInv == \A t \in Tasks : state[t] = "pending" /\ t <= TakenOff => Waits(t)

OrderInv == PlacedInv /\ BegunInOrder

\* The head of a line and, when nobody stands in one, the first spawned task is
\* the earliest that waits for it.
LEMMA EarliestFirst ==
  ASSUME IInv, PlacedInv, starts <= 1, NEW t \in Tasks, state[t] = "pending",
         NEW u \in Tasks, u < t, state[u] = "pending",
         \/ spawned # <<>> /\ t = spawned[1] /\ line[starts] = <<>>
         \/ \E s \in Starts : line[s] # <<>> /\ t = line[s][1]
  PROVE  FALSE
<1>0. TypeOK /\ QueueInv /\ SpawnedInv /\ LineInv /\ LinesInv /\ StateInv /\ StartsInv
  BY DEF IInv, PipelineInv
<1>1. /\ \A s \in Starts : Len(line[s]) \in Nat /\ (line[s] # <<>> => s = 1 /\ starts = 1)
      /\ Len(spawned) \in Nat /\ starts \in Nat /\ u \in Nat /\ t \in Nat
      /\ (spawned # <<>> => starts = 1)
  <2>1. starts \in Nat /\ u \in Nat /\ t \in Nat /\ Len(spawned) \in Nat
    BY <1>0, ExecutorAssumption, LenProperties DEF TypeOK, Tasks
  <2>2. \A s \in Starts : Len(line[s]) \in Nat
    BY <1>0, LenProperties DEF TypeOK
  <2>3. starts = 0 \/ starts = 1
    BY <2>1
  <2>4. \A s \in Starts : line[s] # <<>> => s = 1 /\ starts = 1
    <3> SUFFICES ASSUME NEW s \in Starts, line[s] # <<>> PROVE s = 1 /\ starts = 1
      OBVIOUS
    <3>1. ~(s > starts)
      BY <1>0 DEF StartsInv
    <3>2. s \in Nat /\ s >= 1
      BY ExecutorAssumption DEF Starts
    <3> QED
      BY <2>3, <3>1, <3>2
  <2> QED
    BY <1>0, <2>1, <2>2, <2>3, <2>4 DEF StartsInv
<1>2. t <= TakenOff
  BY <1>0, <1>1, TaskNumbers, EmptySeq DEF SpawnedInv, LineInv, TypeOK
<1>3. TakenOff \in Nat
  BY <1>0, ExecutorAssumption DEF TakenOff, QueueInv, TypeOK
<1>4. Waits(u)
  BY <1>1, <1>2, <1>3 DEF PlacedInv
<1>5. \A q \in Seq(Tasks) : q # <<>> => 1 \in 1..Len(q)
  BY EmptySeq, LenProperties
<1>6. CASE \E i \in 1..Len(spawned) : spawned[i] = u
  <2>1. PICK i \in 1..Len(spawned) : spawned[i] = u
    BY <1>6
  <2>2. CASE spawned # <<>> /\ t = spawned[1]
    BY <1>0, <1>1, <1>5, <2>1, <2>2 DEF SpawnedInv, TypeOK
  <2>3. CASE \E s \in Starts : line[s] # <<>> /\ t = line[s][1]
    BY <1>0, <1>1, <1>5, <2>1, <2>3 DEF LineInv, TypeOK
  <2> QED
    BY <2>2, <2>3
<1>7. CASE \E s \in Starts : \E i \in 1..Len(line[s]) : line[s][i] = u
  <2>1. PICK s \in Starts : \E i \in 1..Len(line[s]) : line[s][i] = u
    BY <1>7
  <2>2. PICK i \in 1..Len(line[s]) : line[s][i] = u
    BY <2>1
  <2>3. line[s] # <<>> /\ s = 1 /\ starts = 1
    BY <1>1, <2>2
  <2>4. t = line[s][1] /\ 1 \in 1..Len(line[s])
    BY <1>0, <1>1, <1>5, <2>3 DEF TypeOK
  <2> QED
    BY <1>0, <1>1, <2>2, <2>4, SMTT(20) DEF LineInv
<1> QED
  BY <1>4, <1>6, <1>7 DEF Waits

\* A task that leaves the head of its line, or the spawned tasks, keeps the
\* order: every other task stands where it stood.
LEMMA LeavesKeepsOrder ==
  ASSUME IInv, OrderInv, NEW t \in Tasks, state[t] = "pending", state'[t] # "pending",
         UNCHANGED <<submitted, unfinished, starts>>,
         \A u \in Tasks : u # t => state'[u] = state[u],
         \A u \in Tasks : u # t /\ Waits(u) => Waits(u)',
         \/ spawned # <<>> /\ t = spawned[1] /\ line[starts] = <<>>
         \/ \E s \in Starts : line[s] # <<>> /\ t = line[s][1]
  PROVE  OrderInv'
<1>1. PlacedInv'
  BY DEF OrderInv, PlacedInv, TakenOff
<1>2. BegunInOrder'
  <2> SUFFICES ASSUME starts <= 1, NEW v \in 1..submitted, NEW u \in 1..submitted,
                      v < u, state'[u] # "pending"
               PROVE  state'[v] # "pending"
    BY DEF BegunInOrder
  <2>1. u \in Tasks /\ v \in Tasks
    BY ExecutorAssumption DEF IInv, TypeOK, Tasks
  <2>2. CASE u = t
    <3>1. state[v] # "pending"
      BY <2>1, <2>2, EarliestFirst DEF OrderInv
    <3> QED
      BY <2>1, <2>2, <3>1
  <2>3. CASE u # t
    BY <2>1, <2>3 DEF OrderInv, BegunInOrder
  <2> QED
    BY <2>2, <2>3
<1> QED
  BY <1>1, <1>2 DEF OrderInv

LEMMA InitOrder == Init => OrderInv
BY ExecutorAssumption DEF Init, OrderInv, PlacedInv, BegunInOrder, TakenOff, Tasks

LEMMA SubmitOrder == IInv /\ OrderInv /\ Submit => OrderInv'
<1> SUFFICES ASSUME IInv, OrderInv, Submit PROVE OrderInv'
  OBVIOUS
<1>0. TypeOK /\ QueueInv /\ StateInv
  BY DEF IInv, PipelineInv
<1>1. /\ submitted \in Nat /\ submitted' = submitted + 1 /\ submitted + 1 \in Tasks
      /\ unfinished \in Nat /\ unfinished' = unfinished + 1 /\ unfinished <= submitted
      /\ state' = [state EXCEPT ![submitted + 1] = "pending"]
      /\ UNCHANGED <<starts, spawned, line>>
  BY <1>0, ExecutorAssumption DEF Submit, poolVars, TypeOK, QueueInv, Tasks
<1>2. PlacedInv'
  <2> SUFFICES ASSUME NEW t \in Tasks, state'[t] = "pending", t <= TakenOff'
               PROVE  Waits(t)'
    BY DEF PlacedInv
  <2>1. t # submitted + 1 /\ t <= TakenOff
    BY <1>1 DEF TakenOff
  <2>2. Waits(t)
    BY <1>0, <1>1, <2>1 DEF OrderInv, PlacedInv, TypeOK
  <2> QED
    BY <1>1, <2>2 DEF Waits
<1>3. BegunInOrder'
  <2> SUFFICES ASSUME starts <= 1, NEW t \in 1..(submitted + 1), NEW u \in 1..(submitted + 1),
                      t < u, state'[u] # "pending"
               PROVE  state'[t] # "pending"
    BY <1>1 DEF BegunInOrder
  <2>1. u \in Tasks /\ t \in Tasks
    BY <1>1, ExecutorAssumption DEF Tasks
  <2>2. u # submitted + 1
    BY <1>0, <1>1 DEF TypeOK
  <2>3. u \in 1..submitted /\ t \in 1..submitted /\ t # submitted + 1
    BY <1>1, <2>2
  <2> QED
    BY <1>0, <1>1, <2>1, <2>2, <2>3 DEF OrderInv, BegunInOrder, TypeOK
<1> QED
  BY <1>2, <1>3 DEF OrderInv

LEMMA WorkerTakesOrder ==
  ASSUME NEW s \in Starts
  PROVE  IInv /\ OrderInv /\ WorkerTakes(s) => OrderInv'
<1> SUFFICES ASSUME IInv, OrderInv, WorkerTakes(s) PROVE OrderInv'
  OBVIOUS
<1>0. TypeOK /\ QueueInv
  BY DEF IInv, PipelineInv
<1>1. /\ submitted \in Nat /\ unfinished \in Nat /\ unfinished <= submitted
      /\ unfinished' = unfinished - 1 /\ spawned' = Append(spawned, Head(queue))
      /\ UNCHANGED <<submitted, starts, state, line>>
  BY <1>0, ExecutorAssumption DEF WorkerTakes, TypeOK, QueueInv
<1>2. PICK t \in Tasks : t = Head(queue) /\ t = TakenOff + 1
  <2>1. Head(queue) \in Tasks /\ Head(queue) = queue[1] /\ Len(queue) >= 1 /\ Len(queue) \in Nat
    BY <1>0, TailFacts DEF WorkerTakes, TypeOK
  <2> QED
    BY <1>0, <1>1, <2>1 DEF QueueInv, TakenOff
<1>3. /\ Len(spawned) \in Nat /\ Len(spawned') = Len(spawned) + 1
      /\ \A i \in 1..Len(spawned) : spawned'[i] = spawned[i]
      /\ spawned'[Len(spawned) + 1] = t
  BY <1>0, <1>1, <1>2, AppendFacts DEF TypeOK
<1>4. \A u \in Tasks : Waits(u) => Waits(u)'
  BY <1>1, <1>3 DEF Waits
<1>5. Waits(t)'
  <2>1. Len(spawned) + 1 \in 1..Len(spawned')
    BY <1>3
  <2> QED
    BY <1>3, <2>1 DEF Waits
<1>6. PlacedInv'
  <2> SUFFICES ASSUME NEW u \in Tasks, state[u] = "pending", u <= TakenOff' PROVE Waits(u)'
    BY <1>1 DEF PlacedInv
  <2>1. u \in Nat /\ (u <= TakenOff \/ u = TakenOff + 1)
    BY <1>1, TaskNumbers DEF TakenOff
  <2> QED
    BY <1>2, <1>4, <1>5, <2>1 DEF OrderInv, PlacedInv
<1> QED
  BY <1>1, <1>6 DEF OrderInv, BegunInOrder

LEMMA TaskArrivesOrder == IInv /\ OrderInv /\ TaskArrives => OrderInv'
<1> SUFFICES ASSUME IInv, OrderInv, TaskArrives PROVE OrderInv'
  OBVIOUS
<1> DEFINE t == Head(spawned)
<1>0. TypeOK /\ SpawnedInv /\ StartsInv
  BY DEF IInv, PipelineInv
<1>1. /\ t \in Tasks /\ t = spawned[1] /\ spawned # <<>> /\ spawned' = Tail(spawned)
      /\ Len(spawned) \in Nat /\ Len(spawned) >= 1
      /\ Len(Tail(spawned)) = Len(spawned) - 1
      /\ \A i \in 1..Len(Tail(spawned)) : Tail(spawned)[i] = spawned[i + 1]
      /\ UNCHANGED <<submitted, unfinished, starts>>
  BY <1>0, TailFacts DEF TaskArrives, TypeOK
<1>2. starts \in Starts /\ line[starts] \in Seq(Tasks) /\ state[t] = "pending"
  BY <1>0, <1>1, ExecutorAssumption DEF StartsInv, SpawnedInv, TypeOK, Starts
\* Whoever is spawned behind t stays spawned.
<1>3. ASSUME NEW u \in Tasks, u # t, \E i \in 1..Len(spawned) : spawned[i] = u
      PROVE  \E i \in 1..Len(spawned') : spawned'[i] = u
  <2>1. PICK i \in 1..Len(spawned) : spawned[i] = u
    BY <1>3
  <2>2. i # 1 /\ i - 1 \in 1..Len(Tail(spawned)) /\ Tail(spawned)[i - 1] = spawned[(i - 1) + 1]
    BY <1>1, <1>3, <2>1, SMTT(20)
  <2>3. Tail(spawned)[i - 1] = u
    BY <2>1, <2>2
  <2> QED
    BY <1>1, <2>2, <2>3
<1>4. CASE EntersAtOnce(starts)
  <2>1. /\ line' = line /\ line[starts] = <<>> /\ state'[t] # "pending"
        /\ \A u \in Tasks : u # t => state'[u] = state[u]
    BY <1>0, <1>1, <1>4 DEF TaskArrives, EntersAtOnce, Enter, TypeOK
  <2>2. \A u \in Tasks : u # t /\ Waits(u) => Waits(u)'
    BY <1>3, <2>1 DEF Waits
  <2> QED
    BY <1>1, <1>2, <2>1, <2>2, LeavesKeepsOrder
<1>5. CASE ~EntersAtOnce(starts)
  <2>1. line' = [line EXCEPT ![starts] = Append(line[starts], t)] /\ state' = state
    BY <1>5 DEF TaskArrives
  <2>2. /\ Len(line[starts]) \in Nat
        /\ Len(line'[starts]) = Len(line[starts]) + 1
        /\ \A i \in 1..Len(line[starts]) : line'[starts][i] = line[starts][i]
        /\ line'[starts][Len(line[starts]) + 1] = t
    BY <1>0, <1>1, <1>2, <2>1, AppendFacts DEF TypeOK
  <2>3. ASSUME NEW u \in Tasks, Waits(u) PROVE Waits(u)'
    <3>1. CASE \E i \in 1..Len(spawned) : spawned[i] = u
      BY <1>2, <1>3, <2>2, <3>1 DEF Waits
    <3>2. CASE \E s \in Starts : \E i \in 1..Len(line[s]) : line[s][i] = u
      <4>1. PICK s \in Starts : \E i \in 1..Len(line[s]) : line[s][i] = u
        BY <3>2
      <4>2. \E i \in 1..Len(line'[s]) : line'[s][i] = u
        BY <1>0, <2>1, <2>2, <4>1, SMTT(20) DEF TypeOK
      <4> QED
        BY <4>2 DEF Waits
    <3> QED
      BY <2>3, <3>1, <3>2 DEF Waits
  <2>4. PlacedInv'
    BY <1>1, <2>1, <2>3 DEF OrderInv, PlacedInv, TakenOff
  <2> QED
    BY <1>1, <2>1, <2>4 DEF OrderInv, BegunInOrder
<1> QED
  BY <1>4, <1>5

LEMMA WaiterEntersOrder ==
  ASSUME NEW s \in Starts
  PROVE  IInv /\ OrderInv /\ WaiterEnters(s) => OrderInv'
<1> SUFFICES ASSUME IInv, OrderInv, WaiterEnters(s) PROVE OrderInv'
  OBVIOUS
<1> DEFINE t == Head(line[s])
<1>0. TypeOK /\ LineInv
  BY DEF IInv, PipelineInv
<1>1. /\ t \in Tasks /\ t = line[s][1] /\ line[s] # <<>>
      /\ Len(line[s]) \in Nat /\ Len(line[s]) >= 1
      /\ Len(Tail(line[s])) = Len(line[s]) - 1
      /\ \A i \in 1..Len(Tail(line[s])) : Tail(line[s])[i] = line[s][i + 1]
      /\ line'[s] = Tail(line[s]) /\ \A u \in Starts : u # s => line'[u] = line[u]
      /\ UNCHANGED <<submitted, unfinished, starts, spawned>>
  BY <1>0, TailFacts DEF WaiterEnters, TypeOK
<1>2. /\ state[t] = "pending" /\ state'[t] # "pending"
      /\ \A u \in Tasks : u # t => state'[u] = state[u]
  <2>1. state[t] = "pending"
    BY <1>0, <1>1 DEF LineInv
  <2>2. CASE t \in Known
    BY <1>0, <1>1, <2>1, <2>2 DEF WaiterEnters, Enter, TypeOK
  <2>3. CASE t \notin Known
    BY <1>0, <1>1, <2>1, <2>3 DEF WaiterEnters, Enter, TypeOK
  <2> QED
    BY <2>1, <2>2, <2>3
<1>3. ASSUME NEW u \in Tasks, u # t, Waits(u) PROVE Waits(u)'
  <2>1. CASE \E i \in 1..Len(spawned) : spawned[i] = u
    BY <1>1, <2>1 DEF Waits
  <2>2. CASE \E i \in 1..Len(line[s]) : line[s][i] = u
    <3>1. PICK i \in 1..Len(line[s]) : line[s][i] = u
      BY <2>2
    <3>2. i # 1 /\ i - 1 \in 1..Len(Tail(line[s]))
          /\ Tail(line[s])[i - 1] = line[s][(i - 1) + 1]
      BY <1>1, <1>3, <3>1
    <3>3. \E j \in 1..Len(line'[s]) : line'[s][j] = u
      BY <1>1, <3>1, <3>2
    <3> QED
      BY <3>3 DEF Waits
  <2>3. CASE \E r \in Starts : r # s /\ \E i \in 1..Len(line[r]) : line[r][i] = u
    BY <1>1, <2>3 DEF Waits
  <2> QED
    BY <1>3, <2>1, <2>2, <2>3 DEF Waits
<1> QED
  BY <1>1, <1>2, <1>3, LeavesKeepsOrder

LEMMA NextOrder == IInv /\ OrderInv /\ [Next]_vars => OrderInv'
<1> SUFFICES ASSUME IInv, OrderInv, [Next]_vars PROVE OrderInv'
  OBVIOUS
<1> USE DEF OrderInv, PlacedInv, BegunInOrder, Waits, TakenOff
<1>0. TypeOK /\ StateInv /\ StartsInv
  BY DEF IInv, PipelineInv
<1>1. CASE UNCHANGED vars \/ Stop \/ StopJoined \/ StopTimesOut
  BY <1>1 DEF vars, poolVars, Stop, StopJoined, StopTimesOut
<1>2. CASE Start
  BY <1>0, <1>2, ExecutorAssumption DEF Start, TypeOK
<1>3. CASE \E s \in Starts : WorkerBegins(s) \/ WorkerNotices(s)
  BY <1>3 DEF WorkerBegins, WorkerNotices, poolVars
<1>4. CASE \E t \in Tasks : TaskEnds(t)
  <2>1. PICK t \in Tasks : TaskEnds(t)
    BY <1>4
  <2>2. PICK e \in Endings : state' = [state EXCEPT ![t] = IF e = "cancelled" THEN @ ELSE e]
    BY <2>1 DEF TaskEnds
  <2>3. state[t] = "running" /\ e \in {"done", "failed", "cancelled"}
    BY <1>0, <2>1, ExecutorAssumption DEF TaskEnds, StateInv
  <2>4. \A u \in Tasks : state'[u] = "pending" <=> state[u] = "pending"
    BY <1>0, <2>2, <2>3 DEF TypeOK
  <2>5. 1..submitted \subseteq Tasks
    BY <1>0, ExecutorAssumption DEF TypeOK, Tasks
  <2>6. UNCHANGED <<starts, submitted, unfinished, spawned, line>>
    BY <2>1 DEF TaskEnds
  <2> QED
    BY <2>4, <2>5, <2>6
<1> QED
  BY <1>1, <1>2, <1>3, <1>4, SubmitOrder, WorkerTakesOrder, TaskArrivesOrder,
     WaiterEntersOrder DEF Next, WorkerStep

\* Tasks are begun in the order they were submitted, as the executor's FIFO
\* queue promises, until a second start() makes a second semaphore.
THEOREM TasksBegunInOrder == Spec => []BegunInOrder
<1>1. Spec => [](IInv /\ OrderInv)
  BY InitIInv, InitOrder, NextIInv, NextOrder, PTL DEF Spec
<1> QED
  BY <1>1, PTL DEF OrderInv

----------------------------------------------------------------------------
(* The executor is a bounded pool.                                         *)

\* The tasks holding a slot of one of the first k semaphores.
HoldersUpTo(k) == {t \in Tasks : slot[t] \in 1..k}

\* With a slot free in semaphore s, the first k semaphores have fewer holders
\* than slots as soon as s is one of them.
LEMMA HoldersUpToBounded ==
  ASSUME IInv, NEW s \in 1..starts, free[s] > 0
  PROVE  \A k \in 0..MaxStarts :
           Cardinality(HoldersUpTo(k)) + (IF s <= k THEN 1 ELSE 0) <= MaxConcurrency * k
<1> DEFINE Bad == {k \in 0..MaxStarts :
              ~(Cardinality(HoldersUpTo(k)) + (IF s <= k THEN 1 ELSE 0) <= MaxConcurrency * k)}
<1>0. TypeOK /\ StartsInv /\ SlotsAddUp
  BY DEF IInv, PipelineInv
<1>1. SUFFICES ASSUME Bad # {} PROVE FALSE
  OBVIOUS
<1>2. PICK k \in Bad : \A l \in Bad : ~(<<l, k>> \in OpToRel(<, Nat))
  <2>1. Bad \subseteq Nat
    BY ExecutorAssumption
  <2> HIDE DEF Bad
  <2> QED
    BY <1>1, <2>1, NatLessThanWellFounded, WFMin, Zenon
<1>3. k \in Nat /\ k <= MaxStarts /\ s \in Nat /\ s >= 1 /\ starts \in Nat /\ MaxConcurrency \in Nat
  BY <1>0, ExecutorAssumption DEF TypeOK
<1>4. k # 0
  <2>1. HoldersUpTo(0) = {}
    BY DEF HoldersUpTo
  <2>2. Cardinality(HoldersUpTo(0)) = 0
    BY <2>1, FS_EmptySet
  <2> QED
    BY <1>3, <2>2
<1>5. k - 1 \in 0..MaxStarts /\ k - 1 \in Nat /\ k \in Starts /\ k - 1 < k
  BY <1>3, <1>4, ExecutorAssumption DEF Starts
<1>6. k - 1 \notin Bad
  BY <1>2, <1>3, <1>5 DEF OpToRel
<1>7. Cardinality(HoldersUpTo(k - 1)) + (IF s <= k - 1 THEN 1 ELSE 0) <= MaxConcurrency * (k - 1)
  BY <1>5, <1>6
<1>8. /\ IsFiniteSet(HoldersUpTo(k - 1)) /\ IsFiniteSet(Holders(k))
      /\ Cardinality(HoldersUpTo(k - 1)) \in Nat /\ Cardinality(Holders(k)) \in Nat
  <2>1. IsFiniteSet(Tasks)
    BY ExecutorAssumption, FS_Interval DEF Tasks
  <2>2. HoldersUpTo(k - 1) \in SUBSET Tasks
    BY DEF HoldersUpTo
  <2> QED
    BY <2>1, <2>2, FS_Subset, FS_CardinalityType, HoldersFinite
<1>9. Cardinality(HoldersUpTo(k)) = Cardinality(HoldersUpTo(k - 1)) + Cardinality(Holders(k))
  <2>1. HoldersUpTo(k) = HoldersUpTo(k - 1) \cup Holders(k)
    BY <1>0, <1>3, <1>4, ExecutorAssumption DEF HoldersUpTo, Holders, TypeOK
  <2>2. HoldersUpTo(k - 1) \cap Holders(k) = {}
    BY <1>3 DEF HoldersUpTo, Holders
  <2>3. Cardinality(HoldersUpTo(k - 1) \cap Holders(k)) = 0
    BY <2>2, FS_EmptySet
  <2>4. Cardinality(HoldersUpTo(k - 1) \cup Holders(k)) =
          Cardinality(HoldersUpTo(k - 1)) + Cardinality(Holders(k))
            - Cardinality(HoldersUpTo(k - 1) \cap Holders(k))
    BY <1>8, FS_Union, Zenon
  <2> QED
    BY <1>8, <2>1, <2>3, <2>4
<1>10. Cardinality(Holders(k)) + (IF s = k THEN 1 ELSE 0) <= MaxConcurrency
  <2>1. CASE k <= starts
    <3>1. free[k] + Cardinality(Holders(k)) = MaxConcurrency /\ free[k] \in Nat
      BY <1>0, <1>3, <1>5, <2>1, ExecutorAssumption DEF SlotsAddUp, TypeOK, Starts
    <3> QED
      BY <1>3, <1>8, <3>1
  <2>2. CASE ~(k <= starts)
    <3>1. \A t \in Tasks : slot[t] <= starts /\ slot[t] \in Nat
      BY <1>0, ExecutorAssumption DEF StartsInv, TypeOK
    <3>2. Holders(k) = {}
      BY <1>3, <2>2, <3>1 DEF Holders
    <3> QED
      BY <1>3, <2>2, <3>2, FS_EmptySet
  <2> QED
    BY <2>1, <2>2
<1>11. MaxConcurrency * k = MaxConcurrency * (k - 1) + MaxConcurrency
  BY <1>3, <1>5
<1>12. MaxConcurrency * (k - 1) \in Nat
  BY <1>3, <1>5
<1>13. Cardinality(HoldersUpTo(k)) + (IF s <= k THEN 1 ELSE 0) <= MaxConcurrency * k
  <2> HIDE DEF Bad
  <2> QED
    BY <1>3, <1>5, <1>7, <1>8, <1>9, <1>10, <1>11, <1>12
<1> QED
  BY <1>13

\* Where the pool sees the tasks of the executor.
PoolStatus == [t \in Tasks |->
  CASE state[t] = "pending" -> "queued"
    [] state[t] = "running" /\ slot[t] = 0 -> "abandoned"
    [] OTHER -> state[t]]

LEMMA PoolStatusFacts ==
  ASSUME NEW t \in Tasks
  PROVE  /\ state[t] = "pending" => PoolStatus[t] = "queued"
         /\ state[t] = "running" /\ slot[t] = 0 => PoolStatus[t] = "abandoned"
         /\ state[t] = "running" /\ slot[t] # 0 => PoolStatus[t] = "running"
         /\ state[t] \in {"new", "done", "failed"} => PoolStatus[t] = state[t]
BY Zenon DEF PoolStatus

\* A task whose state and slot are what they were is seen where it was; so a
\* step that changes one task changes its status alone.
LEMMA PoolStatusMoves ==
  ASSUME NEW t \in Tasks, \A u \in Tasks : u # t => state'[u] = state[u] /\ slot'[u] = slot[u]
  PROVE  PoolStatus' = [PoolStatus EXCEPT ![t] = PoolStatus'[t]]
<1>1. \A u \in Tasks : u # t => PoolStatus'[u] = PoolStatus[u]
  BY Zenon DEF PoolStatus
<1>2. DOMAIN PoolStatus = Tasks /\ DOMAIN PoolStatus' = Tasks
  BY Zenon DEF PoolStatus
<1>3. PoolStatus = [u \in Tasks |-> PoolStatus[u]] /\ PoolStatus' = [u \in Tasks |-> PoolStatus'[u]]
  BY Zenon DEF PoolStatus
<1> QED
  BY <1>1, <1>2, <1>3

\* The executor entering a task is the pool beginning or rejecting it.
LEMMA EnterBegins ==
  ASSUME IInv, NEW t \in Tasks, NEW s \in 1..starts, free[s] > 0,
         state[t] = "pending", Enter(t, s), starts' = starts
  PROVE  Pool!Begin(t) \/ Pool!Reject(t)
<1>0. TypeOK /\ StateInv /\ StartsInv
  BY DEF IInv, PipelineInv
<1>1. slot[t] = 0 /\ s # 0
  BY <1>0, ExecutorAssumption DEF StateInv, TypeOK
<1>2. \A u \in Tasks : u # t => state'[u] = state[u] /\ slot'[u] = slot[u]
  BY <1>0 DEF Enter, TypeOK
<1>3. PoolStatus[t] = "queued" /\ PoolStatus' = [PoolStatus EXCEPT ![t] = PoolStatus'[t]]
  BY <1>2, PoolStatusFacts, PoolStatusMoves
<1>4. CASE t \in Known
  <2>1. state'[t] = "running" /\ slot'[t] = s
    BY <1>0, <1>4 DEF Enter, TypeOK
  <2>2. PoolStatus'[t] = "running"
    BY <1>1, <2>1, Zenon DEF PoolStatus
  <2>3. Pool!RunningTasks = HoldersUpTo(starts)
    <3>1. \A u \in Tasks : PoolStatus[u] = "running" <=> slot[u] \in 1..starts
      <4> TAKE u \in Tasks
      <4>1. /\ state[u] \in {"new", "pending", "running", "done", "failed"}
            /\ slot[u] \in 0..MaxStarts /\ (slot[u] # 0 => state[u] = "running")
            /\ slot[u] <= starts
        BY <1>0 DEF TypeOK, StateInv, StartsInv
      <4>2. slot[u] = 0 \/ slot[u] \in 1..starts
        BY <4>1, ExecutorAssumption
      <4>3. 0 \notin 1..starts
        BY <1>0 DEF TypeOK
      <4> QED
        BY <4>1, <4>2, <4>3, PoolStatusFacts
    <3>2. Pool!RunningTasks = {u \in Tasks : PoolStatus[u] = "running"}
      BY DEF Pool!RunningTasks, PoolStatus
    <3> QED
      BY <3>1, <3>2 DEF HoldersUpTo
  <2>4. Cardinality(HoldersUpTo(starts)) < MaxConcurrency * starts
    <3>1. starts \in 0..MaxStarts /\ starts \in Nat /\ s <= starts
      BY <1>0, ExecutorAssumption DEF TypeOK
    <3>2. Cardinality(HoldersUpTo(starts)) + 1 <= MaxConcurrency * starts
      BY <3>1, HoldersUpToBounded
    <3>3. IsFiniteSet(Tasks)
      BY ExecutorAssumption, FS_Interval DEF Tasks
    <3>4. Cardinality(HoldersUpTo(starts)) \in Nat
      <4>1. HoldersUpTo(starts) \in SUBSET Tasks
        BY DEF HoldersUpTo
      <4> QED
        BY <3>3, <4>1, FS_Subset, FS_CardinalityType
    <3>5. MaxConcurrency * starts \in Nat
      BY <3>1, ExecutorAssumption
    <3> QED
      BY <3>2, <3>4, <3>5
  <2>5. Pool!Cardinality(Pool!RunningTasks) < MaxConcurrency * starts
    <3>1. Pool!Cardinality(Pool!RunningTasks) = Cardinality(Pool!RunningTasks)
      BY DEF Pool!Cardinality, Cardinality
    <3> QED
      BY <2>3, <2>4, <3>1, Zenon
  <2>6. PoolStatus' = [PoolStatus EXCEPT ![t] = "running"]
    BY <1>3, <2>2, Zenon
  <2> QED
    BY <1>3, <2>5, <2>6, Zenon DEF Pool!Begin, Pool!Becomes, PoolStatus
<1>5. CASE t \notin Known
  <2>1. state'[t] = "failed"
    BY <1>0, <1>5 DEF Enter, TypeOK
  <2>2. PoolStatus'[t] = "failed"
    BY <2>1, Zenon DEF PoolStatus
  <2> QED
    BY <1>3, <2>2, Zenon DEF Pool!Reject, Pool!Becomes, PoolStatus
<1> QED
  BY <1>4, <1>5

\* What the pool sees of the executor.
PoolVars == <<starts, PoolStatus>>

\* A step that leaves the tasks as they were is none of the pool's.
LEMMA PoolStutters == UNCHANGED <<state, slot>> => UNCHANGED PoolStatus
BY Zenon DEF PoolStatus

\* Apart from its promise that what was begun is ended, which needs fairness,
\* the executor keeps the promise of a pool that every start() opens once more: a
\* task is run once at most, and no more tasks run at a time than the starts so far
\* made slots (Executor.start, Executor._run_task).
THEOREM ExecutorImplementsPool == Spec => Pool!SafeSpec
<1>1. Init => Pool!Init
  <2> SUFFICES ASSUME Init PROVE starts = 0 /\ PoolStatus = [t \in Tasks |-> "new"]
    BY DEF Pool!Init, PoolStatus
  <2>1. \A t \in Tasks : state[t] = "new"
    BY DEF Init
  <2>2. \A t \in Tasks : PoolStatus[t] = "new"
    BY <2>1, PoolStatusFacts
  <2>3. PoolStatus = [t \in Tasks |-> PoolStatus[t]]
    BY Zenon DEF PoolStatus
  <2> QED
    BY <2>2, <2>3 DEF Init
<1>2. IInv /\ [Next]_vars => [Pool!Next]_PoolVars
  <2> SUFFICES ASSUME IInv, [Next]_vars PROVE Pool!Next \/ UNCHANGED PoolVars
    OBVIOUS
  <2>0. TypeOK /\ SpawnedInv /\ LineInv /\ StateInv /\ StartsInv
    BY DEF IInv, PipelineInv
  <2>1. CASE UNCHANGED vars \/ Stop \/ StopJoined \/ StopTimesOut
    BY <2>1, PoolStutters DEF vars, poolVars, Stop, StopJoined, StopTimesOut, PoolVars
  <2>7. CASE Start
    <3>1. starts' = starts + 1 /\ UNCHANGED PoolStatus
      BY <2>7, PoolStutters DEF Start
    <3>2. Pool!Open
      BY <3>1 DEF Pool!Open, PoolStatus
    <3> QED
      BY <3>2 DEF Pool!Next
  <2>2. CASE \E s \in Starts : WorkerStep(s)
    BY <2>2, PoolStutters DEF PoolVars, WorkerStep, WorkerBegins, WorkerTakes, WorkerNotices, poolVars
  <2>3. CASE Submit
    <3>1. PICK t \in Tasks : t = submitted + 1
      BY <2>0, <2>3, ExecutorAssumption DEF Submit, TypeOK, Tasks
    <3>2. state[t] = "new" /\ state' = [state EXCEPT ![t] = "pending"] /\ slot' = slot
      BY <2>0, <2>3, <3>1, ExecutorAssumption DEF Submit, poolVars, StateInv, TypeOK, Tasks
    <3>3. state'[t] = "pending" /\ \A u \in Tasks : u # t => state'[u] = state[u]
      BY <2>0, <3>2 DEF TypeOK
    <3>4. PoolStatus[t] = "new" /\ PoolStatus'[t] = "queued"
      BY <3>2, <3>3, Zenon DEF PoolStatus
    <3>5. PoolStatus' = [PoolStatus EXCEPT ![t] = PoolStatus'[t]]
      BY <3>2, <3>3, PoolStatusMoves
    <3>6. starts' = starts
      BY <2>3 DEF Submit
    <3>7. Pool!Submit(t)
      BY <3>4, <3>5, <3>6, Zenon DEF Pool!Submit, Pool!Becomes, PoolStatus
    <3> QED
      BY <3>7 DEF Pool!Next
  <2>4. CASE TaskArrives
    <3>1. PICK t \in Tasks : t = Head(spawned) /\ state[t] = "pending"
      <4>1. Head(spawned) \in Tasks /\ Head(spawned) = spawned[1] /\ 1 \in 1..Len(spawned)
        BY <2>0, <2>4, TailFacts DEF TaskArrives, TypeOK
      <4> QED
        BY <2>0, <4>1 DEF SpawnedInv
    <3>2. starts \in 1..starts
      BY <2>0, <2>4, ExecutorAssumption DEF TaskArrives, StartsInv, TypeOK
    <3>3. CASE EntersAtOnce(starts)
      <4>1. free[starts] > 0 /\ Enter(t, starts) /\ starts' = starts
        BY <2>4, <3>1, <3>3 DEF TaskArrives, EntersAtOnce
      <4> QED
        BY <3>1, <3>2, <4>1, EnterBegins DEF Pool!Next
    <3>4. CASE ~EntersAtOnce(starts)
      BY <2>4, <3>4, PoolStutters DEF TaskArrives, PoolVars
    <3> QED
      BY <3>3, <3>4
  <2>5. ASSUME NEW s \in Starts, WaiterEnters(s) PROVE Pool!Next
    <3>1. PICK t \in Tasks : t = Head(line[s]) /\ state[t] = "pending"
      <4>1. Head(line[s]) \in Tasks /\ Head(line[s]) = line[s][1] /\ 1 \in 1..Len(line[s])
        BY <2>0, <2>5, TailFacts DEF WaiterEnters, TypeOK
      <4> QED
        BY <2>0, <4>1 DEF LineInv
    <3>2. s \in 1..starts
      BY <2>0, <2>5, ExecutorAssumption DEF WaiterEnters, StartsInv, TypeOK, Starts
    <3>3. free[s] > 0 /\ Enter(t, s) /\ starts' = starts
      BY <2>5, <3>1 DEF WaiterEnters
    <3> QED
      BY <3>1, <3>2, <3>3, EnterBegins DEF Pool!Next
  <2>6. ASSUME NEW t \in Tasks, TaskEnds(t) PROVE Pool!Next
    <3>1. PICK e \in Endings : state' = [state EXCEPT ![t] = IF e = "cancelled" THEN @ ELSE e]
      BY <2>6 DEF TaskEnds
    <3>2. /\ state[t] = "running" /\ slot[t] # 0 /\ slot' = [slot EXCEPT ![t] = 0]
          /\ e \in {"done", "failed", "cancelled"}
      BY <2>0, <2>6, ExecutorAssumption DEF TaskEnds, Release, StateInv
    <3>3. /\ slot'[t] = 0 /\ state'[t] \in {"done", "failed", "running"}
          /\ \A u \in Tasks : u # t => state'[u] = state[u] /\ slot'[u] = slot[u]
      BY <2>0, <3>1, <3>2 DEF TypeOK
    <3>4. PoolStatus[t] = "running"
      BY <3>2, PoolStatusFacts
    <3>5. PoolStatus'[t] \in Pool!Outcomes
      <4>1. CASE state'[t] = "running"
        BY <3>3, <4>1, Zenon DEF PoolStatus, Pool!Outcomes
      <4>2. CASE state'[t] = "done"
        BY <4>2, Zenon DEF PoolStatus, Pool!Outcomes
      <4>3. CASE state'[t] = "failed"
        BY <4>3, Zenon DEF PoolStatus, Pool!Outcomes
      <4> QED
        BY <3>3, <4>1, <4>2, <4>3
    <3>6. PoolStatus' = [PoolStatus EXCEPT ![t] = PoolStatus'[t]]
      BY <3>3, PoolStatusMoves
    <3>7. starts' = starts
      BY <2>6 DEF TaskEnds
    <3>8. Pool!End(t)
      BY <3>4, <3>5, <3>6, <3>7, Zenon DEF Pool!End, Pool!Becomes, PoolStatus
    <3> QED
      BY <3>8 DEF Pool!Next
  <2> QED
    BY <2>1, <2>2, <2>3, <2>4, <2>5, <2>6, <2>7 DEF Next
<1>3. Pool!SafeSpec <=> (Pool!Init /\ [][Pool!Next]_PoolVars)
  BY DEF Pool!SafeSpec, Pool!vars, PoolVars, PoolStatus
<1> QED
  BY <1>1, <1>2, <1>3, SpecIInv, PTL DEF Spec
=============================================================================
