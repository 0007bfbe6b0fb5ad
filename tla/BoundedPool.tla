----------------------------- MODULE BoundedPool -----------------------------
(***************************************************************************)
(* What a task pool promises: a submitted task is run at most once, a task  *)
(* that was begun is ended, and no more tasks run at a time than the pool   *)
(* has slots.  Every opening of the pool brings Slots of them.              *)
(***************************************************************************)
EXTENDS Naturals, FiniteSets

CONSTANTS Tasks, Slots

VARIABLES
  opened,     \* number of times the pool was opened
  status      \* status[t]: where task t stands

vars == <<opened, status>>

Outcomes == {"done", "failed", "abandoned"}

TypeOK ==
  /\ opened \in Nat
  /\ status \in [Tasks -> {"new", "queued", "running"} \cup Outcomes]

RunningTasks == {t \in Tasks : status[t] = "running"}

Init == opened = 0 /\ status = [t \in Tasks |-> "new"]

Open == opened' = opened + 1 /\ UNCHANGED status

Becomes(t, s) == status' = [status EXCEPT ![t] = s] /\ UNCHANGED opened

Submit(t) == status[t] = "new" /\ Becomes(t, "queued")

Begin(t) ==
  /\ status[t] = "queued" /\ Cardinality(RunningTasks) < Slots * opened
  /\ Becomes(t, "running")

\* A task whose name is not known never runs.
Reject(t) == status[t] = "queued" /\ Becomes(t, "failed")

End(t) == status[t] = "running" /\ \E s \in Outcomes : Becomes(t, s)

Next == Open \/ \E t \in Tasks : Submit(t) \/ Begin(t) \/ Reject(t) \/ End(t)

SafeSpec == Init /\ [][Next]_vars

Spec == SafeSpec /\ \A t \in Tasks : WF_vars(End(t))
=============================================================================
