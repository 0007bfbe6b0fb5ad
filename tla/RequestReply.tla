---------------------------- MODULE RequestReply ----------------------------
(***************************************************************************)
(* What a relaying server promises the clients that send it requests: each *)
(* request is executed at most once by its target, an answer is only given *)
(* for a request the target executed, a refused request is never executed, *)
(* and every accepted request is eventually answered or failed.  A failed  *)
(* request may still be executed later: the caller that gave up does not   *)
(* call the message back.                                                  *)
(*                                                                         *)
(* This is the abstract specification the gateway is shown to implement.   *)
(***************************************************************************)
EXTENDS Naturals

CONSTANT Requests

VARIABLES
  status,     \* status[r]: where request r stands for the client that sent it
  executed    \* executed[r]: how often the target has run request r

vars == <<status, executed>>

Statuses == {"idle", "open", "answered", "failed", "refused"}

TypeOK == status \in [Requests -> Statuses] /\ executed \in [Requests -> 0..1]

Init == status = [r \in Requests |-> "idle"] /\ executed = [r \in Requests |-> 0]

Moves(r, from, to) ==
  /\ status[r] = from
  /\ status' = [status EXCEPT ![r] = to]
  /\ UNCHANGED executed

Accept(r) == Moves(r, "idle", "open")
Refuse(r) == Moves(r, "idle", "refused")
Fail(r) == Moves(r, "open", "failed")
Answer(r) == executed[r] = 1 /\ Moves(r, "open", "answered")

Execute(r) ==
  /\ status[r] \in {"open", "failed"}
  /\ executed[r] = 0
  /\ executed' = [executed EXCEPT ![r] = 1]
  /\ UNCHANGED status

Next == \E r \in Requests : Accept(r) \/ Refuse(r) \/ Fail(r) \/ Answer(r) \/ Execute(r)

Fairness == \A r \in Requests : WF_vars(Fail(r) \/ Answer(r))

SafeSpec == Init /\ [][Next]_vars

Spec == SafeSpec /\ Fairness
=============================================================================
