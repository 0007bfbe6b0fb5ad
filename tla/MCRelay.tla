-------------------------------- MODULE MCRelay --------------------------------
(***************************************************************************)
(* The instance for TLC of the two duties of a relay, to forward messages  *)
(* and to watch its peers.  They hold no variable in common, so that a     *)
(* behaviour exercises one of them while the other has not begun.          *)
(***************************************************************************)
EXTENDS MCRelayForward, RelayHealth

VARIABLE busy  \* the duty that a behaviour exercises

Init == busy \in {"forwards", "heartbeats"} /\ ForwardInit /\ HealthInit

Next ==
  /\ UNCHANGED busy
  /\ \/ busy = "forwards" /\ ForwardNext /\ UNCHANGED healthVars
     \/ busy = "heartbeats" /\ HealthNext /\ UNCHANGED forwardVars

vars == <<busy, forwardVars, healthVars>>

\* What has not begun has no step that would be owed.
Spec == Init /\ [][Next]_vars /\ ForwardFairness /\ HealthFairness
=============================================================================
