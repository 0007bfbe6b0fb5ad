--------------------------- MODULE MCRelayForward ---------------------------
(* The instance of RelayForward for TLC.                                    *)
EXTENDS RelayForward, TLC

CONSTANTS v1, v2

\* A write of each value, two readers, a write repeated: the last reader's
\* ttl is exhausted.
MCForwards == 1..5
MCOpOf == <<v1, v2, Read, v1, Read>>
MCTtl == [f \in Forwards |-> IF f = 5 THEN 0 ELSE 1]

=============================================================================
