---------------------------- MODULE MCTaskRouter ----------------------------
(* The instance of TaskRouter for TLC.                                      *)
EXTENDS TaskRouter

CONSTANTS a1, a2, k1, k2

\* Two calls of one task, so that a relay's cache can be hit.
MCTaskOf  == <<"t", "t">>
\* The other node may register while the calls run, the other relay recover.
MCNodes   == {<<a1>>}
MCHealthy == {{k1}}
MCRelays  == <<k1, k2>>
=============================================================================
