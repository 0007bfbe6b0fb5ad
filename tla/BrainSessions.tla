----------------------------- MODULE BrainSessions -----------------------------
(***************************************************************************)
(* The history of one session of AIBrain (ai/brain.py).  query() appends   *)
(* the user's turn to the list it finds, waits for a remote node where one *)
(* is given, appends the answer to the same list, and replaces the         *)
(* session's list by its last Keep turns when it has become longer.        *)
(* Queries of the same session overlap while they wait.                    *)
(***************************************************************************)
EXTENDS Naturals, Sequences, SequencesExt, FiniteSetsExt

CONSTANTS Queries,
          Keep    \* 40 in the code

ASSUME SessionAssumption == Keep \in Nat \ {0}

VARIABLES
  lists,      \* the list objects the session has had, in order
  current,    \* the one in _sessions: an index of lists, or 0
  held,       \* the one a query holds across its await
  phase,      \* where a query stands
  said,       \* all turns of the session, in the order they were made
  overlapped  \* two queries of the session have been under way at a time

sessionVars == <<lists, current, held, phase, said, overlapped>>

User(q) == <<q, "user">>
AI(q)   == <<q, "ai">>

SessionInit ==
  /\ lists = << >> /\ current = 0
  /\ held = [q \in Queries |-> 0]
  /\ phase = [q \in Queries |-> "idle"]
  /\ said = << >> /\ overlapped = FALSE

Waiting == {q \in Queries : phase[q] = "waiting"}

----------------------------------------------------------------------------
\* setdefault(): the session's list, or a new one.
Lists == IF current = 0 THEN Append(lists, << >>) ELSE lists
Index == IF current = 0 THEN Len(lists) + 1 ELSE current

\* Keeping the oldest turns.
KeepFirst(list) == SubSeq(list, 1, Keep)

\* history[-40:].
KeepLast(list) == SubSeq(list, Len(list) - Keep + 1, Len(list))

\* The answer of q goes to list number i of all, which may be cut.
Answered(q, all, i) ==
  LET list == Append(all[i], AI(q))
      with == [all EXCEPT ![i] = list]
  IN  /\ lists' = IF Len(list) > Keep THEN Append(with, KeepLast(list)) ELSE with
      /\ current' = IF Len(list) > Keep THEN Len(with) + 1 ELSE Index

\* The web server answers 400: no text, or a port that is no number.
QueryRefused(q) ==
  /\ phase[q] = "idle"
  /\ phase' = [phase EXCEPT ![q] = "ended"]
  /\ UNCHANGED <<lists, current, held, said, overlapped>>

\* A query without a remote node is answered at once.
AskLocally(q) ==
  /\ phase[q] = "idle"
  /\ Answered(q, [Lists EXCEPT ![Index] = Append(@, User(q))], Index)
  /\ said' = said \o <<User(q), AI(q)>>
  /\ phase' = [phase EXCEPT ![q] = "ended"]
  /\ overlapped' = (overlapped \/ Waiting # {})
  /\ UNCHANGED held

AskRemotely(q) ==
  /\ phase[q] = "idle"
  /\ lists' = [Lists EXCEPT ![Index] = Append(@, User(q))]
  /\ current' = Index
  /\ held' = [held EXCEPT ![q] = Index]
  /\ phase' = [phase EXCEPT ![q] = "waiting"]
  /\ said' = Append(said, User(q))
  /\ overlapped' = (overlapped \/ Waiting # {})

\* The remote node has answered, cannot be reached, or is silent for too long.
RemoteEnds(q) ==
  /\ phase[q] = "waiting"
  /\ Answered(q, lists, held[q])
  /\ said' = Append(said, AI(q))
  /\ phase' = [phase EXCEPT ![q] = "ended"]
  /\ UNCHANGED <<held, overlapped>>

\* An answer that is no message raises: the user's turn stays alone.
RemoteRaises(q) ==
  /\ phase[q] = "waiting"
  /\ phase' = [phase EXCEPT ![q] = "ended"]
  /\ UNCHANGED <<lists, current, held, said, overlapped>>

SessionNext ==
  \E q \in Queries : \/ QueryRefused(q) \/ AskLocally(q) \/ AskRemotely(q)
                     \/ RemoteEnds(q) \/ RemoteRaises(q)

SessionSpec == SessionInit /\ [][SessionNext]_sessionVars

----------------------------------------------------------------------------
\* session_history().
History == IF current = 0 THEN << >> ELSE lists[current]

\* The history is the end of what was said, and no less than its last Keep
\* turns, as long as the session had no two queries at a time, and, however
\* they overlap, as long as there is nothing to cut (query).
SessionKept ==
  ~overlapped \/ Len(said) <= Keep =>
    /\ IsSuffix(History, said)
    /\ Len(History) >= Min({Len(said), Keep})
=============================================================================
