-------------------------- MODULE TaskRouterProofs --------------------------
(***************************************************************************)
(* Proofs about TaskRouter, for any number of calls, nodes and relays, and  *)
(* whatever the registries become while the calls run: a node is asked     *)
(* twice only after a relay's silence, an answer always comes from a run   *)
(* of the task on the node it names, and round robin spreads its picks.    *)
(*                                                                         *)
(* None is inductive.  The first two need to know that a call with an      *)
(* envelope at a relay has one target only, that until the relay is found  *)
(* silent this target was not asked directly (EnvelopeInv), and that every *)
(* entry of a relay's cache, and every answer it gave, goes back to a run  *)
(* (RunInv).  The third needs to know where in the list the next turn is   *)
(* (SpreadInv).                                                            *)
(***************************************************************************)
EXTENDS TaskRouter, FilteringProofs, TLAPS

\* A leg with an envelope that its relay has not read as a whole.
AtRelay == {"pick", "dial", "relayDraining", "relayWaiting"}
ToNode  == {"connect", "nodeDraining", "nodeWaiting", "nodeClosing"}
LegStates == {"new", "idle", "relayed", "asked", "answer", "error", "nothing"}
               \cup AtRelay \cup ToNode
EnvelopeStates == {"none", "received", "sent", "answer", "error", "gone"}

TypeOK ==
  /\ leg \in [Calls -> [Agents -> LegStates]]
  /\ DOMAIN via = Calls
  /\ silent \subseteq Calls /\ unread \subseteq Calls
  /\ envelope \in [Calls -> EnvelopeStates]
  /\ delivery \in [Calls -> [Agents -> [Paths -> {"none", "sent", "ran"}]]]

\* Where the legs of a call stand: a leg that has a relay to find is the only
\* one, and a node was asked directly only where the leg says so.
LegInv ==
  \A c \in Calls :
    /\ IsNew(c) => envelope[c] = "none"
    /\ \A a \in Agents :
         /\ leg[c][a] \in AtRelay =>
              envelope[c] = "none" /\ \A b \in Agents : b # a => leg[c][b] = "idle"
         /\ delivery[c][a]["direct"] # "none" => leg[c][a] \in {"asked", "answer", "nothing"}
         /\ delivery[c][a]["relay"] # "none" =>
              envelope[c] \notin {"none", "received"} /\ IsTarget(c, a)

\* A relay that has yet to read an envelope fell silent, and the call has one target.
UnreadInv ==
  \A c \in unread :
    /\ ~IsNew(c) /\ c \in silent /\ envelope[c] = "none"
    /\ \A a \in Agents : leg[c][a] \notin AtRelay
    /\ \A a, b \in Agents : IsTarget(c, a) /\ IsTarget(c, b) => a = b

\* A call with an envelope has one target, which is not asked directly before
\* the relay is found silent.
EnvelopeInv ==
  \A c \in Calls :
    envelope[c] # "none" =>
      /\ \A a, b \in Agents : IsTarget(c, a) /\ IsTarget(c, b) => a = b
      /\ c \notin silent =>
           \A a \in Agents :
             /\ leg[c][a] \in {"idle", "relayed", "answer", "error", "nothing"}
             /\ delivery[c][a]["direct"] = "none"

\* A call of task t, forwarded by relay k, was run by agent a.
RanVia(k, t, a) ==
  \E d \in Calls : via[d] = k /\ TaskOf[d] = t /\ delivery[d][a]["relay"] = "ran"

\* What a relay keeps in its cache, and what it answered, was run.
CacheInv == \A x \in cached : x[3] \in Agents /\ RanVia(x[1], x[2], x[3])

RunInv ==
  \A c \in Calls, a \in Agents :
    envelope[c] = "answer" /\ IsTarget(c, a) => RanVia(via[c], TaskOf[c], a)

IInv == TypeOK /\ LegInv /\ UnreadInv /\ EnvelopeInv /\ CacheInv /\ RunInv /\ AnswerFromRun

----------------------------------------------------------------------------
(* Lemmas.                                                                 *)

\* What a leg that moves leaves where it was.
LEMMA AtFacts ==
  ASSUME TypeOK, NEW c \in Calls, NEW a \in Agents, NEW to \in LegStates \ {"new"},
         leg[c][a] # "new", At(c, a, to)
  PROVE  /\ leg' \in [Calls -> [Agents -> LegStates]]
         /\ leg'[c][a] = to
         /\ \A d \in Calls, b \in Agents : d # c \/ b # a => leg'[d][b] = leg[d][b]
         /\ \A d \in Calls : IsNew(d)' <=> IsNew(d)
<1>1. leg' = [leg EXCEPT ![c][a] = to]
  BY DEF At
<1>2. /\ leg' \in [Calls -> [Agents -> LegStates]]
      /\ leg'[c][a] = to
      /\ \A d \in Calls, b \in Agents : d # c \/ b # a => leg'[d][b] = leg[d][b]
  BY <1>1 DEF TypeOK
<1>3. ASSUME NEW d \in Calls PROVE IsNew(d)' <=> IsNew(d)
  <2>1. CASE d = c
    BY <1>2, <2>1 DEF IsNew
  <2>2. CASE d # c
    BY <1>2, <2>2 DEF IsNew
  <2> QED
    BY <2>1, <2>2
<1> QED
  BY <1>2, <1>3

\* A run that was made stays made.
LEMMA RanViaStays ==
  ASSUME \A d \in Calls, b \in Agents : delivery[d][b]["relay"] = "ran" =>
           delivery'[d][b]["relay"] = "ran" /\ via'[d] = via[d]
  PROVE  \A k, t : \A b \in Agents : RanVia(k, t, b) => RanVia(k, t, b)'
BY DEF RanVia

LEMMA CacheStays ==
  ASSUME CacheInv, cached' = cached,
         \A d \in Calls, b \in Agents : delivery[d][b]["relay"] = "ran" =>
           delivery'[d][b]["relay"] = "ran" /\ via'[d] = via[d]
  PROVE  CacheInv'
BY RanViaStays DEF CacheInv

\* A relay's step concerns an envelope that was read.
LEMMA UnreadStays ==
  ASSUME UnreadInv, unread' = unread, \A d \in silent : d \in silent',
         \A d \in unread : envelope'[d] = envelope[d],
         \A d \in Calls : IsNew(d)' <=> IsNew(d), unread \subseteq Calls,
         \A d \in unread, b \in Agents : leg'[d][b] \in AtRelay => leg[d][b] \in AtRelay,
         \A d \in Calls, b \in Agents : IsTarget(d, b)' <=> IsTarget(d, b)
  PROVE  UnreadInv'
BY DEF UnreadInv

LEMMA UnreadStaysAtRelay ==
  ASSUME UnreadInv, TypeOK, UNCHANGED <<unread, silent, leg>>,
         \A d \in Calls : envelope[d] = "none" => envelope'[d] = "none"
  PROVE  UnreadInv'
<1>1. \A d \in unread : envelope'[d] = envelope[d]
  BY DEF UnreadInv, TypeOK
<1>2. /\ \A d \in Calls : IsNew(d)' <=> IsNew(d)
      /\ \A d \in Calls, b \in Agents : IsTarget(d, b)' <=> IsTarget(d, b)
  BY DEF IsNew, IsTarget
<1> QED
  BY <1>1, <1>2, UnreadStays DEF TypeOK

----------------------------------------------------------------------------
(* Every action preserves the invariant.                                   *)

LEMMA InitIInv == Init => IInv
BY DEF Init, IInv, TypeOK, LegInv, UnreadInv, EnvelopeInv, CacheInv, RunInv, AnswerFromRun,
       IsNew, LegStates, AtRelay, ToNode, EnvelopeStates, Paths

LEMMA RegistryKeepsIInv ==
  ASSUME IInv, UNCHANGED <<leg, via, silent, inFlight>>
  PROVE  IInv'
BY DEF IInv, TypeOK, LegInv, UnreadInv, EnvelopeInv, CacheInv, RunInv, AnswerFromRun, IsNew,
       IsTarget, RanVia, inFlight

LEMMA RouteKeepsIInv ==
  ASSUME IInv, NEW c \in Calls, Route(c) \/ RouteToNobody(c)
  PROVE  IInv'
<1> USE DEF IInv
<1>0. PICK targets : \E first \in {"connect", "pick", "idle"} :
        /\ Start(c, targets, first)
        /\ first = "pick" => \E x : targets = {x}
  <2>1. CASE SelectTargets(c)
    BY <2>1 DEF SelectTargets, Broadcast, First, ByRelay, RoundRobin
  <2>2. CASE Start(c, {}, "idle")
    BY <2>2
  <2> QED
    BY <2>1, <2>2 DEF Route, RouteToNobody
<1>1. PICK first \in {"connect", "pick", "idle"} :
        /\ Start(c, targets, first)
        /\ first = "pick" => \E x : targets = {x}
  BY <1>0
<1>2. /\ IsNew(c) /\ envelope[c] = "none" /\ UNCHANGED <<via, silent, inFlight>>
      /\ \A a \in Agents : delivery[c][a]["direct"] = "none" /\ delivery[c][a]["relay"] = "none"
  <2>1. IsNew(c) /\ envelope[c] = "none" /\ UNCHANGED <<via, silent, inFlight>>
    BY DEF Route, RouteToNobody, LegInv
  <2>2. \A a \in Agents : leg[c][a] = "new"
    BY <2>1 DEF IsNew
  <2> QED
    BY <2>1, <2>2 DEF LegInv
<1>3. /\ leg' = [leg EXCEPT ![c] = [a \in Agents |-> IF a \in targets THEN first ELSE "idle"]]
      /\ \A a \in Agents : leg'[c][a] = IF a \in targets THEN first ELSE "idle"
      /\ \A d \in Calls : d # c => leg'[d] = leg[d]
  BY <1>1 DEF Start, TypeOK
<1>4. TypeOK'
  BY <1>2, <1>3 DEF TypeOK, LegStates, AtRelay, ToNode, inFlight
<1>5. LegInv'
  <2> SUFFICES ASSUME NEW d \in Calls
      PROVE  /\ IsNew(d)' => envelope[d] = "none"
             /\ \A a \in Agents :
                  /\ leg'[d][a] \in AtRelay =>
                       envelope[d] = "none" /\ \A b \in Agents : b # a => leg'[d][b] = "idle"
                  /\ delivery[d][a]["direct"] # "none" => leg'[d][a] \in {"asked", "answer", "nothing"}
                  /\ delivery[d][a]["relay"] # "none" =>
                       envelope[d] \notin {"none", "received"} /\ IsTarget(d, a)'
    BY <1>2 DEF LegInv, inFlight
  <2>1. CASE d = c
    BY <1>1, <1>2, <1>3, <2>1 DEF AtRelay
  <2>2. CASE d # c
    BY <1>3, <2>2 DEF LegInv, IsNew, IsTarget
  <2> QED
    BY <2>1, <2>2
<1>6. EnvelopeInv'
  BY <1>2, <1>3 DEF EnvelopeInv, IsTarget, inFlight
<1>7. CacheInv'
  BY <1>2, CacheStays DEF inFlight
<1>8. RunInv'
  BY <1>2, <1>3 DEF RunInv, IsTarget, RanVia, inFlight
<1>9. AnswerFromRun'
  BY <1>2, <1>3 DEF AnswerFromRun, inFlight
<1>10. UnreadInv'
  BY <1>2, <1>3 DEF UnreadInv, TypeOK, IsNew, IsTarget, inFlight
<1> QED
  BY <1>4, <1>5, <1>6, <1>7, <1>8, <1>9, <1>10

\* A leg that moves without anybody being asked, and does not get to an answer.
LEMMA MoveKeepsIInv ==
  ASSUME IInv, NEW c \in Calls, NEW a \in Agents,
         NEW to \in AtRelay \cup ToNode \cup {"error", "nothing"},
         leg[c][a] \in AtRelay \cup ToNode \cup {"relayed", "asked"},
         At(c, a, to), UNCHANGED <<via, envelope, delivery, cached>>,
         silent' = silent \/ silent' = silent \cup {c},
         \/ unread' = unread
         \/ unread' = unread \cup {c} /\ c \in silent' /\ leg[c][a] \in AtRelay
            /\ to = "connect",
         to \in AtRelay => leg[c][a] \in AtRelay,
         to \in ToNode => envelope[c] = "none" \/ c \in silent',
         to = "error" => leg[c][a] = "relayed",
         leg[c][a] = "asked" => to = "nothing"
  PROVE  IInv'
<1> USE DEF IInv
<1>1. /\ leg' \in [Calls -> [Agents -> LegStates]]
      /\ leg'[c][a] = to
      /\ \A d \in Calls, b \in Agents : d # c \/ b # a => leg'[d][b] = leg[d][b]
      /\ \A d \in Calls : IsNew(d)' <=> IsNew(d)
  <2>1. to \in LegStates \ {"new"} /\ leg[c][a] # "new"
    BY DEF LegStates, AtRelay, ToNode
  <2> QED
    BY <2>1, AtFacts
<1>2. TypeOK'
  BY <1>1 DEF TypeOK
<1>3. \A d \in Calls, b \in Agents : IsTarget(d, b)' <=> IsTarget(d, b)
  BY <1>1 DEF IsTarget, AtRelay, ToNode
<1>4. LegInv'
  BY <1>1, <1>3 DEF LegInv, AtRelay, ToNode
<1>5. EnvelopeInv'
  BY <1>1, <1>3 DEF EnvelopeInv, AtRelay, ToNode
<1>6. UnreadInv'
  <2>1. leg[c][a] \in AtRelay =>
          /\ envelope[c] = "none" /\ ~IsNew(c)
          /\ \A b, d \in Agents : IsTarget(c, b) /\ IsTarget(c, d) => b = d
          /\ \A b \in Agents : b # a => leg[c][b] \notin AtRelay
    <3> SUFFICES ASSUME leg[c][a] \in AtRelay
                 PROVE  /\ envelope[c] = "none" /\ ~IsNew(c)
                        /\ \A b \in Agents : b # a => leg[c][b] = "idle"
      BY DEF IsTarget, AtRelay
    <3> QED
      BY DEF LegInv, IsNew, AtRelay
  <2>2. \A d \in unread, b \in Agents : leg'[d][b] \in AtRelay => leg[d][b] \in AtRelay
    BY <1>1 DEF TypeOK
  <2>3. CASE unread' = unread
    <3>1. \A d \in silent : d \in silent'
      OBVIOUS
    <3> QED
      BY <1>1, <1>3, <2>2, <2>3, <3>1, UnreadStays DEF TypeOK
  <2>4. CASE unread' = unread \cup {c} /\ c \in silent' /\ leg[c][a] \in AtRelay /\ to = "connect"
    <3> SUFFICES ASSUME NEW d \in unread'
        PROVE  /\ ~IsNew(d)' /\ d \in silent' /\ envelope[d] = "none"
               /\ \A b \in Agents : leg'[d][b] \notin AtRelay
               /\ \A b, x \in Agents : IsTarget(d, b)' /\ IsTarget(d, x)' => b = x
      BY DEF UnreadInv
    <3>1. CASE d = c
      <4>1. \A b \in Agents : leg'[c][b] \notin AtRelay
        <5>1. "connect" \notin AtRelay
          BY DEF AtRelay
        <5> QED
          BY <1>1, <2>1, <2>4, <5>1
      <4> QED
        BY <1>1, <1>3, <2>1, <2>4, <3>1, <4>1
    <3>2. CASE d # c
      <4>1. d \in unread /\ d \in Calls
        BY <2>4, <3>2 DEF TypeOK
      <4> QED
        BY <1>1, <1>3, <2>2, <4>1 DEF UnreadInv
    <3> QED
      BY <3>1, <3>2
  <2> QED
    BY <2>3, <2>4
<1>7. CacheInv'
  BY CacheStays
<1>8. RunInv'
  BY <1>3 DEF RunInv, RanVia
<1>9. AnswerFromRun'
  BY <1>1 DEF AnswerFromRun, AtRelay, ToNode
<1> QED
  BY <1>2, <1>4, <1>5, <1>6, <1>7, <1>8, <1>9

LEMMA PickRelayKeepsIInv ==
  ASSUME IInv, NEW c \in Calls, NEW a \in Agents, PickRelay(c, a)
  PROVE  IInv'
<1> USE DEF IInv
<1>1. /\ leg[c][a] = "pick" /\ At(c, a, "dial") /\ UNCHANGED <<silent, inFlight>>
      /\ \E k : via' = [via EXCEPT ![c] = k]
  BY DEF PickRelay
<1>2. /\ leg' \in [Calls -> [Agents -> LegStates]]
      /\ leg'[c][a] = "dial"
      /\ \A d \in Calls, b \in Agents : d # c \/ b # a => leg'[d][b] = leg[d][b]
      /\ \A d \in Calls : IsNew(d)' <=> IsNew(d)
  BY <1>1, AtFacts DEF LegStates, AtRelay
<1>3. /\ envelope[c] = "none" /\ \A b \in Agents : b # a => leg[c][b] = "idle"
      /\ \A b \in Agents : delivery[c][b]["relay"] = "none"
  BY <1>1 DEF LegInv, AtRelay
<1>4. DOMAIN via' = Calls /\ \A d \in Calls : d # c => via'[d] = via[d]
  BY <1>1 DEF TypeOK
<1>5. \A d \in Calls, b \in Agents : delivery[d][b]["relay"] = "ran" =>
        delivery'[d][b]["relay"] = "ran" /\ via'[d] = via[d]
  BY <1>1, <1>3, <1>4 DEF inFlight
<1>6. TypeOK'
  BY <1>1, <1>2, <1>4 DEF TypeOK, inFlight
<1>7. LegInv'
  BY <1>1, <1>2, <1>3 DEF LegInv, IsTarget, AtRelay, inFlight
<1>11. EnvelopeInv'
  BY <1>1, <1>2, <1>3 DEF EnvelopeInv, IsTarget, inFlight
<1>8. CacheInv'
  BY <1>1, <1>5, CacheStays DEF inFlight
<1>9. RunInv'
  <2> SUFFICES ASSUME NEW d \in Calls, NEW b \in Agents, envelope[d] = "answer", IsTarget(d, b)'
               PROVE  RanVia(via[d], TaskOf[d], b)'
    BY <1>1 DEF RunInv, inFlight
  <2>1. d # c
    BY <1>3
  <2>2. RanVia(via[d], TaskOf[d], b)
    BY <1>2, <2>1 DEF RunInv, IsTarget
  <2>3. PICK k : k = via[d] /\ k = via'[d]
    BY <1>4, <2>1
  <2>4. RanVia(k, TaskOf[d], b)'
    BY <1>5, <2>2, <2>3, RanViaStays
  <2> QED
    BY <2>3, <2>4
<1>10. AnswerFromRun'
  <2> SUFFICES ASSUME NEW d \in Calls, NEW b \in Agents, leg'[d][b] = "answer"
      PROVE  (\E p \in Paths : delivery'[d][b][p] = "ran") \/ RanVia(via[d], TaskOf[d], b)'
    BY DEF AnswerFromRun, RanVia
  <2>1. d # c /\ leg[d][b] = "answer"
    BY <1>2, <1>3
  <2>2. (\E p \in Paths : delivery[d][b][p] = "ran") \/ RanVia(via[d], TaskOf[d], b)
    BY <2>1 DEF AnswerFromRun, RanVia
  <2>3. PICK k : k = via[d] /\ k = via'[d]
    BY <1>4, <2>1
  <2>4. RanVia(k, TaskOf[d], b) => RanVia(k, TaskOf[d], b)'
    BY <1>5, RanViaStays
  <2> QED
    BY <1>1, <2>2, <2>3, <2>4 DEF inFlight
<1>12. UnreadInv'
  <2>1. \A d \in Calls, b \in Agents : IsTarget(d, b)' <=> IsTarget(d, b)
    BY <1>1, <1>2 DEF IsTarget
  <2>2. \A d \in unread, b \in Agents : leg'[d][b] \in AtRelay => leg[d][b] \in AtRelay
    BY <1>1, <1>2 DEF TypeOK, AtRelay
  <2> QED
    BY <1>1, <1>2, <2>1, <2>2, UnreadStays DEF TypeOK, inFlight
<1> QED
  BY <1>6, <1>7, <1>8, <1>9, <1>10, <1>11, <1>12

LEMMA DialKeepsIInv ==
  ASSUME IInv, NEW c \in Calls, NEW a \in Agents, Dial(c, a) \/ RelayReads(c, a)
  PROVE  IInv'
<1> USE DEF IInv
<1>1. /\ leg[c][a] \in AtRelay /\ At(c, a, "relayed")
      /\ envelope' = [envelope EXCEPT ![c] = "received"]
      /\ UNCHANGED <<via, silent, unread, delivery, cached>>
  BY DEF Dial, RelayReads, AtRelay
<1>2. /\ leg' \in [Calls -> [Agents -> LegStates]]
      /\ leg'[c][a] = "relayed"
      /\ \A d \in Calls, b \in Agents : d # c \/ b # a => leg'[d][b] = leg[d][b]
      /\ \A d \in Calls : IsNew(d)' <=> IsNew(d)
  BY <1>1, AtFacts DEF LegStates, AtRelay
<1>3. /\ envelope[c] = "none" /\ \A b \in Agents : b # a => leg[c][b] = "idle"
      /\ \A b \in Agents : delivery[c][b]["relay"] = "none" /\ delivery[c][b]["direct"] = "none"
  BY <1>1 DEF LegInv, AtRelay
<1>4. envelope'[c] = "received" /\ \A d \in Calls : d # c => envelope'[d] = envelope[d]
  BY <1>1 DEF TypeOK
<1>5. TypeOK'
  BY <1>1, <1>2 DEF TypeOK, EnvelopeStates
<1>6. ~IsNew(c)
  BY <1>1 DEF IsNew, AtRelay
<1>7. LegInv'
  BY <1>1, <1>2, <1>3, <1>4, <1>6, SMTT(20) DEF LegInv, IsTarget, AtRelay
<1>8. EnvelopeInv'
  BY <1>1, <1>2, <1>3, <1>4 DEF EnvelopeInv, IsTarget
<1>11. UnreadInv'
  <2>1. \A d \in Calls, b \in Agents : IsTarget(d, b)' <=> IsTarget(d, b)
    BY <1>1, <1>2 DEF IsTarget, AtRelay
  <2>2. c \notin unread
    BY <1>1 DEF UnreadInv
  <2>3. \A d \in unread, b \in Agents : leg'[d][b] \in AtRelay => leg[d][b] \in AtRelay
    BY <1>1, <1>2 DEF TypeOK, AtRelay
  <2>4. \A d \in unread : envelope'[d] = envelope[d]
    BY <1>4, <2>2 DEF TypeOK
  <2> QED
    BY <1>1, <1>2, <2>1, <2>3, <2>4, UnreadStays DEF TypeOK
<1>9. CacheInv'
  BY <1>1, CacheStays
<1>10. RunInv' /\ AnswerFromRun'
  BY <1>1, <1>2, <1>3, <1>4 DEF RunInv, AnswerFromRun, IsTarget, RanVia
<1> QED
  BY <1>5, <1>7, <1>8, <1>9, <1>10, <1>11

LEMMA RelayAnswersKeepsIInv ==
  ASSUME IInv, NEW c \in Calls, NEW a \in Agents, RelayAnswers(c, a), envelope[c] = "answer"
  PROVE  IInv'
<1> USE DEF IInv
<1>1. /\ leg[c][a] = "relayed" /\ At(c, a, "answer") /\ UNCHANGED <<via, silent, inFlight>>
  BY DEF RelayAnswers
<1>2. /\ leg' \in [Calls -> [Agents -> LegStates]]
      /\ leg'[c][a] = "answer"
      /\ \A d \in Calls, b \in Agents : d # c \/ b # a => leg'[d][b] = leg[d][b]
      /\ \A d \in Calls : IsNew(d)' <=> IsNew(d)
  BY <1>1, AtFacts DEF LegStates
<1>3. TypeOK'
  BY <1>1, <1>2 DEF TypeOK, inFlight
<1>9. LegInv'
  BY <1>1, <1>2, SMTT(20) DEF LegInv, IsTarget, AtRelay, inFlight
<1>4. EnvelopeInv'
  BY <1>1, <1>2 DEF EnvelopeInv, IsTarget, inFlight
<1>5. CacheInv'
  BY <1>1, CacheStays DEF inFlight
<1>6. RunInv'
  BY <1>1, <1>2 DEF RunInv, IsTarget, RanVia, inFlight
<1>7. RanVia(via[c], TaskOf[c], a)
  BY <1>1 DEF RunInv, IsTarget
<1>8. AnswerFromRun'
  BY <1>1, <1>2, <1>7 DEF AnswerFromRun, RanVia, inFlight
<1>10. UnreadInv'
  <2>1. \A d \in Calls, b \in Agents : IsTarget(d, b)' <=> IsTarget(d, b)
    BY <1>1, <1>2 DEF IsTarget
  <2> QED
    BY <1>1, <1>2, <2>1, UnreadStays DEF TypeOK, AtRelay, inFlight
<1> QED
  BY <1>3, <1>4, <1>5, <1>6, <1>8, <1>9, <1>10

LEMMA AskKeepsIInv ==
  ASSUME IInv, NEW c \in Calls, NEW a \in Agents,
         \/ Connect(c, a) \/ NodeReads(c, a) \/ NodeAnswers(c, a)
         \/ NodeReleases(c, a) /\ delivery' # delivery
  PROVE  IInv'
<1> USE DEF IInv
<1>1. PICK to \in {"asked", "answer", "nothing"}, w \in {"sent", "ran"} :
        /\ leg[c][a] \in ToNode \cup {"asked"} /\ At(c, a, to)
        /\ delivery' = [delivery EXCEPT ![c][a]["direct"] = w]
        /\ UNCHANGED <<via, silent, unread, envelope, cached>>
        /\ to = "answer" => w = "ran"
  BY DEF Connect, NodeReads, NodeAnswers, NodeReleases, ToNode
<1>2. /\ leg' \in [Calls -> [Agents -> LegStates]]
      /\ leg'[c][a] = to
      /\ \A d \in Calls, b \in Agents : d # c \/ b # a => leg'[d][b] = leg[d][b]
      /\ \A d \in Calls : IsNew(d)' <=> IsNew(d)
  <2>1. to \in LegStates \ {"new"} /\ leg[c][a] # "new"
    BY <1>1 DEF LegStates, ToNode
  <2> QED
    BY <1>1, <2>1, AtFacts
<1>3. /\ delivery' \in [Calls -> [Agents -> [Paths -> {"none", "sent", "ran"}]]]
      /\ delivery'[c][a]["direct"] = w
      /\ \A d \in Calls, b \in Agents : delivery'[d][b]["relay"] = delivery[d][b]["relay"]
      /\ \A d \in Calls, b \in Agents : d # c \/ b # a => delivery'[d][b] = delivery[d][b]
  BY <1>1 DEF TypeOK, Paths
\* The node is asked: where the call has an envelope, its relay was silent.
<1>4. envelope[c] # "none" => c \in silent
  BY <1>1 DEF EnvelopeInv, ToNode
<1>5. TypeOK'
  BY <1>1, <1>2, <1>3 DEF TypeOK
\* The targets are what they were.
<1>6. \A d \in Calls, b \in Agents : IsTarget(d, b)' <=> IsTarget(d, b)
  BY <1>1, <1>2 DEF IsTarget, ToNode
<1>11. LegInv'
  <2> SUFFICES ASSUME NEW d \in Calls
      PROVE  /\ IsNew(d)' => envelope[d] = "none"
             /\ \A b \in Agents :
                  /\ leg'[d][b] \in AtRelay =>
                       envelope[d] = "none" /\ \A x \in Agents : x # b => leg'[d][x] = "idle"
                  /\ delivery'[d][b]["direct"] # "none" => leg'[d][b] \in {"asked", "answer", "nothing"}
                  /\ delivery'[d][b]["relay"] # "none" =>
                       envelope[d] \notin {"none", "received"} /\ IsTarget(d, b)'
    BY <1>1 DEF LegInv
  <2>1. IsNew(d)' => envelope[d] = "none"
    BY <1>2 DEF LegInv
  <2>2. ASSUME NEW b \in Agents, leg'[d][b] \in AtRelay
        PROVE  envelope[d] = "none" /\ \A x \in Agents : x # b => leg'[d][x] = "idle"
    <3>1. leg[d][b] = leg'[d][b] /\ (d = c => b # a)
      BY <1>2, <2>2 DEF AtRelay
    <3>2. d # c
      BY <1>1, <2>2, <3>1 DEF LegInv, AtRelay, ToNode
    <3> QED
      BY <1>2, <2>2, <3>1, <3>2 DEF LegInv
  <2>3. ASSUME NEW b \in Agents, delivery'[d][b]["direct"] # "none"
        PROVE  leg'[d][b] \in {"asked", "answer", "nothing"}
    <3>1. CASE d = c /\ b = a
      BY <1>2, <3>1
    <3>2. CASE d # c \/ b # a
      <4>1. leg'[d][b] = leg[d][b] /\ delivery'[d][b] = delivery[d][b]
        BY <1>2, <1>3, <3>2
      <4> QED
        BY <2>3, <4>1 DEF LegInv
    <3> QED
      BY <3>1, <3>2
  <2>4. ASSUME NEW b \in Agents, delivery'[d][b]["relay"] # "none"
        PROVE  envelope[d] \notin {"none", "received"} /\ IsTarget(d, b)'
    <3>1. delivery[d][b]["relay"] # "none"
      BY <1>3, <2>4
    <3>2. IsTarget(d, b)
      BY <3>1 DEF LegInv
    <3> QED
      BY <1>6, <3>1, <3>2 DEF LegInv
  <2> QED
    BY <2>1, <2>2, <2>3, <2>4
<1>7. EnvelopeInv'
  <2> SUFFICES ASSUME NEW d \in Calls, envelope[d] # "none"
      PROVE  /\ \A x, y \in Agents : IsTarget(d, x)' /\ IsTarget(d, y)' => x = y
             /\ d \notin silent =>
                  \A b \in Agents :
                    /\ leg'[d][b] \in {"idle", "relayed", "answer", "error", "nothing"}
                    /\ delivery'[d][b]["direct"] = "none"
    BY <1>1 DEF EnvelopeInv
  <2>1. \A x, y \in Agents : IsTarget(d, x)' /\ IsTarget(d, y)' => x = y
    BY <1>6 DEF EnvelopeInv
  <2>2. ASSUME d \notin silent, NEW b \in Agents
        PROVE  /\ leg'[d][b] \in {"idle", "relayed", "answer", "error", "nothing"}
               /\ delivery'[d][b]["direct"] = "none"
    <3>1. d # c
      BY <1>4, <2>2
    <3>2. leg'[d][b] = leg[d][b] /\ delivery'[d][b] = delivery[d][b]
      BY <1>2, <1>3, <3>1
    <3> QED
      BY <2>2, <3>2 DEF EnvelopeInv
  <2> QED
    BY <2>1, <2>2
<1>8. CacheInv'
  BY <1>1, <1>3, CacheStays
<1>9. RunInv'
  <2> SUFFICES ASSUME NEW d \in Calls, NEW b \in Agents, envelope[d] = "answer", IsTarget(d, b)
               PROVE  RanVia(via[d], TaskOf[d], b)'
    BY <1>1, <1>6 DEF RunInv
  <2>1. RanVia(via[d], TaskOf[d], b)
    BY DEF RunInv
  <2> QED
    BY <1>1, <1>3, <2>1 DEF RanVia
<1>10. AnswerFromRun'
  <2> SUFFICES ASSUME NEW d \in Calls, NEW b \in Agents, leg'[d][b] = "answer"
      PROVE  (\E p \in Paths : delivery'[d][b][p] = "ran") \/ RanVia(via[d], TaskOf[d], b)'
    BY <1>1 DEF AnswerFromRun, RanVia
  <2>1. CASE d = c /\ b = a
    BY <1>1, <1>2, <1>3, <2>1 DEF Paths
  <2>2. CASE d # c \/ b # a
    <3>1. (\E p \in Paths : delivery[d][b][p] = "ran") \/ RanVia(via[d], TaskOf[d], b)
      BY <1>2, <2>2 DEF AnswerFromRun, RanVia
    <3>2. RanVia(via[d], TaskOf[d], b) => RanVia(via[d], TaskOf[d], b)'
      BY <1>1, <1>3 DEF RanVia
    <3> QED
      BY <1>3, <2>2, <3>1, <3>2
  <2> QED
    BY <2>1, <2>2
<1>12. UnreadInv'
  BY <1>1, <1>2, <1>6, UnreadStays DEF TypeOK, AtRelay
<1> QED
  BY <1>5, <1>7, <1>8, <1>9, <1>10, <1>11, <1>12

LEMMA RelayHitKeepsIInv ==
  ASSUME IInv, NEW c \in Calls, NEW a \in Agents, RelayHit(c, a)
  PROVE  IInv'
<1> USE DEF IInv
<1>1. /\ envelope[c] = "received" /\ IsTarget(c, a) /\ CacheKey(c, a) \in cached
      /\ envelope' = [envelope EXCEPT ![c] = "answer"]
      /\ UNCHANGED <<leg, via, silent, unread, delivery, cached>>
  BY DEF RelayHit, Reply
<1>2. envelope'[c] = "answer" /\ \A d \in Calls : d # c => envelope'[d] = envelope[d]
  BY <1>1 DEF TypeOK
<1>3. TypeOK'
  BY <1>1 DEF TypeOK, EnvelopeStates
<1>4. LegInv' /\ EnvelopeInv'
  BY <1>1, <1>2 DEF LegInv, EnvelopeInv, IsTarget, IsNew
<1>5. CacheInv'
  BY <1>1, CacheStays
<1>6. RanVia(via[c], TaskOf[c], a)
  BY <1>1 DEF CacheInv, CacheKey
<1>7. RunInv'
  BY <1>1, <1>2, <1>6 DEF RunInv, EnvelopeInv, IsTarget, RanVia
<1>8. AnswerFromRun'
  BY <1>1 DEF AnswerFromRun
<1>9. UnreadInv'
  BY <1>1, <1>2, UnreadStaysAtRelay
<1> QED
  BY <1>3, <1>4, <1>5, <1>7, <1>8, <1>9

LEMMA RelayDeliversKeepsIInv ==
  ASSUME IInv, NEW c \in Calls, NEW a \in Agents, RelayDelivers(c, a)
  PROVE  IInv'
<1> USE DEF IInv
<1>1. /\ envelope[c] = "received" /\ IsTarget(c, a)
      /\ envelope' = [envelope EXCEPT ![c] = "sent"]
      /\ delivery' = [delivery EXCEPT ![c][a]["relay"] = "sent"]
      /\ UNCHANGED <<leg, via, silent, unread, cached>>
      /\ delivery[c][a]["relay"] = "none"
  BY DEF RelayDelivers, Reply, LegInv
<1>2. envelope'[c] = "sent" /\ \A d \in Calls : d # c => envelope'[d] = envelope[d]
  BY <1>1 DEF TypeOK
<1>3. /\ delivery' \in [Calls -> [Agents -> [Paths -> {"none", "sent", "ran"}]]]
      /\ \A d \in Calls, b \in Agents : delivery'[d][b]["direct"] = delivery[d][b]["direct"]
      /\ \A d \in Calls, b \in Agents : d # c \/ b # a => delivery'[d][b] = delivery[d][b]
  BY <1>1 DEF TypeOK, Paths
<1>4. \A d \in Calls, b \in Agents, p \in Paths :
        delivery[d][b][p] = "ran" => delivery'[d][b][p] = "ran"
  BY <1>1, <1>3 DEF Paths
<1>5. TypeOK'
  BY <1>1, <1>3 DEF TypeOK, EnvelopeStates
<1>6. LegInv' /\ EnvelopeInv'
  BY <1>1, <1>2, <1>3 DEF LegInv, EnvelopeInv, IsTarget, IsNew
<1>7. CacheInv'
  BY <1>1, <1>4, CacheStays DEF Paths
<1>8. RunInv' /\ AnswerFromRun'
  <2>1. \A k, t : \A b \in Agents : RanVia(k, t, b) => RanVia(k, t, b)'
    BY <1>1, <1>4, RanViaStays DEF Paths
  <2> QED
    BY <1>1, <1>2, <1>4, <2>1 DEF RunInv, AnswerFromRun, IsTarget, RanVia
<1>9. UnreadInv'
  BY <1>1, <1>2, UnreadStaysAtRelay
<1> QED
  BY <1>5, <1>6, <1>7, <1>8, <1>9

LEMMA RelayRelaysKeepsIInv ==
  ASSUME IInv, NEW c \in Calls, NEW a \in Agents, RelayRelays(c, a)
  PROVE  IInv'
<1> USE DEF IInv
<1>1. /\ envelope[c] = "sent" /\ delivery[c][a]["relay"] = "ran"
      /\ envelope' = [envelope EXCEPT ![c] = "answer"]
      /\ cached' = cached \cup {CacheKey(c, a)}
      /\ UNCHANGED <<leg, via, silent, unread, delivery>>
  BY DEF RelayRelays, Reply
<1>2. envelope'[c] = "answer" /\ \A d \in Calls : d # c => envelope'[d] = envelope[d]
  BY <1>1 DEF TypeOK
<1>3. TypeOK'
  BY <1>1 DEF TypeOK, EnvelopeStates
<1>4. LegInv' /\ EnvelopeInv'
  BY <1>1, <1>2 DEF LegInv, EnvelopeInv, IsTarget, IsNew
<1>5. RanVia(via[c], TaskOf[c], a)
  BY <1>1 DEF RanVia
<1>6. CacheInv'
  BY <1>1, <1>5 DEF CacheInv, CacheKey, RanVia
<1>7. RunInv'
  BY <1>1, <1>2, <1>5 DEF RunInv, LegInv, EnvelopeInv, IsTarget, RanVia
<1>8. AnswerFromRun'
  BY <1>1 DEF AnswerFromRun
<1>9. UnreadInv'
  BY <1>1, <1>2, UnreadStaysAtRelay
<1> QED
  BY <1>3, <1>4, <1>6, <1>7, <1>8, <1>9

LEMMA NoReplyKeepsIInv ==
  ASSUME IInv, NEW c \in Calls, RelayGivesUp(c) \/ RelayFails(c)
  PROVE  IInv'
<1> USE DEF IInv
<1>1. PICK how \in {"error", "gone"} :
        /\ envelope[c] \in {"received", "sent"}
        /\ envelope' = [envelope EXCEPT ![c] = how]
        /\ UNCHANGED <<leg, via, silent, unread, delivery, cached>>
  BY DEF RelayGivesUp, RelayFails, Reply
<1>2. envelope'[c] = how /\ \A d \in Calls : d # c => envelope'[d] = envelope[d]
  BY <1>1 DEF TypeOK
<1>3. TypeOK'
  BY <1>1 DEF TypeOK, EnvelopeStates
<1>4. LegInv' /\ EnvelopeInv'
  BY <1>1, <1>2 DEF LegInv, EnvelopeInv, IsTarget, IsNew
<1>5. CacheInv'
  BY <1>1, CacheStays
<1>6. RunInv' /\ AnswerFromRun'
  BY <1>1, <1>2 DEF RunInv, AnswerFromRun, IsTarget, RanVia
<1>9. UnreadInv'
  BY <1>1, <1>2, UnreadStaysAtRelay
<1> QED
  BY <1>3, <1>4, <1>5, <1>6, <1>9

LEMMA ExecuteKeepsIInv ==
  ASSUME IInv, NEW c \in Calls, NEW a \in Agents, Execute(c, a)
  PROVE  IInv'
<1> USE DEF IInv
<1>1. /\ delivery[c][a]["relay"] = "sent"
      /\ delivery' = [delivery EXCEPT ![c][a]["relay"] = "ran"]
      /\ UNCHANGED <<leg, via, silent, unread, envelope, cached>>
  BY DEF Execute
<1>2. /\ delivery' \in [Calls -> [Agents -> [Paths -> {"none", "sent", "ran"}]]]
      /\ \A d \in Calls, b \in Agents : delivery'[d][b]["direct"] = delivery[d][b]["direct"]
      /\ \A d \in Calls, b \in Agents : d # c \/ b # a => delivery'[d][b] = delivery[d][b]
      /\ delivery'[c][a]["relay"] = "ran"
  BY <1>1 DEF TypeOK, Paths
<1>3. \A d \in Calls, b \in Agents, p \in Paths :
        delivery[d][b][p] = "ran" => delivery'[d][b][p] = "ran"
  BY <1>1, <1>2 DEF Paths
<1>4. TypeOK'
  BY <1>1, <1>2 DEF TypeOK
<1>5. LegInv' /\ EnvelopeInv'
  BY <1>1, <1>2 DEF LegInv, EnvelopeInv, IsTarget, IsNew
<1>6. CacheInv'
  BY <1>1, <1>3, CacheStays DEF Paths
<1>7. RunInv' /\ AnswerFromRun'
  <2>1. \A k, t : \A b \in Agents : RanVia(k, t, b) => RanVia(k, t, b)'
    BY <1>1, <1>3, RanViaStays DEF Paths
  <2> QED
    BY <1>1, <1>3, <2>1 DEF RunInv, AnswerFromRun, IsTarget, RanVia
<1>8. UnreadInv'
  BY <1>1, UnreadStaysAtRelay
<1> QED
  BY <1>4, <1>5, <1>6, <1>7, <1>8

LEMMA RelayReleasesKeepsIInv ==
  ASSUME IInv, NEW c \in Calls, RelayReleases(c)
  PROVE  IInv'
<1> USE DEF IInv
<1>1. PICK what \in {"none", "received"} :
        /\ c \in unread /\ unread' = unread \ {c}
        /\ envelope[c] = "none"
        /\ envelope' = [envelope EXCEPT ![c] = what]
        /\ UNCHANGED <<leg, via, silent, delivery, cached>>
  <2>1. c \in unread /\ envelope[c] = "none" /\ envelope = [envelope EXCEPT ![c] = "none"]
    BY DEF RelayReleases, UnreadInv, TypeOK
  <2> QED
    BY <2>1 DEF RelayReleases
<1>2. envelope'[c] = what /\ \A d \in Calls : d # c => envelope'[d] = envelope[d]
  BY <1>1 DEF TypeOK
<1>3. /\ ~IsNew(c) /\ c \in silent
      /\ \A a \in Agents : leg[c][a] \notin AtRelay /\ delivery[c][a]["relay"] = "none"
      /\ \A a, b \in Agents : IsTarget(c, a) /\ IsTarget(c, b) => a = b
  BY <1>1 DEF UnreadInv, LegInv
<1>4. TypeOK'
  BY <1>1 DEF TypeOK, EnvelopeStates
<1>5. /\ \A d \in Calls : IsNew(d)' <=> IsNew(d)
      /\ \A d \in Calls, b \in Agents : IsTarget(d, b)' <=> IsTarget(d, b)
  BY <1>1 DEF IsNew, IsTarget
<1>6. LegInv'
  BY <1>1, <1>2, <1>3, <1>5 DEF LegInv
<1>7. EnvelopeInv'
  BY <1>1, <1>2, <1>3, <1>5 DEF EnvelopeInv
<1>8. UnreadInv'
  BY <1>1, <1>2, <1>5 DEF UnreadInv, TypeOK
<1>9. CacheInv'
  BY <1>1, CacheStays
<1>10. RunInv' /\ AnswerFromRun'
  BY <1>1, <1>2, <1>5 DEF RunInv, AnswerFromRun, RanVia
<1> QED
  BY <1>4, <1>6, <1>7, <1>8, <1>9, <1>10

LEMMA NextIInv == IInv /\ [Next]_vars => IInv'
<1> SUFFICES ASSUME IInv, [Next]_vars PROVE IInv'
  OBVIOUS
<1>1. CASE \/ UNCHANGED vars \/ \E a \in Agents : Register(a) \/ Deregister(a)
           \/ \E k \in Relays : MarkHealth(k)
  BY <1>1, RegistryKeepsIInv DEF vars, Register, Deregister, MarkHealth
<1>2. ASSUME NEW c \in Calls, NEW a \in Agents,
             \/ PickNoRelay(c, a) \/ DialFull(c, a) \/ DialFails(c, a) \/ DrainReturns(c, a)
             \/ RelaySilent(c, a) \/ RelayTimesOut(c, a) \/ RelayResets(c, a)
             \/ ConnectFull(c, a) \/ ConnectFails(c, a)
             \/ NodeSilent(c, a) \/ NodeTimesOut(c, a) \/ NodeResets(c, a)
             \/ NodeReleases(c, a) /\ delivery' = delivery
             \/ RelayAnswers(c, a) /\ envelope[c] # "answer"
      PROVE  IInv'
  <2>1. /\ leg[c][a] \in AtRelay => envelope[c] = "none"
        /\ leg[c][a] \in ToNode => envelope[c] = "none" \/ c \in silent
        /\ c \in Calls
    BY DEF IInv, LegInv, EnvelopeInv, ToNode
  <2>2. CASE PickNoRelay(c, a) \/ DialFull(c, a) \/ DialFails(c, a)
    BY <2>1, <2>2, MoveKeepsIInv DEF PickNoRelay, DialFull, DialFails, AtRelay, ToNode, inFlight
  <2>3. CASE RelaySilent(c, a) \/ RelayTimesOut(c, a)
    <3>1. /\ leg[c][a] \in {"relayed", "relayWaiting"} /\ At(c, a, "connect")
          /\ silent' = silent \cup {c} /\ c \in silent' /\ UNCHANGED <<via, envelope, delivery, cached>>
          /\ \/ unread' = unread
             \/ unread' = unread \cup {c} /\ leg[c][a] \in AtRelay
      BY <2>3 DEF RelaySilent, RelayTimesOut, AtRelay, inFlight
    <3> QED
      BY <3>1, MoveKeepsIInv DEF AtRelay, ToNode
  <2>4. CASE \/ RelayResets(c, a) \/ ConnectFails(c, a) \/ NodeSilent(c, a) \/ NodeResets(c, a)
             \/ NodeReleases(c, a) /\ delivery' = delivery
    <3>1. leg[c][a] \in AtRelay \cup ToNode \cup {"relayed", "asked"} /\ At(c, a, "nothing")
      BY <2>4 DEF RelayResets, ConnectFails, NodeSilent, NodeResets, NodeReleases, AtRelay, ToNode
    <3>2. UNCHANGED <<via, silent, unread, envelope, delivery, cached>>
      BY <2>4 DEF RelayResets, ConnectFails, NodeSilent, NodeResets, NodeReleases, inFlight
    <3>3. "nothing" \notin AtRelay \cup ToNode
      BY DEF AtRelay, ToNode
    <3> QED
      BY <3>1, <3>2, <3>3, MoveKeepsIInv
  <2>5. CASE RelayAnswers(c, a) /\ envelope[c] # "answer"
    <3>1. /\ leg[c][a] = "relayed" /\ At(c, a, "error")
          /\ UNCHANGED <<via, silent, unread, envelope, delivery, cached>>
      BY <2>5 DEF RelayAnswers, inFlight
    <3>2. "error" \notin AtRelay \cup ToNode
      BY DEF AtRelay, ToNode
    <3> QED
      BY <3>1, <3>2, MoveKeepsIInv
  <2>6. CASE DrainReturns(c, a)
    <3>1. PICK to \in {"relayWaiting", "nodeWaiting"} :
            /\ leg[c][a] = IF to = "relayWaiting" THEN "relayDraining" ELSE "nodeDraining"
            /\ At(c, a, to) /\ UNCHANGED <<via, silent, unread, envelope, delivery, cached>>
      BY <2>6 DEF DrainReturns, inFlight
    <3> QED
      BY <2>1, <3>1, MoveKeepsIInv DEF AtRelay, ToNode
  <2>7. CASE ConnectFull(c, a) \/ NodeTimesOut(c, a)
    <3>1. PICK to \in {"nodeDraining", "nodeClosing"} :
            /\ leg[c][a] \in {"connect", "nodeWaiting"}
            /\ At(c, a, to) /\ UNCHANGED <<via, silent, unread, envelope, delivery, cached>>
      BY <2>7 DEF ConnectFull, NodeTimesOut, inFlight
    <3> QED
      BY <2>1, <3>1, MoveKeepsIInv DEF AtRelay, ToNode
  <2> QED
    BY <1>2, <2>2, <2>3, <2>4, <2>5, <2>6, <2>7
<1> QED
  BY <1>1, <1>2, RouteKeepsIInv, PickRelayKeepsIInv, DialKeepsIInv, RelayAnswersKeepsIInv,
     AskKeepsIInv, RelayHitKeepsIInv, RelayDeliversKeepsIInv, RelayRelaysKeepsIInv,
     NoReplyKeepsIInv, ExecuteKeepsIInv, RelayReleasesKeepsIInv
     DEF Next, CallStep, LegStep, PeerStep

LEMMA SpecIInv == Spec => []IInv
BY InitIInv, NextIInv, PTL DEF Spec

----------------------------------------------------------------------------
(* The theorems.                                                           *)

\* The legs, envelopes and deliveries of the calls keep their form.
THEOREM CallsTypeCorrect == Spec => []TypeOK
BY SpecIInv, PTL DEF IInv

\* A node gets a task twice, through the relay and directly, only after the
\* relay did not answer in time: its errors are final (_dispatch_via_relay).
THEOREM DeliveredTwiceOnlyAfterSilence == Spec => []TwiceOnlyAfterSilence
<1>1. IInv => TwiceOnlyAfterSilence
  BY DEF IInv, LegInv, EnvelopeInv, TwiceOnlyAfterSilence
<1> QED
  BY <1>1, SpecIInv, PTL

\* A result that is an answer comes from a run on the node it names, of this
\* call or of one of the same task that the same relay forwarded there (route).
THEOREM AnswersComeFromRuns == Spec => []AnswerFromRun
BY SpecIInv, PTL DEF IInv

----------------------------------------------------------------------------
(* Round robin.                                                            *)

\* The place that is picked next.
Turn(list, counter) == (counter % Len(list)) + 1

\* Going round from place t, one comes to p before r, or they are the same.
Before(t, p, r) == IF p >= t THEN r >= p \/ r < t ELSE p <= r /\ r < t

\* Who comes later was picked as often, or once more.
LaterHaveMore(list, t, times) ==
  \A p, r \in DOMAIN list :
    Before(t, p, r) => /\ times[list[p]] <= times[list[r]]
                       /\ times[list[r]] <= times[list[p]] + 1

SpreadInv ==
  /\ nodes \in Seq(Agents) /\ IsInjective(nodes) /\ healthy \subseteq Relays
  /\ nextNode \in Nat /\ nodePicks \in [Agents -> Nat]
  /\ nextRelay \in Nat /\ relayPicks \in [Relays -> Nat]
  /\ LaterHaveMore(nodes, Turn(nodes, nextNode), nodePicks)
  /\ LaterHaveMore(HealthyInOrder, Turn(HealthyInOrder, nextRelay), relayPicks)

\* The remainder of the number after x: the next one, or zero after the last.
LEMMA NextRemainder ==
  ASSUME NEW x \in Nat, NEW d \in Nat \ {0}
  PROVE  /\ x % d \in 0 .. (d - 1)
         /\ (x + 1) % d = IF x % d = d - 1 THEN 0 ELSE (x % d) + 1
<1> DEFINE p == x \div d
           q == (x + 1) \div d
           r == x % d
           s == (x + 1) % d
<1>1. p \in Int /\ r \in 0 .. (d - 1) /\ x = d * p + r
  OBVIOUS
<1>2. q \in Int /\ s \in 0 .. (d - 1) /\ x + 1 = d * q + s
  OBVIOUS
<1> HIDE DEF p, q, r, s
<1>3. q <= p + 1
  <2> SUFFICES ASSUME q >= p + 2 PROVE FALSE
    BY <1>1, <1>2
  <2>1. d * q >= d * (p + 2)
    BY <1>1, <1>2
  <2> QED BY <1>1, <1>2, <2>1
<1>4. q >= p
  <2> SUFFICES ASSUME q <= p - 1 PROVE FALSE
    BY <1>1, <1>2
  <2>1. d * q <= d * (p - 1)
    BY <1>1, <1>2
  <2> QED BY <1>1, <1>2, <2>1
<1>5. CASE q = p
  BY <1>1, <1>2, <1>5
<1>6. CASE q = p + 1
  <2>1. d * q = d * p + d
    BY <1>1, <1>6
  <2> QED BY <1>1, <1>2, <2>1
<1>7. s = IF r = d - 1 THEN 0 ELSE r + 1
  BY <1>1, <1>2, <1>3, <1>4, <1>5, <1>6
<1> QED BY <1>1, <1>7 DEF r, s

LEMMA SmallRemainder ==
  ASSUME NEW d \in Nat \ {0}, NEW x \in 0 .. (d - 1)
  PROVE  x % d = x
<1> DEFINE p == x \div d
           r == x % d
<1>1. p \in Int /\ r \in 0 .. (d - 1) /\ x = d * p + r
  OBVIOUS
<1> HIDE DEF p, r
<1>2. p < 1
  <2> SUFFICES ASSUME p >= 1 PROVE FALSE
    BY <1>1
  <2>1. d * p >= d * 1
    BY <1>1
  <2> QED BY <1>1, <2>1
<1>3. p > -1
  <2> SUFFICES ASSUME p <= -1 PROVE FALSE
    BY <1>1
  <2>1. d * p <= d * (-1)
    BY <1>1
  <2> QED BY <1>1, <2>1
<1>4. p = 0
  BY <1>1, <1>2, <1>3
<1>5. r = x
  BY <1>1, <1>4
<1> QED BY <1>5 DEF r

\* The places of a list without duplicates, with the turn at one of them.
LEMMA TurnFacts ==
  ASSUME NEW T, NEW list \in Seq(T), list # << >>, NEW counter \in Nat
  PROVE  /\ Len(list) \in Nat \ {0} /\ DOMAIN list = 1 .. Len(list)
         /\ Turn(list, counter) \in 1 .. Len(list)
         /\ Turn(list, counter + 1) =
              IF Turn(list, counter) = Len(list) THEN 1 ELSE Turn(list, counter) + 1
         /\ Turn(list, Turn(list, counter)) = Turn(list, counter + 1)
<1> DEFINE d == Len(list)
           r == counter % d
<1>1. d \in Nat \ {0} /\ DOMAIN list = 1 .. d
  OBVIOUS
<1> HIDE DEF d
<1>2. r \in 0 .. (d - 1) /\ (counter + 1) % d = IF r = d - 1 THEN 0 ELSE r + 1
  BY <1>1, NextRemainder
<1>3. r % d = r
  BY <1>1, <1>2, SmallRemainder
<1> HIDE DEF r
<1>4. (r + 1) % d = IF r = d - 1 THEN 0 ELSE r + 1
  <2>1. r \in Nat
    BY <1>1, <1>2
  <2>2. (r + 1) % d = IF r % d = d - 1 THEN 0 ELSE (r % d) + 1
    BY <1>1, <2>1, NextRemainder
  <2> QED BY <1>3, <2>2
<1>5. Turn(list, counter) = r + 1
  BY DEF Turn, d, r
<1>6. Turn(list, counter + 1) = ((counter + 1) % d) + 1 /\ Turn(list, r + 1) = ((r + 1) % d) + 1
  BY DEF Turn, d
<1>7. Turn(list, counter) \in 1 .. d
  BY <1>1, <1>2, <1>5
<1>8. Turn(list, counter + 1) = IF Turn(list, counter) = d THEN 1 ELSE Turn(list, counter) + 1
  BY <1>1, <1>2, <1>5, <1>6
<1>9. Turn(list, Turn(list, counter)) = Turn(list, counter + 1)
  BY <1>2, <1>4, <1>5, <1>6
<1> QED BY <1>1, <1>7, <1>8, <1>9 DEF d

\* Who is picked comes last in the next round.
LEMMA PickSpreads ==
  ASSUME NEW T, NEW list \in Seq(T), IsInjective(list), list # << >>,
         NEW counter \in Nat, NEW times \in [T -> Nat],
         LaterHaveMore(list, Turn(list, counter), times)
  PROVE  LaterHaveMore(list, Turn(list, counter + 1),
                       [times EXCEPT ![list[Turn(list, counter)]] = @ + 1])
<1> DEFINE t == Turn(list, counter)
           u == Turn(list, counter + 1)
           more == [times EXCEPT ![list[t]] = @ + 1]
           L == Len(list)
<1>1. L \in Nat \ {0} /\ DOMAIN list = 1 .. L /\ t \in 1 .. L /\ u = IF t = L THEN 1 ELSE t + 1
  BY TurnFacts
<1>2. /\ \A p \in 1 .. L : list[p] \in T /\ times[list[p]] \in Nat
      /\ \A p, r \in 1 .. L : list[p] = list[r] => p = r
  <2>1. \A p \in 1 .. L : list[p] \in T /\ times[list[p]] \in Nat
    OBVIOUS
  <2>2. \A p, r \in DOMAIN list : list[p] = list[r] => p = r
    BY DEF IsInjective
  <2> HIDE DEF L
  <2> QED BY <1>1, <2>1, <2>2
<1>3. /\ more[list[t]] = times[list[t]] + 1
      /\ \A p \in 1 .. L : p # t => more[list[p]] = times[list[p]]
  BY <1>1, <1>2
<1>4. \A p, r \in 1 .. L : Before(t, p, r) => /\ times[list[p]] <= times[list[r]]
                                              /\ times[list[r]] <= times[list[p]] + 1
  BY <1>1 DEF LaterHaveMore
<1> HIDE DEF t, u, more, L
<1>5. \A p, r \in 1 .. L : Before(u, p, r) => /\ more[list[p]] <= more[list[r]]
                                              /\ more[list[r]] <= more[list[p]] + 1
  <2> SUFFICES ASSUME NEW p \in 1 .. L, NEW r \in 1 .. L, Before(u, p, r)
               PROVE  more[list[p]] <= more[list[r]] /\ more[list[r]] <= more[list[p]] + 1
    OBVIOUS
  <2>1. CASE p = t
    <3>1. r = t
      BY <1>1, <2>1 DEF Before
    <3> QED BY <1>2, <1>3, <2>1, <3>1
  <2>2. CASE p # t /\ r = t
    <3>1. Before(t, t, p)
      BY <1>1, <2>2 DEF Before
    <3>2. times[list[t]] <= times[list[p]] /\ times[list[p]] <= times[list[t]] + 1
      BY <1>1, <1>4, <3>1
    <3> QED BY <1>1, <1>2, <1>3, <2>2, <3>2
  <2>3. CASE p # t /\ r # t
    <3>1. Before(t, p, r)
      BY <1>1, <2>3 DEF Before
    <3> QED BY <1>2, <1>3, <1>4, <2>3, <3>1
  <2> QED BY <2>1, <2>2, <2>3
<1> QED BY <1>1, <1>5 DEF LaterHaveMore, u, more, t

\* No picks were made since the list changed.
LEMMA NoneSpread ==
  ASSUME NEW T, NEW list \in Seq(T), NEW t
  PROVE  LaterHaveMore(list, t, NoPicks(T)) /\ NoPicks(T) \in [T -> Nat]
<1>1. \A p \in DOMAIN list : NoPicks(T)[list[p]] = 0
  BY DEF NoPicks
<1> QED BY <1>1 DEF LaterHaveMore, NoPicks

\* The healthy relays, in the order of the registry.
LEMMA HealthyList ==
  ASSUME healthy \subseteq Relays
  PROVE  /\ HealthyInOrder \in Seq(Relays) /\ IsInjective(HealthyInOrder)
         /\ Range(HealthyInOrder) = healthy
<1>1. RelayOrder \in Seq(Relays) /\ IsInjective(RelayOrder) /\ Range(RelayOrder) = Relays
  BY RouterAssumption
<1>2. HealthyInOrder \in Seq(Relays)
  BY <1>1, FilteredFacts DEF HealthyInOrder
<1>3. \A x : (\E i \in DOMAIN HealthyInOrder : HealthyInOrder[i] = x)
               <=> x \in healthy /\ \E i \in DOMAIN RelayOrder : RelayOrder[i] = x
  BY <1>1, FilteredFacts DEF HealthyInOrder
<1>4. IsInjective(HealthyInOrder)
  BY <1>1, FilteredFacts DEF HealthyInOrder, IsInjective
<1> QED BY <1>1, <1>2, <1>3, <1>4 DEF Range

LEMMA InitSpread == Init => SpreadInv
<1> SUFFICES ASSUME Init PROVE SpreadInv
  OBVIOUS
<1>1. nodes \in Seq(Agents) /\ IsInjective(nodes) /\ healthy \subseteq Relays
  BY RouterAssumption DEF Init
<1>2. nextNode = 0 /\ nextRelay = 0 /\ nodePicks = NoPicks(Agents) /\ relayPicks = NoPicks(Relays)
  BY DEF Init
<1> QED BY <1>1, <1>2, HealthyList, NoneSpread DEF SpreadInv

LEMMA RegistrySpread ==
  ASSUME SpreadInv, \/ \E a \in Agents : Register(a) \/ Deregister(a)
                    \/ \E k \in Relays : MarkHealth(k)
  PROVE  SpreadInv'
<1> USE DEF SpreadInv
<1>1. ASSUME nodes' \in Seq(Agents), IsInjective(nodes)', nodePicks' = NoPicks(Agents),
             UNCHANGED <<healthy, nextNode, nextRelay, relayPicks>>
      PROVE  SpreadInv'
  <2>1. LaterHaveMore(nodes, Turn(nodes, nextNode), nodePicks)' /\ nodePicks' \in [Agents -> Nat]
    BY <1>1, NoneSpread
  <2>2. HealthyInOrder' = HealthyInOrder
    BY <1>1 DEF HealthyInOrder
  <2> QED BY <1>1, <2>1, <2>2
<1>2. ASSUME NEW a \in Agents, Register(a) PROVE SpreadInv'
  <2>1. nodes' = Append(nodes, a) /\ a \notin Range(nodes)
    BY <1>2 DEF Register
  <2>2. nodes' \in Seq(Agents)
    BY <2>1
  <2>3. IsInjective(nodes')
    <3> DEFINE m == Len(nodes)
    <3>1. /\ m \in Nat /\ DOMAIN nodes = 1 .. m /\ DOMAIN nodes' = 1 .. (m + 1)
          /\ nodes'[m + 1] = a /\ \A i \in 1 .. m : nodes'[i] = nodes[i]
      BY <2>1
    <3>2. 1 .. (m + 1) = 1 .. m \cup {m + 1}
      BY <3>1
    <3>3. \A i \in 1 .. m : nodes[i] # a
      BY <2>1, <3>1 DEF Range
    <3>4. \A i, j \in 1 .. m : nodes[i] = nodes[j] => i = j
      BY <3>1 DEF IsInjective
    <3> HIDE DEF m
    <3> QED BY <3>1, <3>2, <3>3, <3>4 DEF IsInjective
  <2> QED BY <1>1, <1>2, <2>2, <2>3 DEF Register
<1>3. ASSUME NEW a \in Agents, Deregister(a) PROVE SpreadInv'
  <2>1. nodes' \in Seq(Agents) /\ IsInjective(nodes')
    <3>1. nodes' = Filtered(nodes, Agents \ {a})
      BY <1>3 DEF Deregister
    <3>2. Filtered(nodes, Agents \ {a}) \in Seq(Agents)
      BY FilteredFacts
    <3>3. \A i, j \in DOMAIN nodes : nodes[i] = nodes[j] => i = j
      BY DEF IsInjective
    <3>4. \A i, j \in DOMAIN Filtered(nodes, Agents \ {a}) :
            Filtered(nodes, Agents \ {a})[i] = Filtered(nodes, Agents \ {a})[j] => i = j
      BY <3>3, FilteredFacts
    <3> QED BY <3>1, <3>2, <3>4 DEF IsInjective
  <2> QED BY <1>1, <1>3, <2>1 DEF Deregister
<1>4. ASSUME NEW k \in Relays, MarkHealth(k) PROVE SpreadInv'
  <2>1. /\ healthy' \subseteq Relays /\ relayPicks' = NoPicks(Relays)
        /\ UNCHANGED <<nodes, nextNode, nextRelay, nodePicks>>
    BY <1>4 DEF MarkHealth
  <2>2. HealthyInOrder' \in Seq(Relays)
    <3>1. RelayOrder \in Seq(Relays)
      BY RouterAssumption
    <3> QED BY <3>1, FilteredFacts DEF HealthyInOrder
  <2>3. LaterHaveMore(HealthyInOrder, Turn(HealthyInOrder, nextRelay), relayPicks)'
        /\ relayPicks' \in [Relays -> Nat]
    BY <2>1, <2>2, NoneSpread
  <2> QED BY <2>1, <2>3
<1> QED BY <1>2, <1>3, <1>4

LEMMA RoundRobinSpread ==
  ASSUME SpreadInv, NEW c \in Calls, nodes # << >>, RoundRobin(c), UNCHANGED registries
  PROVE  SpreadInv'
<1> USE DEF SpreadInv
<1> DEFINE t == Turn(nodes, nextNode)
<1>1. /\ nextNode' = t /\ nodePicks' = [nodePicks EXCEPT ![nodes[t]] = @ + 1]
      /\ UNCHANGED <<nodes, healthy, nextRelay, relayPicks>>
  BY DEF RoundRobin, Turn, registries
<1>2. /\ t \in 1 .. Len(nodes) /\ DOMAIN nodes = 1 .. Len(nodes) /\ Len(nodes) \in Nat
      /\ Turn(nodes, t) = Turn(nodes, nextNode + 1)
  BY TurnFacts
<1>3. LaterHaveMore(nodes, Turn(nodes, nextNode + 1), [nodePicks EXCEPT ![nodes[t]] = @ + 1])
  BY PickSpreads
<1> HIDE DEF t
<1>4. LaterHaveMore(nodes, Turn(nodes, nextNode), nodePicks)'
  BY <1>1, <1>2, <1>3
<1>5. nextNode' \in Nat /\ nodePicks' \in [Agents -> Nat]
  BY <1>1, <1>2
<1>6. HealthyInOrder' = HealthyInOrder
  BY <1>1 DEF HealthyInOrder
<1> QED BY <1>1, <1>4, <1>5, <1>6

LEMMA PickRelaySpread ==
  ASSUME SpreadInv, NEW c \in Calls, NEW a \in Agents, PickRelay(c, a)
  PROVE  SpreadInv'
<1> USE DEF SpreadInv
<1> DEFINE t == Turn(HealthyInOrder, nextRelay)
<1>1. /\ healthy # {} /\ nextRelay' = nextRelay + 1
      /\ relayPicks' = [relayPicks EXCEPT ![HealthyInOrder[t]] = @ + 1]
      /\ UNCHANGED <<nodes, healthy, nextNode, nodePicks>>
  BY DEF PickRelay, Turn, registries
<1>2. /\ HealthyInOrder \in Seq(Relays) /\ IsInjective(HealthyInOrder)
      /\ Range(HealthyInOrder) = healthy
  BY HealthyList
<1>3. HealthyInOrder # << >>
  BY <1>1, <1>2 DEF Range
<1>4. LaterHaveMore(HealthyInOrder, Turn(HealthyInOrder, nextRelay + 1),
                    [relayPicks EXCEPT ![HealthyInOrder[t]] = @ + 1])
  BY <1>2, <1>3, PickSpreads
<1>5. t \in 1 .. Len(HealthyInOrder) /\ DOMAIN HealthyInOrder = 1 .. Len(HealthyInOrder)
  BY <1>2, <1>3, TurnFacts
<1> HIDE DEF t
<1>6. relayPicks' \in [Relays -> Nat]
  <2>1. HealthyInOrder[t] \in Relays
    BY <1>2, <1>5
  <2> QED BY <1>1, <2>1
<1>7. HealthyInOrder' = HealthyInOrder
  BY <1>1 DEF HealthyInOrder
<1> QED BY <1>1, <1>4, <1>6, <1>7

LEMMA NextSpread == SpreadInv /\ [Next]_vars => SpreadInv'
<1> SUFFICES ASSUME SpreadInv, [Next]_vars PROVE SpreadInv'
  OBVIOUS
<1>1. ASSUME UNCHANGED <<registries, picks>> PROVE SpreadInv'
  <2>1. UNCHANGED <<nodes, healthy, nextNode, nextRelay, nodePicks, relayPicks>>
    BY <1>1 DEF registries, picks
  <2>2. HealthyInOrder' = HealthyInOrder
    BY <2>1 DEF HealthyInOrder
  <2> QED BY <2>1, <2>2 DEF SpreadInv
<1>2. ASSUME NEW c \in Calls, Route(c) PROVE SpreadInv'
  <2>1. CASE RoundRobin(c)
    BY <1>2, <2>1, RoundRobinSpread DEF Route
  <2>2. CASE Broadcast(c) \/ First(c) \/ ByRelay(c)
    BY <1>1, <1>2, <2>2 DEF Route, Broadcast, First, ByRelay
  <2> QED BY <1>2, <2>1, <2>2 DEF Route, SelectTargets
<1>3. ASSUME NEW c \in Calls,
             RouteToNobody(c) \/ RelayReleases(c) \/ RelayGivesUp(c) \/ RelayFails(c)
      PROVE  SpreadInv'
  BY <1>1, <1>3 DEF RouteToNobody, RelayReleases, RelayGivesUp, RelayFails
<1>4. ASSUME NEW c \in Calls, NEW a \in Agents, ~PickRelay(c, a), LegStep(c, a)
      PROVE  SpreadInv'
  BY <1>1, <1>4 DEF LegStep, PickNoRelay, Dial, DialFull, DialFails, RelayAnswers, RelaySilent,
                    RelayTimesOut, Connect, ConnectFull, ConnectFails, NodeSilent, NodeTimesOut
<1>5. ASSUME NEW c \in Calls, NEW a \in Agents,
             \/ PeerStep(c, a) \/ RelayHit(c, a)
             \/ RelayDelivers(c, a) \/ RelayRelays(c, a) \/ Execute(c, a)
      PROVE  SpreadInv'
  BY <1>1, <1>5 DEF PeerStep, RelayReads, NodeReads, DrainReturns, NodeReleases, RelayResets,
                    NodeResets, NodeAnswers, RelayHit, RelayDelivers, RelayRelays, Execute
<1>6. CASE UNCHANGED vars
  BY <1>1, <1>6 DEF vars
<1> QED BY <1>2, <1>3, <1>4, <1>5, <1>6, PickRelaySpread, RegistrySpread
        DEF Next, CallStep

\* While a list of nodes or of healthy relays stays as it is, round robin picks
\* no entry twice more often than another, wherever its index stood and however
\* calls of other strategies come between (_select_targets, pick_round_robin).
THEOREM RoundRobinSpreads == Spec => []EvenSpread
<1>1. SpreadInv => EvenSpread
  <2> SUFFICES ASSUME SpreadInv PROVE EvenSpread
    OBVIOUS
  <2>1. ASSUME NEW T, NEW list \in Seq(T), NEW counter \in Nat, NEW times \in [T -> Nat],
               LaterHaveMore(list, Turn(list, counter), times)
        PROVE  \A a, b \in Range(list) : times[a] <= times[b] + 1
    <3> SUFFICES ASSUME NEW p \in DOMAIN list, NEW r \in DOMAIN list
                 PROVE  times[list[p]] <= times[list[r]] + 1
      BY DEF Range
    <3> DEFINE t == Turn(list, counter)
    <3>1. t \in Nat /\ p \in Nat /\ r \in Nat
      <4>1. list # << >>
        OBVIOUS
      <4>2. /\ t \in 1 .. Len(list) /\ Len(list) \in Nat
            /\ DOMAIN list = 1 .. Len(list)
        BY <4>1, TurnFacts
      <4> HIDE DEF t
      <4> QED BY <4>2
    <3>2. times[list[p]] \in Nat /\ times[list[r]] \in Nat
      OBVIOUS
    <3> HIDE DEF t
    <3>3. Before(t, p, r) \/ Before(t, r, p)
      BY <3>1 DEF Before
    <3> QED BY <2>1, <3>2, <3>3 DEF LaterHaveMore, t
  <2>2. \A a, b \in Range(nodes) : nodePicks[a] <= nodePicks[b] + 1
    BY <2>1 DEF SpreadInv
  <2>3. \A k, l \in Range(HealthyInOrder) : relayPicks[k] <= relayPicks[l] + 1
    BY <2>1, HealthyList DEF SpreadInv
  <2> QED BY <2>2, <2>3, HealthyList DEF EvenSpread, SpreadInv
<1> QED BY <1>1, InitSpread, NextSpread, PTL DEF Spec
=============================================================================
