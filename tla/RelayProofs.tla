------------------------------ MODULE RelayProofs ------------------------------
(***************************************************************************)
(* Proofs about the two duties of a relay.                                 *)
(*                                                                         *)
(* RelayForward, for any number of forwards and any size of the cache: the *)
(* cache keeps its bound and one answer per key, answers match what they   *)
(* answer, an invalidation is not undone by a hit, and every step is a step *)
(* of RequestReply.  RelayHealth, for any number of relays: a record is    *)
(* wrong only because of a ping that ended before the relay came or went.  *)
(*                                                                         *)
(* That an answer matches needs to be known of what is in the cache before *)
(* it is given: an entry is the answer to a forward that was executed and  *)
(* answered, and not before the last invalidation.                         *)
(***************************************************************************)
EXTENDS RelayForward, RelayHealth, SequenceTheorems, TLAPS

Phases == {"idle", "dropped", "hit", "unreachable", "answered", "failed", "lost"}
            \cup InRelay

Entries == [key : Values \cup {Read}, from : Forwards]

ForwardTypeOK ==
  /\ phase \in [Forwards -> Phases]
  /\ cache \in Seq(Entries)
  /\ ledger \in [Forwards -> {"none", "success", "failure"}]
  /\ answer \in [Forwards -> Forwards \cup {NoForward}]
  /\ memory \in Values \cup {NoValue}
  /\ executed \in [Forwards -> 0..1]
  /\ old \subseteq Forwards

\* An entry is the answer to a forward with its key, which was answered since
\* the last invalidation.
CacheInv ==
  \A i \in 1..Len(cache) :
    /\ cache[i].key = OpOf[cache[i].from]
    /\ phase[cache[i].from] = "answered" /\ cache[i].from \notin old

\* Responses come from executions, and executions from messages that were sent.
ExecutionInv ==
  \A f \in Forwards :
    /\ phase[f] \in {"closing", "answered"} => executed[f] = 1
    /\ executed[f] = 1 => phase[f] \in {"sent", "closing", "answered", "failed", "lost"}

OldInv == \A f \in old : phase[f] = "answered"

IInv ==
  ForwardTypeOK /\ CacheBounded /\ CacheInv /\ ExecutionInv /\ OldInv /\ AnswerMatches

----------------------------------------------------------------------------
(* Lemmas about the cache.                                                 *)

\* Removing an element keeps the others, in their order.
LEMMA RemoveAtFacts ==
  ASSUME NEW S, NEW q \in Seq(S), NEW i \in 1..Len(q)
  PROVE  /\ RemoveAt(q, i) \in Seq(S)
         /\ Len(RemoveAt(q, i)) = Len(q) - 1
         /\ \A j \in 1..(Len(q) - 1) :
              RemoveAt(q, i)[j] = q[IF j < i THEN j ELSE j + 1]
<1> DEFINE front == SubSeq(q, 1, i - 1)
           back  == SubSeq(q, i + 1, Len(q))
<1>1. /\ front \in Seq(S) /\ Len(front) = i - 1
      /\ \A j \in 1..(i - 1) : front[j] = q[j]
  BY SubSeqProperties, LenProperties
<1>2. /\ back \in Seq(S) /\ Len(back) = Len(q) - i
      /\ \A j \in 1..(Len(q) - i) : back[j] = q[i + j]
  BY SubSeqProperties, LenProperties
<1>3. RemoveAt(q, i) = front \o back
  BY DEF RemoveAt
<1> HIDE DEF front, back
<1>4. /\ front \o back \in Seq(S)
      /\ Len(front \o back) = Len(front) + Len(back)
      /\ \A j \in 1..(Len(front) + Len(back)) :
           (front \o back)[j] = IF j <= Len(front) THEN front[j] ELSE back[j - Len(front)]
  BY <1>1, <1>2, ConcatProperties
<1>5. Len(q) \in Nat
  BY LenProperties
<1>6. ASSUME NEW j \in 1..(Len(q) - 1)
      PROVE  (front \o back)[j] = q[IF j < i THEN j ELSE j + 1]
  BY <1>1, <1>2, <1>4, <1>5
<1> QED
  BY <1>1, <1>2, <1>3, <1>4, <1>5, <1>6

\* Tail drops the first element and keeps the others.
LEMMA TailFacts ==
  ASSUME NEW S, NEW q \in Seq(S), Len(q) > 0
  PROVE  /\ Tail(q) \in Seq(S) /\ Len(Tail(q)) = Len(q) - 1
         /\ \A j \in 1..(Len(q) - 1) : Tail(q)[j] = q[j + 1]
BY HeadTailProperties, LenProperties

\* r is made of elements of q, each in at most one place.
PartOf(r, q) ==
  /\ r \in Seq(Entries) /\ Len(r) <= Len(q)
  /\ \A i \in 1..Len(r) : \E k \in 1..Len(q) : r[i] = q[k]
  /\ \A i, j \in 1..Len(r) : r[i].key = r[j].key => i = j

\* Without a key, a cache that has it once at most has the other keys left.
LEMMA WithoutKeyFacts ==
  ASSUME NEW q \in Seq(Entries), NEW f \in Forwards,
         \A i, j \in 1..Len(q) : q[i].key = q[j].key => i = j
  PROVE  /\ PartOf(WithoutKey(q, f), q)
         /\ \A i \in 1..Len(WithoutKey(q, f)) : WithoutKey(q, f)[i].key # CacheKey(f)
<1> DEFINE same == {i \in DOMAIN q : q[i].key = CacheKey(f)}
<1>0. DOMAIN q = 1..Len(q) /\ Len(q) \in Nat
  BY LenProperties
<1>1. CASE same = {}
  <2>1. WithoutKey(q, f) = q
    BY <1>1 DEF WithoutKey
  <2> QED
    BY <1>0, <1>1, <2>1 DEF PartOf
<1>2. CASE same # {}
  <2> DEFINE i == CHOOSE k \in same : TRUE
  <2>1. i \in 1..Len(q) /\ q[i].key = CacheKey(f)
    BY <1>0, <1>2
  <2>2. WithoutKey(q, f) = RemoveAt(q, i)
    BY <1>2 DEF WithoutKey
  <2> HIDE DEF i
  <2> DEFINE r == RemoveAt(q, i)
             at(j) == IF j < i THEN j ELSE j + 1
  <2>3. /\ r \in Seq(Entries) /\ Len(r) = Len(q) - 1
        /\ \A j \in 1..Len(r) : r[j] = q[at(j)]
    BY <2>1, RemoveAtFacts
  <2> HIDE DEF r
  <2>4. \A j \in 1..Len(r) : at(j) \in 1..Len(q) /\ at(j) # i
    BY <1>0, <2>1, <2>3
  <2>5. \A j, k \in 1..Len(r) : at(j) = at(k) => j = k
    BY <1>0, <2>1, <2>3
  <2>6. PartOf(r, q)
    <3>1. \A j, k \in 1..Len(r) : r[j].key = r[k].key => j = k
      <4> SUFFICES ASSUME NEW j \in 1..Len(r), NEW k \in 1..Len(r), r[j].key = r[k].key
                   PROVE  j = k
        OBVIOUS
      <4>1. q[at(j)].key = q[at(k)].key /\ at(j) \in 1..Len(q) /\ at(k) \in 1..Len(q)
        BY <2>3, <2>4
      <4>2. at(j) = at(k)
        BY <4>1
      <4> QED
        BY <2>5, <4>2
    <3>2. \A j \in 1..Len(r) : \E k \in 1..Len(q) : r[j] = q[k]
      BY <2>3, <2>4
    <3> QED
      BY <1>0, <2>3, <3>1, <3>2 DEF PartOf
  <2>7. \A j \in 1..Len(r) : r[j].key # CacheKey(f)
    BY <2>1, <2>3, <2>4
  <2> QED
    BY <2>2, <2>6, <2>7 DEF r
<1> QED
  BY <1>1, <1>2

\* A put leaves elements of the cache, each key once, and the new entry last.
LEMMA CachePutFacts ==
  ASSUME ForwardTypeOK, CacheBounded, NEW f \in Forwards
  PROVE  \E r \in Seq(Entries) :
           /\ CachePut(f) = Append(r, Entry(f)) /\ PartOf(r, cache)
           /\ Len(r) < MaxCache
           /\ \A i \in 1..Len(r) : r[i].key # CacheKey(f)
<1> DEFINE kept == IF Len(cache) >= MaxCache THEN Tail(cache) ELSE cache
<1>0. /\ cache \in Seq(Entries) /\ Len(cache) \in Nat /\ Len(cache) <= MaxCache
      /\ \A i, j \in 1..Len(cache) : cache[i].key = cache[j].key => i = j
      /\ MaxCache \in Nat \ {0}
  BY RelayForwardAssumption, LenProperties DEF ForwardTypeOK, CacheBounded
<1>1. CachePut(f) = Append(WithoutKey(kept, f), Entry(f))
  BY DEF CachePut
<1>2. PartOf(kept, cache) /\ Len(kept) < MaxCache
  <2>1. CASE Len(cache) >= MaxCache
    <3>1. /\ kept \in Seq(Entries) /\ Len(kept) = Len(cache) - 1
          /\ \A j \in 1..Len(kept) : kept[j] = cache[j + 1]
      BY <1>0, <2>1, TailFacts
    <3>2. \A j \in 1..Len(kept) : j + 1 \in 1..Len(cache)
      BY <1>0, <3>1
    <3> HIDE DEF kept
    <3> QED
      BY <1>0, <3>1, <3>2, SMTT(20) DEF PartOf
  <2>2. CASE ~(Len(cache) >= MaxCache)
    BY <1>0, <2>2 DEF PartOf
  <2> QED
    BY <2>1, <2>2
<1> HIDE DEF kept
<1> DEFINE r == WithoutKey(kept, f)
<1>3. /\ PartOf(r, kept)
      /\ \A i \in 1..Len(r) : r[i].key # CacheKey(f)
  BY <1>2, WithoutKeyFacts DEF PartOf
<1> HIDE DEF r
<1>4. PartOf(r, cache)
  BY <1>2, <1>3, LenProperties DEF PartOf
<1>5. Len(r) < MaxCache /\ r \in Seq(Entries)
  BY <1>0, <1>2, <1>3, LenProperties DEF PartOf
<1> QED
  BY <1>1, <1>3, <1>4, <1>5 DEF r

\* A hit is an element of the cache with the key.
LEMMA HitFacts ==
  ASSUME ForwardTypeOK, NEW f \in Forwards, Cached(f)
  PROVE  \E i \in 1..Len(cache) : Hit(f) = cache[i] /\ cache[i].key = CacheKey(f)
BY DEF Cached, Hit

----------------------------------------------------------------------------
(* The invariant holds at first, and every step keeps it.                  *)

LEMMA InitIInv == ForwardInit => IInv
<1> SUFFICES ASSUME ForwardInit PROVE IInv
  OBVIOUS
<1>1. ForwardTypeOK
  BY DEF ForwardInit, ForwardTypeOK, Phases
<1>2. CacheBounded /\ CacheInv
  BY RelayForwardAssumption DEF ForwardInit, CacheBounded, CacheInv
<1>3. ExecutionInv /\ OldInv /\ AnswerMatches
  BY DEF ForwardInit, ExecutionInv, OldInv, AnswerMatches
<1> QED
  BY <1>1, <1>2, <1>3 DEF IInv

\* A forward that moves on without being answered disturbs nothing, unless it
\* leaves the phases in which the agent may run it.
LEMMA MoveKeepsIInv ==
  ASSUME IInv, NEW f \in Forwards, NEW to \in Phases \ {"hit", "closing", "answered"},
         phase[f] \in {"idle", "connecting", "draining", "waiting", "sent", "failing"},
         executed[f] = 1 => to \in {"failed", "lost"},
         Moves(f, to), UNCHANGED <<cache, answer, memory, executed, old>>,
         ledger' \in [Forwards -> {"none", "success", "failure"}]
  PROVE  IInv'
<1> USE DEF IInv
<1>1. /\ phase' \in [Forwards -> Phases] /\ phase'[f] = to
      /\ \A g \in Forwards \ {f} : phase'[g] = phase[g]
  BY DEF Moves, ForwardTypeOK
<1>2. ForwardTypeOK' /\ CacheBounded'
  BY <1>1 DEF ForwardTypeOK, CacheBounded
<1>3. CacheInv'
  <2> SUFFICES ASSUME NEW i \in 1..Len(cache)
               PROVE  /\ cache[i].key = OpOf[cache[i].from]
                      /\ phase'[cache[i].from] = "answered" /\ cache[i].from \notin old
    BY DEF CacheInv
  <2>1. cache[i] \in Entries /\ phase[cache[i].from] = "answered"
    BY ElementOfSeq DEF ForwardTypeOK, CacheInv
  <2> QED
    BY <1>1, <2>1 DEF CacheInv, Entries
<1>4. ExecutionInv'
  BY <1>1 DEF ExecutionInv
<1>5. OldInv'
  BY <1>1 DEF OldInv, ForwardTypeOK
<1>6. AnswerMatches'
  BY <1>1 DEF AnswerMatches
<1> QED
  BY <1>2, <1>3, <1>4, <1>5, <1>6

LEMMA AnswerFromCacheKeepsIInv ==
  ASSUME IInv, NEW f \in Forwards, AnswerFromCache(f)
  PROVE  IInv' /\ answer'[f] \notin old
<1> USE DEF IInv
<1>1. /\ phase[f] = "idle" /\ phase' = [phase EXCEPT ![f] = "hit"] /\ Cached(f)
      /\ answer' = [answer EXCEPT ![f] = Hit(f).from]
      /\ UNCHANGED <<cache, ledger, memory, executed, old>>
  BY DEF AnswerFromCache, Moves
<1>2. PICK i \in 1..Len(cache) : Hit(f) = cache[i] /\ cache[i].key = CacheKey(f)
  BY <1>1, HitFacts
<1> DEFINE g == cache[i].from
<1>3. /\ g \in Forwards /\ OpOf[g] = OpOf[f] /\ phase[g] = "answered"
      /\ g \notin old /\ executed[g] = 1 /\ answer'[f] = g
  <2>1. cache[i] \in Entries
    BY ElementOfSeq DEF ForwardTypeOK
  <2>2. g \in Forwards
    BY <2>1 DEF Entries
  <2> QED
    BY <1>1, <1>2, <2>2 DEF CacheInv, CacheKey, ExecutionInv, ForwardTypeOK
<1> HIDE DEF g
<1>4. ForwardTypeOK' /\ CacheBounded'
  BY <1>1, <1>3 DEF ForwardTypeOK, CacheBounded, Phases
<1>5. CacheInv'
  <2> SUFFICES ASSUME NEW k \in 1..Len(cache)
               PROVE  /\ cache[k].key = OpOf[cache[k].from]
                      /\ phase'[cache[k].from] = "answered" /\ cache[k].from \notin old
    BY <1>1 DEF CacheInv
  <2>1. cache[k] \in Entries /\ phase[cache[k].from] = "answered"
    BY ElementOfSeq DEF ForwardTypeOK, CacheInv
  <2> QED
    BY <1>1, <2>1 DEF CacheInv, Entries, ForwardTypeOK
<1>6. ExecutionInv' /\ OldInv'
  BY <1>1 DEF ExecutionInv, OldInv, ForwardTypeOK
<1>7. AnswerMatches'
  BY <1>1, <1>3 DEF AnswerMatches, ForwardTypeOK
<1> QED
  BY <1>3, <1>4, <1>5, <1>6, <1>7

LEMMA ResponseArrivesKeepsIInv ==
  ASSUME IInv, NEW f \in Forwards, ResponseArrives(f)
  PROVE  IInv'
<1> USE DEF IInv
<1>1. /\ phase[f] = "sent" /\ phase' = [phase EXCEPT ![f] = "closing"] /\ executed[f] = 1
      /\ UNCHANGED <<cache, ledger, answer, memory, executed, old>>
  BY DEF ResponseArrives, Moves, ForwardTypeOK
<1>2. ForwardTypeOK' /\ CacheBounded'
  BY <1>1 DEF ForwardTypeOK, CacheBounded, Phases, InRelay
<1>3. CacheInv'
  <2> SUFFICES ASSUME NEW k \in 1..Len(cache)
               PROVE  /\ cache[k].key = OpOf[cache[k].from]
                      /\ phase'[cache[k].from] = "answered" /\ cache[k].from \notin old
    BY <1>1 DEF CacheInv
  <2>1. cache[k] \in Entries /\ phase[cache[k].from] = "answered"
    BY ElementOfSeq DEF ForwardTypeOK, CacheInv
  <2> QED
    BY <1>1, <2>1 DEF CacheInv, Entries, ForwardTypeOK
<1>4. ExecutionInv' /\ OldInv' /\ AnswerMatches'
  BY <1>1 DEF ExecutionInv, OldInv, AnswerMatches, ForwardTypeOK
<1> QED
  BY <1>2, <1>3, <1>4

LEMMA AnswerKeepsIInv ==
  ASSUME IInv, NEW f \in Forwards, Answer(f)
  PROVE  IInv'
<1> USE DEF IInv
<1>1. /\ phase[f] = "closing" /\ phase' = [phase EXCEPT ![f] = "answered"]
      /\ ledger' = [ledger EXCEPT ![f] = "success"]
      /\ cache' = IF EnableCache THEN CachePut(f) ELSE cache
      /\ answer' = [answer EXCEPT ![f] = f]
      /\ UNCHANGED <<memory, executed, old>>
      /\ executed[f] = 1 /\ f \notin old
  BY DEF Answer, Moves, Records, ExecutionInv, OldInv
<1>2. Entry(f) \in Entries /\ Entry(f).from = f /\ Entry(f).key = OpOf[f]
  BY RelayForwardAssumption DEF Entry, Entries, CacheKey
\* What is in the cache was there before or is the new entry.
<1>3. /\ cache' \in Seq(Entries) /\ Len(cache') \in Nat /\ Len(cache') <= MaxCache
      /\ \A i \in 1..Len(cache') :
           cache'[i] = Entry(f) \/ \E k \in 1..Len(cache) : cache'[i] = cache[k]
      /\ \A i, j \in 1..Len(cache') : cache'[i].key = cache'[j].key => i = j
  <2>1. CASE EnableCache
    <3>1. PICK r \in Seq(Entries) :
             /\ CachePut(f) = Append(r, Entry(f)) /\ PartOf(r, cache)
             /\ Len(r) < MaxCache
             /\ \A i \in 1..Len(r) : r[i].key # CacheKey(f)
      BY CachePutFacts
    <3>2. /\ cache' \in Seq(Entries) /\ Len(r) \in Nat /\ Len(cache') = Len(r) + 1
          /\ \A i \in 1..Len(r) : cache'[i] = r[i]
          /\ cache'[Len(r) + 1] = Entry(f)
      BY <1>1, <1>2, <2>1, <3>1, AppendProperties, LenProperties
    <3>3. Len(cache') <= MaxCache
      BY <3>1, <3>2, RelayForwardAssumption
    <3>4. \A i \in 1..Len(cache') : i \in 1..Len(r) \/ i = Len(r) + 1
      BY <3>2
    <3>5. \A i \in 1..Len(cache') :
            cache'[i] = Entry(f) \/ \E k \in 1..Len(cache) : cache'[i] = cache[k]
      <4> TAKE i \in 1..Len(cache')
      <4>1. CASE i \in 1..Len(r)
        <5>1. \E k \in 1..Len(cache) : r[i] = cache[k]
          BY <3>1, <4>1 DEF PartOf
        <5> QED
          BY <3>2, <4>1, <5>1
      <4>2. CASE i = Len(r) + 1
        BY <3>2, <4>2
      <4> QED
        BY <3>4, <4>1, <4>2
    <3>6. \A i, j \in 1..Len(cache') : cache'[i].key = cache'[j].key => i = j
      <4> SUFFICES ASSUME NEW i \in 1..Len(cache'), NEW j \in 1..Len(cache'),
                          cache'[i].key = cache'[j].key
                   PROVE  i = j
        OBVIOUS
      <4>1. \A k \in 1..Len(r) : cache'[k].key # cache'[Len(r) + 1].key
        BY <1>2, <3>1, <3>2 DEF CacheKey
      <4>2. CASE i \in 1..Len(r) /\ j \in 1..Len(r)
        <5>1. r[i].key = r[j].key
          BY <3>2, <4>2
        <5> QED
          BY <3>1, <4>2, <5>1 DEF PartOf
      <4> QED
        BY <3>4, <4>1, <4>2
    <3> QED
      BY <3>2, <3>3, <3>5, <3>6
  <2>2. CASE ~EnableCache
    BY <1>1, <2>2, LenProperties DEF ForwardTypeOK, CacheBounded
  <2> QED
    BY <2>1, <2>2
<1>4. ForwardTypeOK' /\ CacheBounded'
  BY <1>1, <1>3 DEF ForwardTypeOK, CacheBounded, Phases
<1>5. CacheInv'
  <2> SUFFICES ASSUME NEW i \in 1..Len(cache')
               PROVE  /\ cache'[i].key = OpOf[cache'[i].from]
                      /\ phase'[cache'[i].from] = "answered" /\ cache'[i].from \notin old
    BY <1>1 DEF CacheInv
  <2>1. CASE cache'[i] = Entry(f)
    BY <1>1, <1>2, <2>1 DEF ForwardTypeOK
  <2>2. CASE \E k \in 1..Len(cache) : cache'[i] = cache[k]
    <3>1. PICK k \in 1..Len(cache) : cache'[i] = cache[k]
      BY <2>2
    <3>2. cache[k] \in Entries /\ phase[cache[k].from] = "answered"
      BY ElementOfSeq DEF ForwardTypeOK, CacheInv
    <3> QED
      BY <1>1, <3>1, <3>2 DEF CacheInv, Entries, ForwardTypeOK
  <2> QED
    BY <1>3, <2>1, <2>2
<1>6. ExecutionInv' /\ OldInv'
  BY <1>1 DEF ExecutionInv, OldInv, ForwardTypeOK
<1>7. AnswerMatches'
  BY <1>1 DEF AnswerMatches, ForwardTypeOK
<1> QED
  BY <1>4, <1>5, <1>6, <1>7

LEMMA CacheInvalidateKeepsIInv == ASSUME IInv, CacheInvalidate PROVE IInv'
<1> USE DEF IInv
<1>1. /\ cache' = <<>> /\ old' = {f \in Forwards : phase[f] = "answered"}
      /\ UNCHANGED <<phase, ledger, answer, memory, executed>>
  BY DEF CacheInvalidate
<1>2. ForwardTypeOK'
  BY <1>1 DEF ForwardTypeOK
<1>3. CacheBounded' /\ CacheInv'
  BY <1>1, RelayForwardAssumption DEF CacheBounded, CacheInv
<1>4. ExecutionInv' /\ OldInv' /\ AnswerMatches'
  BY <1>1 DEF ExecutionInv, OldInv, AnswerMatches
<1> QED
  BY <1>2, <1>3, <1>4

LEMMA ExecuteKeepsIInv ==
  ASSUME IInv, NEW f \in Forwards, Execute(f)
  PROVE  IInv'
<1> USE DEF IInv
<1>1. /\ phase[f] \in {"sent", "failed", "lost"} /\ executed[f] = 0
      /\ executed' = [executed EXCEPT ![f] = 1]
      /\ memory' = IF OpOf[f] = Read THEN memory ELSE OpOf[f]
      /\ UNCHANGED <<phase, cache, ledger, answer, old>>
  BY DEF Execute
<1>2. ForwardTypeOK'
  <2>1. OpOf[f] \in Values \cup {Read}
    BY RelayForwardAssumption
  <2>2. memory' \in Values \cup {NoValue}
    BY <1>1, <2>1 DEF ForwardTypeOK
  <2>3. executed' \in [Forwards -> {0, 1}]
    BY <1>1 DEF ForwardTypeOK
  <2> QED
    BY <1>1, <2>2, <2>3 DEF ForwardTypeOK
<1>3. CacheBounded' /\ CacheInv' /\ OldInv'
  BY <1>1 DEF CacheBounded, CacheInv, OldInv
<1>4. ExecutionInv' /\ AnswerMatches'
  BY <1>1 DEF ExecutionInv, AnswerMatches, ForwardTypeOK
<1> QED
  BY <1>2, <1>3, <1>4

LEMMA NextIInv == IInv /\ [ForwardNext]_forwardVars => IInv'
<1> SUFFICES ASSUME IInv, [ForwardNext]_forwardVars PROVE IInv'
  OBVIOUS
<1>1. CASE UNCHANGED forwardVars
  BY <1>1 DEF forwardVars, IInv, ForwardTypeOK, CacheBounded, CacheInv, ExecutionInv,
              OldInv, AnswerMatches
<1>2. ASSUME NEW f \in Forwards,
             \/ Drop(f) \/ Forward(f) \/ Connected(f)
             \/ AgentReads(f) \/ DrainReturns(f) \/ GiveUp(f)
      PROVE  IInv'
  <2>1. PICK to \in {"dropped", "connecting", "sent", "draining", "waiting", "failing"} :
          /\ Moves(f, to) /\ phase[f] \in {"idle", "connecting", "draining", "waiting"}
          /\ UNCHANGED <<cache, ledger, answer, memory, executed, old>>
    BY <1>2 DEF Drop, Forward, Connected, AgentReads, DrainReturns, GiveUp
  <2>2. to \in Phases \ {"hit", "closing", "answered"}
    BY <2>1 DEF Phases, InRelay
  <2>3. executed[f] # 1
    BY <2>1 DEF IInv, ExecutionInv
  <2>4. ledger' \in [Forwards -> {"none", "success", "failure"}]
    BY <2>1 DEF IInv, ForwardTypeOK
  <2> QED
    BY <2>1, <2>2, <2>3, <2>4, MoveKeepsIInv
<1>3. ASSUME NEW f \in Forwards, Unreachable(f) \/ Fail(f) \/ ClosedAtLast(f) \/ Reset(f)
      PROVE  IInv'
  <2>1. PICK to \in {"unreachable", "failed", "lost"} :
          /\ Moves(f, to) /\ phase[f] \in {"connecting", "draining", "waiting", "sent", "failing"}
          /\ phase[f] = "connecting" <=> to = "unreachable"
          /\ UNCHANGED <<cache, answer, memory, executed, old>>
          /\ ledger' = ledger \/ ledger' = [ledger EXCEPT ![f] = "failure"]
    BY <1>3 DEF Unreachable, Fail, ClosedAtLast, Reset, Records
  <2>2. to \in Phases \ {"hit", "closing", "answered"}
    BY <2>1 DEF Phases
  <2>3. executed[f] = 1 => to \in {"failed", "lost"}
    BY <2>1 DEF IInv, ExecutionInv
  <2>4. ledger' \in [Forwards -> {"none", "success", "failure"}]
    BY <2>1 DEF IInv, ForwardTypeOK
  <2> QED
    BY <2>1, <2>2, <2>3, <2>4, MoveKeepsIInv
<1> QED
  BY <1>1, <1>2, <1>3, AnswerFromCacheKeepsIInv, ResponseArrivesKeepsIInv,
     AnswerKeepsIInv, CacheInvalidateKeepsIInv, ExecuteKeepsIInv
     DEF ForwardNext, ForwardStep, PeerStep

LEMMA SpecIInv == ForwardSpec => []IInv
BY InitIInv, NextIInv, PTL DEF ForwardSpec

----------------------------------------------------------------------------
(* The theorems.                                                           *)

\* The relay's state keeps its form, for any number of forwards.
THEOREM RelayTypeCorrect == ForwardSpec => []ForwardTypeOK
BY SpecIInv, PTL DEF IInv

\* The response cache keeps its bound and holds one answer per key, however
\* many misses fill it at the same time (_cache_put).
THEOREM CacheStaysBounded == ForwardSpec => []CacheBounded
BY SpecIInv, PTL DEF IInv

\* Whoever is answered, from the cache or not, gets what the agent returned for
\* the same operation (_handle_forward).
THEOREM AnswersMatch == ForwardSpec => []AnswerMatches
BY SpecIInv, PTL DEF IInv

\* No request that arrives after cache_invalidate() is served an answer given
\* before it.
THEOREM InvalidationLasts == ForwardSpec => ForgottenStaysForgotten
<1>1. IInv /\ [ForwardNext]_forwardVars =>
        [\A f \in Forwards : phase[f] = "idle" /\ phase'[f] = "hit" =>
                               answer'[f] \notin old]_forwardVars
  <2> SUFFICES ASSUME IInv, ForwardNext, NEW f \in Forwards,
                      phase[f] = "idle", phase'[f] = "hit"
               PROVE  answer'[f] \notin old
    OBVIOUS
  <2>1. phase \in [Forwards -> Phases]
    BY DEF IInv, ForwardTypeOK
  <2>2. PICK g \in Forwards : AnswerFromCache(g)
    BY <2>1 DEF ForwardNext, ForwardStep, PeerStep, Drop, Forward, Connected, Unreachable,
                AgentReads, DrainReturns, GiveUp, ClosedAtLast,
                ResponseArrives, Answer, Fail, Reset, Execute, CacheInvalidate, Moves
  <2>3. g = f
    BY <2>1, <2>2 DEF AnswerFromCache, Moves
  <2> QED
    BY <2>2, <2>3, AnswerFromCacheKeepsIInv
<1> QED
  BY <1>1, SpecIInv, PTL DEF ForwardSpec, ForgottenStaysForgotten

\* Apart from its promise to come to an end, which needs fairness, the relay
\* keeps the promise of RequestReply: its steps are steps of it or leave it
\* unchanged (_handle_forward).
THEOREM RelayImplementsService == ForwardSpec => Service!SafeSpec
<1>1. ForwardInit => Service!Init
  BY DEF ForwardInit, Service!Init, InRelay
<1>2. IInv /\ [ForwardNext]_forwardVars => [Service!Next]_Service!vars
  <2> SUFFICES ASSUME IInv, [ForwardNext]_forwardVars
               PROVE  [Service!Next]_Service!vars
    OBVIOUS
  <2>0. phase \in [Forwards -> Phases]
    BY DEF IInv, ForwardTypeOK
  <2>1. CASE UNCHANGED forwardVars \/ CacheInvalidate
    BY <2>1 DEF forwardVars, CacheInvalidate, Service!vars
  <2>2. ASSUME NEW f \in Forwards, Drop(f) \/ AnswerFromCache(f)
        PROVE  Service!Refuse(f)
    BY <2>0, <2>2 DEF Drop, AnswerFromCache, Moves, Service!Refuse, Service!Moves, InRelay
  <2>3. ASSUME NEW f \in Forwards, Forward(f)
        PROVE  Service!Accept(f)
    BY <2>0, <2>3 DEF Forward, Moves, Service!Accept, Service!Moves, InRelay
  <2>4. ASSUME NEW f \in Forwards,
               \/ Connected(f) \/ ResponseArrives(f)
               \/ AgentReads(f) \/ DrainReturns(f) \/ GiveUp(f)
        PROVE  UNCHANGED Service!vars
    BY <2>0, <2>4 DEF Connected, ResponseArrives, AgentReads, DrainReturns, GiveUp, Moves,
                      Service!vars, InRelay
  <2>5. ASSUME NEW f \in Forwards,
               Unreachable(f) \/ Fail(f) \/ ClosedAtLast(f) \/ Reset(f)
        PROVE  Service!Fail(f)
    BY <2>0, <2>5 DEF Unreachable, Fail, ClosedAtLast, Reset, Moves, Service!Fail, Service!Moves, InRelay
  <2>6. ASSUME NEW f \in Forwards, Answer(f)
        PROVE  Service!Answer(f)
    BY <2>0, <2>6 DEF Answer, Moves, Service!Answer, Service!Moves, InRelay, IInv,
                      ExecutionInv
  <2>7. ASSUME NEW f \in Forwards, Execute(f)
        PROVE  Service!Execute(f)
    BY <2>0, <2>7 DEF Execute, Service!Execute, InRelay
  <2> QED
    BY <2>1, <2>2, <2>3, <2>4, <2>5, <2>6, <2>7
       DEF ForwardNext, ForwardStep, PeerStep, Service!Next
<1> QED
  BY <1>1, <1>2, SpecIInv, PTL DEF ForwardSpec, Service!SafeSpec

----------------------------------------------------------------------------
(* RelayHealth.                                                            *)

LoopStates == {"none", "sleeping", "sweeping", "pinging", "judging", "crashed"}

HealthTypeOK ==
  /\ server \in [Peers -> {"up", "down"}]
  /\ healthy \in [Peers -> BOOLEAN]
  /\ loop \in [Peers -> LoopStates]
  /\ todo \in [Peers -> SUBSET Peers]
  /\ target \in [Peers -> Peers]
  /\ alive \in [Peers -> BOOLEAN]
  /\ starts \in [Peers -> 0 .. MaxStarts]

\* A relay pings others only, and has no sweep under way unless it runs; whoever
\* is started has a loop, which goes on or has crashed.
LoopInv ==
  \A r \in Peers :
    /\ r \notin todo[r]
    /\ loop[r] \in {"pinging", "judging"} => target[r] # r
    /\ server[r] = "up" <=> loop[r] # "none"

HealthInv == HealthTypeOK /\ LoopInv

LEMMA InitHealth == HealthInit => HealthInv
BY RelayHealthAssumption DEF HealthInit, HealthInv, HealthTypeOK, LoopInv, LoopStates

LEMMA NextHealth == HealthInv /\ [HealthNext]_healthVars => HealthInv'
<1> SUFFICES ASSUME HealthInv, [HealthNext]_healthVars PROVE HealthInv'
  OBVIOUS
<1> USE DEF HealthInv, HealthTypeOK, LoopInv, LoopStates
<1>1. ASSUME NEW r \in Peers, StartRelay(r) \/ StartFails(r) PROVE HealthInv'
  <2>1. PICK bound \in BOOLEAN : Starting(r, bound)
    BY <1>1 DEF StartRelay, StartFails
  <2>2. starts[r] + 1 \in 0 .. MaxStarts
    BY <2>1, RelayHealthAssumption DEF Starting
  <2>3. HealthTypeOK'
    BY <2>1, <2>2 DEF Starting
  <2>4. LoopInv'
    BY <2>1 DEF Starting
  <2> QED BY <2>3, <2>4
<1>2. ASSUME NEW r \in Peers, StopRelay(r) \/ End(r) PROVE HealthInv'
  <2>1. EndLoop(r) /\ healthy' \in [Peers -> BOOLEAN]
    BY <1>2 DEF StopRelay, End
  <2>2. HealthTypeOK'
    BY <2>1 DEF EndLoop
  <2>3. LoopInv'
    BY <2>1 DEF EndLoop
  <2> QED BY <2>2, <2>3
<1>3. ASSUME NEW r \in Peers, Sweep(r) \/ SweepDone(r) PROVE HealthInv'
  BY <1>3 DEF Sweep, SweepDone
<1>4. ASSUME NEW r \in Peers, Ping(r) PROVE HealthInv'
  <2>1. HealthTypeOK'
    BY <1>4 DEF Ping
  <2>2. LoopInv'
    BY <1>4 DEF Ping
  <2> QED BY <2>1, <2>2
<1>5. ASSUME NEW r \in Peers, PingAnswered(r) \/ PingSilent(r) PROVE HealthInv'
  <2>1. PICK answered \in BOOLEAN : PingEnds(r, answered)
    BY <1>5 DEF PingAnswered, PingSilent
  <2>2. HealthTypeOK'
    BY <2>1 DEF PingEnds
  <2>3. LoopInv'
    BY <2>1 DEF PingEnds
  <2> QED BY <2>2, <2>3
<1>6. ASSUME NEW r \in Peers, PingReset(r) PROVE HealthInv'
  BY <1>6 DEF PingReset
<1>7. ASSUME NEW r \in Peers, Judge(r) PROVE HealthInv'
  BY <1>7 DEF Judge
<1>8. CASE UNCHANGED healthVars
  BY <1>8 DEF healthVars
<1> QED BY <1>1, <1>2, <1>3, <1>4, <1>5, <1>6, <1>7, <1>8 DEF HealthNext, LoopStep

\* Relays, their records and their loops keep their form, and no relay judges
\* itself.
THEOREM HealthTypeCorrect == HealthSpec => [](HealthTypeOK /\ LoopInv)
BY InitHealth, NextHealth, PTL DEF HealthSpec, HealthInv

\* While a relay stays down, its record is set healthy by an answer it gave before,
\* each of which counts once; while one that answers in time stays up, it is set
\* unhealthy by a ping that found it down before, each of which counts once
\* (_heartbeat_loop, _ping_relay).
THEOREM RecordsFollowPings == HealthSpec => OldResultsOnly
<1>1. HealthInv /\ [HealthNext]_healthVars =>
        [\A r \in Peers : NoNewMistake(r)]_healthVars
  <2> SUFFICES ASSUME HealthInv, HealthNext, NEW r \in Peers PROVE NoNewMistake(r)
    OBVIOUS
  <2> USE DEF NoNewMistake, UnderWay, HealthInv, HealthTypeOK, LoopInv, LoopStates
  <2>1. ASSUME NEW p \in Peers, StartRelay(p) \/ StartFails(p) PROVE NoNewMistake(r)
    BY <2>1 DEF StartRelay, StartFails, Starting
  <2>2. ASSUME NEW p \in Peers, StopRelay(p) \/ End(p) PROVE NoNewMistake(r)
    BY <2>2 DEF StopRelay, End, EndLoop
  <2>3. ASSUME NEW p \in Peers, Sweep(p) \/ SweepDone(p) PROVE NoNewMistake(r)
    BY <2>3 DEF Sweep, SweepDone
  <2>4. ASSUME NEW p \in Peers, Ping(p) PROVE NoNewMistake(r)
    BY <2>4 DEF Ping
  <2>5. ASSUME NEW p \in Peers, PingAnswered(p) \/ PingSilent(p) \/ PingReset(p)
        PROVE  NoNewMistake(r)
    BY <2>5 DEF PingAnswered, PingSilent, PingReset, PingEnds
  <2>6. ASSUME NEW p \in Peers, Judge(p) PROVE NoNewMistake(r)
    BY <2>6 DEF Judge
  <2> QED BY <2>1, <2>2, <2>3, <2>4, <2>5, <2>6 DEF HealthNext, LoopStep
<1> QED BY <1>1, InitHealth, NextHealth, PTL DEF HealthSpec, OldResultsOnly
=============================================================================
