------------------------------ MODULE CityProofs ------------------------------
(***************************************************************************)
(* Proofs about the city and the virtual cloud: the launcher (Launcher),   *)
(* the integrity guard (IntegrityGuard) and the bots that share a ledger   *)
(* (World), for any number of bots, calls, labels and requests; and, for   *)
(* any number of resources, nodes and threads, that the registry of nodes  *)
(* agrees with the store of the cloud's manager (VCloud).                  *)
(***************************************************************************)
EXTENDS World, IntegrityGuard, Launcher, VCloud, FiniteSetTheorems, SequenceTheorems, TLAPS

----------------------------------------------------------------------------
(* Launcher: no port is left open.                                         *)

\* Where a port that is open belongs: to a task that has not ended, or to one
\* that was cancelled before it was handed its server.
PortInv ==
  \A b \in listening : task[b] \in {"opening", "serving"} \/ (task[b] = "ended" /\ b \in caught)

\* Who has a server.
ServerInv ==
  \A b \in Bots : /\ task[b] = "serving" => b \in server
                  /\ b \in server => task[b] \in {"serving", "ended"}

\* What shutdown() has cancelled.
CancelInv ==
  /\ shutdown # "returned" => cancelled = {} /\ caught = {}
  /\ shutdown = "returned" => \A b \in Bots : task[b] # "ended" => b \in cancelled
  /\ \A b \in cancelled : task[b] = "opening" => b \in caught

LauncherInv ==
  /\ listening \subseteq Bots /\ cancelled \subseteq Bots
  /\ task \in [Bots -> {"created", "opening", "serving", "ended"}]
  /\ PortInv /\ ServerInv /\ CancelInv

\* Whatever shutdown() finds a bot doing, it leaves no port open but the one of
\* a task cancelled between opening it and being handed the server.
THEOREM ShutdownClosesPorts == LauncherSpec => []ShutdownComplete
<1>1. LauncherInit => LauncherInv
  BY DEF LauncherInit, LauncherInv, PortInv, ServerInv, CancelInv
<1>2. LauncherInv /\ [LauncherNext]_launcherVars => LauncherInv'
  <2> SUFFICES ASSUME LauncherInv, [LauncherNext]_launcherVars PROVE LauncherInv'
    OBVIOUS
  <2> USE DEF LauncherInv, PortInv, ServerInv, CancelInv, Runs, Task
  <2>1. ASSUME NEW b \in Bots, OpenPort(b) PROVE LauncherInv'
    BY <2>1 DEF OpenPort
  <2>2. ASSUME NEW b \in Bots, PortInUse(b) PROVE LauncherInv'
    BY <2>2 DEF PortInUse
  <2>3. ASSUME NEW b \in Bots, Serve(b) PROVE LauncherInv'
    BY <2>3 DEF Serve
  <2>4. ASSUME NEW b \in Bots, ServingEnds(b) PROVE LauncherInv'
    BY <2>4 DEF ServingEnds
  <2>5. ASSUME NEW b \in Bots, TaskCancelled(b) PROVE LauncherInv'
    BY <2>5 DEF TaskCancelled
  <2>6. CASE ShutdownBegins \/ ServerClosed \/ NoServer
    BY <2>6 DEF ShutdownBegins, ServerClosed, NoServer
  <2>7. CASE CloseServer
    BY <2>7 DEF CloseServer
  <2>8. CASE CancelTasks
    BY <2>8 DEF CancelTasks
  <2>9. CASE UNCHANGED launcherVars
    BY <2>9 DEF launcherVars
  <2> QED BY <2>1, <2>2, <2>3, <2>4, <2>5, <2>6, <2>7, <2>8, <2>9 DEF LauncherNext
<1>3. LauncherInv => ShutdownComplete
  BY DEF LauncherInv, PortInv, CancelInv, ShutdownComplete, AtRest
<1> QED BY <1>1, <1>2, <1>3, PTL DEF LauncherSpec

----------------------------------------------------------------------------
(* Counting in a sequence.                                                 *)

\* How often x occurs in s.
Occurrences(s, x) == Cardinality({n \in DOMAIN s : s[n] = x})

LEMMA OccurrencesAppend ==
  ASSUME NEW S, NEW s \in Seq(S), NEW e \in S, NEW x
  PROVE  /\ Occurrences(s, x) \in Nat
         /\ Occurrences(Append(s, e), x) = Occurrences(s, x) + (IF e = x THEN 1 ELSE 0)
<1> DEFINE L == Len(s)
           At == {n \in DOMAIN s : s[n] = x}
           AtNew == {n \in DOMAIN Append(s, e) : Append(s, e)[n] = x}
<1>1. /\ L \in Nat /\ DOMAIN s = 1..L /\ DOMAIN Append(s, e) = 1..(L + 1)
      /\ Append(s, e)[L + 1] = e /\ \A n \in 1..L : Append(s, e)[n] = s[n]
  OBVIOUS
<1>2. IsFiniteSet(At) /\ Cardinality(At) \in Nat /\ L + 1 \notin At
  <2>1. IsFiniteSet(1..L)
    <3>1. 1 \in Int /\ L \in Int
      BY <1>1
    <3> HIDE DEF L
    <3> QED BY <3>1, FS_Interval
  <2>2. IsFiniteSet(At)
    BY <1>1, <2>1, FS_Subset
  <2> QED BY <1>1, <2>2, FS_CardinalityType
<1>3. AtNew = IF e = x THEN At \cup {L + 1} ELSE At
  BY <1>1
<1>4. Cardinality(At \cup {L + 1}) = Cardinality(At) + 1
  BY <1>2, FS_AddElement
<1> HIDE DEF At, AtNew
<1>5. Cardinality(AtNew) = Cardinality(At) + (IF e = x THEN 1 ELSE 0)
  BY <1>2, <1>3, <1>4
<1> QED BY <1>2, <1>5 DEF Occurrences, At, AtNew

LEMMA OccurrencesEmpty == ASSUME NEW x PROVE Occurrences(<<>>, x) = 0
<1>1. {n \in DOMAIN <<>> : <<>>[n] = x} = {}
  OBVIOUS
<1> QED BY <1>1, FS_EmptySet DEF Occurrences

----------------------------------------------------------------------------
(* IntegrityGuard: what was found good stays good.                         *)

Verdicts == [by : Checks, violated : BOOLEAN]

CheckStates ==
  [at : {"idle", "ended"}]
    \cup [at    : {"unset", "matching", "mismatch", "reported", "ended"},
          label : Labels, data : Data]

GuardTypeOK ==
  /\ checksums \in [Labels -> Data \cup {NoDigest}]
  /\ violations \in Seq(Checks) /\ verdicts \in Seq(Verdicts)
  /\ check \in [Checks -> CheckStates]
  /\ approved \in [Labels -> SUBSET Data]

\* What was approved is the digest, but where two calls found none.
ApprovedInv == \A l \in Labels \ raced : approved[l] \subseteq {checksums[l]}

\* The ledger tells of a violation when its call has ended.
ReportedInv ==
  \A c \in Checks :
    Occurrences(violations, c) =
      Occurrences(verdicts, [by |-> c, violated |-> TRUE])
        + (IF check[c].at = "reported" THEN 1 ELSE 0)

GuardInv == GuardTypeOK /\ ApprovedInv /\ ReportedInv

\* Calls that are under way have brought their label and their data.
LEMMA CheckUnderWay ==
  ASSUME GuardTypeOK, NEW c \in Checks, check[c].at \notin {"idle", "ended"}
  PROVE  check[c] \in [at    : {"unset", "matching", "mismatch", "reported", "ended"},
                       label : Labels, data : Data]
BY DEF GuardTypeOK, CheckStates

\* A call that goes on keeps what it brought.
LEMMA CheckedType ==
  ASSUME GuardTypeOK, NEW c \in Checks, NEW at \in {"reported", "ended"}, Checked(c, at),
         at = "ended" \/ check[c].at \notin {"idle", "ended"}
  PROVE  /\ check' \in [Checks -> CheckStates] /\ check'[c].at = at
         /\ \A k \in Checks \ {c} : check'[k] = check[k]
<1>1. check[c] \in CheckStates
  BY DEF GuardTypeOK
<1>2. [check[c] EXCEPT !.at = at] \in CheckStates /\ [check[c] EXCEPT !.at = at].at = at
  <2>1. CASE check[c] \in [at : {"idle", "ended"}]
    BY <2>1 DEF CheckStates
  <2>2. CASE check[c] \in [at    : {"unset", "matching", "mismatch", "reported", "ended"},
                           label : Labels, data : Data]
    BY <2>2 DEF CheckStates
  <2> QED BY <1>1, <2>1, <2>2 DEF CheckStates
<1>3. check' = [check EXCEPT ![c] = [check[c] EXCEPT !.at = at]]
  BY DEF Checked
<1> QED BY <1>2, <1>3 DEF GuardTypeOK

\* All that verify() has approved is the digest of its label, whichever threads
\* ask and however their steps interleave, and the ledger and full_report()
\* tell of the same violations.
THEOREM GoodStaysGood == GuardSpec => []TamperingNoticed
<1>1. GuardInit => GuardInv
  BY OccurrencesEmpty
     DEF GuardInit, GuardInv, GuardTypeOK, CheckStates, ApprovedInv, ReportedInv
<1>2. GuardInv /\ [GuardNext]_guardVars => GuardInv'
  <2> SUFFICES ASSUME GuardInv, [GuardNext]_guardVars PROVE GuardInv'
    OBVIOUS
  <2>0. GuardTypeOK /\ ApprovedInv /\ ReportedInv
    BY DEF GuardInv
  <2>1. ASSUME NEW c \in Checks, NEW l \in Labels, NEW d \in Data, Snapshot(c, l, d) PROVE GuardInv'
    <3>1. /\ check[c].at = "idle" /\ Checked(c, "ended") /\ UNCHANGED <<violations, verdicts>>
          /\ checksums' = [checksums EXCEPT ![l] = d]
          /\ approved' = [approved EXCEPT ![l] = {}] /\ raced' = raced \ {l}
      BY <2>1 DEF Snapshot
    <3>2. /\ check' \in [Checks -> CheckStates] /\ check'[c].at = "ended"
          /\ \A k \in Checks \ {c} : check'[k] = check[k]
      BY <2>0, <3>1, CheckedType
    <3>3. GuardTypeOK'
      BY <2>0, <3>1, <3>2 DEF GuardTypeOK
    <3>4. ApprovedInv'
      BY <2>0, <3>1 DEF GuardTypeOK, ApprovedInv
    <3>5. ReportedInv'
      BY <2>0, <3>1, <3>2 DEF ReportedInv
    <3> QED BY <3>3, <3>4, <3>5 DEF GuardInv
  <2>2. ASSUME NEW c \in Checks, NEW l \in Labels, NEW d \in Data, Verify(c, l, d) PROVE GuardInv'
    <3>1. PICK at \in {"unset", "matching", "mismatch"} :
            /\ check[c].at = "idle"
            /\ check' = [check EXCEPT ![c] = [at |-> at, label |-> l, data |-> d]]
            /\ UNCHANGED <<checksums, violations, verdicts, raced>>
            /\ \/ approved' = approved
               \/ checksums[l] = d /\ approved' = [approved EXCEPT ![l] = @ \cup {d}]
      BY <2>2 DEF Verify
    <3>2. [at |-> at, label |-> l, data |-> d] \in CheckStates
      BY DEF CheckStates
    <3>3. GuardTypeOK'
      BY <2>0, <3>1, <3>2 DEF GuardTypeOK
    <3>4. ApprovedInv'
      BY <2>0, <3>1 DEF GuardTypeOK, ApprovedInv
    <3>5. ReportedInv'
      BY <2>0, <3>1 DEF GuardTypeOK, ReportedInv
    <3> QED BY <3>3, <3>4, <3>5 DEF GuardInv
  <2>3. ASSUME NEW c \in Checks, FirstDigest(c) PROVE GuardInv'
    <3> DEFINE l == check[c].label
               d == check[c].data
    <3>1. l \in Labels /\ d \in Data
      BY <2>0, <2>3, CheckUnderWay DEF FirstDigest
    <3>2. /\ check[c].at = "unset" /\ Checked(c, "ended") /\ UNCHANGED <<violations, verdicts>>
          /\ checksums' = [checksums EXCEPT ![l] = d]
          /\ approved' = [approved EXCEPT ![l] = @ \cup {d}]
          /\ raced' = IF checksums[l] = NoDigest THEN raced ELSE raced \cup {l}
      BY <2>3 DEF FirstDigest
    <3>3. /\ check' \in [Checks -> CheckStates] /\ check'[c].at = "ended"
          /\ \A k \in Checks \ {c} : check'[k] = check[k]
      BY <2>0, <3>2, CheckedType
    <3> HIDE DEF l, d
    <3>4. GuardTypeOK'
      BY <2>0, <3>1, <3>2, <3>3 DEF GuardTypeOK
    \* Nothing is approved of a label without a digest.
    <3>5. ApprovedInv'
      BY <2>0, <3>1, <3>2, GuardAssumption DEF GuardTypeOK, ApprovedInv
    <3>6. ReportedInv'
      BY <2>0, <3>2, <3>3 DEF ReportedInv
    <3> QED BY <3>4, <3>5, <3>6 DEF GuardInv
  <2>4. ASSUME NEW c \in Checks, Report(c) PROVE GuardInv'
    <3>1. /\ check[c].at = "mismatch" /\ Checked(c, "reported")
          /\ violations' = Append(violations, c)
          /\ UNCHANGED <<checksums, verdicts, approved, raced>>
      BY <2>4 DEF Report
    <3>2. /\ check' \in [Checks -> CheckStates] /\ check'[c].at = "reported"
          /\ \A k \in Checks \ {c} : check'[k] = check[k]
      BY <2>0, <3>1, CheckedType
    <3>3. GuardTypeOK'
      BY <2>0, <3>1, <3>2, AppendProperties DEF GuardTypeOK
    <3>4. ApprovedInv'
      BY <2>0, <3>1 DEF ApprovedInv
    <3>5. \A k \in Checks : /\ Occurrences(violations, k) \in Nat
                            /\ Occurrences(violations', k) =
                                 Occurrences(violations, k) + (IF c = k THEN 1 ELSE 0)
      BY <2>0, <3>1, OccurrencesAppend DEF GuardTypeOK
    <3>6. ASSUME NEW k \in Checks
          PROVE  Occurrences(violations', k) =
                   Occurrences(verdicts', [by |-> k, violated |-> TRUE])
                     + (IF check'[k].at = "reported" THEN 1 ELSE 0)
      <4> DEFINE told == Occurrences(verdicts, [by |-> k, violated |-> TRUE])
      <4>1. told \in Nat /\ Occurrences(verdicts', [by |-> k, violated |-> TRUE]) = told
        <5>1. [by |-> k, violated |-> TRUE] \in Verdicts
          BY DEF Verdicts
        <5> QED BY <2>0, <3>1, <5>1, OccurrencesAppend DEF GuardTypeOK
      <4>2. Occurrences(violations, k) = told + (IF check[k].at = "reported" THEN 1 ELSE 0)
        BY <2>0 DEF ReportedInv
      <4> HIDE DEF told
      <4> QED BY <3>1, <3>2, <3>5, <4>1, <4>2
    <3>7. ReportedInv'
      BY <3>6 DEF ReportedInv
    <3> QED BY <3>3, <3>4, <3>7 DEF GuardInv
  <2>5. ASSUME NEW c \in Checks, RecordVerdict(c) PROVE GuardInv'
    <3> DEFINE verdict == [by |-> c, violated |-> check[c].at = "reported"]
    <3>1. /\ check[c].at \in {"matching", "reported"} /\ Checked(c, "ended")
          /\ verdicts' = Append(verdicts, verdict)
          /\ UNCHANGED <<checksums, violations, approved, raced>>
      BY <2>5 DEF RecordVerdict
    <3>2. /\ check' \in [Checks -> CheckStates] /\ check'[c].at = "ended"
          /\ \A k \in Checks \ {c} : check'[k] = check[k]
      BY <2>0, <3>1, CheckedType
    <3>3. verdict \in Verdicts
      BY DEF Verdicts
    <3>4. GuardTypeOK'
      BY <2>0, <3>1, <3>2, <3>3, AppendProperties DEF GuardTypeOK
    <3>5. ApprovedInv'
      BY <2>0, <3>1 DEF ApprovedInv
    <3>6. \A k \in Checks :
            LET violation == [by |-> k, violated |-> TRUE] IN
            /\ Occurrences(verdicts, violation) \in Nat
            /\ Occurrences(verdicts', violation) =
                 Occurrences(verdicts, violation) + (IF verdict = violation THEN 1 ELSE 0)
      BY <2>0, <3>1, <3>3, OccurrencesAppend DEF GuardTypeOK
    <3>7. \A k \in Checks :
            verdict = [by |-> k, violated |-> TRUE] <=> k = c /\ check[c].at = "reported"
      BY <3>1
    <3> HIDE DEF verdict
    <3>8. ASSUME NEW k \in Checks
          PROVE  Occurrences(violations', k) =
                   Occurrences(verdicts', [by |-> k, violated |-> TRUE])
                     + (IF check'[k].at = "reported" THEN 1 ELSE 0)
      <4> DEFINE violation == [by |-> k, violated |-> TRUE]
      <4>1. Occurrences(violations, k) =
              Occurrences(verdicts, violation) + (IF check[k].at = "reported" THEN 1 ELSE 0)
        BY <2>0 DEF ReportedInv
      <4>2. /\ Occurrences(verdicts, violation) \in Nat
            /\ Occurrences(verdicts', violation) =
                 Occurrences(verdicts, violation) + (IF verdict = violation THEN 1 ELSE 0)
            /\ verdict = violation <=> k = c /\ check[c].at = "reported"
        BY <3>6, <3>7
      <4> HIDE DEF violation
      <4>3. Occurrences(violations', k) =
              Occurrences(verdicts', violation) + (IF check'[k].at = "reported" THEN 1 ELSE 0)
        BY <3>1, <3>2, <4>1, <4>2
      <4> QED BY <4>3 DEF violation
    <3>9. ReportedInv'
      BY <3>8 DEF ReportedInv
    <3> QED BY <3>4, <3>5, <3>9 DEF GuardInv
  <2>6. CASE UNCHANGED guardVars
    BY <2>0, <2>6 DEF guardVars, GuardInv, GuardTypeOK, ApprovedInv, ReportedInv
  <2> QED BY <2>1, <2>2, <2>3, <2>4, <2>5, <2>6 DEF GuardNext
<1>3. GuardInv => TamperingNoticed
  BY DEF GuardInv, ApprovedInv, ReportedInv, TamperingNoticed, Occurrences
<1> QED BY <1>1, <1>2, <1>3, PTL DEF GuardSpec

----------------------------------------------------------------------------
(* World: the tables can be told from the ledger.                          *)

Kinds ==
  {"bot_deployed", "policy_issued", "alert_raised", "citizen_joined", "citizen_left",
   "audit_passed", "audit_failed", "threat_detected", "integrity_verified",
   "integrity_violated", "build_completed", "invalid_creator", "blacklisted",
   "signature_mismatch"}

Subjects == Staff \cup Newcomers \cup Snapshots \cup {"registry", "ledger"}
Events == [kind : Kinds, id : Subjects]

\* What the ledger can hold.
Entries == Events \cup EarlierEntries

WorldTypeOK ==
  /\ history \in Seq(Entries) /\ loaded \in 0 .. Len(history)
  /\ threats \in Seq(Events) /\ built \in Seq(Newcomers)
  /\ policies \in Nat /\ alerts \in Nat
  /\ nodeRegistry \in [Staff \cup Newcomers -> Creators]
  /\ IsFiniteSet(Foreign)

WorldInv == WorldTypeOK /\ LedgerReplays

\* Where s has entries of a kind.
OfKind(s, kind) == {i \in DOMAIN s : s[i].kind = kind}

LEMMA OfKindFinite ==
  ASSUME NEW S, NEW s \in Seq(S), NEW kind
  PROVE  IsFiniteSet(OfKind(s, kind)) /\ Cardinality(OfKind(s, kind)) \in Nat
<1>1. IsFiniteSet(1..Len(s))
  BY LenProperties, FS_Interval
<1>2. OfKind(s, kind) \subseteq 1..Len(s)
  BY DEF OfKind
<1> QED BY <1>1, <1>2, FS_Subset, FS_CardinalityType

LEMMA OfKindAppend ==
  ASSUME NEW S, NEW s \in Seq(S), NEW e \in S, NEW kind
  PROVE  /\ OfKind(Append(s, e), kind) =
              OfKind(s, kind) \cup (IF e.kind = kind THEN {Len(s) + 1} ELSE {})
         /\ Cardinality(OfKind(Append(s, e), kind)) =
              Cardinality(OfKind(s, kind)) + (IF e.kind = kind THEN 1 ELSE 0)
         /\ OfKind(s, kind) \subseteq 1..Len(s)
<1>1. /\ Len(s) \in Nat /\ DOMAIN s = 1..Len(s) /\ DOMAIN Append(s, e) = 1..(Len(s) + 1)
      /\ Append(s, e)[Len(s) + 1] = e /\ \A n \in 1..Len(s) : Append(s, e)[n] = s[n]
  OBVIOUS
<1>2. OfKind(Append(s, e), kind) = OfKind(s, kind) \cup (IF e.kind = kind THEN {Len(s) + 1} ELSE {})
  BY <1>1 DEF OfKind
<1>3. OfKind(s, kind) \subseteq 1..Len(s) /\ Len(s) + 1 \notin OfKind(s, kind)
  BY <1>1 DEF OfKind
<1>4. IsFiniteSet(OfKind(s, kind)) /\ Cardinality(OfKind(s, kind)) \in Nat
  BY OfKindFinite
<1>5. Cardinality(OfKind(s, kind) \cup {Len(s) + 1}) = Cardinality(OfKind(s, kind)) + 1
  BY <1>3, <1>4, FS_AddElement
<1>6. Cardinality(OfKind(Append(s, e), kind)) =
        Cardinality(OfKind(s, kind)) + (IF e.kind = kind THEN 1 ELSE 0)
  <2>1. CASE e.kind = kind
    <3>1. OfKind(Append(s, e), kind) = OfKind(s, kind) \cup {Len(s) + 1}
      BY <1>2, <2>1
    <3> QED BY <1>5, <2>1, <3>1
  <2>2. CASE e.kind # kind
    <3>1. OfKind(Append(s, e), kind) = OfKind(s, kind)
      BY <1>2, <2>2
    <3> QED BY <1>4, <2>2, <3>1
  <2> QED BY <2>1, <2>2
<1> QED BY <1>2, <1>3, <1>6

\* Some entry of a kind is about id.
Told(kind, id) == PositionsOf(kind, id) # {}

\* What an entry changes in what the ledger tells.
LEMMA RecordsTells ==
  ASSUME history \in Seq(Entries), loaded \in 0 .. Len(history), NEW kind \in Kinds,
         NEW id \in Subjects, Records(kind, id)
  PROVE  /\ history' \in Seq(Entries) /\ loaded' \in 0 .. Len(history')
         /\ \A k : /\ Cardinality(Positions(k)) \in Nat
                   /\ Cardinality(Positions(k)') =
                        Cardinality(Positions(k)) + (IF k = kind THEN 1 ELSE 0)
                   /\ Ids(k)' = Ids(k) \cup (IF k = kind THEN {id} ELSE {})
                   /\ \A n : Told(k, n)' <=> (Told(k, n) \/ (k = kind /\ n = id))
         /\ \A k, n : /\ Cardinality(PositionsOf(k, n)) \in Nat
                      /\ Cardinality(PositionsOf(k, n)') =
                           Cardinality(PositionsOf(k, n))
                             + (IF k = kind /\ n = id THEN 1 ELSE 0)
         /\ \A n : Joined(n)' <=>
                     \/ kind = "citizen_joined" /\ n = id
                     \/ Joined(n) /\ ~(kind = "citizen_left" /\ n = id)
<1> DEFINE L == Len(history)
<1>1. Event(kind, id) \in Entries /\ Event(kind, id).kind = kind /\ Event(kind, id).id = id
  BY DEF Entries, Events, Event
<1>2. history' = Append(history, Event(kind, id)) /\ loaded' = loaded
  BY DEF Records
<1>3. /\ history' \in Seq(Entries) /\ L \in Nat /\ history'[L + 1] = Event(kind, id)
      /\ \A n \in 1..L : history'[n] = history[n]
      /\ DOMAIN history = 1..L /\ DOMAIN history' = 1..(L + 1)
      /\ loaded' \in 0 .. Len(history') /\ L + 1 > loaded
  BY <1>1, <1>2
\* Counting the positions of which P holds.
<1>c. ASSUME NEW T \in SUBSET (1..L), NEW b \in BOOLEAN
      PROVE  /\ Cardinality(T) \in Nat
             /\ Cardinality(T \cup (IF b THEN {L + 1} ELSE {})) =
                  Cardinality(T) + (IF b THEN 1 ELSE 0)
  <2>1. 1 \in Int /\ L \in Int /\ L + 1 \notin T
    BY <1>3
  <2>2. IsFiniteSet(1..L)
    <3> HIDE DEF L
    <3> QED BY <2>1, FS_Interval
  <2>3. IsFiniteSet(T) /\ Cardinality(T) \in Nat
    BY <2>2, FS_Subset, FS_CardinalityType
  <2>4. Cardinality(T \cup {L + 1}) = Cardinality(T) + 1
    BY <2>1, <2>3, FS_AddElement
  <2>5. CASE b
    BY <2>3, <2>4, <2>5
  <2>6. CASE ~b
    <3>1. T \cup (IF b THEN {L + 1} ELSE {}) = T
      BY <2>6
    <3> QED BY <2>3, <2>6, <3>1
  <2> QED BY <2>5, <2>6
<1>4. ASSUME NEW k
      PROVE  /\ Positions(k)' = Positions(k) \cup (IF k = kind THEN {L + 1} ELSE {})
             /\ Cardinality(Positions(k)) \in Nat
             /\ Cardinality(Positions(k)') = Cardinality(Positions(k)) + (IF k = kind THEN 1 ELSE 0)
             /\ Positions(k) \subseteq 1..L
  <2>1. /\ Positions(k)' = Positions(k) \cup (IF k = kind THEN {L + 1} ELSE {})
        /\ Positions(k) \subseteq 1..L
    BY <1>1, <1>2, <1>3 DEF Positions
  <2> QED BY <1>c, <2>1
<1>5. ASSUME NEW k PROVE Ids(k)' = Ids(k) \cup (IF k = kind THEN {id} ELSE {})
  BY <1>1, <1>3, <1>4, SMTT(20) DEF Ids
<1>6. ASSUME NEW k, NEW n
      PROVE  /\ Told(k, n)' <=> (Told(k, n) \/ (k = kind /\ n = id))
             /\ Cardinality(PositionsOf(k, n)) \in Nat
             /\ Cardinality(PositionsOf(k, n)') =
                  Cardinality(PositionsOf(k, n)) + (IF k = kind /\ n = id THEN 1 ELSE 0)
  <2>1. /\ PositionsOf(k, n)' =
             PositionsOf(k, n) \cup (IF k = kind /\ n = id THEN {L + 1} ELSE {})
        /\ PositionsOf(k, n) \subseteq 1..L
    BY <1>1, <1>3, <1>4 DEF PositionsOf
  <2>2. Told(k, n)' <=> (Told(k, n) \/ (k = kind /\ n = id))
    BY <2>1 DEF Told
  <2> QED BY <1>c, <2>1, <2>2
<1>7. ASSUME NEW n
      PROVE  Joined(n)' <=> \/ kind = "citizen_joined" /\ n = id
                            \/ Joined(n) /\ ~(kind = "citizen_left" /\ n = id)
  <2>1. \A k : /\ Positions(k)' = Positions(k) \cup (IF k = kind THEN {L + 1} ELSE {})
               /\ Positions(k) \subseteq 1..L
    BY <1>4
  <2>2. \A k : \A i \in Positions(k) : i \in Nat /\ i < L + 1 /\ history'[i] = history[i]
    BY <1>3, <2>1
  <2>3. CASE kind = "citizen_joined" /\ n = id
    <3>1. L + 1 \in Positions("citizen_joined")' /\ history'[L + 1].id = n
      BY <1>1, <1>3, <2>1, <2>3
    <3>2. \A j \in Positions("citizen_left")' : j < L + 1
      BY <2>1, <2>2, <2>3
    <3> QED BY <2>3, <3>1, <3>2 DEF Joined
  <2>4. CASE kind = "citizen_left" /\ n = id
    <3>1. L + 1 \in Positions("citizen_left")' /\ history'[L + 1].id = n
      BY <1>1, <1>3, <2>1, <2>4
    <3>2. \A i \in Positions("citizen_joined")' : i \in Nat /\ i < L + 1
      BY <2>1, <2>2, <2>4
    <3>3. ~Joined(n)'
      BY <1>3, <3>1, <3>2 DEF Joined
    <3> QED BY <2>4, <3>3
  <2>5. CASE ~(kind \in {"citizen_joined", "citizen_left"} /\ n = id)
    <3>1. \A k \in {"citizen_joined", "citizen_left"} :
            {i \in Positions(k)' : history'[i].id = n} = {i \in Positions(k) : history[i].id = n}
      BY <1>1, <1>3, <2>1, <2>2, <2>5
    <3> QED BY <2>5, <3>1 DEF Joined
  <2> QED BY <2>3, <2>4, <2>5
<1> QED BY <1>3, <1>4, <1>5, <1>6, <1>7

\* A launched world: the ledger tells of the deployments.
LEMMA WorldInvInit == WorldInit => WorldInv
<1> SUFFICES ASSUME WorldInit PROVE WorldInv
  OBVIOUS
<1> DEFINE N == Cardinality(Staff)
<1>1. N \in Nat /\ ExistsBijection(1..N, Staff)
  BY WorldAssumption, FS_CardinalityType
<1> DEFINE made == CHOOSE log \in Deployments(Staff) : TRUE
<1>2. made \in Deployments(Staff)
  <2>1. PICK f \in [1..N -> Staff] : \A b \in Staff : \E n \in 1..N : f[n] = b
    BY <1>1 DEF ExistsBijection, Bijection, Surjection
  <2> DEFINE log == [n \in 1..N |-> Event("bot_deployed", f[n])]
  <2>2. log \in [1..N -> {Event("bot_deployed", b) : b \in Staff}]
    BY <2>1
  <2>3. \A b \in Staff : \E n \in DOMAIN log : log[n].id = b
    BY <2>1 DEF Event
  <2>4. log \in Deployments(Staff)
    BY <2>2, <2>3 DEF Deployments
  <2> HIDE DEF log
  <2> QED BY <2>4
<1>a. PICK log \in Earlier : loaded = Len(log) /\ history = log \o made
  BY DEF WorldInit
<1> HIDE DEF made
<1>b. log \in Seq(Entries)
  <2>1. PICK m \in 0 .. MaxEarlier : log \in [1 .. m -> EarlierEntries]
    BY DEF Earlier
  <2>2. m \in Nat /\ log \in [1 .. m -> Entries]
    BY <2>1, WorldAssumption DEF Entries
  <2> QED BY <2>2, SeqDef
<1>c. /\ DOMAIN made = 1..N /\ \A n \in 1..N : made[n].kind = "bot_deployed" /\ made[n].id \in Staff
      /\ \A b \in Staff : \E n \in 1..N : made[n].id = b
  BY <1>2 DEF Deployments, Event
<1>d. made \in Seq(Entries) /\ Len(made) = N
  <2>1. \A b \in Staff : Event("bot_deployed", b) \in Entries
    BY DEF Event, Entries, Events, Kinds, Subjects
  <2>2. made \in [1..N -> Entries]
    BY <1>2, <2>1 DEF Deployments
  <2> QED BY <1>1, <2>2, SeqDef, LenProperties
<1>4. /\ history \in Seq(Entries) /\ loaded \in 0 .. Len(history)
      /\ DOMAIN history = 1..(loaded + N) /\ loaded \in Nat
      /\ \A n \in 1..N : loaded + n \in DOMAIN history /\ history[loaded + n] = made[n]
  <2>1. /\ log \o made \in Seq(Entries) /\ Len(log) \in Nat
        /\ Len(log \o made) = Len(log) + N
        /\ \A i \in 1..(Len(log) + N) :
              (log \o made)[i] = IF i <= Len(log) THEN log[i] ELSE made[i - Len(log)]
    BY <1>b, <1>d, ConcatProperties, LenProperties
  <2>2. history \in Seq(Entries) /\ Len(history) = loaded + N /\ loaded \in Nat
    BY <1>a, <2>1
  <2>3. \A n \in 1..N : loaded + n \in 1..(loaded + N) /\ ~(loaded + n <= loaded)
                        /\ (loaded + n) - loaded = n
    BY <1>1, <2>2
  <2>4. \A n \in 1..N : history[loaded + n] = made[n]
    BY <1>a, <2>1, <2>3
  <2> QED BY <1>1, <2>2, <2>3, <2>4, LenProperties
<1>3. /\ \A i \in DOMAIN history :
            i > loaded => history[i].kind = "bot_deployed" /\ history[i].id \in Staff
      /\ \A b \in Staff : \E i \in DOMAIN history : i > loaded /\ history[i].id = b
  <2>1. \A i \in DOMAIN history : i > loaded => i - loaded \in 1..N /\ loaded + (i - loaded) = i
    BY <1>1, <1>4
  <2>2. \A n \in 1..N : loaded + n > loaded
    BY <1>1, <1>4
  <2>3. ASSUME NEW i \in DOMAIN history, i > loaded
        PROVE  history[i].kind = "bot_deployed" /\ history[i].id \in Staff
    <3>1. i - loaded \in 1..N /\ history[i] = made[i - loaded]
      BY <1>4, <2>1, <2>3
    <3> QED BY <1>c, <3>1
  <2>4. ASSUME NEW b \in Staff
        PROVE  \E i \in DOMAIN history : i > loaded /\ history[i].id = b
    <3>1. PICK n \in 1..N : made[n].id = b
      BY <1>c
    <3> QED BY <1>4, <2>2, <3>1
  <2> QED BY <2>3, <2>4
<1>5. Ids("bot_deployed") = Staff
  BY <1>3 DEF Ids, Positions
<1>6. \A k : k # "bot_deployed" => Positions(k) = {}
  BY <1>3 DEF Positions
<1>7. Cardinality({}) = 0 /\ IsFiniteSet({})
  BY FS_EmptySet
<1>8. WorldTypeOK
  <2>1. Foreign = {}
    BY WorldAssumption DEF WorldInit, Foreign
  <2>2. nodeRegistry \in [Staff \cup Newcomers -> Creators]
    BY DEF WorldInit, Creators
  <2> QED BY <1>4, <1>7, <2>1, <2>2
      DEF WorldInit, WorldTypeOK, GovernorMade, ProtectorMade, BuilderMade
<1>9. \A k : ThreatCount(k) = 0
  <2>1. \A k : {i \in DOMAIN threats : threats[i].kind = k} = {}
    BY DEF WorldInit, ProtectorMade
  <2> QED BY <1>7, <2>1 DEF ThreatCount
<1>10. LedgerReplays
  <2>1. Len(built) = 0
    BY DEF WorldInit, BuilderMade
  <2>2. \A n \in Newcomers : ~Joined(n)
    BY <1>6 DEF Joined
  <2>3. Ids("threat_detected") = {}
    BY <1>6 DEF Ids
  <2>4. \A k : k # "bot_deployed" => Cardinality(Positions(k)) = 0
    <3> SUFFICES ASSUME NEW k, k # "bot_deployed" PROVE Cardinality(Positions(k)) = 0
      OBVIOUS
    <3>1. Positions(k) = {}
      BY <1>6
    <3> QED BY <1>7, <3>1
  <2>5. bots = Staff /\ citizens = {} /\ policies = 0 /\ alerts = 0 /\ blacklist = {}
    BY DEF WorldInit, GovernorMade, ProtectorMade
  <2>6. PositionsOf("audit_failed", Protector) = {} /\ PositionsOf("integrity_violated", Protector) = {}
    BY <1>6 DEF PositionsOf
  <2>7. Cardinality(PositionsOf("integrity_violated", Protector)) = 0
    BY <1>7, <2>6
  <2> QED BY <1>5, <1>9, <2>1, <2>2, <2>3, <2>4, <2>5, <2>6, <2>7 DEF LedgerReplays
<1> QED BY <1>8, <1>10 DEF WorldInv

\* LedgerReplays, with what is told of the protector's audits put in a word.
LEMMA ReplaysAs ==
  LedgerReplays <=>
    /\ bots = Ids("bot_deployed")
    /\ citizens = {n \in Newcomers : Joined(n)}
    /\ policies = Cardinality(Positions("policy_issued"))
    /\ alerts = Cardinality(Positions("alert_raised"))
    /\ blacklist = Ids("threat_detected")
    /\ Len(built) = Cardinality(Positions("build_completed"))
    /\ ThreatCount("signature_mismatch") =
         Cardinality(PositionsOf("integrity_violated", Protector))
    /\ ThreatCount("invalid_creator") > 0 <=> Told("audit_failed", Protector)
BY DEF LedgerReplays, Told

\* A new threat of some kind.
LEMMA ThreatAppended ==
  ASSUME WorldTypeOK, NEW e \in Events, threats' = Append(threats, e)
  PROVE  /\ threats' \in Seq(Events)
         /\ \A k : /\ ThreatCount(k) \in Nat
                   /\ ThreatCount(k)' = ThreatCount(k) + (IF e.kind = k THEN 1 ELSE 0)
<1>1. threats \in Seq(Events)
  BY DEF WorldTypeOK
<1>2. ASSUME NEW k
      PROVE  /\ ThreatCount(k) \in Nat
             /\ ThreatCount(k)' = ThreatCount(k) + (IF e.kind = k THEN 1 ELSE 0)
  <2>1. /\ ThreatCount(k) = Cardinality(OfKind(threats, k))
        /\ ThreatCount(k)' = Cardinality(OfKind(Append(threats, e), k))
    BY DEF ThreatCount, OfKind
  <2> QED BY <1>1, <2>1, OfKindAppend, OfKindFinite
<1> QED BY <1>1, <1>2, AppendProperties

\* A step that records an event and changes the tables as the event says.
LEMMA RecordedStep ==
  ASSUME WorldInv, NEW kind \in Kinds,
         NEW id \in Subjects, Records(kind, id),
         kind \in {"citizen_joined", "citizen_left"} => id \in Newcomers,
         bots' = bots \cup (IF kind = "bot_deployed" THEN {id} ELSE {}),
         kind = "citizen_joined" => citizens' = citizens \cup {id},
         kind = "citizen_left" => citizens' = citizens \ {id},
         kind \notin {"citizen_joined", "citizen_left"} => citizens' = citizens,
         policies' = policies + (IF kind = "policy_issued" THEN 1 ELSE 0),
         alerts' = alerts + (IF kind = "alert_raised" THEN 1 ELSE 0),
         blacklist' = blacklist \cup (IF kind = "threat_detected" THEN {id} ELSE {}),
         Len(built') = Len(built) + (IF kind = "build_completed" THEN 1 ELSE 0),
         ThreatCount("signature_mismatch")' =
           ThreatCount("signature_mismatch")
             + (IF kind = "integrity_violated" /\ id = Protector THEN 1 ELSE 0),
         (ThreatCount("invalid_creator") > 0)' <=>
           (ThreatCount("invalid_creator") > 0 \/ (kind = "audit_failed" /\ id = Protector))
  PROVE  LedgerReplays' /\ history' \in Seq(Entries) /\ loaded' \in 0 .. Len(history') /\ policies' \in Nat /\ alerts' \in Nat
<1>0. LedgerReplays /\ history \in Seq(Entries) /\ loaded \in 0 .. Len(history) /\ policies \in Nat /\ alerts \in Nat
  BY DEF WorldInv, WorldTypeOK
<1>1. history' \in Seq(Entries) /\ loaded' \in 0 .. Len(history') /\ policies' \in Nat /\ alerts' \in Nat
  BY <1>0, RecordsTells
<1>2. \A k : Ids(k)' = Ids(k) \cup (IF k = kind THEN {id} ELSE {})
  BY <1>0, RecordsTells
<1>3. \A k : Cardinality(Positions(k)') = Cardinality(Positions(k)) + (IF k = kind THEN 1 ELSE 0)
  BY <1>0, RecordsTells
<1>4. \A k, n : Told(k, n)' <=> (Told(k, n) \/ (k = kind /\ n = id))
  BY <1>0, RecordsTells
<1>a. \A k, n : Cardinality(PositionsOf(k, n)') =
                  Cardinality(PositionsOf(k, n)) + (IF k = kind /\ n = id THEN 1 ELSE 0)
  BY <1>0, RecordsTells
<1>5. bots' = Ids("bot_deployed")' /\ blacklist' = Ids("threat_detected")'
  BY <1>0, <1>2 DEF LedgerReplays
<1>6. /\ policies' = Cardinality(Positions("policy_issued")')
      /\ alerts' = Cardinality(Positions("alert_raised")')
  BY <1>0, <1>3 DEF LedgerReplays
<1>7. /\ Len(built') = Cardinality(Positions("build_completed")')
      /\ ThreatCount("signature_mismatch")' =
           Cardinality(PositionsOf("integrity_violated", Protector)')
  <2>1. Len(built') = Cardinality(Positions("build_completed")')
    BY <1>0, <1>3 DEF LedgerReplays
  <2>2. ThreatCount("signature_mismatch")' =
          Cardinality(PositionsOf("integrity_violated", Protector)')
    BY <1>0, <1>a DEF LedgerReplays
  <2> QED BY <2>1, <2>2
<1>8. (ThreatCount("invalid_creator") > 0)' <=> Told("audit_failed", Protector)'
  <2>1. ThreatCount("invalid_creator") > 0 <=> Told("audit_failed", Protector)
    BY <1>0, ReplaysAs
  <2>2. Told("audit_failed", Protector)' <=>
          (Told("audit_failed", Protector) \/ (kind = "audit_failed" /\ id = Protector))
    BY <1>4
  <2> QED BY <2>1, <2>2
<1>9. citizens' = {n \in Newcomers : Joined(n)}'
  <2>1. citizens = {n \in Newcomers : Joined(n)}
    BY <1>0 DEF LedgerReplays
  <2>2. \A n : Joined(n)' <=> \/ kind = "citizen_joined" /\ n = id
                              \/ Joined(n) /\ ~(kind = "citizen_left" /\ n = id)
    BY <1>0, RecordsTells
  <2> QED BY <2>1, <2>2
<1>10. LedgerReplays'
  BY <1>5, <1>6, <1>7, <1>8, <1>9 DEF LedgerReplays, Told
<1> QED BY <1>1, <1>10

\* The governor's steps, and those of the guard.
LEMMA GovernorStep ==
  ASSUME WorldInv,
         \/ IssuePolicy \/ RaiseAlert \/ GuardAuditsRegistry \/ GuardAuditsLedger
         \/ \E label \in Snapshots, matches \in BOOLEAN : GuardVerifies(label, matches)
         \/ \E n \in Newcomers : RegisterBot(n) \/ CitizenJoin(n) \/ CitizenLeave(n)
  PROVE  WorldInv'
<1>0. /\ WorldTypeOK /\ Protector # "registry" /\ Protector # "ledger"
      /\ Protector \notin Snapshots /\ Governor \in Subjects
      /\ "registry" \in Subjects /\ "ledger" \in Subjects
      /\ Newcomers \subseteq Subjects /\ Snapshots \subseteq Subjects
  BY WorldAssumption DEF WorldInv, Subjects
<1>1. UNCHANGED <<nodeRegistry, blacklist, threats, built>>
  BY DEF IssuePolicy, RaiseAlert, RegisterBot, CitizenJoin, CitizenLeave, GuardAuditsRegistry,
     GuardAuditsLedger, GuardVerifies, NotGovernors
<1>2. Foreign' = Foreign /\ \A k : ThreatCount(k)' = ThreatCount(k)
  BY <1>1 DEF Foreign, ThreatCount
<1>3. blacklist' = blacklist \cup {} /\ Len(built') = Len(built) + 0
      /\ \A k : ThreatCount(k)' = ThreatCount(k) + 0
  <2>1. Len(built) \in Nat
    BY <1>0, LenProperties DEF WorldTypeOK
  <2>2. \A k : ThreatCount(k) \in Nat
    <3> SUFFICES ASSUME NEW k PROVE ThreatCount(k) \in Nat
      OBVIOUS
    <3>1. ThreatCount(k) = Cardinality(OfKind(threats, k))
      BY DEF ThreatCount, OfKind
    <3> QED BY <1>0, <3>1, OfKindFinite DEF WorldTypeOK
  <2> QED BY <1>1, <1>2, <2>1, <2>2
<1>4. policies \in Nat /\ alerts \in Nat /\ bots \cup {} = bots
  BY <1>0 DEF WorldTypeOK
<1>5. ASSUME LedgerReplays', history' \in Seq(Entries), loaded' \in 0 .. Len(history'), policies' \in Nat, alerts' \in Nat PROVE WorldInv'
  BY <1>0, <1>1, <1>2, <1>5 DEF WorldInv, WorldTypeOK
<1>6. CASE IssuePolicy
  <2>1. /\ Records("policy_issued", Governor) /\ "policy_issued" \in Kinds
        /\ UNCHANGED <<bots, citizens, alerts>> /\ policies' = policies + 1
    BY <1>6 DEF IssuePolicy, Kinds
  <2> QED BY <1>0, <1>2, <1>3, <1>4, <1>5, <2>1, RecordedStep
<1>7. CASE RaiseAlert
  <2>1. /\ Records("alert_raised", Governor) /\ "alert_raised" \in Kinds
        /\ UNCHANGED <<bots, citizens, policies>> /\ alerts' = alerts + 1
    BY <1>7 DEF RaiseAlert, Kinds
  <2> QED BY <1>0, <1>2, <1>3, <1>4, <1>5, <2>1, RecordedStep
<1>8. CASE GuardAuditsRegistry
  <2>1. PICK kind \in {"audit_passed", "audit_failed"} :
          /\ Records(kind, "registry") /\ kind \in Kinds
          /\ UNCHANGED <<bots, citizens, policies, alerts>>
    BY <1>8 DEF GuardAuditsRegistry, Verdict, Kinds
  <2> QED BY <1>0, <1>2, <1>3, <1>4, <1>5, <2>1, RecordedStep
<1>9. CASE GuardAuditsLedger
  <2>1. /\ Records("audit_passed", "ledger") /\ "audit_passed" \in Kinds
        /\ UNCHANGED <<bots, citizens, policies, alerts>>
    BY <1>9 DEF GuardAuditsLedger, Kinds
  <2> QED BY <1>0, <1>2, <1>3, <1>4, <1>5, <2>1, RecordedStep
<1>10. ASSUME NEW n \in Newcomers, RegisterBot(n) PROVE WorldInv'
  <2>1. /\ Records("bot_deployed", n) /\ "bot_deployed" \in Kinds
        /\ UNCHANGED <<citizens, policies, alerts>> /\ bots' = bots \cup {n}
    BY <1>10 DEF RegisterBot, Kinds
  <2> QED BY <1>0, <1>2, <1>3, <1>4, <1>5, <2>1, RecordedStep
<1>11. ASSUME NEW n \in Newcomers, CitizenJoin(n) PROVE WorldInv'
  <2>1. /\ Records("citizen_joined", n) /\ "citizen_joined" \in Kinds
        /\ UNCHANGED <<bots, policies, alerts>> /\ citizens' = citizens \cup {n}
    BY <1>11 DEF CitizenJoin, Kinds
  <2> QED BY <1>0, <1>2, <1>3, <1>4, <1>5, <2>1, RecordedStep
<1>12. ASSUME NEW n \in Newcomers, CitizenLeave(n) PROVE WorldInv'
  <2>1. /\ Records("citizen_left", n) /\ "citizen_left" \in Kinds
        /\ UNCHANGED <<bots, policies, alerts>> /\ citizens' = citizens \ {n}
    BY <1>12 DEF CitizenLeave, Kinds
  <2> QED BY <1>0, <1>2, <1>3, <1>4, <1>5, <2>1, RecordedStep
<1>13. ASSUME NEW label \in Snapshots, NEW matches \in BOOLEAN, GuardVerifies(label, matches)
       PROVE  WorldInv'
  <2>1. PICK kind \in {"integrity_verified", "integrity_violated"} :
          /\ Records(kind, label) /\ kind \in Kinds /\ label # Protector
          /\ UNCHANGED <<bots, citizens, policies, alerts>>
    BY <1>0, <1>13 DEF GuardVerifies, Kinds
  <2> QED BY <1>0, <1>2, <1>3, <1>4, <1>5, <2>1, RecordedStep
<1> QED BY <1>6, <1>7, <1>8, <1>9, <1>10, <1>11, <1>12, <1>13

\* The protector's steps.
LEMMA ProtectorStep ==
  ASSUME WorldInv,
         \/ AuditRegistry \/ \E valid \in BOOLEAN : CheckSignature(valid)
         \/ \E n \in Newcomers : BlacklistNode(n)
  PROVE  WorldInv'
<1>0. /\ WorldTypeOK /\ LedgerReplays /\ Protector \in Staff
      /\ Protector \in Subjects /\ Newcomers \subseteq Subjects
  BY WorldAssumption DEF WorldInv, Subjects
<1>1. UNCHANGED <<bots, citizens, policies, alerts, nodeRegistry, built>>
  BY DEF AuditRegistry, CheckSignature, BlacklistNode, NotProtectors
<1>2. Foreign' = Foreign /\ Foreign \subseteq Staff \cup Newcomers /\ IsFiniteSet(Foreign)
  BY <1>0, <1>1 DEF Foreign, WorldTypeOK
<1>3. /\ threats \in Seq(Events) /\ policies \in Nat /\ alerts \in Nat /\ Len(built) \in Nat
      /\ bots \cup {} = bots /\ blacklist \cup {} = blacklist
  BY <1>0, LenProperties DEF WorldTypeOK
<1>4. \A k : ThreatCount(k) \in Nat
  <2> SUFFICES ASSUME NEW k PROVE ThreatCount(k) \in Nat
    OBVIOUS
  <2>1. ThreatCount(k) = Cardinality(OfKind(threats, k))
    BY DEF ThreatCount, OfKind
  <2> QED BY <1>3, <2>1, OfKindFinite
<1>5. ASSUME LedgerReplays', history' \in Seq(Entries), loaded' \in 0 .. Len(history'), policies' \in Nat, alerts' \in Nat,
             threats' \in Seq(Events)
      PROVE  WorldInv'
  BY <1>0, <1>1, <1>2, <1>5 DEF WorldInv, WorldTypeOK
<1>6. CASE AuditRegistry
  <2>1. PICK found \in [1..Cardinality(Foreign) -> Foreign] :
          /\ \A n \in Foreign : \E k \in DOMAIN found : found[k] = n
          /\ threats' = threats \o [k \in DOMAIN found |-> Event("invalid_creator", found[k])]
    BY <1>6 DEF AuditRegistry
  <2>2. PICK kind \in {"audit_passed", "audit_failed"} :
          /\ Records(kind, Protector) /\ kind \in Kinds
          /\ kind = "audit_failed" <=> Foreign # {}
    BY <1>6 DEF AuditRegistry, Verdict, Kinds
  <2>3. blacklist' = blacklist
    BY <1>6 DEF AuditRegistry
  <2> DEFINE N == Cardinality(Foreign)
             news == [k \in 1..N |-> Event("invalid_creator", found[k])]
             L == Len(threats)
  <2>4. N \in Nat
    BY <1>2, FS_CardinalityType
  <2>5. \A n \in Foreign : Event("invalid_creator", n) \in Events
    BY <1>2 DEF Events, Event, Kinds, Subjects
  <2>6. news \in Seq(Events) /\ Len(news) = N
    <3>1. news \in [1..N -> Events]
      BY <2>5
    <3> QED BY <2>4, <3>1, SeqDef
  <2>7. DOMAIN found = 1..N /\ threats' = threats \o news
    BY <2>1
  <2> HIDE DEF N
  <2>8. /\ threats' \in Seq(Events) /\ L \in Nat /\ Len(threats') = L + N
        /\ \A i \in 1..(L + N) : threats'[i] = IF i <= L THEN threats[i] ELSE news[i - L]
    <3> HIDE DEF news
    <3> QED BY <1>3, <2>4, <2>6, <2>7, ConcatProperties, LenProperties
  <2>9. DOMAIN threats = 1..L /\ DOMAIN threats' = 1..(L + N)
    BY <1>3, <2>8, LenProperties
  <2>10. \A i \in (L + 1)..(L + N) : threats'[i].kind = "invalid_creator"
    <3>1. \A j \in 1..N : news[j].kind = "invalid_creator"
      BY DEF Event
    <3>2. \A i \in (L + 1)..(L + N) : i - L \in 1..N /\ i \in 1..(L + N) /\ ~(i <= L)
      BY <2>4, <2>8
    <3> HIDE DEF news
    <3> QED BY <2>8, <3>1, <3>2
  <2> HIDE DEF news
  <2>a. /\ \A i \in 1..L : i \in 1..(L + N) /\ threats'[i] = threats[i]
        /\ 1..(L + N) = 1..L \cup (L + 1)..(L + N)
    BY <2>4, <2>8
  <2>11. OfKind(threats', "signature_mismatch") = OfKind(threats, "signature_mismatch")
    BY <2>9, <2>10, <2>a DEF OfKind
  <2>12. OfKind(threats', "invalid_creator") = OfKind(threats, "invalid_creator") \cup (L + 1)..(L + N)
    BY <2>9, <2>10, <2>a DEF OfKind
  <2>13. (L + 1)..(L + N) # {} <=> Foreign # {}
    <3>1. N > 0 <=> Foreign # {}
      <4>1. CASE Foreign = {}
        BY <4>1, FS_EmptySet DEF N
      <4>2. CASE Foreign # {}
        BY <2>1, <2>4, <2>7, <4>2
      <4> QED BY <2>4, <4>1, <4>2
    <3>2. N > 0 => L + 1 \in (L + 1)..(L + N)
      BY <2>4, <2>8
    <3>3. N = 0 => (L + 1)..(L + N) = {}
      BY <2>8
    <3>4. CASE N > 0
      <4>1. L + 1 \in (L + 1)..(L + N)
        BY <3>2, <3>4
      <4>2. (L + 1)..(L + N) # {}
        BY <4>1
      <4> QED BY <3>1, <3>4, <4>2
    <3>5. CASE N = 0
      BY <3>1, <3>3, <3>5
    <3> QED BY <2>4, <3>4, <3>5
  <2>14. /\ ThreatCount("invalid_creator") > 0 <=> OfKind(threats, "invalid_creator") # {}
         /\ (ThreatCount("invalid_creator") > 0)' <=> OfKind(threats', "invalid_creator") # {}
    <3>1. ASSUME NEW s \in Seq(Events)
          PROVE  Cardinality(OfKind(s, "invalid_creator")) > 0 <=> OfKind(s, "invalid_creator") # {}
      BY OfKindFinite, FS_EmptySet
    <3> QED BY <1>3, <2>8, <3>1 DEF ThreatCount, OfKind
  <2>15. ThreatCount("signature_mismatch")' = ThreatCount("signature_mismatch") + 0
    <3>1. /\ ThreatCount("signature_mismatch") = Cardinality(OfKind(threats, "signature_mismatch"))
          /\ ThreatCount("signature_mismatch")' = Cardinality(OfKind(threats', "signature_mismatch"))
      BY DEF ThreatCount, OfKind
    <3> QED BY <1>4, <2>11, <3>1
  <2>16. (ThreatCount("invalid_creator") > 0)' <=>
           (ThreatCount("invalid_creator") > 0 \/ (kind = "audit_failed" /\ Protector = Protector))
    BY <2>2, <2>12, <2>13, <2>14
  <2>17. LedgerReplays' /\ history' \in Seq(Entries) /\ loaded' \in 0 .. Len(history') /\ policies' \in Nat /\ alerts' \in Nat
    BY <1>0, <1>1, <1>3, <2>2, <2>3, <2>15, <2>16, RecordedStep DEF WorldInv
  <2> QED BY <1>5, <2>8, <2>17
<1>7. ASSUME NEW n \in Newcomers, BlacklistNode(n) PROVE WorldInv'
  <2>1. /\ Records("threat_detected", n) /\ "threat_detected" \in Kinds
        /\ blacklist' = blacklist \cup {n}
        /\ threats' = Append(threats, Event("blacklisted", n))
    BY <1>7 DEF BlacklistNode, Kinds
  <2>2. Event("blacklisted", n) \in Events /\ Event("blacklisted", n).kind = "blacklisted"
    BY DEF Events, Event, Kinds, Subjects
  <2>3. threats' \in Seq(Events) /\ \A k : k # "blacklisted" => ThreatCount(k)' = ThreatCount(k) + 0
    BY <1>0, <2>1, <2>2, ThreatAppended
  <2>4. (ThreatCount("invalid_creator") > 0)' <=> ThreatCount("invalid_creator") > 0
    BY <1>4, <2>3
  <2>5. LedgerReplays' /\ history' \in Seq(Entries) /\ loaded' \in 0 .. Len(history') /\ policies' \in Nat /\ alerts' \in Nat
    BY <1>0, <1>1, <1>3, <2>1, <2>3, <2>4, RecordedStep DEF WorldInv
  <2> QED BY <1>5, <2>3, <2>5
<1>8. ASSUME NEW valid \in BOOLEAN, CheckSignature(valid) PROVE WorldInv'
  <2>1. PICK kind \in {"integrity_verified", "integrity_violated"} :
          /\ Records(kind, Protector) /\ kind \in Kinds
          /\ kind = "integrity_verified" <=> valid
    BY <1>8 DEF CheckSignature, Kinds
  <2>2. blacklist' = blacklist
    BY <1>8 DEF CheckSignature
  <2>3. /\ threats' \in Seq(Events)
        /\ ThreatCount("signature_mismatch")' =
             ThreatCount("signature_mismatch") + (IF kind = "integrity_violated" THEN 1 ELSE 0)
        /\ ThreatCount("invalid_creator")' = ThreatCount("invalid_creator")
    <3>1. CASE valid
      <4>1. threats' = threats /\ kind # "integrity_violated"
        BY <1>8, <2>1, <3>1 DEF CheckSignature
      <4>2. \A k : ThreatCount(k)' = ThreatCount(k)
        BY <4>1 DEF ThreatCount
      <4> QED BY <1>3, <1>4, <4>1, <4>2
    <3>2. CASE ~valid
      <4>1. threats' = Append(threats, Event("signature_mismatch", Protector))
            /\ kind = "integrity_violated"
        BY <1>8, <2>1, <3>2 DEF CheckSignature
      <4>2. /\ Event("signature_mismatch", Protector) \in Events
            /\ Event("signature_mismatch", Protector).kind = "signature_mismatch"
        BY <1>0 DEF Events, Event, Kinds, Subjects
      <4>3. threats' \in Seq(Events) /\ \A k : ThreatCount(k)' = ThreatCount(k) + (IF "signature_mismatch" = k THEN 1 ELSE 0)
        BY <1>0, <4>1, <4>2, ThreatAppended
      <4> QED BY <1>4, <4>1, <4>3
    <3> QED BY <3>1, <3>2
  <2>4. (ThreatCount("invalid_creator") > 0)' <=> ThreatCount("invalid_creator") > 0
    BY <2>3
  <2>5. LedgerReplays' /\ history' \in Seq(Entries) /\ loaded' \in 0 .. Len(history') /\ policies' \in Nat /\ alerts' \in Nat
    BY <1>0, <1>1, <1>3, <2>1, <2>2, <2>3, <2>4, RecordedStep DEF WorldInv
  <2> QED BY <1>5, <2>3, <2>5
<1> QED BY <1>6, <1>7, <1>8

\* The steps that change the registry: a node is built, or another registers.
LEMMA RegistryStep ==
  ASSUME WorldInv, NEW n \in Newcomers,
         BuildNode(n) \/ \E creator \in {"origin", "foreign"} : RegisterNode(n, creator)
  PROVE  WorldInv'
<1>0. WorldTypeOK /\ LedgerReplays /\ n \in Subjects
  BY DEF WorldInv, Subjects
<1>1. \E creator \in {"origin", "foreign"} : nodeRegistry' = [nodeRegistry EXCEPT ![n] = creator]
  BY DEF BuildNode, RegisterNode
<1>2. nodeRegistry' \in [Staff \cup Newcomers -> Creators] /\ IsFiniteSet(Foreign')
  <2>1. Foreign' \subseteq Foreign \cup {n}
    BY <1>0, <1>1 DEF Foreign, WorldTypeOK
  <2>2. IsFiniteSet(Foreign \cup {n})
    BY <1>0, FS_AddElement DEF WorldTypeOK
  <2>3. IsFiniteSet(Foreign')
    BY <2>1, <2>2, FS_Subset
  <2> QED BY <1>0, <1>1, <2>3 DEF WorldTypeOK, Creators
<1>3. CASE BuildNode(n)
  <2>1. /\ Records("build_completed", n) /\ "build_completed" \in Kinds
        /\ built' = Append(built, n)
        /\ UNCHANGED <<bots, citizens, policies, alerts, blacklist, threats>>
    BY <1>3 DEF BuildNode, Kinds
  <2>2. built' \in Seq(Newcomers) /\ Len(built') = Len(built) + 1
    BY <1>0, <2>1, AppendProperties DEF WorldTypeOK
  <2>3. \A k : ThreatCount(k)' = ThreatCount(k) /\ ThreatCount(k) \in Nat
    <3> SUFFICES ASSUME NEW k PROVE ThreatCount(k)' = ThreatCount(k) /\ ThreatCount(k) \in Nat
      OBVIOUS
    <3>1. ThreatCount(k) = Cardinality(OfKind(threats, k))
      BY DEF ThreatCount, OfKind
    <3>2. ThreatCount(k)' = ThreatCount(k)
      BY <2>1 DEF ThreatCount
    <3> QED BY <1>0, <3>1, <3>2, OfKindFinite DEF WorldTypeOK
  <2>4. policies \in Nat /\ alerts \in Nat /\ bots \cup {} = bots /\ blacklist \cup {} = blacklist
    BY <1>0 DEF WorldTypeOK
  <2>5. LedgerReplays' /\ history' \in Seq(Entries) /\ loaded' \in 0 .. Len(history') /\ policies' \in Nat /\ alerts' \in Nat
    BY <1>0, <2>1, <2>2, <2>3, <2>4, RecordedStep
  <2> QED BY <1>0, <1>2, <2>1, <2>2, <2>5 DEF WorldInv, WorldTypeOK
<1>4. ASSUME NEW creator \in {"origin", "foreign"}, RegisterNode(n, creator) PROVE WorldInv'
  <2>1. UNCHANGED <<bots, citizens, policies, alerts, blacklist, threats, built, history, loaded>>
    BY <1>4 DEF RegisterNode
  <2>2. LedgerReplays'
    BY <1>0, <2>1 DEF LedgerReplays, Ids, Positions, PositionsOf, Joined, ThreatCount
  <2> QED BY <1>0, <1>2, <2>1, <2>2 DEF WorldInv, WorldTypeOK
<1> QED BY <1>3, <1>4

\* Whatever the requests and their order, the tables of the governor, the
\* protector and the builder can be told from the ledger the bots share.
THEOREM LedgerReplaysAlways == WorldSpec => []LedgerReplays
<1>1. WorldInv /\ [WorldNext]_worldVars => WorldInv'
  <2> SUFFICES ASSUME WorldInv, [WorldNext]_worldVars PROVE WorldInv'
    OBVIOUS
  <2>1. CASE UNCHANGED worldVars
    <3>1. WorldTypeOK'
      BY <2>1 DEF WorldInv, worldVars, WorldTypeOK, Foreign
    <3>2. LedgerReplays'
      BY <2>1 DEF WorldInv, worldVars, LedgerReplays, Ids, Positions, PositionsOf, Joined, ThreatCount
    <3> QED BY <3>1, <3>2 DEF WorldInv
  <2>2. CASE WorldNext
    BY <2>2, GovernorStep, ProtectorStep, RegistryStep DEF WorldNext
  <2> QED BY <2>1, <2>2
<1>2. WorldInv => LedgerReplays
  BY DEF WorldInv
<1> QED BY <1>1, <1>2, WorldInvInit, PTL DEF WorldSpec

----------------------------------------------------------------------------
(* VCloud: the registry of nodes agrees with the store.                    *)
(*                                                                         *)
(* The agreement is not inductive, for it says nothing while a server is   *)
(* between the store and the registry.  What is added says where a server  *)
(* stands then: not registered before its creation has ended, in the store *)
(* until a removal took it out, and registered without being in the store  *)
(* only if the removal that took it out has yet to deregister it.          *)

Creations == {"idle", "stored", "ended"}
Removals  == {"idle", "found", "removed", "ended"}

CloudTypeOK ==
  /\ state \in [Resources -> States \cup {"absent"}]
  /\ creation \in [Resources -> Creations]
  /\ registered \in [Nodes -> Resources \cup {NoRecord}]
  /\ removal \in [Removers -> Removals]
  /\ removing \in [Removers -> Resources]
  /\ overtaken \subseteq Resources

\* d has taken r out of the store and has yet to deregister it.
TookOut(d, r) == removal[d] = "removed" /\ removing[d] = r

\* What is assumed of the servers.
LEMMA ServerFacts ==
  /\ \A r \in Bound : r \in Servers /\ Kind[r] \notin {"vcpu", "vcloud"}
  /\ \A r \in Servers : r \in Resources /\ NodeIdOf[r] \in Nodes
  /\ Bound \subseteq Resources
  /\ NodeIdOf \in [Servers -> Nodes]
  /\ NoRecord \notin Resources /\ Resources # {}
BY CloudAssumption DEF Servers

\* What was not created is not in the store, and only bound servers are
\* registered.
IdleInv ==
  \A r \in Resources :
    /\ creation[r] = "idle" => state[r] = "absent"
    /\ creation[r] = "stored" => r \in Bound

\* Only servers are deregistered, and those are out of the store for good.
TakenInv ==
  \A d \in Removers : removal[d] = "removed" =>
    /\ removing[d] \in Servers
    /\ state[removing[d]] = "absent" /\ creation[removing[d]] # "idle"

\* A server is not registered before its creation has ended, and stays in the
\* store until then unless it was overtaken.
CreationInv ==
  \A r \in Bound : creation[r] # "ended" =>
    /\ registered[NodeIdOf[r]] # r
    /\ creation[r] = "stored" /\ r \notin overtaken => state[r] # "absent"

\* Afterwards it is registered while it is in the store, and until the thread
\* that took it out has deregistered it.
RegistryInv ==
  \A r \in Bound \ overtaken : OwnNodeId(r) /\ creation[r] = "ended" =>
    /\ state[r] # "absent" => registered[NodeIdOf[r]] = r
    /\ registered[NodeIdOf[r]] = r =>
         state[r] # "absent" \/ \E d \in Removers : TookOut(d, r)

IInv == CloudTypeOK /\ IdleInv /\ TakenInv /\ CreationInv /\ RegistryInv

----------------------------------------------------------------------------
(* VCloud: the invariant holds at first, and every step keeps it.          *)

LEMMA InitIInv == CloudInit => IInv
<1> SUFFICES ASSUME CloudInit PROVE IInv
  OBVIOUS
<1>1. (CHOOSE r \in Resources : TRUE) \in Resources
  BY ServerFacts
<1>2. CloudTypeOK
  BY <1>1 DEF CloudInit, CloudTypeOK, States, Creations, Removals
<1>3. IdleInv /\ TakenInv
  BY DEF CloudInit, IdleInv, TakenInv
<1>4. CreationInv /\ RegistryInv
  BY ServerFacts DEF CloudInit, CreationInv, RegistryInv
<1> QED
  BY <1>2, <1>3, <1>4 DEF IInv

\* A server gets into the store, or is refused, in its first step only.
LEMMA CreationKeepsIInv ==
  ASSUME IInv, NEW r \in Resources,
         \/ CreateVcpu(r) \/ CreateVcloud(r) \/ CreateVserver(r)
         \/ RegisterConnection(r) \/ CreateRefused(r) \/ ConnectionRefused(r)
  PROVE  IInv'
<1> USE DEF IInv, CloudTypeOK
<1>1. /\ creation[r] = "idle" /\ state[r] = "absent"
      /\ \A d \in Removers : ~TookOut(d, r)
  BY DEF CreateVcpu, CreateVcloud, CreateVserver, RegisterConnection, StoredServer,
         CreateRefused, ConnectionRefused, RefusedCall, Stored, IdleInv, TakenInv,
         TookOut
<1>2. /\ UNCHANGED <<registered, removal, removing, overtaken>>
      /\ \/ /\ state' = [state EXCEPT ![r] = "available"]
            /\ creation' = [creation EXCEPT ![r] = IF r \in Bound THEN "stored"
                                                                  ELSE "ended"]
         \/ /\ UNCHANGED state
            /\ creation' = [creation EXCEPT ![r] = "ended"]
  <2>1. CASE CreateVcpu(r) \/ CreateVcloud(r)
    BY <2>1, ServerFacts DEF CreateVcpu, CreateVcloud, Stored, Becomes, Creation
  <2>2. CASE CreateVserver(r) \/ RegisterConnection(r)
    BY <2>2 DEF CreateVserver, RegisterConnection, StoredServer, Stored, Becomes,
                Creation
  <2>3. CASE CreateRefused(r) \/ ConnectionRefused(r)
    BY <2>3 DEF CreateRefused, ConnectionRefused, RefusedCall, Creation
  <2> QED
    BY <2>1, <2>2, <2>3
<1>3. CloudTypeOK'
  BY <1>2 DEF States, Creations
<1>4. IdleInv'
  BY <1>2 DEF IdleInv
<1>5. TakenInv'
  BY <1>1, <1>2 DEF TakenInv, TookOut
<1>6. CreationInv'
  BY <1>1, <1>2, ServerFacts DEF CreationInv
<1>7. RegistryInv'
  <2> SUFFICES ASSUME NEW q \in Bound, q \notin overtaken, OwnNodeId(q),
                      creation'[q] = "ended"
               PROVE  /\ state'[q] # "absent" => registered[NodeIdOf[q]] = q
                      /\ registered[NodeIdOf[q]] = q =>
                           state'[q] # "absent" \/ \E d \in Removers : TookOut(d, q)
    BY <1>2 DEF RegistryInv, OwnNodeId, TookOut
  <2>1. CASE q = r
    BY <1>1, <1>2, <2>1 DEF CreationInv
  <2>2. CASE q # r
    BY <1>2, <2>2, ServerFacts DEF RegistryInv
  <2> QED
    BY <2>1, <2>2
<1> QED
  BY <1>3, <1>4, <1>5, <1>6, <1>7

LEMMA RegisterServerKeepsIInv ==
  ASSUME IInv, NEW r \in Resources, RegisterServer(r)
  PROVE  IInv'
<1> USE DEF IInv, CloudTypeOK
<1>1. /\ r \in Bound /\ creation[r] = "stored"
      /\ registered' = [registered EXCEPT ![NodeIdOf[r]] = r]
      /\ creation' = [creation EXCEPT ![r] = "ended"]
      /\ UNCHANGED <<state, removal, removing, overtaken>>
  BY DEF RegisterServer, Creation, IdleInv
<1>2. NodeIdOf[r] \in Nodes
  BY <1>1, ServerFacts
<1>3. CloudTypeOK'
  BY <1>1, <1>2 DEF Creations
<1>4. IdleInv' /\ TakenInv'
  BY <1>1 DEF IdleInv, TakenInv
<1>5. CreationInv'
  BY <1>1, <1>2, ServerFacts DEF CreationInv
<1>6. RegistryInv'
  <2> SUFFICES ASSUME NEW q \in Bound, q \notin overtaken, OwnNodeId(q),
                      creation'[q] = "ended"
               PROVE  /\ state[q] # "absent" => registered'[NodeIdOf[q]] = q
                      /\ registered'[NodeIdOf[q]] = q =>
                           state[q] # "absent" \/ \E d \in Removers : TookOut(d, q)
    BY <1>1 DEF RegistryInv, OwnNodeId, TookOut
  <2>1. CASE q = r
    BY <1>1, <1>2, <2>1 DEF CreationInv
  <2>2. CASE q # r
    <3>1. NodeIdOf[q] # NodeIdOf[r] /\ q \in Resources
      BY <1>1, <2>2, ServerFacts DEF OwnNodeId
    <3>2. registered'[NodeIdOf[q]] = registered[NodeIdOf[q]]
      BY <1>1, <3>1, ServerFacts
    <3> QED
      BY <1>1, <2>2, <3>1, <3>2 DEF RegistryInv
  <2> QED
    BY <2>1, <2>2
<1> QED
  BY <1>3, <1>4, <1>5, <1>6

\* These move a resource between the states of what is in the store, or none.
LEMMA UseKeepsIInv ==
  ASSUME IInv, NEW r \in Resources, Allocate(r) \/ Release(r) \/ Suspend(r)
  PROVE  IInv'
<1> USE DEF IInv, CloudTypeOK
<1>1. /\ state[r] # "absent"
      /\ UNCHANGED <<creation, registered, removal, removing, overtaken>>
      /\ \E s \in States : state' = [state EXCEPT ![r] = s]
  BY DEF Allocate, Release, Suspend, Becomes, States
<1>2. CloudTypeOK'
  BY <1>1
<1>3. \A q \in Resources : state'[q] = "absent" <=> state[q] = "absent"
  BY <1>1 DEF States
<1>4. IdleInv' /\ TakenInv'
  BY <1>1, <1>3 DEF IdleInv, TakenInv
<1>5. CreationInv' /\ RegistryInv'
  BY <1>1, <1>3, ServerFacts DEF CreationInv, RegistryInv, OwnNodeId, TookOut
<1> QED
  BY <1>2, <1>4, <1>5

LEMMA LookUpKeepsIInv ==
  ASSUME IInv, NEW d \in Removers, NEW r \in Resources,
         FindResource(d, r) \/ FindConnection(d, r)
  PROVE  IInv'
<1> USE DEF IInv, CloudTypeOK
<1>1. /\ removal[d] = "idle" /\ removal'[d] \in {"found", "ended"}
      /\ removal' \in [Removers -> Removals]
      /\ \A e \in Removers \ {d} : removal'[e] = removal[e]
      /\ removing' = [removing EXCEPT ![d] = r]
      /\ UNCHANGED <<state, creation, registered, overtaken>>
  BY DEF FindResource, FindConnection, LookUp, Removal, Removals
<1>2. \A e \in Removers, q \in Resources : TookOut(e, q)' <=> TookOut(e, q)
  BY <1>1 DEF TookOut
<1>3. CloudTypeOK'
  BY <1>1
<1>4. IdleInv' /\ TakenInv' /\ CreationInv'
  BY <1>1 DEF IdleInv, TakenInv, CreationInv
<1>5. RegistryInv'
  BY <1>1, <1>2, ServerFacts DEF RegistryInv, OwnNodeId
<1> QED
  BY <1>3, <1>4, <1>5

LEMMA DestroyKeepsIInv ==
  ASSUME IInv, NEW d \in Removers, Destroy(d) \/ DestroyNothing(d)
  PROVE  IInv'
<1> USE DEF IInv, CloudTypeOK
<1> DEFINE r == removing[d]
<1>1. CASE Destroy(d)
  <2>1. /\ r \in Resources /\ state[r] # "absent" /\ removal[d] = "found"
        /\ state' = [state EXCEPT ![r] = "absent"]
        /\ removal' = [removal EXCEPT ![d] = IF r \in Servers THEN "removed"
                                                           ELSE "ended"]
        /\ overtaken' = IF creation[r] = "stored" THEN overtaken \cup {r}
                                                  ELSE overtaken
        /\ UNCHANGED <<creation, registered, removing>>
    BY <1>1 DEF Destroy, Becomes, Removal
  <2>2. creation[r] # "idle"
    BY <2>1 DEF IdleInv
  <2>3. CloudTypeOK'
    BY <2>1 DEF Removals
  <2>4. IdleInv' /\ TakenInv'
    BY <2>1, <2>2 DEF IdleInv, TakenInv
  <2>5. CreationInv'
    BY <2>1, ServerFacts DEF CreationInv
  <2>6. RegistryInv'
    <3> SUFFICES ASSUME NEW q \in Bound, q \notin overtaken', OwnNodeId(q),
                        creation[q] = "ended"
                 PROVE  /\ state'[q] # "absent" => registered[NodeIdOf[q]] = q
                        /\ registered[NodeIdOf[q]] = q =>
                             \/ state'[q] # "absent"
                             \/ \E e \in Removers : TookOut(e, q)'
      BY <2>1 DEF RegistryInv, OwnNodeId
    <3>1. CASE q = r
      <4>1. state'[r] = "absent" /\ q \in Servers
        BY <2>1, <3>1, ServerFacts
      <4>2. removal'[d] = "removed" /\ removing'[d] = r
        BY <2>1, <3>1, <4>1
      <4> QED BY <3>1, <4>1, <4>2 DEF TookOut
    <3>2. CASE q # r
      <4>1. \A e \in Removers : TookOut(e, q) => TookOut(e, q)'
        BY <2>1, <3>2 DEF TookOut
      <4>2. q \notin overtaken /\ state'[q] = state[q]
        BY <2>1, <3>2, ServerFacts
      <4> QED
        BY <4>1, <4>2 DEF RegistryInv
    <3> QED
      BY <3>1, <3>2
  <2> QED
    BY <2>3, <2>4, <2>5, <2>6
<1>2. CASE DestroyNothing(d)
  <2>1. /\ removal[d] = "found"
        /\ removal' = [removal EXCEPT ![d] = "ended"]
        /\ UNCHANGED <<state, creation, registered, removing, overtaken>>
    BY <1>2 DEF DestroyNothing, Removal
  <2>2. \A e \in Removers, q \in Resources : TookOut(e, q)' <=> TookOut(e, q)
    BY <2>1 DEF TookOut
  <2>3. CloudTypeOK' /\ IdleInv' /\ TakenInv' /\ CreationInv'
    BY <2>1 DEF Removals, IdleInv, TakenInv, CreationInv
  <2>4. RegistryInv'
    BY <2>1, <2>2, ServerFacts DEF RegistryInv, OwnNodeId
  <2> QED
    BY <2>3, <2>4
<1> QED
  BY <1>1, <1>2

LEMMA DeregisterServerKeepsIInv ==
  ASSUME IInv, NEW d \in Removers, DeregisterServer(d)
  PROVE  IInv'
<1> USE DEF IInv, CloudTypeOK
<1> DEFINE r == removing[d]
<1>1. /\ removal[d] = "removed"
      /\ registered' = [registered EXCEPT ![NodeIdOf[r]] = NoRecord]
      /\ removal' = [removal EXCEPT ![d] = "ended"]
      /\ UNCHANGED <<state, creation, removing, overtaken>>
  BY DEF DeregisterServer, Removal
<1>2. /\ r \in Servers /\ r \in Resources /\ NodeIdOf[r] \in Nodes
      /\ state[r] = "absent"
  BY <1>1, ServerFacts DEF TakenInv
<1>3. CloudTypeOK'
  BY <1>1, <1>2 DEF Removals
<1>4. IdleInv' /\ TakenInv'
  BY <1>1 DEF IdleInv, TakenInv
<1>5. CreationInv'
  BY <1>1, <1>2, ServerFacts DEF CreationInv
<1>6. RegistryInv'
  <2> SUFFICES ASSUME NEW q \in Bound, q \notin overtaken, OwnNodeId(q),
                      creation[q] = "ended"
               PROVE  /\ state[q] # "absent" => registered'[NodeIdOf[q]] = q
                      /\ registered'[NodeIdOf[q]] = q =>
                           \/ state[q] # "absent"
                           \/ \E e \in Removers : TookOut(e, q)'
    BY <1>1 DEF RegistryInv, OwnNodeId
  <2>0. q \in Resources /\ NodeIdOf[q] \in Nodes /\ q # NoRecord
    BY ServerFacts
  <2>1. CASE q = r
    BY <1>1, <1>2, <2>0, <2>1
  <2>2. CASE q # r
    <3>1. registered'[NodeIdOf[q]] = registered[NodeIdOf[q]]
      BY <1>1, <1>2, <2>0, <2>2 DEF OwnNodeId
    <3>2. \A e \in Removers : TookOut(e, q) => TookOut(e, q)'
      BY <1>1, <2>2 DEF TookOut
    <3> QED
      BY <3>1, <3>2 DEF RegistryInv
  <2> QED
    BY <2>1, <2>2
<1> QED
  BY <1>3, <1>4, <1>5, <1>6

LEMMA NextIInv == IInv /\ [CloudNext]_cloudVars => IInv'
<1> SUFFICES ASSUME IInv, [CloudNext]_cloudVars PROVE IInv'
  OBVIOUS
<1>1. CASE UNCHANGED cloudVars
  BY <1>1 DEF cloudVars, IInv, CloudTypeOK, IdleInv, TakenInv, CreationInv,
              RegistryInv, OwnNodeId, TookOut
<1>2. ASSUME NEW r \in Resources,
             \/ CreateVcpu(r) \/ CreateVcloud(r) \/ CreateVserver(r)
             \/ RegisterConnection(r) \/ CreateRefused(r) \/ ConnectionRefused(r)
      PROVE  IInv'
  BY <1>2, CreationKeepsIInv
<1>3. ASSUME NEW r \in Resources, RegisterServer(r)
      PROVE  IInv'
  BY <1>3, RegisterServerKeepsIInv
<1>4. ASSUME NEW r \in Resources, Allocate(r) \/ Release(r) \/ Suspend(r)
      PROVE  IInv'
  BY <1>4, UseKeepsIInv
<1>5. ASSUME NEW d \in Removers, NEW r \in Resources,
             FindResource(d, r) \/ FindConnection(d, r)
      PROVE  IInv'
  BY <1>5, LookUpKeepsIInv
<1>6. ASSUME NEW d \in Removers, Destroy(d) \/ DestroyNothing(d)
      PROVE  IInv'
  BY <1>6, DestroyKeepsIInv
<1>7. ASSUME NEW d \in Removers, DeregisterServer(d)
      PROVE  IInv'
  BY <1>7, DeregisterServerKeepsIInv
<1> QED
  BY <1>1, <1>2, <1>3, <1>4, <1>5, <1>6, <1>7 DEF CloudNext

\* The resources keep one of their three states while they are stored, and no
\* node_id is registered for what is no resource.
THEOREM CloudTypeCorrect == CloudSpec => []CloudTypeOK
<1>1. IInv => CloudTypeOK
  BY DEF IInv
<1> QED
  BY InitIInv, NextIInv, <1>1, PTL DEF CloudSpec

\* The registry of nodes agrees with the manager's store on every server with
\* a node_id of its own that nobody removed before it was registered, as soon
\* as nothing is under way for it (create_vserver, destroy).
THEOREM RegistryAgreesAlways == CloudSpec => []RegistryAgrees
<1>1. IInv => RegistryAgrees
  <2> SUFFICES ASSUME IInv, NEW r \in Bound, r \notin overtaken, OwnNodeId(r),
                      Settled(r)
               PROVE  registered[NodeIdOf[r]] = r <=> state[r] # "absent"
    BY DEF RegistryAgrees
  <2>1. r \in Resources /\ creation[r] \in {"idle", "ended"}
    BY ServerFacts DEF IInv, CloudTypeOK, Creations, Settled
  <2>2. CASE creation[r] = "idle"
    BY <2>1, <2>2 DEF IInv, IdleInv, CreationInv
  <2>3. CASE creation[r] = "ended"
    BY <2>1, <2>3 DEF IInv, RegistryInv, Settled, TookOut
  <2> QED
    BY <2>1, <2>2, <2>3
<1> QED
  BY InitIInv, NextIInv, <1>1, PTL DEF CloudSpec
=============================================================================
