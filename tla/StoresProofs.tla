----------------------------- MODULE StoresProofs -----------------------------
(***************************************************************************)
(* Proofs about the components that keep data under concurrent use: the    *)
(* names of the mesh (Names), the files of the builder (Builder), the      *)
(* memory of an agent (AgentMemory), the ledger and its file               *)
(* (ContentLedger), the histories of the brain's sessions (BrainSessions), *)
(* the content store (ContentStore) and the feed of the web bridge         *)
(* (WebBridge), for any number of calls, threads, faults and restarts.     *)
(***************************************************************************)
EXTENDS ContentLedger, ContentStore, Names, Builder, WebBridge, BrainSessions,
        AgentMemory, FilteringProofs, FiniteSetTheorems, TLAPS

----------------------------------------------------------------------------
(* Names: a registration lasts as long as its ttl.                         *)

NamesTypeOK ==
  /\ now \in Nat
  /\ names \in [NameSet -> Registrations \cup {NoEntry}]
  /\ latest \in [NameSet -> Registrations \cup {NoEntry}]
  /\ madeAt \in [Registrations -> Nat]
  /\ registration \in [Registrations -> {"idle", "asking", "asked", "made", "ended"}]
  /\ lookup \in [Lookups -> [at     : {"idle", "read", "stale", "unknown", "asking", "ended"},
                             name   : NameSet \cup {NoEntry},
                             record : Registrations \cup {NoEntry}]]

\* The newest registration of a name has ended, and the name holds its record
\* or none.
LatestInv ==
  \A n \in NameSet : /\ latest[n] # NoEntry => registration[latest[n]] = "ended"
                     /\ names[n] \in {latest[n], NoEntry}

\* A lookup between its read and its removal has the newest record in hand,
\* unless the registration met it, and what it finds stale has expired.
HeldInv ==
  \A l \in Lookups : lookup[l].at \in {"read", "stale"} =>
    LET n == lookup[l].name IN
    /\ n \in NameSet /\ lookup[l].record \in Registrations
    /\ latest[n] # NoEntry
    /\ latest[n] \notin met =>
         /\ lookup[l].record = latest[n]
         /\ lookup[l].at = "stale" => now > madeAt[latest[n]] + Ttl

NamesInv == NamesTypeOK /\ LatestInv /\ HeldInv /\ NamesKept

\* The steps of a registration.
LEMMA RegistrationNames ==
  ASSUME NEW r \in Registrations, NamesInv,
         \/ RegisterRefused(r) \/ RegisterAsks(r) \/ RegisterAsked(r)
         \/ AskRaises(r) \/ MakeRecord(r) \/ RecordRefused(r) \/ Register(r)
  PROVE  NamesInv'
<1>0. NamesTypeOK /\ LatestInv /\ HeldInv /\ NamesKept
  BY DEF NamesInv
<1>1. CASE ~MakeRecord(r) /\ ~Register(r)
  <2>1. /\ registration[r] # "ended"
        /\ \E at \in {"asking", "asked", "ended"} : registration' = [registration EXCEPT ![r] = at]
        /\ UNCHANGED <<now, names, madeAt, lookup, latest, met>>
    BY <1>1 DEF RegisterRefused, RegisterAsks, RegisterAsked, AskRaises, RecordRefused,
       RegistrationEnds, Registering
  <2>2. NamesTypeOK' /\ LatestInv'
    BY <1>0, <2>1, NamesAssumption DEF NamesTypeOK, LatestInv
  <2>3. HeldInv' /\ NamesKept'
    BY <1>0, <2>1 DEF HeldInv, NamesKept
  <2> QED BY <2>2, <2>3 DEF NamesInv
<1>2. CASE MakeRecord(r)
  <2>1. /\ registration[r] = "asked" /\ registration' = [registration EXCEPT ![r] = "made"]
        /\ madeAt' = [madeAt EXCEPT ![r] = now]
        /\ UNCHANGED <<now, names, lookup, latest, met>>
    BY <1>2 DEF MakeRecord, Registering
  \* The record is of no name yet.
  <2>2. \A n \in NameSet : latest[n] # NoEntry => latest[n] # r /\ latest[n] \in Registrations
    BY <1>0, <2>1 DEF LatestInv, NamesTypeOK
  <2>3. NamesTypeOK' /\ LatestInv'
    BY <1>0, <2>1, <2>2, NamesAssumption DEF NamesTypeOK, LatestInv
  <2>4. \A n \in NameSet : latest[n] # NoEntry => madeAt'[latest[n]] = madeAt[latest[n]]
    BY <1>0, <2>1, <2>2 DEF NamesTypeOK
  <2>5. HeldInv'
    BY <1>0, <2>1, <2>4 DEF HeldInv
  <2>6. NamesKept'
    BY <1>0, <2>1, <2>4 DEF NamesKept
  <2> QED BY <2>3, <2>5, <2>6 DEF NamesInv
<1>3. CASE Register(r)
  <2> DEFINE n == NameOf[r]
  <2>1. /\ registration[r] = "made" /\ registration' = [registration EXCEPT ![r] = "ended"]
        /\ names' = [names EXCEPT ![n] = r] /\ latest' = [latest EXCEPT ![n] = r]
        /\ met' = IF Met(n) THEN met \cup {r} ELSE met
        /\ UNCHANGED <<now, madeAt, lookup>>
    BY <1>3 DEF Register, Registering
  <2>2. n \in NameSet /\ r # NoEntry
    BY NamesAssumption
  <2>3. \A m \in NameSet : latest[m] # r
    BY <1>0, <2>1, NamesAssumption DEF LatestInv, NamesTypeOK
  <2>4. NamesTypeOK' /\ LatestInv'
    BY <1>0, <2>1, <2>2, <2>3, NamesAssumption DEF NamesTypeOK, LatestInv
  \* A lookup of n under way is met; the others hold what they held.
  <2>5. HeldInv'
    <3> SUFFICES ASSUME NEW l \in Lookups, lookup[l].at \in {"read", "stale"}
                 PROVE  LET m == lookup[l].name IN
                        /\ m \in NameSet /\ lookup[l].record \in Registrations
                        /\ latest'[m] # NoEntry
                        /\ latest'[m] \notin met' =>
                             /\ lookup[l].record = latest'[m]
                             /\ lookup[l].at = "stale" => now > madeAt[latest'[m]] + Ttl
      BY <2>1 DEF HeldInv
    <3>1. CASE lookup[l].name = n
      <4>1. latest'[n] = r /\ r \in met'
        BY <1>0, <2>1, <2>2, <3>1 DEF Met, NamesTypeOK
      <4> QED BY <1>0, <2>2, <3>1, <4>1 DEF HeldInv
    <3>2. CASE lookup[l].name # n
      <4>1. lookup[l].name \in NameSet /\ latest'[lookup[l].name] = latest[lookup[l].name]
        BY <1>0, <2>1, <3>2 DEF HeldInv, NamesTypeOK
      <4> QED BY <1>0, <2>1, <4>1 DEF HeldInv
    <3> QED BY <3>1, <3>2
  <2>6. NamesKept'
    BY <1>0, <2>1, <2>2, <2>3 DEF NamesTypeOK, NamesKept
  <2> QED BY <2>4, <2>5, <2>6 DEF NamesInv
<1> QED BY <1>1, <1>2, <1>3

\* The steps of a lookup, and time.
LEMMA LookupNames ==
  ASSUME NamesInv,
         \/ NamesAge
         \/ \E l \in Lookups : \/ LookupRefused(l) \/ NotAnsName(l) \/ ReadRecord(l) \/ JudgeAge(l)
                               \/ DropStale(l) \/ LookupAsks(l) \/ LookupAsked(l)
  PROVE  NamesInv'
<1>0. NamesTypeOK /\ LatestInv /\ HeldInv /\ NamesKept /\ Ttl \in Nat
  BY NamesAssumption DEF NamesInv
<1>1. CASE NamesAge
  <2>1. now' = now + 1 /\ UNCHANGED <<names, madeAt, registration, lookup, latest, met>>
    BY <1>1 DEF NamesAge
  <2>2. NamesTypeOK' /\ LatestInv'
    BY <1>0, <2>1 DEF NamesTypeOK, LatestInv
  <2>3. \A n \in NameSet : latest[n] # NoEntry => madeAt[latest[n]] + Ttl \in Nat
    BY <1>0 DEF NamesTypeOK
  <2>4. HeldInv'
    BY <1>0, <2>1, <2>3 DEF HeldInv, NamesTypeOK
  <2>5. NamesKept'
    BY <1>0, <2>1, <2>3 DEF NamesKept, NamesTypeOK
  <2> QED BY <2>2, <2>4, <2>5 DEF NamesInv
<1>2. ASSUME NEW l \in Lookups,
             LookupRefused(l) \/ NotAnsName(l) \/ LookupAsks(l) \/ LookupAsked(l)
      PROVE  NamesInv'
  <2>1. /\ \E at \in {"ended", "unknown", "asking"} : lookup' = [lookup EXCEPT ![l].at = at]
        /\ UNCHANGED <<now, names, madeAt, registration, latest, met>>
    BY <1>2 DEF LookupRefused, NotAnsName, LookupAsks, LookupAsked, LookingUp
  <2>2. NamesTypeOK' /\ LatestInv' /\ NamesKept'
    BY <1>0, <2>1 DEF NamesTypeOK, LatestInv, NamesKept
  <2>3. HeldInv'
    BY <1>0, <2>1 DEF NamesTypeOK, HeldInv
  <2> QED BY <2>2, <2>3 DEF NamesInv
<1>3. ASSUME NEW l \in Lookups, ReadRecord(l) PROVE NamesInv'
  <2>1. PICK n \in NameSet :
          lookup' = [lookup EXCEPT ![l] = [at     |-> IF names[n] = NoEntry THEN "unknown" ELSE "read",
                                           name   |-> n, record |-> names[n]]]
    BY <1>3 DEF ReadRecord
  <2>2. UNCHANGED <<now, names, madeAt, registration, latest, met>>
    BY <1>3 DEF ReadRecord
  <2>3. NamesTypeOK' /\ LatestInv' /\ NamesKept'
    BY <1>0, <2>1, <2>2 DEF NamesTypeOK, LatestInv, NamesKept
  <2>4. HeldInv'
    BY <1>0, <2>1, <2>2 DEF NamesTypeOK, HeldInv, LatestInv
  <2> QED BY <2>3, <2>4 DEF NamesInv
<1>4. ASSUME NEW l \in Lookups, JudgeAge(l) PROVE NamesInv'
  <2>1. /\ lookup[l].at = "read"
        /\ lookup' = [lookup EXCEPT ![l].at = IF Expired(lookup[l].record) THEN "stale" ELSE "ended"]
        /\ UNCHANGED <<now, names, madeAt, registration, latest, met>>
    BY <1>4 DEF JudgeAge, LookingUp
  <2>2. NamesTypeOK' /\ LatestInv' /\ NamesKept'
    BY <1>0, <2>1 DEF NamesTypeOK, LatestInv, NamesKept
  <2>3. Expired(lookup[l].record) => now > madeAt[lookup[l].record] + Ttl
    <3>1. lookup[l].record \in Registrations
      BY <1>0, <2>1 DEF HeldInv
    <3>2. madeAt[lookup[l].record] \in Nat /\ now \in Nat
      BY <1>0, <3>1 DEF NamesTypeOK
    <3> QED BY <1>0, <3>2 DEF Expired
  <2>4. HeldInv'
    BY <1>0, <2>1, <2>3 DEF NamesTypeOK, HeldInv
  <2> QED BY <2>2, <2>4 DEF NamesInv
<1>5. ASSUME NEW l \in Lookups, DropStale(l) PROVE NamesInv'
  <2> DEFINE n == lookup[l].name
  <2>1. /\ lookup[l].at = "stale" /\ lookup' = [lookup EXCEPT ![l].at = "unknown"]
        /\ names' = [names EXCEPT ![n] = NoEntry]
        /\ UNCHANGED <<now, madeAt, registration, latest, met>>
    BY <1>5 DEF DropStale, LookingUp
  <2>2. n \in NameSet /\ (latest[n] \notin met => now > madeAt[latest[n]] + Ttl) /\ latest[n] # NoEntry
    BY <1>0, <2>1 DEF HeldInv
  <2>3. NamesTypeOK' /\ LatestInv'
    BY <1>0, <2>1, <2>2 DEF NamesTypeOK, LatestInv
  <2>4. HeldInv'
    BY <1>0, <2>1 DEF NamesTypeOK, HeldInv
  <2>5. NamesKept'
    <3>1. madeAt[latest[n]] + Ttl \in Nat /\ now \in Nat
      BY <1>0, <2>2 DEF NamesTypeOK
    <3> QED BY <1>0, <2>1, <2>2, <3>1 DEF NamesTypeOK, NamesKept
  <2> QED BY <2>3, <2>4, <2>5 DEF NamesInv
<1> QED BY <1>1, <1>2, <1>3, <1>4, <1>5

\* The newest registration of a name lasts as long as its ttl, however lookups
\* and registrations interleave, if it met no lookup under way.
THEOREM NamesAreKept == NamesSpec => []NamesKept
<1>1. NamesInit => NamesInv
  BY NamesAssumption DEF NamesInit, NamesInv, NamesTypeOK, LatestInv, HeldInv, NamesKept
<1>2. NamesInv /\ [NamesNext]_nameVars => NamesInv'
  <2>1. NamesInv /\ UNCHANGED nameVars => NamesInv'
    BY DEF nameVars, NamesInv, NamesTypeOK, LatestInv, HeldInv, NamesKept
  <2> QED BY <2>1, RegistrationNames, LookupNames DEF NamesNext
<1>3. NamesInv => NamesKept
  BY DEF NamesInv
<1> QED BY <1>1, <1>2, <1>3, PTL DEF NamesSpec

----------------------------------------------------------------------------
(* Builder: what a build reports, and what is listed.                      *)

BuilderTypeOK ==
  /\ disk = [t \in Targets |-> disk[t]]
  /\ \A t \in Targets : disk[t] = [f \in Files(t) |-> disk[t][f]]
  /\ target \subseteq Targets
  /\ \A t, u \in target : t = u
  /\ next \in Nat \ {0}

\* While nothing has failed, the files before the next one are whole.
WrittenInv ==
  \A t \in target : errors = {} =>
    \A k \in DOMAIN FileOrder(t) : k < next => disk[t][FileOrder(t)[k]] = "whole"

\* A first build that nothing has gone wrong with has the others to write.
FirstInv ==
  \A t \in target \ spoilt :
    /\ errors = {}
    /\ \A k \in DOMAIN FileOrder(t) : k >= next => disk[t][FileOrder(t)[k]] = "none"

BuilderInv ==
  BuilderTypeOK /\ WrittenInv /\ FirstInv /\ BuiltWhole /\ success \cap target = {}

\* A target has the three files of a module, or one.
LEMMA FilesOf ==
  ASSUME NEW t \in Targets
  PROVE  \/ /\ t \in Modules
            /\ Files(t) = {"node.py", "registry.py", "__init__.py"}
            /\ Len(FileOrder(t)) = 3 /\ DOMAIN FileOrder(t) = 1..3
            /\ FileOrder(t)[1] = "node.py" /\ FileOrder(t)[2] = "registry.py"
            /\ FileOrder(t)[3] = "__init__.py"
         \/ /\ t \notin Modules
            /\ Files(t) = {"file"}
            /\ Len(FileOrder(t)) = 1 /\ DOMAIN FileOrder(t) = 1..1
            /\ FileOrder(t)[1] = "file"
<1>1. CASE t \in Modules
  <2>1. /\ FileOrder(t) = <<"node.py", "registry.py", "__init__.py">>
        /\ DOMAIN FileOrder(t) = 1..3
    BY <1>1 DEF FileOrder
  <2>2. Files(t) = {"node.py", "registry.py", "__init__.py"}
    BY <2>1 DEF Files
  <2> QED BY <1>1, <2>1, <2>2
<1>2. CASE t \notin Modules
  <2>1. FileOrder(t) = <<"file">> /\ DOMAIN FileOrder(t) = 1..1
    BY <1>2 DEF FileOrder
  <2>2. Files(t) = {"file"}
    BY <2>1 DEF Files
  <2> QED BY <1>2, <2>1, <2>2
<1> QED BY <1>1, <1>2

\* A step that writes a file leaves the others, and those of other targets.
LEMMA LeavesOne ==
  ASSUME BuilderTypeOK, NEW t \in Targets, next <= Len(FileOrder(t)), NEW what,
         Leaves(t, what)
  PROVE  /\ FileOrder(t)[next] \in Files(t)
         /\ disk'[t][FileOrder(t)[next]] = what
         /\ \A f \in Files(t) : f # FileOrder(t)[next] => disk'[t][f] = disk[t][f]
         /\ \A u \in Targets : u # t => disk'[u] = disk[u]
         /\ disk' = [u \in Targets |-> disk'[u]]
         /\ \A u \in Targets : disk'[u] = [f \in Files(u) |-> disk'[u][f]]
         /\ next' = next + 1 /\ next' \in Nat \ {0}
<1> DEFINE f == FileOrder(t)[next]
<1>1. f \in Files(t)
  BY FilesOf DEF BuilderTypeOK
<1> HIDE DEF f
<1>2. /\ disk' = [disk EXCEPT ![t] = [disk[t] EXCEPT ![f] = what]]
      /\ next' = next + 1
  BY DEF Leaves, f
<1>3. /\ disk'[t] = [disk[t] EXCEPT ![f] = what]
      /\ \A u \in Targets : u # t => disk'[u] = disk[u]
      /\ disk' = [u \in Targets |-> disk'[u]]
  BY <1>2 DEF BuilderTypeOK
<1>4. disk'[t] = [x \in Files(t) |-> IF x = f THEN what ELSE disk[t][x]]
  BY <1>1, <1>3 DEF BuilderTypeOK
<1> QED BY <1>1, <1>2, <1>3, <1>4 DEF BuilderTypeOK, f

\* Two places in the order hold different files, and every file has a place.
LEMMA OrderInjective ==
  ASSUME NEW t \in Targets
  PROVE  /\ \A j, k \in DOMAIN FileOrder(t) : FileOrder(t)[j] = FileOrder(t)[k] => j = k
         /\ \A f \in Files(t) : \E k \in DOMAIN FileOrder(t) : f = FileOrder(t)[k]
         /\ \A k \in DOMAIN FileOrder(t) : FileOrder(t)[k] \in Files(t)
         /\ DOMAIN FileOrder(t) = 1..Len(FileOrder(t))
         /\ Len(FileOrder(t)) \in Nat
BY FilesOf DEF Files

LEMMA InitBuilder == BuilderInit => BuilderInv
<1> SUFFICES ASSUME BuilderInit PROVE BuilderInv OBVIOUS
<1>1. \A t \in Targets : disk[t] = [f \in Files(t) |-> "none"]
  BY DEF BuilderInit
<1>2. BuilderTypeOK
  BY <1>1 DEF BuilderInit, BuilderTypeOK
<1>3. BuiltWhole
  <2>1. \A t \in Modules : t \in Targets /\ "__init__.py" \in Files(t)
    BY FilesOf DEF Targets
  <2>2. \A t \in Targets : ~Listed(t)
    BY <1>1, <2>1 DEF Listed
  <2> QED BY <2>2 DEF BuilderInit, BuiltWhole
<1> QED BY <1>2, <1>3 DEF BuilderInit, BuilderInv, WrittenInv, FirstInv

\* A build begins: a target that has files counts as spoilt from then on.
LEMMA BeginKeeps ==
  ASSUME BuilderInv, NEW t \in Targets, Build(t)
  PROVE  BuilderInv'
<1> USE DEF BuilderInv
<1>1. BuilderTypeOK'
  BY DEF Build, BuilderTypeOK
<1>2. WrittenInv'
  BY OrderInjective DEF Build, WrittenInv
<1>3. FirstInv'
  <2> SUFFICES ASSUME t \notin spoilt'
               PROVE  \A k \in DOMAIN FileOrder(t) : disk[t][FileOrder(t)[k]] = "none"
    BY DEF Build, FirstInv
  <2>1. Untouched(t)
    BY DEF Build
  <2> QED BY <2>1, OrderInjective DEF Untouched
<1>4. BuiltWhole'
  BY DEF Build, BuiltWhole, Listed
<1> QED BY <1>1, <1>2, <1>3, <1>4 DEF Build

\* A file is written: the next one of a list.
LEMMA WriteKeeps ==
  ASSUME BuilderInv, NEW t \in Targets, WriteFile(t)
  PROVE  BuilderInv'
<1> USE DEF BuilderInv
<1> DEFINE f == FileOrder(t)[next]
<1>1. /\ f \in Files(t) /\ disk'[t][f] = "whole"
      /\ \A g \in Files(t) : g # f => disk'[t][g] = disk[t][g]
      /\ \A u \in Targets : u # t => disk'[u] = disk[u]
      /\ disk' = [u \in Targets |-> disk'[u]]
      /\ \A u \in Targets : disk'[u] = [g \in Files(u) |-> disk'[u][g]]
      /\ next' = next + 1 /\ next' \in Nat \ {0}
  BY LeavesOne DEF WriteFile, Writes
<1>2. /\ target = {t} /\ next \in Nat \ {0} /\ next <= Len(FileOrder(t))
      /\ UNCHANGED <<target, errors, spoilt, success>>
  BY DEF WriteFile, Writes, BuilderTypeOK
<1>3. next \in DOMAIN FileOrder(t)
  BY <1>2, OrderInjective
<1>4. BuilderTypeOK'
  BY <1>1, <1>2 DEF BuilderTypeOK
<1>5. \A k \in DOMAIN FileOrder(t) :
        disk'[t][FileOrder(t)[k]] = IF k = next THEN "whole" ELSE disk[t][FileOrder(t)[k]]
  BY <1>1, <1>3, OrderInjective
<1>6. \A k \in DOMAIN FileOrder(t) : k \in Nat
  BY OrderInjective
<1>7. WrittenInv'
  BY <1>1, <1>2, <1>5, <1>6 DEF WrittenInv
<1>8. FirstInv'
  BY <1>1, <1>2, <1>5, <1>6 DEF FirstInv
<1>9. BuiltWhole'
  <2> SUFFICES ASSUME NEW u \in Targets
               PROVE  /\ u \in success => \A g \in Files(u) : disk'[u][g] = "whole"
                      /\ Listed(u)' /\ u \notin spoilt =>
                           \A g \in Files(u) \ {"__init__.py"} : disk'[u][g] = "whole"
    BY <1>2 DEF BuiltWhole
  <2>1. CASE u # t
    BY <2>1, <1>1 DEF BuiltWhole, Listed
  <2>2. CASE u = t
    <3>1. t \notin success
      BY <1>2
    <3>2. ASSUME Listed(t)', t \notin spoilt, NEW g \in Files(t), g # "__init__.py"
          PROVE  disk'[t][g] = "whole"
      <4>1. t \in Modules
        BY <3>2 DEF Listed
      <4>2. next = 3
        BY <3>2, <4>1, <1>2, <1>3, <1>5, FilesOf DEF Listed, FirstInv
      <4>3. \A k \in 1..2 : disk[t][FileOrder(t)[k]] = "whole"
        BY <4>1, <4>2, <3>2, <1>2, FilesOf DEF FirstInv, WrittenInv
      <4> QED BY <4>1, <4>2, <4>3, <3>2, <1>5, FilesOf
    <3> QED BY <2>2, <3>1, <3>2
  <2> QED BY <2>1, <2>2
<1> QED BY <1>2, <1>4, <1>7, <1>8, <1>9

\* A write that fails leaves its target spoilt, and the build with an error.
LEMMA FailKeeps ==
  ASSUME BuilderInv, NEW t \in Targets, NEW outcomes, Fails(t, outcomes)
  PROVE  BuilderInv'
<1> USE DEF BuilderInv
<1>1. PICK what \in outcomes : Leaves(t, what)
  BY DEF Fails
<1>2. /\ target = {t} /\ next <= Len(FileOrder(t))
      /\ errors' # {} /\ spoilt' = spoilt \cup {t} /\ UNCHANGED <<target, success>>
  BY DEF Fails, Writes
<1>3. /\ \A u \in Targets : u # t => disk'[u] = disk[u]
      /\ disk' = [u \in Targets |-> disk'[u]]
      /\ \A u \in Targets : disk'[u] = [g \in Files(u) |-> disk'[u][g]]
      /\ next' \in Nat \ {0}
  BY <1>1, <1>2, LeavesOne
<1>4. BuilderTypeOK'
  BY <1>2, <1>3 DEF BuilderTypeOK
<1>5. WrittenInv' /\ FirstInv' /\ success' \cap target' = {}
  BY <1>2 DEF WrittenInv, FirstInv
<1>6. BuiltWhole'
  BY <1>2, <1>3 DEF BuiltWhole, Listed
<1> QED BY <1>4, <1>5, <1>6

\* The data of a configuration raises: no build is under way any more.
LEMMA RaiseKeeps ==
  ASSUME BuilderInv, NEW t \in Targets, ConfigRaises(t)
  PROVE  BuilderInv'
<1> USE DEF BuilderInv
<1>1. /\ Leaves(t, "cut") /\ target = {t} /\ next <= Len(FileOrder(t))
      /\ target' = {} /\ spoilt' = spoilt \cup {t} /\ success' = success
  BY DEF ConfigRaises, Writes
<1>2. /\ \A u \in Targets : u # t => disk'[u] = disk[u]
      /\ disk' = [u \in Targets |-> disk'[u]]
      /\ \A u \in Targets : disk'[u] = [g \in Files(u) |-> disk'[u][g]]
      /\ next' \in Nat \ {0}
  BY <1>1, LeavesOne
<1>3. BuilderTypeOK' /\ WrittenInv' /\ FirstInv'
  BY <1>1, <1>2 DEF BuilderTypeOK, WrittenInv, FirstInv
<1>4. BuiltWhole'
  BY <1>1, <1>2 DEF BuiltWhole, Listed
<1> QED BY <1>1, <1>3, <1>4

\* A build reports success only with all its files whole.
LEMMA ReturnKeeps ==
  ASSUME BuilderInv, NEW t \in Targets, BuildReturns(t)
  PROVE  BuilderInv'
<1> USE DEF BuilderInv
<1>1. BuilderTypeOK' /\ WrittenInv' /\ FirstInv' /\ success' \cap target' = {}
  BY DEF BuildReturns, BuilderTypeOK, WrittenInv, FirstInv
<1>2. errors = {} => \A f \in Files(t) : disk[t][f] = "whole"
  <2> SUFFICES ASSUME errors = {}, NEW f \in Files(t) PROVE disk[t][f] = "whole"
    OBVIOUS
  <2>1. PICK k \in DOMAIN FileOrder(t) : f = FileOrder(t)[k]
    BY OrderInjective
  <2>2. k < next
    BY <2>1, OrderInjective DEF BuildReturns, BuilderTypeOK
  <2> QED BY <2>1, <2>2 DEF BuildReturns, WrittenInv
<1>3. BuiltWhole'
  BY <1>2 DEF BuildReturns, BuiltWhole, Listed
<1> QED BY <1>1, <1>3

\* The process ends: what lists a module is written after all the rest.
LEMMA EndKeeps ==
  ASSUME BuilderInv, BuilderEnds
  PROVE  BuilderInv'
<1> USE DEF BuilderInv
<1>1. target' = {} /\ UNCHANGED <<spoilt, success>>
  BY DEF BuilderEnds
<1>2. CASE UNCHANGED <<disk, next>>
  BY <1>1, <1>2 DEF BuilderTypeOK, WrittenInv, FirstInv, BuiltWhole, Listed
<1>3. ASSUME NEW t \in Targets, Writes(t), Leaves(t, "cut")
      PROVE  BuilderInv'
  <2>1. target = {t} /\ next <= Len(FileOrder(t)) /\ next \in Nat \ {0}
    BY <1>3 DEF Writes, BuilderTypeOK
  <2> DEFINE f == FileOrder(t)[next]
  <2>2. /\ \A g \in Files(t) : g # f => disk'[t][g] = disk[t][g]
        /\ \A u \in Targets : u # t => disk'[u] = disk[u]
        /\ disk' = [u \in Targets |-> disk'[u]]
        /\ \A u \in Targets : disk'[u] = [g \in Files(u) |-> disk'[u][g]]
        /\ next' \in Nat \ {0}
    BY <1>3, <2>1, LeavesOne
  <2>3. BuilderTypeOK' /\ WrittenInv' /\ FirstInv'
    BY <1>1, <2>2 DEF BuilderTypeOK, WrittenInv, FirstInv
  <2>4. next \in DOMAIN FileOrder(t)
    BY <2>1, OrderInjective
  <2>5. ASSUME Listed(t)', t \notin spoilt, NEW g \in Files(t), g # "__init__.py"
        PROVE  disk'[t][g] = "whole"
    <3>1. t \in Modules
      BY <2>5 DEF Listed
    <3>2. next = 3
      BY <2>5, <3>1, <2>1, <2>2, <2>4, FilesOf DEF Listed, FirstInv
    <3>3. \A k \in 1..2 : disk[t][FileOrder(t)[k]] = "whole"
      BY <3>1, <3>2, <2>5, <2>1, FilesOf DEF FirstInv, WrittenInv
    <3> QED BY <3>1, <3>2, <3>3, <2>5, <2>2, FilesOf
  <2>6. BuiltWhole'
    BY <1>1, <2>1, <2>2, <2>5 DEF BuiltWhole, Listed
  <2> QED BY <1>1, <2>3, <2>6
<1> QED BY <1>2, <1>3 DEF BuilderEnds

\* What is reported as built is whole, and a module is not listed before it is,
\* at whatever step the process ends and whichever files cannot be written.
THEOREM BuiltIsWhole == BuilderSpec => []BuiltWhole
<1>1. BuilderInit => BuilderInv
  BY InitBuilder
<1>2. BuilderInv /\ [BuilderNext]_builderVars => BuilderInv'
  <2>1. ASSUME BuilderInv, UNCHANGED builderVars PROVE BuilderInv'
    <3>1. UNCHANGED <<disk, target, next, errors, spoilt, success>>
      BY <2>1 DEF builderVars
    <3>2. BuilderTypeOK'
      BY <2>1, <3>1 DEF BuilderInv, BuilderTypeOK
    <3>3. WrittenInv' /\ FirstInv' /\ BuiltWhole' /\ success' \cap target' = {}
      BY <2>1, <3>1 DEF BuilderInv, WrittenInv, FirstInv, BuiltWhole, Listed
    <3> QED BY <3>2, <3>3 DEF BuilderInv
  <2>2. ASSUME BuilderInv, NEW t \in Targets, BuildFails(t) PROVE BuilderInv'
    BY <2>2 DEF BuildFails, BuilderInv, BuilderTypeOK, WrittenInv, FirstInv,
                BuiltWhole, Listed
  <2> QED BY <2>1, <2>2, BeginKeeps, WriteKeeps, FailKeeps, RaiseKeeps, ReturnKeeps,
             EndKeeps
          DEF BuilderNext, BuildModule, Expand, BuildScript, BuildConfig,
              ModuleFileFails, ScriptFails, ConfigFails
<1>3. BuilderInv => BuiltWhole
  BY DEF BuilderInv
<1> QED BY <1>1, <1>2, <1>3, PTL DEF BuilderSpec
----------------------------------------------------------------------------
(* AgentMemory: no getter is shown what had been replaced.                 *)

ServedStates == {"served", "served before"}

MemoryTypeOK ==
  /\ memory \in Writers \cup {NoValue}
  /\ caller \in [MemoryCalls \cup Locals ->
                   {"idle", "dialing", "waiting", "answered", "nothing"}]
  /\ request \in [MemoryCalls -> {"none", "sent", "lost"} \cup ServedStates]
  /\ shown \in [Getters -> Writers \cup {NoValue}]
  /\ set \in SUBSET Writers
  /\ doneBefore \in [Writers -> SUBSET Writers]
  /\ outdated \in [Getters -> SUBSET (Writers \cup {NoValue})]

\* The writers that the node has dealt with, now or before a restart: none of
\* them ever writes again.
Done == {s \in Setters : request[s] \in ServedStates}
          \cup {w \in Locals : caller[w] = "answered"}

\* A call has sent nothing before it waits, and is answered once it is served.
RequestInv ==
  \A c \in MemoryCalls :
    /\ caller[c] \in {"idle", "dialing"} => request[c] = "none"
    /\ caller[c] = "answered" => request[c] \in ServedStates

\* What the known writers, and those served since the start, have done.
WrittenOnceInv ==
  /\ set \subseteq Done
  /\ set # {} \/ (\E s \in Setters : request[s] = "served") => memory # NoValue

\* What was done before w was begun has gone once w is done.
ReplacedInv ==
  \A w \in Writers : \A v \in doneBefore[w] :
    v \in Done /\ v # w /\ (w \in Done => memory # v)

\* What a getter must not be shown is not there, and cannot come back.
OutdatedInv ==
  \A g \in Getters :
    /\ memory \notin outdated[g]
    /\ outdated[g] \ {NoValue} \subseteq Done
    /\ request[g] \in ServedStates => shown[g] \notin outdated[g]

MemoryInv ==
  MemoryTypeOK /\ RequestInv /\ WrittenOnceInv /\ ReplacedInv /\ OutdatedInv

\* Who is a setter, a getter or a local call.
LEMMA MemoryKinds ==
  /\ Setters \cap Getters = {} /\ Locals \cap MemoryCalls = {}
  /\ Setters \subseteq MemoryCalls /\ Getters \subseteq MemoryCalls
  /\ Setters \subseteq Writers /\ Locals \subseteq Writers /\ Writers = Setters \cup Locals
  /\ NoValue \notin Writers
BY MemoryAssumption DEF MemoryCalls, Writers

\* The announcement, and a call that gives up or cannot begin, change nothing
\* that the invariant speaks of but where the call stands.
LEMMA CallerKeeps ==
  ASSUME MemoryInv, NEW c \in MemoryCalls,
         PeerUnknown(c) \/ CannotConnect(c) \/ TimesOut(c)
  PROVE  MemoryInv'
<1>1. /\ caller' = [caller EXCEPT ![c] = "nothing"]
      /\ UNCHANGED <<memory, request, shown, set, doneBefore, outdated>>
  BY DEF PeerUnknown, CannotConnect, TimesOut, Caller
<1>2. MemoryTypeOK' /\ RequestInv'
  BY <1>1 DEF MemoryInv, MemoryTypeOK, RequestInv
<1>3. Done' = Done
  BY <1>1, MemoryKinds DEF Done, MemoryInv, MemoryTypeOK
<1> QED BY <1>1, <1>2, <1>3 DEF MemoryInv, WrittenOnceInv, ReplacedInv, OutdatedInv

\* A setter begins: all that is done by now is done before it.
LEMMA BeginSetKeeps ==
  ASSUME MemoryInv, NEW c \in MemoryCalls, BeginSet(c)
  PROVE  MemoryInv'
<1>1. /\ c \in Setters /\ caller[c] = "idle"
      /\ caller' = [caller EXCEPT ![c] = "dialing"]
      /\ doneBefore' = [doneBefore EXCEPT ![c] = set]
      /\ UNCHANGED <<memory, request, shown, set, outdated>>
  BY DEF BeginSet, Caller
<1>2. MemoryTypeOK' /\ RequestInv'
  BY <1>1, MemoryKinds DEF MemoryInv, MemoryTypeOK, RequestInv
<1>3. Done' = Done /\ c \notin Done
  BY <1>1, MemoryKinds DEF Done, MemoryInv, MemoryTypeOK, RequestInv, ServedStates
<1>4. WrittenOnceInv' /\ OutdatedInv'
  BY <1>1, <1>3 DEF MemoryInv, WrittenOnceInv, OutdatedInv
<1>5. ReplacedInv'
  BY <1>1, <1>3, MemoryKinds DEF MemoryInv, MemoryTypeOK, WrittenOnceInv, ReplacedInv
<1> QED BY <1>2, <1>4, <1>5 DEF MemoryInv

\* A getter begins: what it must not be shown has gone already.
LEMMA BeginGetKeeps ==
  ASSUME MemoryInv, NEW c \in MemoryCalls, BeginGet(c)
  PROVE  MemoryInv'
<1>1. /\ c \in Getters /\ caller[c] = "idle"
      /\ caller' = [caller EXCEPT ![c] = "dialing"]
      /\ outdated' = [outdated EXCEPT ![c] = Replaced \cup Unwritten]
      /\ UNCHANGED <<memory, request, shown, set, doneBefore>>
  BY DEF BeginGet, Caller
<1>2. Replaced \subseteq Done /\ memory \notin Replaced
  BY MemoryKinds DEF Replaced, MemoryInv, MemoryTypeOK, WrittenOnceInv, ReplacedInv
<1>3. Unwritten \subseteq {NoValue} /\ memory \notin Unwritten
  BY DEF Unwritten, MemoryInv, WrittenOnceInv
<1>4. MemoryTypeOK' /\ RequestInv'
  <2>1. Replaced \cup Unwritten \in SUBSET (Writers \cup {NoValue})
    BY <1>3 DEF Replaced, MemoryInv, MemoryTypeOK
  <2> QED BY <1>1, <2>1, MemoryKinds DEF MemoryInv, MemoryTypeOK, RequestInv
<1>5. Done' = Done
  BY <1>1, MemoryKinds DEF Done, MemoryInv, MemoryTypeOK
<1>6. WrittenOnceInv' /\ ReplacedInv'
  BY <1>1, <1>5 DEF MemoryInv, WrittenOnceInv, ReplacedInv
<1>7. request[c] = "none"
  BY <1>1 DEF MemoryInv, RequestInv
<1>8. OutdatedInv'
  BY <1>1, <1>2, <1>3, <1>5, <1>7 DEF MemoryInv, MemoryTypeOK, OutdatedInv, ServedStates
<1> QED BY <1>4, <1>6, <1>8 DEF MemoryInv

LEMMA SendKeeps ==
  ASSUME MemoryInv, NEW c \in MemoryCalls, Send(c) \/ NeverRead(c)
  PROVE  MemoryInv'
<1>1. /\ \/ caller[c] = "dialing" /\ caller' = [caller EXCEPT ![c] = "waiting"]
         \/ caller[c] = "nothing" /\ caller' = caller
      /\ request[c] \in {"none", "sent"}
      /\ \E at \in {"sent", "lost"} : request' = [request EXCEPT ![c] = at]
      /\ UNCHANGED <<memory, shown, set, doneBefore, outdated>>
  BY DEF Send, NeverRead, Caller, Request, MemoryInv, RequestInv
<1>2. MemoryTypeOK' /\ RequestInv'
  BY <1>1 DEF MemoryInv, MemoryTypeOK, RequestInv
<1>3. Done' = Done
  BY <1>1, MemoryKinds DEF Done, MemoryInv, MemoryTypeOK, ServedStates
<1>4. WrittenOnceInv'
  BY <1>1, <1>3, MemoryKinds DEF MemoryInv, MemoryTypeOK, WrittenOnceInv
<1>5. ReplacedInv'
  BY <1>1, <1>3 DEF MemoryInv, ReplacedInv
<1>6. OutdatedInv'
  BY <1>1, <1>3, MemoryKinds DEF MemoryInv, MemoryTypeOK, OutdatedInv, ServedStates
<1> QED BY <1>2, <1>4, <1>5, <1>6 DEF MemoryInv

\* An answer: a setter is known to be done if this incarnation has served it.
LEMMA ReceiveKeeps ==
  ASSUME MemoryInv, NEW c \in MemoryCalls, Receive(c)
  PROVE  MemoryInv'
<1>1. /\ request[c] \in ServedStates
      /\ caller' = [caller EXCEPT ![c] = "answered"]
      /\ set' = IF c \in Setters /\ request[c] = "served" THEN set \cup {c} ELSE set
      /\ UNCHANGED <<memory, request, shown, doneBefore, outdated>>
  BY DEF Receive, Caller, ServedStates
<1>2. MemoryTypeOK' /\ RequestInv'
  BY <1>1, MemoryKinds DEF MemoryInv, MemoryTypeOK, RequestInv
<1>3. Done' = Done
  BY <1>1, MemoryKinds DEF Done, MemoryInv, MemoryTypeOK
<1>4. WrittenOnceInv'
  BY <1>1, <1>3, MemoryKinds DEF MemoryInv, WrittenOnceInv, Done
<1>5. ReplacedInv' /\ OutdatedInv'
  BY <1>1, <1>3 DEF MemoryInv, ReplacedInv, OutdatedInv
<1> QED BY <1>2, <1>4, <1>5 DEF MemoryInv

\* A value is written: its writer was not done before, so that nothing that had
\* gone comes back with it.
LEMMA WriteIsNew ==
  ASSUME MemoryInv, NEW w \in Writers \ Done, memory' = w,
         Done' = Done \cup {w}, UNCHANGED <<shown, outdated>>,
         doneBefore' = doneBefore \/ doneBefore' = [doneBefore EXCEPT ![w] = set],
         \A g \in Getters : request'[g] = request[g]
  PROVE  ReplacedInv' /\ OutdatedInv' /\ memory' # NoValue
<1>1. ReplacedInv'
  BY MemoryKinds DEF MemoryInv, MemoryTypeOK, WrittenOnceInv, ReplacedInv
<1>2. OutdatedInv'
  BY MemoryKinds DEF MemoryInv, MemoryTypeOK, OutdatedInv
<1> QED BY <1>1, <1>2, MemoryKinds

LEMMA OnSetKeeps ==
  ASSUME MemoryInv, NEW c \in MemoryCalls, OnMemorySet(c)
  PROVE  MemoryInv'
<1>1. /\ c \in Setters /\ request[c] = "sent" /\ memory' = c
      /\ request' = [request EXCEPT ![c] = "served"]
      /\ UNCHANGED <<caller, shown, set, doneBefore, outdated>>
  BY DEF OnMemorySet, Request
<1>2. MemoryTypeOK' /\ RequestInv'
  BY <1>1, MemoryKinds DEF MemoryInv, MemoryTypeOK, RequestInv, ServedStates
<1>3. Done' = Done \cup {c} /\ c \notin Done
  <2>1. \A s \in Setters : request'[s] \in ServedStates <=> s = c \/ request[s] \in ServedStates
    BY <1>1, MemoryKinds DEF MemoryInv, MemoryTypeOK, ServedStates
  <2>2. request[c] \notin ServedStates /\ c \notin Locals
    BY <1>1, MemoryKinds DEF ServedStates
  <2> QED BY <1>1, <2>1, <2>2 DEF Done
<1>4. \A g \in Getters : request'[g] = request[g]
  BY <1>1, MemoryKinds DEF MemoryInv, MemoryTypeOK
<1>5. ReplacedInv' /\ OutdatedInv' /\ memory' # NoValue
  BY <1>1, <1>3, <1>4, WriteIsNew, MemoryKinds
<1>6. WrittenOnceInv'
  BY <1>1, <1>3, <1>5 DEF MemoryInv, WrittenOnceInv
<1> QED BY <1>2, <1>5, <1>6 DEF MemoryInv

LEMMA SetLocallyKeeps ==
  ASSUME MemoryInv, NEW w \in Locals, SetLocally(w)
  PROVE  MemoryInv'
<1>1. /\ caller[w] = "idle" /\ caller' = [caller EXCEPT ![w] = "answered"]
      /\ memory' = w /\ set' = set \cup {w}
      /\ doneBefore' = [doneBefore EXCEPT ![w] = set]
      /\ UNCHANGED <<request, shown, outdated>>
  BY DEF SetLocally, Caller
<1>2. MemoryTypeOK' /\ RequestInv'
  BY <1>1, MemoryKinds DEF MemoryInv, MemoryTypeOK, RequestInv
<1>3. Done' = Done \cup {w} /\ w \notin Done
  BY <1>1, MemoryKinds DEF Done, MemoryInv, MemoryTypeOK
<1>4. ReplacedInv' /\ OutdatedInv' /\ memory' # NoValue
  BY <1>1, <1>3, WriteIsNew, MemoryKinds
<1>5. WrittenOnceInv'
  BY <1>1, <1>3, <1>4 DEF MemoryInv, WrittenOnceInv
<1> QED BY <1>2, <1>4, <1>5 DEF MemoryInv

LEMMA OnGetKeeps ==
  ASSUME MemoryInv, NEW c \in MemoryCalls, OnMemoryGet(c)
  PROVE  MemoryInv'
<1>1. /\ c \in Getters /\ request[c] = "sent"
      /\ shown' = [shown EXCEPT ![c] = memory]
      /\ request' = [request EXCEPT ![c] = "served"]
      /\ UNCHANGED <<memory, caller, set, doneBefore, outdated>>
  BY DEF OnMemoryGet, Request
<1>2. MemoryTypeOK' /\ RequestInv'
  BY <1>1, MemoryKinds DEF MemoryInv, MemoryTypeOK, RequestInv, ServedStates
<1>3. Done' = Done /\ \A s \in Setters : request'[s] = request[s]
  BY <1>1, MemoryKinds DEF Done, MemoryInv, MemoryTypeOK
<1>4. WrittenOnceInv' /\ ReplacedInv'
  BY <1>1, <1>3 DEF MemoryInv, WrittenOnceInv, ReplacedInv
<1>5. OutdatedInv'
  BY <1>1, <1>3, MemoryKinds DEF MemoryInv, MemoryTypeOK, OutdatedInv
<1> QED BY <1>2, <1>4, <1>5 DEF MemoryInv

\* The node restarts: the memory is empty, and what was served stays so.
LEMMA RestartKeeps ==
  ASSUME MemoryInv, NodeRestarts
  PROVE  MemoryInv'
<1>1. /\ memory' = NoValue /\ set' = {}
      /\ outdated' = [g \in Getters |-> outdated[g] \ {NoValue}]
      /\ UNCHANGED <<caller, shown, doneBefore>>
  BY DEF NodeRestarts
<1>2. /\ request' = [c \in MemoryCalls |-> request'[c]]
      /\ \A c \in MemoryCalls :
           request'[c] = IF request[c] = "sent" THEN "lost" ELSE
                         IF request[c] = "served" THEN "served before" ELSE request[c]
  <2> DEFINE after(c) == CASE request[c] = "sent"   -> "lost"
                           [] request[c] = "served" -> "served before"
                           [] OTHER                 -> request[c]
  <2>1. request' = [c \in MemoryCalls |-> after(c)]
    BY DEF NodeRestarts
  <2>2. ASSUME NEW c \in MemoryCalls
        PROVE  after(c) = IF request[c] = "sent" THEN "lost" ELSE
                          IF request[c] = "served" THEN "served before" ELSE request[c]
    <3>1. "sent" # "served"
      OBVIOUS
    <3>2. CASE request[c] = "sent"
      BY <3>1, <3>2, Zenon
    <3>3. CASE request[c] = "served"
      BY <3>1, <3>3, Zenon
    <3>4. CASE request[c] # "sent" /\ request[c] # "served"
      BY <3>4, Zenon
    <3> QED BY <3>2, <3>3, <3>4
  <2> HIDE DEF after
  <2> QED BY <2>1, <2>2
<1>3. MemoryTypeOK'
  <2>1. \A c \in MemoryCalls : request'[c] \in {"none", "sent", "lost"} \cup ServedStates
    BY <1>2 DEF MemoryInv, MemoryTypeOK, ServedStates
  <2> QED BY <1>1, <1>2, <2>1 DEF MemoryInv, MemoryTypeOK
<1>4. RequestInv'
  BY <1>1, <1>2 DEF MemoryInv, MemoryTypeOK, RequestInv, ServedStates
<1>5. \A c \in MemoryCalls : request'[c] # "served"
  BY <1>2
<1>6. \A c \in MemoryCalls : request'[c] \in ServedStates <=> request[c] \in ServedStates
  BY <1>2 DEF ServedStates
<1>7. Done' = Done
  BY <1>1, <1>6, MemoryKinds DEF Done
<1>8. WrittenOnceInv'
  BY <1>1, <1>5, MemoryKinds DEF WrittenOnceInv
<1>9. ReplacedInv'
  BY <1>1, <1>7, MemoryKinds DEF MemoryInv, MemoryTypeOK, ReplacedInv
<1>10. OutdatedInv'
  BY <1>1, <1>6, <1>7, MemoryKinds DEF MemoryInv, OutdatedInv
<1> QED BY <1>3, <1>4, <1>8, <1>9, <1>10 DEF MemoryInv

LEMMA InitMemory == MemoryInit => MemoryInv
<1> SUFFICES ASSUME MemoryInit PROVE MemoryInv OBVIOUS
<1>1. Done = {}
  BY MemoryKinds DEF MemoryInit, Done, ServedStates
<1>2. MemoryTypeOK
  BY DEF MemoryInit, MemoryTypeOK
<1> QED BY <1>1, <1>2, MemoryKinds
        DEF MemoryInit, MemoryInv, RequestInv, WrittenOnceInv, ReplacedInv, OutdatedInv,
            ServedStates

\* A getter is never shown what had been replaced before it asked, however late
\* requests are served, and across restarts of the node.
THEOREM NothingOldIsShown == MemorySpec => []NoOldValue
<1>1. MemoryInit => MemoryInv
  BY InitMemory
<1>2. MemoryInv /\ [MemoryNext]_memoryVars => MemoryInv'
  <2>1. ASSUME MemoryInv,
               UNCHANGED <<memory, caller, request, shown, set, doneBefore, outdated>>
        PROVE  MemoryInv'
    <3>1. MemoryTypeOK' /\ RequestInv' /\ Done' = Done
      BY <2>1 DEF MemoryInv, MemoryTypeOK, RequestInv, Done
    <3> QED BY <2>1, <3>1 DEF MemoryInv, WrittenOnceInv, ReplacedInv, OutdatedInv
  <2>2. UNCHANGED memoryVars \/ AnnounceTo \/ OnAnnounce =>
          UNCHANGED <<memory, caller, request, shown, set, doneBefore, outdated>>
    BY DEF memoryVars, AnnounceTo, OnAnnounce
  <2> QED BY <2>1, <2>2, CallerKeeps, BeginSetKeeps, BeginGetKeeps, SendKeeps, ReceiveKeeps,
             OnSetKeeps, SetLocallyKeeps, OnGetKeeps, RestartKeeps
          DEF MemoryNext
<1>3. MemoryInv => NoOldValue
  BY MemoryKinds DEF MemoryInv, RequestInv, OutdatedInv, NoOldValue
<1> QED BY <1>1, <1>2, <1>3, PTL DEF MemorySpec
----------------------------------------------------------------------------
(* ContentLedger: the layer, the ledger and its file tell the same.        *)

AllEntries == [kind : {"posted", "deleted"}, item : Items]
Chunks == [entry : AllEntries, end : {"line"} \cup Cuts]

\* What the chunks of the file are about, readable or not.
Told == [n \in DOMAIN ledgerFile |-> ledgerFile[n].entry]

Has(log, e) == \E n \in DOMAIN log : log[n] = e
Distinct(log) == \A m, n \in DOMAIN log : log[m] = log[n] => m = n

Pending(c) == call[c] \in {"decided", "recorded"}
PostedEntry(i) == [kind |-> "posted", item |-> i]
DeletedEntry(i) == [kind |-> "deleted", item |-> i]

LedgerTypeOK ==
  /\ layer \in [Items -> {"absent", "live", "deleted"}]
  /\ entries \in Seq(AllEntries)
  /\ ledgerFile \in Seq(Chunks)
  /\ call \in [LedgerCalls -> {"idle", "decided", "recorded", "ended"}]
  /\ subject = [d \in Deleters |-> subject[d]]
  /\ ledgerFailures \in Nat

\* Nothing is told twice.
ToldOnce == Distinct(entries) /\ Distinct(Told)

\* What a call has still to tell is its own, and not told yet.
PendingInv ==
  \A c \in LedgerCalls : Pending(c) =>
    /\ c \in Deleters => subject[c] \in Items /\ layer[subject[c]] = "deleted"
    /\ ~Has(Told, Entry(c))
    /\ Has(entries, Entry(c)) <=> call[c] = "recorded"
    /\ \A d \in LedgerCalls : Pending(d) /\ Entry(c) = Entry(d) => c = d

\* Of what was never posted nothing is told; of what is there, no deletion.
UntoldInv ==
  \A i \in Items :
    /\ call[i] = "idle" =>
         /\ layer[i] = "absent"
         /\ ~Has(entries, PostedEntry(i)) /\ ~Has(Told, PostedEntry(i))
    /\ call[i] = "idle" \/ layer[i] = "live" =>
         /\ ~Has(entries, DeletedEntry(i)) /\ ~Has(Told, DeletedEntry(i))
         /\ \A d \in Deleters : Pending(d) => subject[d] # i

\* What was done to an item in the layer is told, or will be by its call.
AccountedInv ==
  \A i \in Items :
    /\ layer[i] # "absent" /\ call[i] # "decided" => Has(entries, PostedEntry(i))
    /\ layer[i] = "deleted" /\ (\A d \in Deleters : subject[d] = i => call[d] # "decided")
         => Has(entries, DeletedEntry(i))

\* While no write has failed, the file lacks what the writers have in hand.
FileInv ==
  ledgerFailures = 0 =>
    /\ \A n \in DOMAIN ledgerFile : ledgerFile[n].end = "line"
    /\ \A e \in AllEntries :
         Has(entries, e) <=>
           Has(Told, e) \/ \E c \in LedgerCalls : call[c] = "recorded" /\ Entry(c) = e

LedgerInv ==
  LedgerTypeOK /\ ToldOnce /\ PendingInv /\ UntoldInv /\ AccountedInv /\ FileInv

LEMMA HasAppend ==
  ASSUME NEW S, NEW log \in Seq(S), NEW e \in S
  PROVE  /\ \A x : Has(Append(log, e), x) <=> Has(log, x) \/ x = e
         /\ Distinct(log) /\ ~Has(log, e) => Distinct(Append(log, e))
         /\ Append(log, e) \in Seq(S)
<1>1. /\ DOMAIN log = 1..Len(log) /\ Len(log) \in Nat
      /\ DOMAIN Append(log, e) = 1..(Len(log) + 1)
      /\ \A n \in 1..Len(log) : Append(log, e)[n] = log[n]
      /\ Append(log, e)[Len(log) + 1] = e
  OBVIOUS
<1>2. \A x : Has(Append(log, e), x) <=> Has(log, x) \/ x = e
  BY <1>1 DEF Has
<1>3. Distinct(log) /\ ~Has(log, e) => Distinct(Append(log, e))
  BY <1>1 DEF Has, Distinct
<1> QED BY <1>2, <1>3

LEMMA ToldAppend ==
  ASSUME ledgerFile \in Seq(Chunks)
  PROVE  /\ Told \in Seq(AllEntries)
         /\ \A e \in AllEntries, end \in {"line"} \cup Cuts :
              ledgerFile' = Append(ledgerFile, Chunk(e, end)) =>
                /\ Told' = Append(Told, e)
                /\ ledgerFile' \in Seq(Chunks)
<1>1. Told \in Seq(AllEntries)
  <2>1. \A n \in 1..Len(ledgerFile) : ledgerFile[n].entry \in AllEntries
    <3> TAKE n \in 1..Len(ledgerFile)
    <3>1. ledgerFile[n] \in Chunks
      OBVIOUS
    <3> QED BY <3>1 DEF Chunks
  <2>2. Told = [n \in 1..Len(ledgerFile) |-> ledgerFile[n].entry] /\ Len(ledgerFile) \in Nat
    BY DEF Told
  <2> QED BY <2>1, <2>2
<1>2. ASSUME NEW e \in AllEntries, NEW end \in {"line"} \cup Cuts,
             ledgerFile' = Append(ledgerFile, Chunk(e, end))
      PROVE  Told' = Append(Told, e) /\ ledgerFile' \in Seq(Chunks)
  <2>1. Chunk(e, end) \in Chunks /\ Chunk(e, end).entry = e
    BY <1>2 DEF Chunk, Chunks
  <2>2. /\ ledgerFile' \in Seq(Chunks) /\ Len(ledgerFile') = Len(ledgerFile) + 1
        /\ ledgerFile'[Len(ledgerFile) + 1] = Chunk(e, end)
        /\ \A n \in 1..Len(ledgerFile) : ledgerFile'[n] = ledgerFile[n]
    BY <1>2, <2>1
  <2>3. Told' = [n \in 1..(Len(ledgerFile) + 1) |-> ledgerFile'[n].entry]
    BY <2>2 DEF Told
  <2>4. Told = [n \in 1..Len(ledgerFile) |-> ledgerFile[n].entry] /\ Len(Told) = Len(ledgerFile)
    BY DEF Told
  <2>5. Append(Told, e) = [n \in 1..(Len(ledgerFile) + 1) |->
                             IF n <= Len(ledgerFile) THEN ledgerFile[n].entry ELSE e]
    BY <1>1, <2>4
  <2> QED BY <2>1, <2>2, <2>3, <2>5
<1> QED BY <1>1, <1>2

\* Loading takes the entries before the first line that cannot be parsed: all
\* of them when every line is whole.
LEMMA LoadTakesFirst ==
  ASSUME NEW file \in Seq(Chunks)
  PROVE  \E k \in 0..Len(file) :
           /\ LoadUpToBad(file) = [n \in 1..k |-> file[n].entry]
           /\ (\A n \in DOMAIN file : file[n].end = "line") => k = Len(file)
<1> DEFINE I == {n \in DOMAIN file : \A m \in 1..n : Readable(file, m)}
           k == Cardinality(I)
<1>1. /\ DOMAIN file = 1..Len(file) /\ Len(file) \in Nat
      /\ I \subseteq 1..Len(file)
      /\ \A n \in I : 1..n \subseteq I /\ n \in Nat
  OBVIOUS
<1>2. \A n \in Nat : IsFiniteSet(1..n) /\ Cardinality(1..n) = n
  <2> TAKE n \in Nat
  <2>1. IsFiniteSet(1..n) /\ Cardinality(1..n) = IF 1 > n THEN 0 ELSE n - 1 + 1
    BY FS_Interval
  <2> QED BY <2>1
<1>3. IsFiniteSet(I) /\ k \in Nat /\ k <= Len(file)
  BY <1>1, <1>2, FS_Subset, FS_CardinalityType
<1>4. I = 1..k
  <2>1. \A n \in I : n <= k
    BY <1>1, <1>2, <1>3, FS_Subset, SMTT(20)
  <2>2. I \subseteq 1..k
    BY <1>1, <2>1
  <2> QED BY <1>2, <1>3, <2>2, FS_Subset
<1> HIDE DEF I, k
<1>5. \A n \in 1..k : (CHOOSE i \in 1..k : Cardinality({j \in 1..k : j <= i}) = n) = n
  <2>1. \A i \in 1..k : Cardinality({j \in 1..k : j <= i}) = i
    <3> TAKE i \in 1..k
    <3>1. {j \in 1..k : j <= i} = 1..i /\ i \in Nat
      BY <1>3
    <3> QED BY <3>1, <1>2
  <2> QED BY <2>1
<1>6. LoadUpToBad(file) = [n \in 1..k |-> file[n].entry]
  <2>1. LoadUpToBad(file) = EntriesAt(file, I)
    BY DEF LoadUpToBad, I
  <2>2. Cardinality(1..k) = k
    BY <1>2, <1>3
  <2>3. EntriesAt(file, 1..k) =
          [n \in 1..k |->
             file[CHOOSE i \in 1..k : Cardinality({j \in 1..k : j <= i}) = n].entry]
    BY <2>2 DEF EntriesAt
  <2> QED BY <1>4, <1>5, <2>1, <2>3
<1>7. (\A n \in DOMAIN file : file[n].end = "line") => k = Len(file)
  <2> SUFFICES ASSUME \A n \in DOMAIN file : file[n].end = "line" PROVE k = Len(file)
    OBVIOUS
  <2>1. \A n \in 1..Len(file) : Readable(file, n)
    <3> TAKE n \in 1..Len(file)
    <3>1. file[n].end = "line" /\ (n # 1 => file[n - 1].end = "line")
      BY <1>1
    <3>2. "line" # "torn"
      OBVIOUS
    <3> QED BY <3>1, <3>2 DEF Readable
  <2>2. 1..Len(file) = I
    BY <1>1, <2>1 DEF I
  <2> QED BY <1>1, <1>2, <2>2 DEF k
<1>8. k \in 0..Len(file)
  BY <1>1, <1>3
<1> QED BY <1>6, <1>7, <1>8

LEMMA LedgerKinds ==
  /\ Items \cap Deleters = {} /\ LedgerCalls = Items \cup Deleters
  /\ \A i \in Items : /\ PostedEntry(i) \in AllEntries /\ DeletedEntry(i) \in AllEntries
                      /\ \A j \in Items : /\ PostedEntry(i) # DeletedEntry(j)
                                          /\ PostedEntry(i) = PostedEntry(j) => i = j
                                          /\ DeletedEntry(i) = DeletedEntry(j) => i = j
  /\ \A i \in Items : Entry(i) = PostedEntry(i)
  /\ \A d \in Deleters : Entry(d) = DeletedEntry(subject[d])
BY LedgerAssumption
   DEF LedgerCalls, PostedEntry, DeletedEntry, AllEntries, Entry

\* The entries, when the subject of no call that has them changes.
LEMMA SameEntries ==
  ASSUME UNCHANGED subject
  PROVE  \A c : Entry(c)' = Entry(c)
BY DEF Entry

LEMMA PendingEntries ==
  ASSUME LedgerInv, NEW c \in LedgerCalls, Pending(c)
  PROVE  Entry(c) \in AllEntries
BY LedgerKinds DEF LedgerInv, PendingInv

LEMMA PostKeeps ==
  ASSUME LedgerInv, NEW i \in Items, Post(i)
  PROVE  LedgerInv'
<1>0. LedgerTypeOK /\ ToldOnce /\ PendingInv /\ UntoldInv /\ AccountedInv /\ FileInv
  BY DEF LedgerInv
<1>1. /\ call[i] = "idle" /\ call' = [call EXCEPT ![i] = "decided"]
      /\ layer' = [layer EXCEPT ![i] = "live"]
      /\ UNCHANGED <<entries, ledgerFile, subject, ledgerFailures>>
  BY DEF Post, Goes
<1>2. LedgerTypeOK' /\ Told' = Told /\ ToldOnce'
  BY <1>0, <1>1, LedgerKinds DEF LedgerTypeOK, ToldOnce, Told
<1>3. /\ \A c \in LedgerCalls : call'[c] = IF c = i THEN "decided" ELSE call[c]
      /\ \A j \in Items : layer'[j] = IF j = i THEN "live" ELSE layer[j]
  BY <1>0, <1>1, LedgerKinds DEF LedgerTypeOK
<1>4. layer[i] = "absent" /\ ~Has(entries, Entry(i)) /\ ~Has(Told, Entry(i))
  BY <1>0, <1>1, LedgerKinds DEF UntoldInv
<1>5. PendingInv'
  <2>1. \A c \in LedgerCalls : Pending(c)' <=> c = i \/ Pending(c)
    BY <1>3 DEF Pending
  <2>2. \A c \in LedgerCalls : Pending(c) /\ Entry(c) = Entry(i) => c = i
    BY <1>0, LedgerKinds DEF PendingInv
  <2>3. \A d \in Deleters : d # i /\ (Pending(d) => subject[d] # i)
    BY <1>0, <1>1, LedgerKinds DEF UntoldInv
  <2> QED BY <1>0, <1>1, <1>2, <1>3, <1>4, <2>1, <2>2, <2>3, SameEntries, LedgerKinds
          DEF PendingInv
<1>6. UntoldInv'
  <2>1. \A d \in Deleters : Pending(d)' <=> Pending(d)
    BY <1>3, LedgerKinds DEF Pending
  <2> QED BY <1>0, <1>1, <1>2, <1>3, <2>1, LedgerKinds DEF UntoldInv
<1>7. AccountedInv'
  BY <1>0, <1>1, <1>3, LedgerKinds DEF AccountedInv
<1>8. FileInv'
  BY <1>0, <1>1, <1>2, <1>3, SameEntries DEF FileInv
<1> QED BY <1>2, <1>5, <1>6, <1>7, <1>8 DEF LedgerInv

\* The check and the flag are one step: no two calls delete one item.
LEMMA DeleteKeeps ==
  ASSUME LedgerInv, NEW d \in Deleters, NEW i \in Items, Delete(d, i)
  PROVE  LedgerInv'
<1>0. LedgerTypeOK /\ ToldOnce /\ PendingInv /\ UntoldInv /\ AccountedInv /\ FileInv
  BY DEF LedgerInv
<1>1. /\ call[d] = "idle" /\ call' = [call EXCEPT ![d] = "decided"]
      /\ layer[i] = "live" /\ layer' = [layer EXCEPT ![i] = "deleted"]
      /\ subject' = [subject EXCEPT ![d] = i]
      /\ UNCHANGED <<entries, ledgerFile, ledgerFailures>>
  BY DEF Delete, Deletes, Goes
<1>2. LedgerTypeOK' /\ Told' = Told /\ ToldOnce'
  BY <1>0, <1>1, LedgerKinds DEF LedgerTypeOK, ToldOnce, Told
<1>3. /\ \A c \in LedgerCalls : call'[c] = IF c = d THEN "decided" ELSE call[c]
      /\ \A j \in Items : layer'[j] = IF j = i THEN "deleted" ELSE layer[j]
      /\ \A e \in Deleters : subject'[e] = IF e = d THEN i ELSE subject[e]
  BY <1>0, <1>1, LedgerKinds DEF LedgerTypeOK
<1>4. /\ \A c \in LedgerCalls : Entry(c)' = IF c = d THEN DeletedEntry(i) ELSE Entry(c)
      /\ ~Has(entries, DeletedEntry(i)) /\ ~Has(Told, DeletedEntry(i))
  BY <1>0, <1>1, <1>3, LedgerKinds DEF UntoldInv, Entry, DeletedEntry
<1>5. \A c \in LedgerCalls : Pending(c)' <=> c = d \/ Pending(c)
  BY <1>3 DEF Pending
<1>6. PendingInv'
  <2>1. \A e \in Deleters : Pending(e) => subject[e] # i /\ e # d
    BY <1>0, <1>1 DEF UntoldInv, Pending
  <2>2. \A c \in LedgerCalls \ {d} : Pending(c) => Entry(c) # DeletedEntry(i)
    BY <1>0, <2>1, LedgerKinds DEF PendingInv
  <2>3. ASSUME NEW c \in LedgerCalls, c # d, Pending(c)
        PROVE  /\ c \in Deleters => subject'[c] \in Items /\ layer'[subject'[c]] = "deleted"
               /\ ~Has(Told', Entry(c)')
               /\ Has(entries', Entry(c)') <=> call'[c] = "recorded"
               /\ \A e \in LedgerCalls : Pending(e)' /\ Entry(c)' = Entry(e)' => c = e
    BY <1>0, <1>1, <1>2, <1>3, <1>4, <1>5, <2>1, <2>2, <2>3 DEF PendingInv
  <2>4. /\ subject'[d] \in Items /\ layer'[subject'[d]] = "deleted"
        /\ ~Has(Told', Entry(d)')
        /\ ~Has(entries', Entry(d)') /\ call'[d] # "recorded"
        /\ \A e \in LedgerCalls : Pending(e)' /\ Entry(d)' = Entry(e)' => d = e
    BY <1>1, <1>2, <1>3, <1>4, <1>5, <2>2, LedgerKinds
  <2> QED BY <1>5, <2>3, <2>4 DEF PendingInv
<1>7. UntoldInv'
  <2>1. \A e \in Deleters : Pending(e)' /\ subject'[e] # i => Pending(e) /\ subject'[e] = subject[e]
    BY <1>3, <1>5, LedgerKinds
  <2>2. call[i] # "idle"
    BY <1>0, <1>1 DEF UntoldInv
  <2>3. \A j \in Items : call'[j] = call[j]
    BY <1>3, LedgerKinds
  <2> QED BY <1>0, <1>1, <1>2, <1>3, <2>1, <2>2, <2>3 DEF UntoldInv
<1>8. AccountedInv'
  <2>1. \A j \in Items : call'[j] = call[j]
    BY <1>3, LedgerKinds
  <2> QED BY <1>0, <1>1, <1>3, <2>1, LedgerKinds DEF AccountedInv
<1>9. FileInv'
  <2>1. \A e \in AllEntries : (\E c \in LedgerCalls : call[c] = "recorded" /\ Entry(c) = e)
                          <=> (\E c \in LedgerCalls : call'[c] = "recorded" /\ Entry(c)' = e)
    BY <1>1, <1>3, <1>4
  <2> QED BY <1>0, <1>1, <1>2, <2>1 DEF FileInv
<1> QED BY <1>2, <1>6, <1>7, <1>8, <1>9 DEF LedgerInv

LEMMA RefusedKeeps ==
  ASSUME LedgerInv, NEW d \in Deleters, DeleteRefused(d)
  PROVE  LedgerInv'
<1>0. LedgerTypeOK /\ ToldOnce /\ PendingInv /\ UntoldInv /\ AccountedInv /\ FileInv
  BY DEF LedgerInv
<1>1. /\ call[d] = "idle" /\ call' = [call EXCEPT ![d] = "ended"]
      /\ UNCHANGED <<layer, entries, ledgerFile, subject, ledgerFailures>>
  BY DEF DeleteRefused, Goes
<1>2. LedgerTypeOK' /\ Told' = Told /\ ToldOnce'
  BY <1>0, <1>1, LedgerKinds DEF LedgerTypeOK, ToldOnce, Told
<1>3. \A c \in LedgerCalls : call'[c] = IF c = d THEN "ended" ELSE call[c]
  BY <1>0, <1>1, LedgerKinds DEF LedgerTypeOK
<1>4. \A c \in LedgerCalls : (Pending(c)' <=> Pending(c)) /\ (Pending(c) => call'[c] = call[c])
  BY <1>1, <1>3 DEF Pending
<1>5. PendingInv'
  BY <1>0, <1>1, <1>2, <1>4, SameEntries DEF PendingInv
<1>6. UntoldInv'
  BY <1>0, <1>1, <1>2, <1>3, <1>4, LedgerKinds DEF UntoldInv
<1>7. AccountedInv' /\ FileInv'
  BY <1>0, <1>1, <1>2, <1>3, SameEntries, LedgerKinds DEF AccountedInv, FileInv
<1> QED BY <1>2, <1>5, <1>6, <1>7 DEF LedgerInv

\* The entry in memory.
LEMMA RecordKeeps ==
  ASSUME LedgerInv, NEW c \in LedgerCalls, Record(c)
  PROVE  LedgerInv'
<1>0. LedgerTypeOK /\ ToldOnce /\ PendingInv /\ UntoldInv /\ AccountedInv /\ FileInv
  BY DEF LedgerInv
<1> DEFINE e == Entry(c)
<1>1. /\ call[c] = "decided" /\ call' = [call EXCEPT ![c] = "recorded"]
      /\ entries' = Append(entries, e)
      /\ UNCHANGED <<layer, ledgerFile, subject, ledgerFailures>>
  BY DEF Record, Goes
<1>2. Pending(c) /\ e \in AllEntries
  BY <1>1, PendingEntries DEF Pending
<1>3. /\ ~Has(entries, e) /\ ~Has(Told, e)
      /\ \A x \in LedgerCalls : Pending(x) /\ Entry(x) = e => x = c
  BY <1>0, <1>1, <1>2 DEF PendingInv
<1>4. /\ \A x : Has(entries', x) <=> Has(entries, x) \/ x = e
      /\ Distinct(entries') /\ entries' \in Seq(AllEntries)
  BY <1>0, <1>1, <1>2, <1>3, HasAppend DEF LedgerTypeOK, ToldOnce
<1>5. LedgerTypeOK' /\ Told' = Told /\ ToldOnce'
  BY <1>0, <1>1, <1>4 DEF LedgerTypeOK, ToldOnce, Told
<1>6. /\ \A x \in LedgerCalls : call'[x] = IF x = c THEN "recorded" ELSE call[x]
      /\ \A x : Entry(x)' = Entry(x)
      /\ \A x \in LedgerCalls : Pending(x)' <=> Pending(x)
  BY <1>0, <1>1, SameEntries DEF LedgerTypeOK, Pending
<1> HIDE DEF e
<1>7. PendingInv'
  BY <1>0, <1>1, <1>2, <1>3, <1>4, <1>5, <1>6 DEF PendingInv, e
<1>8. UntoldInv'
  <2>1. \A i \in Items : call[i] = "idle" => e # PostedEntry(i)
    BY <1>0, <1>1, <1>2, LedgerKinds DEF e, PendingInv
  <2>2. \A i \in Items : call[i] = "idle" \/ layer[i] = "live" => e # DeletedEntry(i)
    BY <1>0, <1>2, LedgerKinds DEF e, UntoldInv, PendingInv
  <2>3. \A i \in Items : call'[i] = "idle" <=> call[i] = "idle"
    BY <1>1, <1>6, LedgerKinds
  <2> QED BY <1>0, <1>1, <1>4, <1>5, <1>6, <2>1, <2>2, <2>3, LedgerKinds DEF UntoldInv
<1>9. AccountedInv'
  <2>1. ASSUME NEW i \in Items, layer[i] # "absent", call'[i] # "decided"
        PROVE  Has(entries', PostedEntry(i))
    BY <1>0, <1>4, <1>6, <2>1, LedgerKinds DEF AccountedInv, e
  <2>2. ASSUME NEW i \in Items, layer[i] = "deleted",
               \A d \in Deleters : subject[d] = i => call'[d] # "decided"
        PROVE  Has(entries', DeletedEntry(i))
    <3>1. CASE c \in Deleters /\ subject[c] = i
      BY <3>1, <1>4, LedgerKinds DEF e
    <3>2. CASE ~(c \in Deleters /\ subject[c] = i)
      <4>1. \A d \in Deleters : subject[d] = i => call[d] # "decided"
        BY <3>2, <2>2, <1>6, LedgerKinds
      <4> QED BY <4>1, <2>2, <1>0, <1>4 DEF AccountedInv
    <3> QED BY <3>1, <3>2
  <2> QED BY <1>1, <2>1, <2>2 DEF AccountedInv
<1>10. FileInv'
  BY <1>0, <1>1, <1>4, <1>5, <1>6 DEF FileInv, e
<1> QED BY <1>5, <1>7, <1>8, <1>9, <1>10 DEF LedgerInv

\* What a write of c adds to the file, if it adds anything.
LEMMA WriteTells ==
  ASSUME LedgerInv, NEW c \in LedgerCalls, call[c] = "recorded",
         NEW end \in {"line"} \cup Cuts,
         ledgerFile' = Append(ledgerFile, Chunk(Entry(c), end))
  PROVE  /\ ledgerFile' \in Seq(Chunks)
         /\ \A x : Has(Told', x) <=> Has(Told, x) \/ x = Entry(c)
         /\ Distinct(Told')
<1>1. Pending(c) /\ Entry(c) \in AllEntries
  BY PendingEntries DEF Pending
<1>2. Told \in Seq(AllEntries) /\ Told' = Append(Told, Entry(c)) /\ ledgerFile' \in Seq(Chunks)
  BY <1>1, ToldAppend DEF LedgerInv, LedgerTypeOK
<1>3. ~Has(Told, Entry(c)) /\ Distinct(Told)
  BY <1>1 DEF LedgerInv, PendingInv, ToldOnce
<1> QED BY <1>1, <1>2, <1>3, HasAppend

\* A call ends, whatever its write has left in the file.
LEMMA WrittenKeeps ==
  ASSUME LedgerInv, NEW c \in LedgerCalls, call[c] = "recorded",
         call' = [call EXCEPT ![c] = "ended"],
         UNCHANGED <<layer, entries, subject>>,
         ledgerFile' \in Seq(Chunks), Distinct(Told'), ledgerFailures' \in Nat,
         \A x : Has(Told', x) => Has(Told, x) \/ x = Entry(c)
  PROVE  LedgerTypeOK' /\ ToldOnce' /\ PendingInv' /\ UntoldInv' /\ AccountedInv'
<1>0. LedgerTypeOK /\ ToldOnce /\ PendingInv /\ UntoldInv /\ AccountedInv
  BY DEF LedgerInv
<1>1. LedgerTypeOK' /\ ToldOnce'
  BY <1>0 DEF LedgerTypeOK, ToldOnce
<1>2. /\ \A x \in LedgerCalls : call'[x] = IF x = c THEN "ended" ELSE call[x]
      /\ \A x : Entry(x)' = Entry(x)
      /\ \A x \in LedgerCalls : Pending(x)' <=> Pending(x) /\ x # c
      /\ Pending(c)
  BY <1>0, SameEntries DEF LedgerTypeOK, Pending
<1>3. \A x \in LedgerCalls : Pending(x) /\ x # c => Entry(x) # Entry(c)
  BY <1>0, <1>2 DEF PendingInv
<1>4. PendingInv'
  BY <1>0, <1>2, <1>3 DEF PendingInv
<1>5. UntoldInv'
  <2>1. \A i \in Items : call[i] = "idle" => Entry(c) # PostedEntry(i)
    BY <1>0, <1>2, LedgerKinds DEF PendingInv
  <2>2. \A i \in Items : call[i] = "idle" \/ layer[i] = "live" => Entry(c) # DeletedEntry(i)
    BY <1>0, <1>2, LedgerKinds DEF UntoldInv, PendingInv
  <2>3. \A i \in Items : call'[i] = "idle" <=> call[i] = "idle"
    BY <1>2, LedgerKinds
  <2> QED BY <1>0, <1>2, <2>1, <2>2, <2>3, LedgerKinds DEF UntoldInv
<1>6. AccountedInv'
  BY <1>0, <1>2, LedgerKinds DEF AccountedInv
<1> QED BY <1>1, <1>4, <1>5, <1>6

LEMMA WriteKeepsLedger ==
  ASSUME LedgerInv, NEW c \in LedgerCalls, Write(c)
  PROVE  LedgerInv'
<1>1. /\ call[c] = "recorded" /\ call' = [call EXCEPT ![c] = "ended"]
      /\ ledgerFile' = Append(ledgerFile, Chunk(Entry(c), "line"))
      /\ UNCHANGED <<layer, entries, subject, ledgerFailures>>
  BY DEF Write, Goes
<1>2. /\ ledgerFile' \in Seq(Chunks) /\ Distinct(Told')
      /\ \A x : Has(Told', x) <=> Has(Told, x) \/ x = Entry(c)
  BY <1>1, WriteTells
<1>3. LedgerTypeOK' /\ ToldOnce' /\ PendingInv' /\ UntoldInv' /\ AccountedInv'
  <2>1. ledgerFailures' \in Nat
    BY <1>1 DEF LedgerInv, LedgerTypeOK
  <2> QED BY <1>1, <1>2, <2>1, WrittenKeeps
<1>4. FileInv'
  <2> SUFFICES ASSUME ledgerFailures = 0
               PROVE  /\ \A n \in DOMAIN ledgerFile' : ledgerFile'[n].end = "line"
                      /\ \A e \in AllEntries :
                           Has(entries, e) <=> Has(Told', e) \/
                             \E x \in LedgerCalls : call'[x] = "recorded" /\ Entry(x)' = e
    BY <1>1 DEF FileInv
  <2>1. \A n \in DOMAIN ledgerFile' : ledgerFile'[n].end = "line"
    <3>1. /\ DOMAIN ledgerFile' = 1..(Len(ledgerFile) + 1)
          /\ \A n \in 1..Len(ledgerFile) : ledgerFile'[n] = ledgerFile[n]
          /\ ledgerFile'[Len(ledgerFile) + 1].end = "line"
          /\ DOMAIN ledgerFile = 1..Len(ledgerFile) /\ Len(ledgerFile) \in Nat
      <4>1. Chunk(Entry(c), "line").end = "line" /\ Chunk(Entry(c), "line") \in Chunks
        BY <1>1, PendingEntries DEF Chunk, Chunks, Pending
      <4> QED BY <1>1, <4>1 DEF LedgerInv, LedgerTypeOK
    <3> QED BY <3>1 DEF LedgerInv, FileInv
  <2>2. \A x \in LedgerCalls : call'[x] = "recorded" <=> call[x] = "recorded" /\ x # c
    BY <1>1 DEF LedgerInv, LedgerTypeOK
  <2>3. \A x : Entry(x)' = Entry(x)
    BY <1>1, SameEntries
  <2> QED BY <1>1, <1>2, <2>1, <2>2, <2>3 DEF LedgerInv, FileInv
<1> QED BY <1>3, <1>4 DEF LedgerInv

\* What a write that is cut short leaves in the file.
LEMMA CutTells ==
  ASSUME LedgerInv, NEW c \in LedgerCalls, call[c] = "recorded",
         ledgerFile' \in CutShort(c)
  PROVE  /\ ledgerFile' \in Seq(Chunks) /\ Distinct(Told')
         /\ \A x : Has(Told', x) => Has(Told, x) \/ x = Entry(c)
<1>1. CASE ledgerFile' = ledgerFile
  BY <1>1 DEF LedgerInv, LedgerTypeOK, ToldOnce, Told
<1>2. ASSUME NEW cut \in Cuts, ledgerFile' = Append(ledgerFile, Chunk(Entry(c), cut))
      PROVE  /\ ledgerFile' \in Seq(Chunks) /\ Distinct(Told')
             /\ \A x : Has(Told', x) => Has(Told, x) \/ x = Entry(c)
  BY <1>2, WriteTells
<1> QED BY <1>1, <1>2 DEF CutShort

LEMMA FailureKeeps ==
  ASSUME LedgerInv, NEW c \in LedgerCalls, WriteFails(c)
  PROVE  LedgerInv'
<1>1. /\ call[c] = "recorded" /\ call' = [call EXCEPT ![c] = "ended"]
      /\ ledgerFile' \in CutShort(c) /\ ledgerFailures' = ledgerFailures + 1
      /\ UNCHANGED <<layer, entries, subject>>
  BY DEF WriteFails, Goes
<1>2. ledgerFailures' \in Nat /\ ledgerFailures' # 0
  BY <1>1 DEF LedgerInv, LedgerTypeOK
<1>3. LedgerTypeOK' /\ ToldOnce' /\ PendingInv' /\ UntoldInv' /\ AccountedInv'
  BY <1>1, <1>2, CutTells, WrittenKeeps
<1> QED BY <1>2, <1>3 DEF LedgerInv, FileInv

\* The process ends: what was told and kept is told again, and nothing else.
LEMMA RestartsKeeps ==
  ASSUME LedgerInv, LedgerRestarts
  PROVE  LedgerInv'
<1>0. LedgerTypeOK /\ ToldOnce /\ PendingInv /\ UntoldInv /\ AccountedInv /\ FileInv
  BY DEF LedgerInv
<1>1. /\ layer' = [i \in Items |-> "absent"] /\ entries' = LoadUpToBad(ledgerFile')
      /\ call' = [c \in LedgerCalls |->
                    IF call[c] \in {"decided", "recorded"} THEN "ended" ELSE call[c]]
      /\ UNCHANGED subject
  BY DEF LedgerRestarts
<1>2. /\ ledgerFile' \in Seq(Chunks) /\ Distinct(Told')
      /\ \A x : Has(Told', x) =>
           Has(Told, x) \/ \E c \in LedgerCalls : call[c] = "recorded" /\ x = Entry(c)
      /\ ledgerFailures' \in Nat
      /\ ledgerFailures' = 0 => ledgerFile' = ledgerFile /\ ledgerFailures = 0
  <2>1. CASE UNCHANGED <<ledgerFile, ledgerFailures>>
    BY <1>0, <2>1 DEF LedgerTypeOK, ToldOnce, Told
  <2>2. ASSUME NEW c \in LedgerCalls, call[c] = "recorded", ledgerFile' \in CutShort(c),
               ledgerFailures' = ledgerFailures + 1
        PROVE  /\ ledgerFile' \in Seq(Chunks) /\ Distinct(Told')
               /\ \A x : Has(Told', x) => Has(Told, x) \/ x = Entry(c)
               /\ ledgerFailures' \in Nat /\ ledgerFailures' # 0
    BY <1>0, <2>2, CutTells DEF LedgerTypeOK
  <2> QED BY <2>1, <2>2 DEF LedgerRestarts
<1>3. PICK k \in 0..Len(ledgerFile') :
        /\ entries' = [n \in 1..k |-> ledgerFile'[n].entry]
        /\ (\A n \in DOMAIN ledgerFile' : ledgerFile'[n].end = "line") => k = Len(ledgerFile')
  BY <1>1, <1>2, LoadTakesFirst
<1>4. /\ DOMAIN ledgerFile' = 1..Len(ledgerFile') /\ Len(ledgerFile') \in Nat /\ k \in Nat
      /\ Told' = [n \in 1..Len(ledgerFile') |-> ledgerFile'[n].entry]
  BY <1>2 DEF Told
<1>5. /\ DOMAIN entries' = 1..k /\ DOMAIN Told' = 1..Len(ledgerFile')
      /\ 1..k \subseteq 1..Len(ledgerFile') /\ \A n \in 1..k : entries'[n] = Told'[n]
  <2>1. 1..k \subseteq 1..Len(ledgerFile')
    <3>1. k \in 0..Len(ledgerFile')
      OBVIOUS
    <3>2. Len(ledgerFile') \in Nat
      BY <1>4
    <3> QED BY <3>1, <3>2
  <2>2. DOMAIN entries' = 1..k /\ \A n \in 1..k : entries'[n] = ledgerFile'[n].entry
    BY <1>3, Zenon
  <2>3. /\ DOMAIN Told' = 1..Len(ledgerFile')
        /\ \A n \in 1..Len(ledgerFile') : Told'[n] = ledgerFile'[n].entry
    BY <1>4, Zenon
  <2> QED BY <2>1, <2>2, <2>3
<1>6. Distinct(entries') /\ \A x : Has(entries', x) => Has(Told', x)
  BY <1>2, <1>5 DEF Distinct, Has
<1>7. LedgerTypeOK'
  <2>1. \A n \in 1..k : entries'[n] \in AllEntries
    <3> TAKE n \in 1..k
    <3>1. ledgerFile'[n] \in Chunks
      BY <1>2, <1>4, <1>5
    <3> QED BY <3>1, <1>3 DEF Chunks
  <2>2. entries' \in [1..k -> AllEntries]
    <3>1. entries' = [n \in 1..k |-> entries'[n]]
      BY <1>3, Zenon
    <3> QED BY <2>1, <3>1, Zenon
  <2>3. entries' \in Seq(AllEntries)
    BY <1>4, <2>2
  <2> QED BY <1>0, <1>1, <1>2, <2>3 DEF LedgerTypeOK
<1>8. \A c \in LedgerCalls : ~Pending(c)' /\ (call'[c] = "idle" <=> call[c] = "idle")
  BY <1>1 DEF Pending
<1>9. PendingInv' /\ ToldOnce' /\ AccountedInv'
  BY <1>1, <1>2, <1>6, <1>8 DEF PendingInv, ToldOnce, AccountedInv
<1>10. UntoldInv'
  <2>1. \A i \in Items : call[i] = "idle" => ~Has(Told', PostedEntry(i))
    BY <1>0, <1>2, LedgerKinds DEF UntoldInv, PendingInv, Pending
  <2>2. \A i \in Items : call[i] = "idle" => ~Has(Told', DeletedEntry(i))
    BY <1>0, <1>2, LedgerKinds DEF UntoldInv, PendingInv, Pending
  <2> QED BY <1>1, <1>6, <1>8, <2>1, <2>2, LedgerKinds DEF UntoldInv
<1>11. FileInv'
  <2> SUFFICES ASSUME ledgerFailures' = 0
               PROVE  /\ \A n \in DOMAIN ledgerFile' : ledgerFile'[n].end = "line"
                      /\ \A e : Has(entries', e) <=> Has(Told', e)
    BY <1>8 DEF FileInv, Pending
  <2>1. \A n \in DOMAIN ledgerFile' : ledgerFile'[n].end = "line"
    BY <1>0, <1>2 DEF FileInv
  <2>2. k = Len(ledgerFile')
    BY <1>3, <2>1
  <2> QED BY <1>5, <2>1, <2>2 DEF Has
<1> QED BY <1>7, <1>9, <1>10, <1>11 DEF LedgerInv

LEMMA InitLedger == LedgerInit => LedgerInv
<1> SUFFICES ASSUME LedgerInit PROVE LedgerInv OBVIOUS
<1>1. /\ \A x : ~Has(entries, x) /\ ~Has(Told, x)
      /\ ToldOnce
  BY DEF LedgerInit, Has, Told, ToldOnce, Distinct
<1>2. LedgerTypeOK
  BY DEF LedgerInit, LedgerTypeOK, LedgerCalls
<1>3. \A c \in LedgerCalls : ~Pending(c) /\ call[c] = "idle"
  BY DEF LedgerInit, Pending
<1> QED BY <1>1, <1>2, <1>3, LedgerKinds
        DEF LedgerInit, LedgerInv, PendingInv, UntoldInv, AccountedInv, FileInv

LEMMA NextLedger == LedgerInv /\ [LedgerNext]_ledgerVars => LedgerInv'
<1>1. ASSUME LedgerInv, UNCHANGED ledgerVars PROVE LedgerInv'
  <2>1. UNCHANGED <<layer, entries, ledgerFile, call, subject, ledgerFailures>>
    BY <1>1 DEF ledgerVars
  <2>2. /\ Told' = Told /\ \A c : (Pending(c)' <=> Pending(c)) /\ Entry(c)' = Entry(c)
    BY <2>1 DEF Told, Pending, Entry
  <2>3. LedgerTypeOK' /\ ToldOnce'
    BY <1>1, <2>1, <2>2 DEF LedgerInv, LedgerTypeOK, ToldOnce
  <2>4. PendingInv'
    BY <1>1, <2>1, <2>2 DEF LedgerInv, PendingInv
  <2>5. UntoldInv' /\ AccountedInv' /\ FileInv'
    BY <1>1, <2>1, <2>2 DEF LedgerInv, UntoldInv, AccountedInv, FileInv
  <2> QED BY <2>3, <2>4, <2>5 DEF LedgerInv
<1> QED BY <1>1, PostKeeps, DeleteKeeps, RefusedKeeps, RecordKeeps, WriteKeepsLedger,
           FailureKeeps, RestartsKeeps
        DEF LedgerNext

\* An entry that is not told twice is counted once if it is told, or not at all.
LEMMA CountOnce ==
  ASSUME NEW log, Distinct(log), NEW kind, NEW i
  PROVE  Recorded(log, kind, i) = IF Has(log, [kind |-> kind, item |-> i]) THEN 1 ELSE 0
<1> DEFINE e == [kind |-> kind, item |-> i]
           places == {n \in DOMAIN log : log[n] = e}
<1>1. Recorded(log, kind, i) = Cardinality(places)
  BY DEF Recorded
<1>2. CASE Has(log, e)
  <2>1. PICK n \in DOMAIN log : log[n] = e
    BY <1>2 DEF Has
  <2>2. places = {n}
    BY <2>1 DEF Distinct
  <2> QED BY <1>1, <1>2, <2>2, FS_Singleton
<1>3. CASE ~Has(log, e)
  <2>1. places = {}
    BY <1>3 DEF Has
  <2> QED BY <1>1, <1>3, <2>1, FS_EmptySet
<1> QED BY <1>2, <1>3

\* The ledger says of every item what the layer says, for any number of calls
\* that post and delete at the same time, and whatever becomes of the file.
THEOREM LedgerAgreesWithLayer == LedgerSpec => []LedgerAgrees
<1>1. LedgerInv => LedgerAgrees
  <2> SUFFICES ASSUME LedgerInv, NEW i \in Items, layer[i] # "absent", call[i] # "decided",
                      \A d \in Deleters : subject[d] = i => call[d] # "decided"
               PROVE  /\ Recorded(entries, "posted", i) = 1
                      /\ Recorded(entries, "deleted", i) = IF layer[i] = "deleted" THEN 1 ELSE 0
    BY DEF LedgerAgrees
  <2>1. /\ Has(entries, PostedEntry(i))
        /\ layer[i] = "deleted" <=> Has(entries, DeletedEntry(i))
    BY DEF LedgerInv, LedgerTypeOK, UntoldInv, AccountedInv
  <2>2. Distinct(entries)
    BY DEF LedgerInv, ToldOnce
  <2> QED BY <2>1, <2>2, CountOnce DEF PostedEntry, DeletedEntry
<1> QED BY <1>1, InitLedger, NextLedger, PTL DEF LedgerSpec

\* Where no write has failed, what a new process loads is what this one tells,
\* in whatever order the writers came to the file, and across restarts.
THEOREM FileAgreesWithLedger == LedgerSpec => []FileAgrees
<1>1. LedgerInv => FileAgrees
  <2> SUFFICES ASSUME LedgerInv, ledgerFailures = 0,
                      \A c \in LedgerCalls : call[c] # "recorded",
                      NEW kind \in {"posted", "deleted"}, NEW i \in Items
               PROVE  Recorded(LoadUpToBad(ledgerFile), kind, i) = Recorded(entries, kind, i)
    BY DEF FileAgrees
  <2>1. /\ ledgerFile \in Seq(Chunks) /\ Distinct(entries) /\ Distinct(Told)
        /\ \A n \in DOMAIN ledgerFile : ledgerFile[n].end = "line"
        /\ \A e \in AllEntries : Has(entries, e) <=> Has(Told, e)
    BY DEF LedgerInv, LedgerTypeOK, ToldOnce, FileInv
  <2>2. LoadUpToBad(ledgerFile) = Told
    <3>1. LoadUpToBad(ledgerFile) = [n \in 1..Len(ledgerFile) |-> ledgerFile[n].entry]
      BY <2>1, LoadTakesFirst
    <3> QED BY <2>1, <3>1 DEF Told
  <2>3. [kind |-> kind, item |-> i] \in AllEntries
    BY DEF AllEntries
  <2> QED BY <2>1, <2>2, <2>3, CountOnce
<1> QED BY <1>1, InitLedger, NextLedger, PTL DEF LedgerSpec
----------------------------------------------------------------------------
(* BrainSessions: the history of a session is the end of what was said.    *)

Turns == Queries \X {"user", "ai"}

SessionTypeOK ==
  /\ lists \in Seq(Seq(Turns)) /\ current \in 0..Len(lists)
  /\ said \in Seq(Turns)
  /\ held \in [Queries -> Nat]
  /\ \A q \in Waiting : held[q] \in 1..Len(lists) /\ current # 0
  /\ phase \in [Queries -> {"idle", "waiting", "ended"}]
  /\ overlapped \in BOOLEAN

EndOf(s, t) ==
  Len(s) <= Len(t) /\ \A n \in 1..Len(s) : s[n] = t[Len(t) - Len(s) + n]

\* No two queries at a time, or nothing to cut yet.
Undisturbed == ~overlapped \/ Len(said) <= Keep

\* The history is the end of what was said, long enough, and the list that a
\* waiting query holds.
HistoryInv ==
  Undisturbed =>
    /\ EndOf(History, said)
    /\ Len(History) >= Len(said) \/ Len(History) >= Keep
    /\ \A q \in Waiting : held[q] = current /\ current # 0
    /\ ~overlapped => \A p, q \in Waiting : p = q

SessionInv == SessionTypeOK /\ HistoryInv

LEMMA EndIsSuffix ==
  ASSUME NEW S, NEW s \in Seq(S), NEW t \in Seq(S), EndOf(s, t)
  PROVE  IsSuffix(s, t)
<1> DEFINE r == Reverse(s)
           u == Reverse(t)
<1>1. /\ r \in Seq(S) /\ Len(r) = Len(s) /\ \A n \in 1..Len(s) : r[n] = s[Len(s) - n + 1]
      /\ u \in Seq(S) /\ Len(u) = Len(t) /\ \A n \in 1..Len(t) : u[n] = t[Len(t) - n + 1]
  BY DEF Reverse
<1>2. \A n \in 1..Len(s) : r[n] = u[n]
  <2> TAKE n \in 1..Len(s)
  <2>1. /\ Len(s) - n + 1 \in 1..Len(s) /\ n \in 1..Len(t)
        /\ Len(t) - Len(s) + (Len(s) - n + 1) = Len(t) - n + 1
    BY DEF EndOf
  <2> QED BY <1>1, <2>1 DEF EndOf
<1> HIDE DEF r, u
<1>3. SubSeq(r, 1, Len(r)) = SubSeq(u, 1, Len(r))
  <2>1. Len(r) <= Len(u) /\ Len(r) \in Nat
    BY <1>1 DEF EndOf
  <2> QED BY <1>1, <1>2, <2>1
<1>4. IsPrefix(r, u)
  BY <1>1, <1>3 DEF IsPrefix, EndOf
<1> QED BY <1>4 DEF IsSuffix, r, u

LEMMA AppendLast ==
  ASSUME NEW S, NEW s \in Seq(S), NEW e \in S
  PROVE  /\ Append(s, e) \in Seq(S) /\ Len(Append(s, e)) = Len(s) + 1
         /\ Len(s) + 1 \in 1..(Len(s) + 1) /\ Append(s, e)[Len(s) + 1] = e
OBVIOUS

LEMMA EndAppend ==
  ASSUME NEW S, NEW s \in Seq(S), NEW t \in Seq(S), NEW e \in S, EndOf(s, t)
  PROVE  EndOf(Append(s, e), Append(t, e))
BY DEF EndOf

LEMMA EndKept ==
  ASSUME NEW S, NEW s \in Seq(S), NEW t \in Seq(S), EndOf(s, t), Len(s) > Keep
  PROVE  /\ EndOf(KeepLast(s), t) /\ KeepLast(s) \in Seq(S)
         /\ Len(KeepLast(s)) = Keep
<1>1. Keep \in Nat \ {0}
  BY SessionAssumption
<1>2. /\ KeepLast(s) \in Seq(S) /\ Len(KeepLast(s)) = Keep
      /\ \A n \in 1..Keep : KeepLast(s)[n] = s[Len(s) - Keep + n]
  BY <1>1 DEF KeepLast
<1>3. \A n \in 1..Keep : s[Len(s) - Keep + n] = t[Len(t) - Keep + n]
  <2> TAKE n \in 1..Keep
  <2>1. /\ Len(s) - Keep + n \in 1..Len(s)
        /\ Len(t) - Len(s) + (Len(s) - Keep + n) = Len(t) - Keep + n
    BY <1>1
  <2> QED BY <2>1 DEF EndOf
<1> DEFINE k == KeepLast(s)
<1>4. k \in Seq(S) /\ Len(k) = Keep /\ \A n \in 1..Keep : k[n] = t[Len(t) - Keep + n]
  BY <1>2, <1>3
<1>5. Len(s) <= Len(t) /\ Len(s) \in Nat /\ Len(t) \in Nat
  BY DEF EndOf
<1> HIDE DEF k
<1>6. EndOf(k, t)
  BY <1>1, <1>4, <1>5 DEF EndOf
<1> QED BY <1>2, <1>6 DEF k

\* The list that a turn is appended to is the history, whichever it is.
LEMMA ListsHoldHistory ==
  ASSUME SessionTypeOK
  PROVE  /\ Lists \in Seq(Seq(Turns)) /\ Index \in 1..Len(Lists) /\ Lists[Index] = History
         /\ History \in Seq(Turns) /\ (current # 0 => Index = current /\ Lists = lists)
         /\ Len(Lists) >= Len(lists) /\ Len(lists) \in Nat /\ Len(Lists) \in Nat
<1>1. CASE current = 0
  BY <1>1 DEF SessionTypeOK, Lists, Index, History
<1>2. CASE current # 0
  BY <1>2 DEF SessionTypeOK, Lists, Index, History
<1> QED BY <1>1, <1>2

\* An answer: the list is cut when it is too long.
LEMMA AnswerExtends ==
  ASSUME NEW q \in Queries, NEW all \in Seq(Seq(Turns)), NEW i \in 1..Len(all),
         Answered(q, all, i), Index \in 1..Len(all)
  PROVE  LET list == Append(all[i], AI(q)) IN
         /\ lists' \in Seq(Seq(Turns)) /\ current' \in 1..Len(lists')
         /\ Len(lists') >= Len(all)
         /\ Len(list) <= Keep => current' = Index /\ (i = Index => History' = list)
         /\ Len(list) > Keep  => History' = KeepLast(list)
<1> DEFINE list == Append(all[i], AI(q))
           with == [all EXCEPT ![i] = list]
<1>1. Keep \in Nat \ {0}
  BY SessionAssumption
<1>2. all[i] \in Seq(Turns) /\ AI(q) \in Turns /\ list \in Seq(Turns) /\ Len(list) \in Nat
  BY DEF AI, Turns
<1>3. /\ with \in Seq(Seq(Turns)) /\ Len(with) = Len(all) /\ with[i] = list
  BY <1>2
<1>4. /\ lists' = IF Len(list) > Keep THEN Append(with, KeepLast(list)) ELSE with
      /\ current' = IF Len(list) > Keep THEN Len(with) + 1 ELSE Index
  BY DEF Answered
<1>5. Len(list) > Keep => KeepLast(list) \in Seq(Turns)
  <2>1. EndOf(list, list)
    BY <1>2 DEF EndOf
  <2> QED BY <1>2, <2>1, EndKept
<1> HIDE DEF list, with
<1>6. CASE Len(list) > Keep
  <2>1. /\ lists' = Append(with, KeepLast(list)) /\ current' = Len(with) + 1
    BY <1>4, <1>6
  <2>2. /\ lists' \in Seq(Seq(Turns)) /\ Len(lists') = Len(with) + 1
        /\ lists'[Len(with) + 1] = KeepLast(list) /\ Len(with) + 1 # 0
        /\ Len(with) + 1 \in 1..(Len(with) + 1)
    <3>1. KeepLast(list) \in Seq(Turns) /\ Len(with) \in Nat
      BY <1>3, <1>5, <1>6
    <3>2. /\ Append(with, KeepLast(list)) \in Seq(Seq(Turns))
          /\ Len(Append(with, KeepLast(list))) = Len(with) + 1
          /\ Append(with, KeepLast(list))[Len(with) + 1] = KeepLast(list)
      BY <1>3, <3>1, AppendLast
    <3> QED BY <2>1, <3>1, <3>2
  <2>3. Len(lists') >= Len(all)
    BY <1>3, <2>2
  <2> QED BY <1>1, <1>2, <1>6, <2>1, <2>2, <2>3 DEF History, list
<1>7. CASE ~(Len(list) > Keep)
  <2>1. lists' = with /\ current' = Index /\ Index # 0
    BY <1>4, <1>7
  <2>2. i = Index => History' = list
    BY <1>3, <2>1 DEF History
  <2>3. lists' \in Seq(Seq(Turns)) /\ Len(lists') = Len(all) /\ current' \in 1..Len(lists')
    BY <1>3, <2>1
  <2>4. Len(all) \in Nat
    OBVIOUS
  <2> QED BY <1>7, <2>1, <2>2, <2>3, <2>4 DEF list
<1> QED BY <1>6, <1>7

LEMMA LocalKeeps ==
  ASSUME SessionInv, NEW q \in Queries, AskLocally(q)
  PROVE  SessionInv'
<1> DEFINE asked == Append(History, User(q))
           answered == Append(asked, AI(q))
           all == [Lists EXCEPT ![Index] = Append(@, User(q))]
           told == Append(Append(said, User(q)), AI(q))
<1>1. /\ Answered(q, all, Index)
      /\ phase[q] = "idle" /\ phase' = [phase EXCEPT ![q] = "ended"]
      /\ said' = said \o <<User(q), AI(q)>>
      /\ overlapped' = (overlapped \/ Waiting # {}) /\ held' = held
  BY DEF AskLocally
<1>2. /\ SessionTypeOK /\ HistoryInv /\ Keep \in Nat \ {0}
      /\ User(q) \in Turns /\ AI(q) \in Turns
      /\ said \in Seq(Turns) /\ History \in Seq(Turns)
  BY SessionAssumption, ListsHoldHistory DEF SessionInv, SessionTypeOK, User, AI, Turns
<1>3. /\ asked \in Seq(Turns) /\ Len(asked) = Len(History) + 1
      /\ answered \in Seq(Turns) /\ Len(answered) = Len(History) + 2
      /\ told \in Seq(Turns) /\ Len(told) = Len(said) + 2 /\ Len(History) \in Nat
      /\ Len(said) \in Nat
  BY <1>2
<1>4. said' = told
  BY <1>1, <1>2
<1>5. /\ all \in Seq(Seq(Turns)) /\ Index \in 1..Len(all) /\ all[Index] = asked
  BY <1>2, <1>3, ListsHoldHistory
<1> HIDE DEF all, asked, answered, told
<1>6. /\ lists' \in Seq(Seq(Turns)) /\ current' \in 1..Len(lists') /\ Len(lists') >= Len(all)
      /\ Len(answered) <= Keep => History' = answered /\ current' = Index
      /\ Len(answered) > Keep  => History' = KeepLast(answered)
  BY <1>1, <1>2, <1>5, AnswerExtends DEF answered
<1>8. Waiting' = Waiting
  BY <1>1, <1>2 DEF SessionTypeOK, Waiting
<1>7. SessionTypeOK'
  <2>1. Len(lists') >= Len(lists) /\ Len(lists) \in Nat /\ Len(lists') \in Nat
    <3>1. Len(all) = Len(Lists)
      BY <1>2, ListsHoldHistory DEF all
    <3>2. Len(Lists) >= Len(lists) /\ Len(lists) \in Nat /\ Len(Lists) \in Nat
      BY <1>2, ListsHoldHistory
    <3>3. Len(lists') \in Nat
      BY <1>6
    <3> QED BY <1>6, <3>1, <3>2, <3>3
  <2>2. \A p \in Waiting : held'[p] \in 1..Len(lists') /\ current' # 0
    <3>1. \A p \in Waiting : held'[p] \in 1..Len(lists)
      BY <1>1, <1>2 DEF SessionTypeOK
    <3>2. 1..Len(lists) \subseteq 1..Len(lists') /\ current' # 0
      BY <1>6, <2>1
    <3> QED BY <3>1, <3>2
  <2>3. said' \in Seq(Turns)
    BY <1>3, <1>4
  <2>4. held' \in [Queries -> Nat] /\ overlapped' \in BOOLEAN
    BY <1>1, <1>2 DEF SessionTypeOK
  <2>5. phase' \in [Queries -> {"idle", "waiting", "ended"}]
    BY <1>1, <1>2 DEF SessionTypeOK
  <2>6. lists' \in Seq(Seq(Turns)) /\ current' \in 0..Len(lists')
    BY <1>6, <2>1
  <2> QED BY <1>8, <2>2, <2>3, <2>4, <2>5, <2>6, Zenon DEF SessionTypeOK
<1>9. ASSUME Undisturbed' PROVE HistoryInv'
  <2>1. Undisturbed /\ (overlapped' => Len(told) <= Keep)
    BY <1>1, <1>2, <1>3, <1>4, <1>9 DEF Undisturbed, SessionTypeOK
  <2>2. EndOf(History, said) /\ (Len(History) >= Len(said) \/ Len(History) >= Keep)
    BY <1>2, <2>1 DEF HistoryInv
  <2>3. EndOf(answered, told)
    <3>1. EndOf(asked, Append(said, User(q))) /\ Append(said, User(q)) \in Seq(Turns)
      BY <1>2, <2>2, EndAppend DEF asked
    <3> QED BY <1>2, <1>3, <3>1, EndAppend DEF answered, told
  <2>7. ~overlapped' => Waiting = {}
    BY <1>1
  <2>4. Len(answered) > Keep => Waiting = {}
    BY <1>2, <1>3, <2>1, <2>2, <2>7 DEF EndOf
  <2>5. EndOf(History', told) /\ (Len(History') >= Len(told) \/ Len(History') >= Keep)
    BY <1>2, <1>3, <1>6, <2>2, <2>3, EndKept
  <2>6. \A p \in Waiting : held[p] = current' /\ current' # 0
    <3>1. CASE Len(answered) > Keep
      BY <2>4, <3>1
    <3>2. CASE ~(Len(answered) > Keep)
      <4>1. current' = Index
        BY <1>2, <1>3, <1>6, <3>2
      <4> QED BY <1>2, <2>1, <4>1, ListsHoldHistory DEF HistoryInv
    <3> QED BY <3>1, <3>2
  <2> QED BY <1>1, <1>4, <1>8, <2>5, <2>6, <2>7 DEF HistoryInv
<1> QED BY <1>7, <1>9 DEF SessionInv, HistoryInv

LEMMA RemoteAskKeeps ==
  ASSUME SessionInv, NEW q \in Queries, AskRemotely(q)
  PROVE  SessionInv'
<1> DEFINE asked == Append(History, User(q))
<1>1. /\ lists' = [Lists EXCEPT ![Index] = Append(@, User(q))] /\ current' = Index
      /\ phase[q] = "idle" /\ phase' = [phase EXCEPT ![q] = "waiting"]
      /\ held' = [held EXCEPT ![q] = Index] /\ said' = Append(said, User(q))
      /\ overlapped' = (overlapped \/ Waiting # {})
  BY DEF AskRemotely
<1>2. /\ SessionTypeOK /\ HistoryInv /\ Keep \in Nat \ {0} /\ User(q) \in Turns
      /\ said \in Seq(Turns) /\ History \in Seq(Turns)
  BY SessionAssumption, ListsHoldHistory DEF SessionInv, SessionTypeOK, User, Turns
<1>3. /\ asked \in Seq(Turns) /\ Len(asked) = Len(History) + 1 /\ Len(History) \in Nat
      /\ said' \in Seq(Turns) /\ Len(said') = Len(said) + 1 /\ Len(said) \in Nat
  BY <1>1, <1>2
<1>4. /\ lists' \in Seq(Seq(Turns)) /\ Index \in 1..Len(lists') /\ lists'[Index] = asked
  BY <1>1, <1>2, <1>3, ListsHoldHistory
<1> HIDE DEF asked
<1>5. History' = asked /\ current' # 0 /\ current' = Index
  BY <1>1, <1>4 DEF History
<1>6. Waiting' = Waiting \cup {q} /\ \A p \in Waiting : held'[p] = held[p]
  BY <1>1, <1>2 DEF SessionTypeOK, Waiting
<1>7. held'[q] = Index
  BY <1>1, <1>2 DEF SessionTypeOK
<1>9. SessionTypeOK'
  <2>1. Len(lists') >= Len(lists) /\ Len(lists) \in Nat /\ Len(lists') \in Nat
    BY <1>1, <1>2, ListsHoldHistory DEF SessionTypeOK
  <2>2. \A p \in Waiting' : held'[p] \in 1..Len(lists')
    <3>1. \A p \in Waiting : held'[p] \in 1..Len(lists)
      BY <1>2, <1>6 DEF SessionTypeOK
    <3>2. 1..Len(lists) \subseteq 1..Len(lists')
      BY <2>1
    <3> QED BY <1>4, <1>6, <1>7, <3>1, <3>2
  <2>3. current' \in 0..Len(lists') /\ overlapped' \in BOOLEAN
    BY <1>1, <1>4, <2>1
  <2> QED BY <1>1, <1>2, <1>3, <1>4, <1>5, <2>2, <2>3, SMTT(20) DEF SessionTypeOK
<1>8. ASSUME Undisturbed' PROVE HistoryInv'
  <2>1. Undisturbed
    BY <1>1, <1>2, <1>3, <1>8 DEF Undisturbed, SessionTypeOK
  <2>2. EndOf(History, said) /\ (Len(History) >= Len(said) \/ Len(History) >= Keep)
    BY <1>2, <2>1 DEF HistoryInv
  <2>3. EndOf(asked, said')
    BY <1>1, <1>2, <2>2, EndAppend DEF asked
  <2>4. \A p \in Waiting : held[p] = Index
    BY <1>2, <2>1, ListsHoldHistory DEF HistoryInv
  <2>5. Len(asked) >= Len(said') \/ Len(asked) >= Keep
    BY <1>2, <1>3, <2>2
  <2>6. ~overlapped' => Waiting = {}
    BY <1>1
  <2> QED BY <1>5, <1>6, <1>7, <2>3, <2>4, <2>5, <2>6 DEF HistoryInv
<1> QED BY <1>8, <1>9 DEF SessionInv, HistoryInv

LEMMA RemoteEndKeeps ==
  ASSUME SessionInv, NEW q \in Queries, RemoteEnds(q)
  PROVE  SessionInv'
<1> DEFINE i == held[q]
           list == Append(lists[i], AI(q))
<1>1. /\ Answered(q, lists, i) /\ said' = Append(said, AI(q))
      /\ phase[q] = "waiting" /\ phase' = [phase EXCEPT ![q] = "ended"]
      /\ UNCHANGED <<held, overlapped>>
  BY DEF RemoteEnds
<1>2. /\ SessionTypeOK /\ HistoryInv /\ Keep \in Nat \ {0} /\ AI(q) \in Turns
      /\ said \in Seq(Turns) /\ lists \in Seq(Seq(Turns)) /\ Len(lists) \in Nat
  BY SessionAssumption DEF SessionInv, SessionTypeOK, AI, Turns
<1>3. q \in Waiting /\ i \in 1..Len(lists) /\ Index = current /\ Index \in 1..Len(lists)
  BY <1>1, <1>2 DEF Waiting, Index, SessionTypeOK
<1>4. /\ lists[i] \in Seq(Turns) /\ list \in Seq(Turns) /\ Len(list) = Len(lists[i]) + 1
      /\ Len(lists[i]) \in Nat
      /\ said' \in Seq(Turns) /\ Len(said') = Len(said) + 1 /\ Len(said) \in Nat
  BY <1>1, <1>2, <1>3
<1>5. /\ lists' \in Seq(Seq(Turns)) /\ current' \in 1..Len(lists') /\ Len(lists') >= Len(lists)
      /\ Len(list) <= Keep => current' = current /\ (i = current => History' = list)
      /\ Len(list) > Keep  => History' = KeepLast(list)
  BY <1>1, <1>2, <1>3, AnswerExtends
<1> HIDE DEF list, i
<1>6. Waiting' = Waiting \ {q}
  BY <1>1, <1>2 DEF SessionTypeOK, Waiting
<1>7. SessionTypeOK'
  <2>1. \A p \in Waiting' : held'[p] \in 1..Len(lists') /\ current' # 0
    <3>1. \A p \in Waiting' : held'[p] \in 1..Len(lists)
      BY <1>1, <1>2, <1>6 DEF SessionTypeOK
    <3>2. 1..Len(lists) \subseteq 1..Len(lists') /\ current' # 0
      BY <1>2, <1>5
    <3> QED BY <3>1, <3>2
  <2>2. current' \in 0..Len(lists')
    BY <1>5
  <2>3. /\ phase' \in [Queries -> {"idle", "waiting", "ended"}]
        /\ held' \in [Queries -> Nat] /\ overlapped' \in BOOLEAN
    BY <1>1, <1>2 DEF SessionTypeOK
  <2> QED BY <1>4, <1>5, <2>1, <2>2, <2>3 DEF SessionTypeOK
<1>8. ASSUME Undisturbed' PROVE HistoryInv'
  <2>1. Undisturbed /\ (overlapped => Len(said') <= Keep)
    BY <1>1, <1>2, <1>4, <1>8 DEF Undisturbed, SessionTypeOK
  <2>2. /\ EndOf(History, said) /\ (Len(History) >= Len(said) \/ Len(History) >= Keep)
        /\ \A p \in Waiting : held[p] = current
        /\ ~overlapped => \A p, r \in Waiting : p = r
    BY <1>2, <2>1 DEF HistoryInv
  <2>3. i = current /\ History = lists[i]
    BY <1>3, <2>2 DEF i, History
  <2>4. EndOf(list, said')
    BY <1>1, <1>2, <1>4, <2>2, <2>3, EndAppend DEF list
  <2>5. Len(list) > Keep => Waiting' = {}
    <3>1. CASE ~overlapped
      BY <1>3, <1>6, <2>2, <3>1
    <3>2. CASE overlapped
      BY <1>2, <1>4, <2>1, <2>2, <2>3, <3>2 DEF EndOf
    <3> QED BY <3>1, <3>2
  <2>6. EndOf(History', said') /\ (Len(History') >= Len(said') \/ Len(History') >= Keep)
    <3>1. CASE Len(list) > Keep
      <4>1. EndOf(KeepLast(list), said') /\ Len(KeepLast(list)) = Keep
        BY <1>4, <2>4, <3>1, EndKept
      <4> QED BY <1>2, <1>5, <3>1, <4>1
    <3>2. CASE ~(Len(list) > Keep)
      <4>1. History' = list
        BY <1>2, <1>4, <1>5, <2>3, <3>2
      <4> QED BY <1>2, <1>4, <2>2, <2>3, <2>4, <3>2, <4>1
    <3> QED BY <3>1, <3>2
  <2>7. \A p \in Waiting' : held[p] = current' /\ current' # 0
    BY <1>2, <1>4, <1>5, <1>6, <2>2, <2>5
  <2> QED BY <1>1, <1>6, <2>2, <2>6, <2>7 DEF HistoryInv
<1> QED BY <1>7, <1>8 DEF SessionInv, HistoryInv

LEMMA EndedKeeps ==
  ASSUME SessionInv, NEW q \in Queries, QueryRefused(q) \/ RemoteRaises(q)
  PROVE  SessionInv'
<1>1. /\ phase' = [phase EXCEPT ![q] = "ended"]
      /\ UNCHANGED <<lists, current, held, said, overlapped>>
  BY DEF QueryRefused, RemoteRaises
<1>2. Waiting' \subseteq Waiting /\ History' = History
  BY <1>1 DEF SessionInv, SessionTypeOK, Waiting, History
<1>3. SessionTypeOK'
  BY <1>1, <1>2 DEF SessionInv, SessionTypeOK
<1> QED BY <1>1, <1>2, <1>3 DEF SessionInv, HistoryInv, Undisturbed

\* The history is the end of what was said and no shorter than it should be, for
\* any number of queries: as long as no two are under way at a time, or nothing
\* has been cut.
THEOREM HistoryIsKept == SessionSpec => []SessionKept
<1>1. SessionInit => SessionInv
  <2> SUFFICES ASSUME SessionInit PROVE SessionInv OBVIOUS
  <2>1. Waiting = {} /\ History = << >> /\ said = << >>
    BY DEF SessionInit, Waiting, History
  <2>2. lists \in Seq(Seq(Turns)) /\ said \in Seq(Turns) /\ current \in 0..Len(lists)
    BY DEF SessionInit
  <2>3. SessionTypeOK
    BY <2>1, <2>2 DEF SessionInit, SessionTypeOK
  <2> QED BY <2>1, <2>3 DEF SessionInv, HistoryInv, EndOf
<1>2. SessionInv /\ [SessionNext]_sessionVars => SessionInv'
  <2>1. ASSUME SessionInv, UNCHANGED sessionVars PROVE SessionInv'
    <3>1. UNCHANGED <<lists, current, held, phase, said, overlapped>>
      BY <2>1 DEF sessionVars
    <3>2. Waiting' = Waiting /\ History' = History
      BY <3>1 DEF Waiting, History
    <3> QED BY <2>1, <3>1, <3>2 DEF SessionInv, SessionTypeOK, HistoryInv, Undisturbed
  <2> QED BY <2>1, EndedKeeps, LocalKeeps, RemoteAskKeeps, RemoteEndKeeps DEF SessionNext
<1>3. SessionInv => SessionKept
  <2> SUFFICES ASSUME SessionInv, Undisturbed
               PROVE  /\ IsSuffix(History, said)
                      /\ Len(History) >= Min({Len(said), Keep})
    BY DEF SessionKept, Undisturbed
  <2>1. /\ EndOf(History, said) /\ (Len(History) >= Len(said) \/ Len(History) >= Keep)
        /\ History \in Seq(Turns) /\ said \in Seq(Turns) /\ Keep \in Nat
    BY SessionAssumption, ListsHoldHistory DEF SessionInv, SessionTypeOK, HistoryInv
  <2>2. IsSuffix(History, said)
    BY <2>1, EndIsSuffix
  <2>3. \A a, b \in Nat : Min({a, b}) <= a /\ Min({a, b}) <= b /\ Min({a, b}) \in Nat
    <3> TAKE a, b \in Nat
    <3>1. \E x \in {a, b} : \A y \in {a, b} : x =< y
      OBVIOUS
    <3> QED BY <3>1 DEF Min
  <2>4. Len(History) \in Nat /\ Len(said) \in Nat
    BY <2>1
  <2> QED BY <2>1, <2>2, <2>3, <2>4
<1> QED BY <1>1, <1>2, <1>3, PTL DEF SessionSpec
----------------------------------------------------------------------------
(* ContentStore: a failed write costs one post.                            *)

\* The chunks that did not end their line, and the posts that were written.
CutShortAt == {n \in DOMAIN storeFile : storeFile[n].end # "line"}
WrittenWhole == {storeFile[n].entry : n \in DOMAIN storeFile \ CutShortAt}

StoreTypeOK ==
  /\ storeFile \in Seq([entry : Posts, end : {"line"} \cup Cuts])
  /\ storeFailures \in Nat

\* Every line that was not ended is a failure's, and a post whose write
\* succeeded is in the file as a whole.
StoreInv ==
  /\ StoreTypeOK
  /\ Cardinality(CutShortAt) <= storeFailures
  /\ kept \subseteq WrittenWhole

LEMMA FinitePlaces ==
  ASSUME NEW m \in Nat, NEW I \in SUBSET (1..m)
  PROVE  IsFiniteSet(I) /\ Cardinality(I) \in Nat
<1>1. IsFiniteSet(1..m)
  BY FS_Interval
<1> QED BY <1>1, FS_Subset, FS_CardinalityType

\* The places of a set of places, in their order.
LEMMA Ranks ==
  ASSUME NEW m \in Nat, NEW I \in SUBSET (1..m)
  PROVE  /\ IsFiniteSet(I)
         /\ \A i \in I : Cardinality({j \in I : j <= i}) \in 1..Cardinality(I)
         /\ \A i, j \in I : i # j =>
              Cardinality({k \in I : k <= i}) # Cardinality({k \in I : k <= j})
<1> DEFINE Below(i) == {j \in I : j <= i}
<1>1. IsFiniteSet(I)
  BY FinitePlaces
<1>2. \A i \in I : IsFiniteSet(Below(i)) /\ Below(i) \subseteq I /\ i \in Below(i)
  BY <1>1, FS_Subset
<1>3. \A i \in I : Cardinality(Below(i)) \in 1..Cardinality(I)
  <2> TAKE i \in I
  <2>1. Cardinality(Below(i)) <= Cardinality(I) /\ Cardinality(I) \in Nat
    BY <1>1, <1>2, FS_Subset, FS_CardinalityType
  <2>2. Cardinality(Below(i)) \in Nat /\ Cardinality(Below(i)) # 0
    BY <1>2, FS_CardinalityType, FS_EmptySet
  <2> QED BY <2>1, <2>2
<1>4. ASSUME NEW i \in I, NEW j \in I, i < j
      PROVE  Cardinality(Below(i)) # Cardinality(Below(j))
  <2>1. Below(i) \subseteq Below(j) /\ j \notin Below(i) /\ j \in Below(j)
    <3>1. /\ \A k \in I : k \in Int
          /\ i \in Int /\ j \in Int
      OBVIOUS
    <3>2. \A k \in I : k <= i => k <= j
      BY <1>4, <3>1
    <3>3. ~(j <= i) /\ j <= j
      BY <1>4, <3>1
    <3> QED BY <3>2, <3>3
  <2>2. Below(i) # Below(j)
    BY <2>1
  <2> QED BY <1>2, <2>1, <2>2, FS_Subset
<1>5. \A i, j \in I : i # j => i < j \/ j < i
  OBVIOUS
<1> QED BY <1>1, <1>3, <1>4, <1>5

\* Loading finds every line that can be parsed.
LEMMA LoadFindsReadable ==
  ASSUME NEW S, NEW file \in Seq(S), NEW n \in DOMAIN file, Readable(file, n)
  PROVE  file[n].entry \in ToSet(LoadSkipping(file))
<1> DEFINE I == {i \in DOMAIN file : Readable(file, i)}
           rank(i) == Cardinality({j \in I : j <= i})
<1>1. n \in I /\ I \in SUBSET (1..Len(file)) /\ Len(file) \in Nat
  OBVIOUS
<1> HIDE DEF I
<1>2. rank(n) \in 1..Cardinality(I) /\ \A i \in I : rank(i) = rank(n) => i = n
  BY <1>1, Ranks
<1>3. (CHOOSE i \in I : rank(i) = rank(n)) = n
  BY <1>1, <1>2
<1>4. LoadSkipping(file) = [k \in 1..Cardinality(I) |-> file[CHOOSE i \in I : rank(i) = k].entry]
  BY DEF LoadSkipping, EntriesAt, I
<1>5. /\ rank(n) \in DOMAIN LoadSkipping(file)
      /\ LoadSkipping(file)[rank(n)] = file[n].entry
  BY <1>2, <1>3, <1>4
<1> QED BY <1>5 DEF ToSet

\* A chunk goes to the end of the file.
LEMMA StoreAppends ==
  ASSUME StoreInv, NEW p \in Posts, NEW end \in {"line"} \cup Cuts,
         storeFile' = Append(storeFile, Chunk(p, end))
  PROVE  /\ storeFile' \in Seq([entry : Posts, end : {"line"} \cup Cuts])
         /\ end = "line" => /\ Cardinality(CutShortAt') = Cardinality(CutShortAt)
                            /\ WrittenWhole' = WrittenWhole \cup {p}
         /\ end # "line" => /\ Cardinality(CutShortAt') = Cardinality(CutShortAt) + 1
                            /\ WrittenWhole' = WrittenWhole
<1> DEFINE T == [entry : Posts, end : {"line"} \cup Cuts]
           c == Chunk(p, end)
           m == Len(storeFile)
<1>1. c \in T /\ c.entry = p /\ c.end = end
  BY DEF Chunk
<1>2. storeFile \in Seq(T) /\ m \in Nat /\ DOMAIN storeFile = 1..m
  BY DEF StoreInv, StoreTypeOK
<1> HIDE DEF T, c
<1>3. /\ storeFile' \in Seq(T) /\ DOMAIN storeFile' = 1..(m + 1) /\ storeFile'[m + 1] = c
      /\ \A n \in 1..m : storeFile'[n] = storeFile[n]
  BY <1>1, <1>2 DEF c
<1>4. m + 1 \notin 1..m /\ 1..(m + 1) = 1..m \cup {m + 1}
  BY <1>2
<1>5. IsFiniteSet(CutShortAt) /\ m + 1 \notin CutShortAt
  <2>1. CutShortAt \in SUBSET (1..m)
    BY <1>2 DEF CutShortAt
  <2> QED BY <1>2, <1>4, <2>1, FinitePlaces
<1>6. CASE end = "line"
  <2>1. CutShortAt' = CutShortAt
    BY <1>1, <1>2, <1>3, <1>4, <1>6 DEF CutShortAt
  <2>2. WrittenWhole' = WrittenWhole \cup {p}
    BY <1>1, <1>2, <1>3, <1>4, <1>5, <2>1 DEF WrittenWhole
  <2> QED BY <1>3, <1>6, <2>1, <2>2 DEF T
<1>7. CASE end # "line"
  <2>1. CutShortAt' = CutShortAt \cup {m + 1}
    BY <1>1, <1>2, <1>3, <1>4, <1>7 DEF CutShortAt
  <2>2. WrittenWhole' = WrittenWhole
    BY <1>1, <1>2, <1>3, <1>4, <1>5, <2>1 DEF WrittenWhole
  <2>3. Cardinality(CutShortAt') = Cardinality(CutShortAt) + 1
    BY <1>5, <2>1, FS_AddElement
  <2> QED BY <1>3, <1>7, <2>2, <2>3 DEF T
<1> QED BY <1>6, <1>7

\* A failure leaves at most one line that is not ended.
LEMMA StoreCuts ==
  ASSUME StoreInv, NEW p \in Posts, storeFile' \in StoreCutShort(p), kept' = kept,
         storeFailures' = storeFailures + 1
  PROVE  StoreInv'
<1>1. IsFiniteSet(CutShortAt) /\ Cardinality(CutShortAt) \in Nat
  <2>1. CutShortAt \in SUBSET (1..Len(storeFile)) /\ Len(storeFile) \in Nat
    BY DEF StoreInv, StoreTypeOK, CutShortAt
  <2> QED BY <2>1, FinitePlaces
<1>2. storeFailures \in Nat /\ Cardinality(CutShortAt) <= storeFailures
  BY DEF StoreInv, StoreTypeOK
<1>3. CASE storeFile' = storeFile
  <2>1. CutShortAt' = CutShortAt /\ WrittenWhole' = WrittenWhole
    BY <1>3 DEF CutShortAt, WrittenWhole
  <2> QED BY <1>1, <1>2, <1>3, <2>1 DEF StoreInv, StoreTypeOK
<1>4. ASSUME NEW cut \in Cuts, storeFile' = Append(storeFile, Chunk(p, cut))
      PROVE  StoreInv'
  <2>1. cut # "line"
    BY DEF Cuts
  <2>2. /\ storeFile' \in Seq([entry : Posts, end : {"line"} \cup Cuts])
        /\ Cardinality(CutShortAt') = Cardinality(CutShortAt) + 1
        /\ WrittenWhole' = WrittenWhole
    BY <1>4, <2>1, StoreAppends
  <2> QED BY <1>1, <1>2, <2>2 DEF StoreInv, StoreTypeOK
<1> QED BY <1>3, <1>4 DEF StoreCutShort

\* As many posts are lost as there are lines that were not ended, at most:
\* the posts after them.
LEMMA LostAfterCuts ==
  ASSUME StoreInv
  PROVE  OneLostPerFailure
<1> DEFINE lost == kept \ ToSet(LoadStore(storeFile))
           cutBefore == [p \in lost |-> CHOOSE n \in CutShortAt : storeFile[n + 1].entry = p]
<1>1. /\ CutShortAt \in SUBSET (1..Len(storeFile)) /\ Len(storeFile) \in Nat
      /\ DOMAIN storeFile = 1..Len(storeFile)
  BY DEF StoreInv, StoreTypeOK, CutShortAt
<1>2. IsFiniteSet(CutShortAt) /\ Cardinality(CutShortAt) \in Nat
  BY <1>1, FinitePlaces
<1>3. \A p \in lost : \E n \in CutShortAt : storeFile[n + 1].entry = p
  <2> TAKE p \in lost
  <2>1. PICK n \in DOMAIN storeFile \ CutShortAt : p = storeFile[n].entry
    BY DEF StoreInv, WrittenWhole
  <2>2. ~Readable(storeFile, n)
    BY <2>1, LoadFindsReadable DEF LoadStore, StoreInv, StoreTypeOK
  <2>3. storeFile[n].end = "line" /\ n \in 1..Len(storeFile)
    BY <1>1, <2>1 DEF CutShortAt
  <2>4. n # 1 /\ storeFile[n - 1].end # "line"
    <3>1. "line" # "torn"
      OBVIOUS
    <3> QED BY <2>2, <2>3, <3>1 DEF Readable
  <2>5. n - 1 \in CutShortAt /\ (n - 1) + 1 = n
    BY <1>1, <2>3, <2>4 DEF CutShortAt
  <2> QED BY <2>1, <2>5
<1> HIDE DEF lost
<1>4. \A p \in lost : cutBefore[p] \in CutShortAt /\ storeFile[cutBefore[p] + 1].entry = p
  BY <1>3
<1>5. cutBefore \in Injection(lost, CutShortAt)
  BY <1>4 DEF Injection, IsInjective
<1>6. Cardinality(lost) <= Cardinality(CutShortAt) /\ IsFiniteSet(lost)
  BY <1>2, <1>5, FS_Injection
<1>7. /\ Cardinality(lost) \in Nat /\ storeFailures \in Nat
      /\ Cardinality(CutShortAt) <= storeFailures
  BY <1>6, FS_CardinalityType DEF StoreInv, StoreTypeOK
<1> QED BY <1>2, <1>6, <1>7 DEF OneLostPerFailure, lost

LEMMA InitStore == StoreInit => StoreInv
<1> SUFFICES ASSUME StoreInit PROVE StoreInv OBVIOUS
<1>1. CutShortAt = {}
  BY DEF StoreInit, CutShortAt
<1> QED BY <1>1, FS_EmptySet DEF StoreInit, StoreInv, StoreTypeOK

LEMMA NextStore == StoreInv /\ [StoreNext]_storeVars => StoreInv'
<1>1. ASSUME StoreInv, UNCHANGED <<storeFile, kept, storeFailures>> PROVE StoreInv'
  <2>1. CutShortAt' = CutShortAt /\ WrittenWhole' = WrittenWhole
    BY <1>1 DEF CutShortAt, WrittenWhole
  <2> QED BY <1>1, <2>1 DEF StoreInv, StoreTypeOK
<1>2. ASSUME StoreInv, NEW p \in Posts, StoreWrite(p) PROVE StoreInv'
  <2>1. /\ storeFile' = Append(storeFile, Chunk(p, "line"))
        /\ kept' = kept \cup {p} /\ storeFailures' = storeFailures
    BY <1>2 DEF StoreWrite
  <2>2. /\ storeFile' \in Seq([entry : Posts, end : {"line"} \cup Cuts])
        /\ Cardinality(CutShortAt') = Cardinality(CutShortAt)
        /\ WrittenWhole' = WrittenWhole \cup {p}
    BY <1>2, <2>1, StoreAppends
  <2> QED BY <1>2, <2>1, <2>2 DEF StoreInv, StoreTypeOK
<1>3. ASSUME StoreInv, NEW p \in Posts, StoreWriteFails(p) PROVE StoreInv'
  BY <1>3, StoreCuts DEF StoreWriteFails
<1>4. ASSUME StoreInv, StoreRestarts PROVE StoreInv'
  BY <1>1, <1>4, StoreCuts DEF StoreRestarts
<1>5. ASSUME StoreInv,
             \/ UNCHANGED storeVars
             \/ \E p \in Posts : Publish(p) \/ PublishRefused(p)
             \/ \E l \in Listers : CountMatching(l) \/ List(l)
             \/ \E r \in Readers : FirstPage(r) \/ NextPage(r)
      PROVE  StoreInv'
  <2>1. UNCHANGED <<storeFile, kept, storeFailures>>
    BY <1>5 DEF storeVars, Publish, PublishRefused, CountMatching, List, FirstPage,
                NextPage, ReadsPage
  <2> QED BY <1>1, <1>5, <2>1
<1> QED BY <1>2, <1>3, <1>4, <1>5 DEF StoreNext, OnPublish

\* As many posts whose write succeeded are lost as writes have failed, at most,
\* for any number of publications and failures, and across restarts.
THEOREM FailureLosesOne == StoreSpec => []OneLostPerFailure
BY InitStore, NextStore, LostAfterCuts, PTL DEF StoreSpec

----------------------------------------------------------------------------
(* ContentStore: listings are complete.                                    *)

\* The posts a reader has yet to be shown: the oldest, as many as are left.
Unread(matching, n) == {matching[i] : i \in 1 .. (Len(matching) - n)}

ListTypeOK ==
  /\ order \in Seq(Posts)
  /\ listing \in [Listers -> [at : {"idle", "counted", "listed"}, filter : SUBSET Posts,
                              limit : Nat, count : Nat, posts : Seq(Posts)]]
  /\ reading \in [Readers -> [at : {"idle", "on", "finished"}, filter : SUBSET Posts,
                              limit : Nat, seen : Seq(Posts), owed : SUBSET Posts]]

\* What was counted is still there when it is listed.
CountHolds(entry) ==
  /\ entry.at = "counted" => entry.count <= Len(Matching(entry.filter))
  /\ entry.at = "listed" => Len(entry.posts) >= Min({entry.count, Clamped(entry.limit)})

\* Pages show the newest of what matches, and leave the rest for later.
PagesHold(entry) ==
  /\ entry.at = "idle" => entry.seen = << >>
  /\ entry.at = "on" =>
       /\ Len(entry.seen) <= Len(Matching(entry.filter))
       /\ entry.owed \subseteq
            ToSet(entry.seen) \cup Unread(Matching(entry.filter), Len(entry.seen))
  /\ entry.at = "finished" => entry.owed \subseteq ToSet(entry.seen)

ListInv ==
  /\ ListTypeOK
  /\ \A l \in Listers : CountHolds(listing[l])
  /\ \A r \in Readers : PagesHold(reading[r])

LEMMA SmallerOfTwo ==
  ASSUME NEW a \in Nat, NEW b \in Nat
  PROVE  Min({a, b}) = IF a <= b THEN a ELSE b
<1>1. \E x \in {a, b} : \A y \in {a, b} : x =< y
  OBVIOUS
<1>2. Min({a, b}) \in {a, b} /\ \A y \in {a, b} : Min({a, b}) =< y
  BY <1>1 DEF Min
<1> QED BY <1>2

LEMMA ClampedIsPositive ==
  ASSUME NEW limit \in Nat
  PROVE  Clamped(limit) \in Nat \ {0}
<1> DEFINE m == Min({limit, MaxLimit})
<1>1. m \in Nat
  BY StoreAssumption, SmallerOfTwo
<1> HIDE DEF m
<1>2. \E x \in {1, m} : \A y \in {1, m} : x >= y
  BY <1>1
<1>3. Max({1, m}) \in {1, m} /\ \A y \in {1, m} : Max({1, m}) >= y
  BY <1>2 DEF Max
<1>4. Clamped(limit) = Max({1, m})
  BY DEF Clamped, m
<1> QED BY <1>1, <1>3, <1>4

LEMMA MatchingPosts ==
  ASSUME order \in Seq(Posts), NEW filter
  PROVE  Matching(filter) \in Seq(Posts) /\ Len(Matching(filter)) \in Nat
<1>1. Matching(filter) \in Seq(Posts)
  BY FilteredFacts DEF Matching
<1> QED BY <1>1

\* Of a longer list no less matches, and there is no less to show.
LEMMA FilteredGrows ==
  ASSUME NEW list \in Seq(Posts), NEW p \in Posts, NEW filter
  PROVE  /\ Len(Filtered(list, filter)) \in Nat
         /\ Len(Filtered(Append(list, p), filter)) \in Nat
         /\ Len(Filtered(Append(list, p), filter)) >= Len(Filtered(list, filter))
         /\ \A n \in Nat : Unread(Filtered(list, filter), n)
                             \subseteq Unread(Filtered(Append(list, p), filter), n)
<1> DEFINE s == Filtered(list, filter)
           longer == Filtered(Append(list, p), filter)
<1>1. s \in Seq(Posts)
  BY FilteredFacts
<1>2. longer = IF p \in filter THEN Append(s, p) ELSE s
  BY FilteredAppend
<1> HIDE DEF s, longer
<1>3. /\ Len(s) \in Nat /\ Len(longer) \in Nat /\ Len(longer) >= Len(s)
      /\ \A i \in 1 .. Len(s) : longer[i] = s[i]
  BY <1>1, <1>2
<1>4. ASSUME NEW n \in Nat, NEW i \in 1 .. (Len(s) - n)
      PROVE  s[i] \in Unread(longer, n)
  <2>1. i \in 1 .. Len(s) /\ i \in 1 .. (Len(longer) - n)
    BY <1>3
  <2> QED BY <1>3, <2>1 DEF Unread
<1>5. \A n \in Nat : Unread(s, n) \subseteq Unread(longer, n)
  BY <1>4 DEF Unread
<1> QED BY <1>3, <1>5 DEF s, longer

\* Two lists, one after the other, hold the entries of both.
LEMMA ToSetConcat ==
  ASSUME NEW T, NEW one \in Seq(T), NEW other \in Seq(T)
  PROVE  /\ one \o other \in Seq(T) /\ Len(one \o other) = Len(one) + Len(other)
         /\ ToSet(one \o other) = ToSet(one) \cup ToSet(other)
<1> DEFINE both == one \o other
<1>1. /\ both \in Seq(T) /\ Len(both) = Len(one) + Len(other)
      /\ Len(one) \in Nat /\ Len(other) \in Nat
      /\ \A i \in 1 .. Len(one) : both[i] = one[i]
      /\ \A i \in 1 .. Len(other) : both[Len(one) + i] = other[i]
  OBVIOUS
<1>2. /\ DOMAIN both = 1 .. (Len(one) + Len(other)) /\ DOMAIN one = 1 .. Len(one)
      /\ DOMAIN other = 1 .. Len(other)
  BY <1>1
<1> HIDE DEF both
<1>3. ToSet(both) \subseteq ToSet(one) \cup ToSet(other)
  <2> SUFFICES ASSUME NEW i \in 1 .. (Len(one) + Len(other))
               PROVE  both[i] \in ToSet(one) \cup ToSet(other)
    BY <1>2 DEF ToSet
  <2>1. CASE i \in 1 .. Len(one)
    BY <1>1, <1>2, <2>1 DEF ToSet
  <2>2. CASE i \notin 1 .. Len(one)
    <3>1. i - Len(one) \in 1 .. Len(other) /\ Len(one) + (i - Len(one)) = i
      BY <1>1, <2>2
    <3>2. both[i] = other[i - Len(one)]
      BY <1>1, <3>1
    <3> QED BY <1>2, <3>1, <3>2 DEF ToSet
  <2> QED BY <2>1, <2>2
<1>4. ToSet(one) \subseteq ToSet(both)
  <2>1. \A i \in 1 .. Len(one) : i \in 1 .. (Len(one) + Len(other))
    BY <1>1
  <2> QED BY <1>1, <1>2, <2>1 DEF ToSet
<1>5. ToSet(other) \subseteq ToSet(both)
  <2>1. \A i \in 1 .. Len(other) : Len(one) + i \in 1 .. (Len(one) + Len(other))
    BY <1>1
  <2> QED BY <1>1, <1>2, <2>1 DEF ToSet
<1> QED BY <1>1, <1>3, <1>4, <1>5 DEF both

\* A page has the newest posts that were not shown, as many as the limit allows.
LEMMA PageFacts ==
  ASSUME order \in Seq(Posts), NEW filter, NEW limit \in Nat, NEW n \in Nat,
         n <= Len(Matching(filter))
  PROVE  LET page == Page(filter, n, limit)
             rest == Len(Matching(filter)) - n
         IN  /\ page \in Seq(Posts)
             /\ Len(page) = IF rest <= Clamped(limit) THEN rest ELSE Clamped(limit)
             /\ Unread(Matching(filter), n) \subseteq
                  ToSet(page) \cup Unread(Matching(filter), n + Len(page))
<1> DEFINE F == Matching(filter)
           L == Len(F)
           C == Clamped(limit)
           last == Min({L, n + C})
           page == SubSeq(Reverse(F), n + 1, last)
<1>1. F \in Seq(Posts) /\ L \in Nat /\ C \in Nat \ {0} /\ n <= L
  <2>1. F \in Seq(Posts) /\ L \in Nat
    BY MatchingPosts
  <2>2. C \in Nat \ {0}
    BY ClampedIsPositive
  <2> QED BY <2>1, <2>2
<1>2. Reverse(F) \in Seq(Posts) /\ Len(Reverse(F)) = L
      /\ \A i \in 1 .. L : Reverse(F)[i] = F[(L - i) + 1]
  <2>1. Reverse(F) = [i \in 1 .. L |-> F[(L - i) + 1]]
    BY DEF Reverse
  <2>2. \A i \in 1 .. L : F[(L - i) + 1] \in Posts
    <3> TAKE i \in 1 .. L
    <3>1. (L - i) + 1 \in 1 .. L
      BY <1>1
    <3> HIDE DEF F
    <3> QED BY <1>1, <3>1
  <2> HIDE DEF F, L
  <2> QED BY <1>1, <2>1, <2>2
<1>3. Page(filter, n, limit) = page
  BY <1>2 DEF Page
<1> HIDE DEF F, L, C
<1>4. last \in Nat /\ last = IF L <= n + C THEN L ELSE n + C
  BY <1>1, SmallerOfTwo
<1> HIDE DEF last
<1>5. /\ page \in Seq(Posts) /\ Len(page) = last - n
      /\ \A i \in 1 .. (last - n) : page[i] = Reverse(F)[n + i]
  <2>1. /\ n + 1 \in Nat /\ last \in Nat /\ last <= L /\ n <= last
    BY <1>1, <1>4
  <2>2. page = [i \in 1 .. (last - n) |-> Reverse(F)[n + i]]
    BY <1>1, <1>2, <2>1
  <2>3. \A i \in 1 .. (last - n) : Reverse(F)[n + i] \in Posts
    <3> TAKE i \in 1 .. (last - n)
    <3>1. n + i \in 1 .. L
      BY <1>1, <2>1
    <3> QED BY <1>2, <3>1
  <2> HIDE DEF page
  <2> QED BY <1>1, <2>1, <2>2, <2>3
<1> HIDE DEF page
<1>6. Len(page) = IF L - n <= C THEN L - n ELSE C
  BY <1>1, <1>4, <1>5
<1>7. Unread(F, n) \subseteq ToSet(page) \cup Unread(F, n + Len(page))
  <2> SUFFICES ASSUME NEW i \in 1 .. (L - n), i \notin 1 .. (L - (n + Len(page)))
               PROVE  F[i] \in ToSet(page)
    BY DEF Unread, L
  <2> DEFINE j == (L - n) - i + 1
  <2>1. /\ j \in 1 .. (last - n) /\ n + j \in 1 .. L /\ (L - (n + j)) + 1 = i
    BY <1>1, <1>4, <1>5
  <2> HIDE DEF j
  <2>2. page[j] = F[i] /\ j \in DOMAIN page
    <3>1. j \in DOMAIN page /\ page[j] = Reverse(F)[n + j]
      BY <1>5, <2>1
    <3>2. Reverse(F)[n + j] = F[(L - (n + j)) + 1]
      BY <1>2, <2>1
    <3> QED BY <2>1, <3>1, <3>2
  <2> QED BY <2>2 DEF ToSet
<1> QED BY <1>3, <1>5, <1>6, <1>7 DEF F, L, C

\* Loading finds posts.
LEMMA LoadFindsPosts ==
  ASSUME NEW S, NEW file \in Seq([entry : S, end : {"line"} \cup Cuts])
  PROVE  LoadSkipping(file) \in Seq(S)
<1> DEFINE I == {i \in DOMAIN file : Readable(file, i)}
           c == Cardinality(I)
           rank(i) == Cardinality({j \in I : j <= i})
           rankOf == [i \in I |-> rank(i)]
<1>1. I \in SUBSET (1..Len(file)) /\ Len(file) \in Nat /\ \A i \in I : file[i].entry \in S
  <2>1. DOMAIN file = 1..Len(file) /\ Len(file) \in Nat
    OBVIOUS
  <2> DEFINE T == [entry : S, end : {"line"} \cup Cuts]
  <2>2. \A i \in DOMAIN file : file[i].entry \in S
    <3>1. \A t \in T : t.entry \in S
      OBVIOUS
    <3>2. file \in Seq(T)
      OBVIOUS
    <3> HIDE DEF T
    <3>3. \A i \in DOMAIN file : file[i] \in T
      BY <3>2
    <3> QED BY <3>1, <3>3
  <2> QED BY <2>1, <2>2
<1> HIDE DEF I
<1>2. IsFiniteSet(I) /\ c \in Nat
  BY <1>1, FinitePlaces
<1>3. \A i \in I : rank(i) \in 1..c
  BY <1>1, Ranks
<1>4. \A i, j \in I : rank(i) = rank(j) => i = j
  BY <1>1, Ranks
<1>5. \A k \in 1..c : \E i \in I : rank(i) = k
  <2>1. \A i \in I : rankOf[i] = rank(i)
    OBVIOUS
  <2> DEFINE R == {rankOf[i] : i \in I}
  <2>2. rankOf \in Bijection(I, R)
    <3>1. rankOf \in [I -> R]
      OBVIOUS
    <3>2. \A i, j \in I : rankOf[i] = rankOf[j] => i = j
      BY <1>4, <2>1
    <3> HIDE DEF rankOf
    <3>3. \A k \in R : \E i \in I : rankOf[i] = k
      OBVIOUS
    <3> HIDE DEF R
    <3> QED BY <3>1, <3>2, <3>3 DEF Bijection, Injection, Surjection, IsInjective
  <2>3. \A k \in R : k \in 1..c /\ \E i \in I : rank(i) = k
    BY <1>3, <2>1
  <2> HIDE DEF R, rankOf
  <2>4. IsFiniteSet(R) /\ Cardinality(R) = Cardinality(I)
    <3>1. ExistsBijection(I, R)
      BY <2>2 DEF ExistsBijection
    <3> QED BY <1>2, <3>1, FS_Bijection
  <2>5. IsFiniteSet(1..c) /\ Cardinality(1..c) = c
    <3> HIDE DEF c
    <3>1. c \in Int /\ 1 \in Int
      BY <1>2
    <3>2. IsFiniteSet(1..c) /\ Cardinality(1..c) = IF 1 > c THEN 0 ELSE c - 1 + 1
      BY <3>1, FS_Interval
    <3> QED BY <1>2, <3>2
  <2>6. R = 1..c
    <3>1. R \in SUBSET (1..c) /\ Cardinality(R) = c
      BY <2>3, <2>4
    <3> HIDE DEF c
    <3> QED BY <2>5, <3>1, FS_Subset
  <2> HIDE DEF c
  <2> QED BY <2>3, <2>6
<1> HIDE DEF c
<1>6. LoadSkipping(file) = [k \in 1..c |-> file[CHOOSE i \in I : rank(i) = k].entry]
  BY DEF LoadSkipping, EntriesAt, I, c
<1>7. \A k \in 1..c : (CHOOSE i \in I : rank(i) = k) \in I
  BY <1>5
<1>8. \A k \in 1..c : file[CHOOSE i \in I : rank(i) = k].entry \in S
  BY <1>1, <1>7
<1>9. [k \in 1..c |-> file[CHOOSE i \in I : rank(i) = k].entry] \in Seq(S)
  <2> DEFINE e(k) == file[CHOOSE i \in I : rank(i) = k].entry
  <2>1. c \in Nat /\ \A k \in 1..c : e(k) \in S
    BY <1>2, <1>8
  <2> HIDE DEF e
  <2>2. [k \in 1..c |-> e(k)] \in Seq(S)
    BY <2>1
  <2> QED BY <2>2 DEF e
<1> QED BY <1>6, <1>9

\* Nobody reads.
LEMMA NobodyReads ==
  /\ NoListing \in [at : {"idle", "counted", "listed"}, filter : SUBSET Posts,
                    limit : Nat, count : Nat, posts : Seq(Posts)]
  /\ NoReading \in [at : {"idle", "on", "finished"}, filter : SUBSET Posts,
                    limit : Nat, seen : Seq(Posts), owed : SUBSET Posts]
  /\ CountHolds(NoListing) /\ PagesHold(NoReading)
<1>1. NoListing.at = "idle" /\ NoReading.at = "idle" /\ NoReading.seen = << >>
  BY DEF NoListing, NoReading
<1>2. CountHolds(NoListing)
  BY <1>1 DEF CountHolds
<1>3. PagesHold(NoReading)
  BY <1>1 DEF PagesHold
<1>4. << >> \in Seq(Posts)
  OBVIOUS
<1> QED BY <1>2, <1>3, <1>4 DEF NoListing, NoReading

LEMMA InitList == StoreInit => ListInv
BY NobodyReads DEF StoreInit, ListInv, ListTypeOK

\* A post that is appended.
LEMMA PublishLists ==
  ASSUME ListInv, NEW p \in Posts, Publish(p)
  PROVE  ListInv'
<1>1. order' = Append(order, p) /\ UNCHANGED <<listing, reading>> /\ ListTypeOK
  BY DEF Publish, ListInv
<1>2. ListTypeOK'
  BY <1>1 DEF ListTypeOK
<1>3. order \in Seq(Posts)
  BY <1>1 DEF ListTypeOK
<1>4. ASSUME NEW l \in Listers PROVE CountHolds(listing[l])'
  <2> DEFINE f == listing[l].filter
  <2>1. CountHolds(listing[l]) /\ listing[l].count \in Nat
    BY <1>1 DEF ListInv, ListTypeOK
  <2>2. /\ Len(Filtered(order, f)) \in Nat /\ Len(Filtered(order', f)) \in Nat
        /\ Len(Filtered(order', f)) >= Len(Filtered(order, f))
    BY <1>1, <1>3, FilteredGrows
  <2> QED BY <1>1, <2>1, <2>2 DEF CountHolds, Matching, Clamped
<1>5. ASSUME NEW r \in Readers PROVE PagesHold(reading[r])'
  <2> DEFINE f == reading[r].filter
             n == Len(reading[r].seen)
  <2>1. PagesHold(reading[r]) /\ n \in Nat
    BY <1>1 DEF ListInv, ListTypeOK
  <2>2. /\ Len(Filtered(order, f)) \in Nat /\ Len(Filtered(order', f)) \in Nat
        /\ Len(Filtered(order', f)) >= Len(Filtered(order, f))
        /\ Unread(Filtered(order, f), n) \subseteq Unread(Filtered(order', f), n)
    <3> HIDE DEF f, n
    <3> QED BY <1>1, <1>3, <2>1, FilteredGrows
  <2>3. reading'[r] = reading[r]
    BY <1>1
  <2> QED BY <2>1, <2>2, <2>3 DEF PagesHold, Matching
<1> QED BY <1>2, <1>4, <1>5 DEF ListInv

\* A count or a list that is made.
LEMMA ListingLists ==
  ASSUME ListInv, NEW l \in Listers, CountMatching(l) \/ List(l)
  PROVE  ListInv'
<1> DEFINE Entries == [at : {"idle", "counted", "listed"}, filter : SUBSET Posts,
                       limit : Nat, count : Nat, posts : Seq(Posts)]
<1>1. /\ UNCHANGED <<order, reading>> /\ order \in Seq(Posts)
      /\ listing \in [Listers -> Entries]
  BY DEF CountMatching, List, ListInv, ListTypeOK
<1>2. ASSUME NEW entry \in Entries, listing' = [listing EXCEPT ![l] = entry], CountHolds(entry)
      PROVE  ListInv'
  <2>1. ListTypeOK'
    <3>1. listing' \in [Listers -> Entries]
      BY <1>1, <1>2
    <3> QED BY <1>1, <3>1 DEF ListTypeOK, ListInv
  <2>2. \A m \in Listers : listing'[m] = IF m = l THEN entry ELSE listing[m]
    BY <1>1, <1>2
  <2>3. \A m \in Listers : CountHolds(listing'[m])
    BY <1>2, <2>2 DEF ListInv
  <2>4. \A m \in Listers : CountHolds(listing[m])'
    BY <1>1, <2>3 DEF CountHolds, Matching, Clamped
  <2>5. \A r \in Readers : PagesHold(reading[r])'
    BY <1>1 DEF ListInv, PagesHold, Matching
  <2> QED BY <2>1, <2>4, <2>5 DEF ListInv
<1>3. CASE CountMatching(l)
  <2>1. PICK filter \in Filters, limit \in Limits :
          listing' = [listing EXCEPT ![l] =
                        [at |-> "counted", filter |-> filter, limit |-> limit,
                         count |-> Len(Matching(filter)), posts |-> << >>]]
    BY <1>3 DEF CountMatching
  <2> DEFINE entry == [at |-> "counted", filter |-> filter, limit |-> limit,
                       count |-> Len(Matching(filter)), posts |-> << >>]
  <2>2. Len(Matching(filter)) \in Nat
    BY <1>1, MatchingPosts
  <2>3. entry \in Entries
    <3>1. limit \in Nat /\ filter \in SUBSET Posts /\ << >> \in Seq(Posts)
      BY StoreAssumption
    <3> QED BY <2>2, <3>1
  <2>4. /\ entry.at = "counted" /\ entry.count = Len(Matching(filter))
        /\ entry.filter = filter /\ listing' = [listing EXCEPT ![l] = entry]
    BY <2>1
  <2> HIDE DEF entry, Entries
  <2>5. CountHolds(entry)
    BY <2>2, <2>4 DEF CountHolds
  <2> QED BY <1>2, <2>3, <2>4, <2>5
<1>4. CASE List(l)
  <2> DEFINE filter == listing[l].filter
             limit == listing[l].limit
             page == Page(filter, 0, limit)
             entry == [listing[l] EXCEPT !.at = "listed", !.posts = page]
             m == Len(Matching(filter))
  <2>1. /\ listing[l] \in Entries /\ listing[l].count \in Nat /\ limit \in Nat
        /\ CountHolds(listing[l]) /\ listing[l].at = "counted"
    BY <1>1, <1>4 DEF List, ListInv
  <2>2. m \in Nat /\ listing[l].count <= m /\ Clamped(limit) \in Nat
    <3>1. m \in Nat
      BY <1>1, MatchingPosts
    <3>2. Clamped(limit) \in Nat
      BY <2>1, ClampedIsPositive
    <3> QED BY <2>1, <3>1, <3>2 DEF CountHolds
  <2>3. page \in Seq(Posts) /\ Len(page) = IF m <= Clamped(limit) THEN m ELSE Clamped(limit)
    <3>1. 0 <= m /\ m - 0 = m /\ 0 \in Nat
      BY <2>2
    <3> HIDE DEF filter, limit, m
    <3>2. /\ page \in Seq(Posts)
          /\ Len(page) = IF m - 0 <= Clamped(limit) THEN m - 0 ELSE Clamped(limit)
      BY <1>1, <2>1, <3>1, PageFacts DEF m
    <3> HIDE DEF page
    <3> QED BY <3>1, <3>2
  <2>4. /\ listing' = [listing EXCEPT ![l] = entry] /\ entry \in Entries
        /\ entry.at = "listed" /\ entry.posts = page /\ entry.count = listing[l].count
        /\ entry.limit = limit
    <3>1. listing' = [listing EXCEPT ![l] = entry]
      BY <1>1, <1>4 DEF List
    <3> HIDE DEF page
    <3> QED BY <2>1, <2>3, <3>1
  <2>5. CountHolds(entry)
    <3>1. Min({listing[l].count, Clamped(limit)}) =
            IF listing[l].count <= Clamped(limit) THEN listing[l].count ELSE Clamped(limit)
      BY <2>1, <2>2, SmallerOfTwo
    <3> HIDE DEF entry, page, m, limit, filter
    <3>2. Len(entry.posts) >= Min({entry.count, Clamped(entry.limit)})
      BY <2>1, <2>2, <2>3, <2>4, <3>1
    <3> QED BY <2>4, <3>2 DEF CountHolds
  <2> HIDE DEF entry, Entries
  <2> QED BY <1>2, <2>4, <2>5
<1> QED BY <1>3, <1>4

\* A page that is shown.
LEMMA PagesList ==
  ASSUME ListInv, NEW r \in Readers, FirstPage(r) \/ NextPage(r)
  PROVE  ListInv'
<1> DEFINE Entries == [at : {"idle", "on", "finished"}, filter : SUBSET Posts,
                       limit : Nat, seen : Seq(Posts), owed : SUBSET Posts]
           seen == reading[r].seen
           n == Len(seen)
<1>1. /\ UNCHANGED <<order, listing>> /\ order \in Seq(Posts)
      /\ reading \in [Readers -> Entries] /\ seen \in Seq(Posts) /\ n \in Nat
      /\ PagesHold(reading[r]) /\ reading[r] \in Entries
  <2>1. UNCHANGED <<order, listing>>
    BY DEF FirstPage, NextPage, ReadsPage
  <2> QED BY <2>1 DEF ListInv, ListTypeOK
<1>2. PICK filter, limit, owed :
        /\ limit \in Nat /\ filter \in SUBSET Posts /\ owed \in SUBSET Posts
        /\ ReadsPage(r, filter, limit, owed)
        /\ n <= Len(Matching(filter))
        /\ owed \subseteq ToSet(seen) \cup Unread(Matching(filter), n)
  <2>1. CASE FirstPage(r)
    <3>1. seen = << >> /\ n = 0
      BY <1>1, <2>1 DEF FirstPage, PagesHold
    <3>2. PICK filter \in Filters, limit \in Limits :
            ReadsPage(r, filter, limit, ToSet(Matching(filter)))
      BY <2>1 DEF FirstPage
    <3>3. limit \in Nat /\ filter \in SUBSET Posts
      BY StoreAssumption
    <3>4. Matching(filter) \in Seq(Posts) /\ Len(Matching(filter)) \in Nat
      BY <1>1, MatchingPosts
    <3>5. DOMAIN Matching(filter) = 1 .. (Len(Matching(filter)) - n) /\ n <= Len(Matching(filter))
      BY <3>1, <3>4
    <3>6. /\ ToSet(Matching(filter)) \subseteq Unread(Matching(filter), n)
          /\ ToSet(Matching(filter)) \in SUBSET Posts
      BY <3>4, <3>5 DEF ToSet, Unread
    <3> QED BY <3>2, <3>3, <3>5, <3>6
  <2>2. CASE NextPage(r)
    BY <1>1, <2>2 DEF NextPage, PagesHold
  <2> QED BY <2>1, <2>2
<1> DEFINE F == Matching(filter)
           page == Page(filter, n, limit)
           at == IF Len(page) < Clamped(limit) THEN "finished" ELSE "on"
           all == seen \o page
           entry == [at |-> at, filter |-> filter, limit |-> limit, seen |-> all, owed |-> owed]
<1>3. reading' = [reading EXCEPT ![r] = entry]
  BY <1>2 DEF ReadsPage
<1>4. /\ page \in Seq(Posts)
      /\ Len(page) = IF Len(F) - n <= Clamped(limit) THEN Len(F) - n ELSE Clamped(limit)
      /\ Unread(F, n) \subseteq ToSet(page) \cup Unread(F, n + Len(page))
  <2> HIDE DEF n, F
  <2> QED BY <1>1, <1>2, PageFacts DEF F
<1>5. Len(F) \in Nat /\ Clamped(limit) \in Nat /\ n <= Len(F)
  <2>1. Len(F) \in Nat
    BY <1>1, MatchingPosts
  <2>2. Clamped(limit) \in Nat
    BY <1>2, ClampedIsPositive
  <2> QED BY <1>2, <2>1, <2>2
<1> HIDE DEF F, page
<1>6. /\ all \in Seq(Posts) /\ Len(all) = n + Len(page) /\ ToSet(all) = ToSet(seen) \cup ToSet(page)
  <2>1. seen \in Seq(Posts) /\ page \in Seq(Posts)
    BY <1>1, <1>4
  <2> HIDE DEF seen
  <2> QED BY <2>1, ToSetConcat DEF n
<1> HIDE DEF n, all
<1>7. owed \subseteq ToSet(all) \cup Unread(F, Len(all))
  BY <1>2, <1>4, <1>6 DEF F
<1>8. at = "on" => Len(all) <= Len(F)
  BY <1>1, <1>4, <1>5, <1>6
<1>9. at = "finished" => owed \subseteq ToSet(all)
  <2> SUFFICES ASSUME at = "finished" PROVE Unread(F, Len(all)) = {}
    BY <1>7
  <2>1. Len(page) < Clamped(limit)
    OBVIOUS
  <2>2. Len(F) - Len(all) = 0
    BY <1>1, <1>4, <1>5, <1>6, <2>1
  <2> QED BY <2>2 DEF Unread
<1>10. /\ entry.at = at /\ entry.filter = filter /\ entry.seen = all /\ entry.owed = owed
       /\ entry.at \in {"on", "finished"} /\ entry \in Entries
  BY <1>2, <1>6
<1> HIDE DEF at, entry
<1>11. PagesHold(entry)
  BY <1>7, <1>8, <1>9, <1>10 DEF PagesHold, F
<1> HIDE DEF Entries
<1>12. /\ reading' \in [Readers -> Entries]
       /\ \A q \in Readers : reading'[q] = IF q = r THEN entry ELSE reading[q]
  BY <1>1, <1>3, <1>10
<1>13. ListTypeOK'
  BY <1>1, <1>12 DEF ListTypeOK, ListInv, Entries
<1>14. \A q \in Readers : PagesHold(reading'[q])
  BY <1>11, <1>12 DEF ListInv
<1>15. \A q \in Readers : PagesHold(reading[q])'
  BY <1>1, <1>14 DEF PagesHold, Matching
<1>16. \A l \in Listers : CountHolds(listing[l])'
  BY <1>1 DEF ListInv, CountHolds, Matching, Clamped
<1> QED BY <1>13, <1>15, <1>16 DEF ListInv

\* A new process has no listing under way, and loads posts.
LEMMA RestartLists ==
  ASSUME StoreInv', StoreRestarts
  PROVE  ListInv'
<1>1. /\ order' = LoadStore(storeFile') /\ listing' = [l \in Listers |-> NoListing]
      /\ reading' = [r \in Readers |-> NoReading]
  BY DEF StoreRestarts
<1>2. storeFile' \in Seq([entry : Posts, end : {"line"} \cup Cuts])
  BY DEF StoreInv, StoreTypeOK
<1>3. order' \in Seq(Posts)
  BY <1>1, <1>2, LoadFindsPosts DEF LoadStore
<1>4. NoListing.at = "idle" /\ NoReading.at = "idle" /\ NoReading.seen = << >>
  BY DEF NoListing, NoReading
<1>5. ListTypeOK'
  BY <1>1, <1>3, NobodyReads DEF ListTypeOK
<1>6. \A l \in Listers : CountHolds(listing[l])'
  BY <1>1, <1>4 DEF CountHolds
<1>7. \A r \in Readers : PagesHold(reading[r])'
  BY <1>1, <1>4 DEF PagesHold
<1> QED BY <1>5, <1>6, <1>7 DEF ListInv

\* A listing shows at least as many posts as it counted, up to its limit, and
\* who reads to the end is shown every post that was there when he began, for any
\* number of publications in between (_dispatch_list, list).
THEOREM NoPostIsSkipped == StoreSpec => []ListingsComplete
<1>1. StoreInv /\ ListInv /\ [StoreNext]_storeVars => ListInv'
  <2> SUFFICES ASSUME StoreInv, StoreInv', ListInv, [StoreNext]_storeVars PROVE ListInv'
    BY NextStore
  <2>1. ASSUME UNCHANGED <<order, listing, reading>> PROVE ListInv'
    <3>1. \A filter : Matching(filter)' = Matching(filter)
      BY <2>1 DEF Matching
    <3> QED BY <2>1, <3>1 DEF ListInv, ListTypeOK, CountHolds, PagesHold, Clamped
  <2>2. ASSUME \/ UNCHANGED storeVars
               \/ \E p \in Posts : PublishRefused(p) \/ StoreWrite(p) \/ StoreWriteFails(p)
        PROVE  ListInv'
    BY <2>1, <2>2 DEF storeVars, PublishRefused, StoreWrite, StoreWriteFails
  <2> QED BY <2>2, PublishLists, ListingLists, PagesList, RestartLists DEF StoreNext, OnPublish
<1>2. ListInv => ListingsComplete
  BY DEF ListInv, CountHolds, PagesHold, ListingsComplete
<1> QED BY <1>1, <1>2, InitStore, NextStore, InitList, PTL DEF StoreSpec

----------------------------------------------------------------------------
(* WebBridge: the feed and the directory.                                  *)

FeedLength == IF posted.since < MaxPosts THEN posted.since ELSE MaxPosts

\* The numbers that come after b.
Following(b, k) == [n \in 1..k |-> b + n]

\* The files hold the last posts and all entries that were saved since a cut.
FilesInv ==
  /\ posted \in [all : Nat, since : Nat] /\ posted.since <= posted.all
  /\ added \in [all : Nat, since : Nat] /\ added.since <= added.all
  /\ Load(feed) = Following(posted.all - FeedLength, FeedLength)
  /\ Load(sites) = Following(added.all - added.since, added.since)
  /\ feed.decodes \/ posted.since = 0
  /\ sites.decodes \/ added.since = 0

LEMMA FollowingFacts ==
  ASSUME NEW b \in Nat, NEW k \in Nat
  PROVE  /\ Following(b, k) \in Seq(Nat) /\ Len(Following(b, k)) = k
         /\ \A n \in 1..k : Following(b, k)[n] = b + n
         /\ Append(Following(b, k), b + k + 1) = Following(b, k + 1)
<1>1. /\ Following(b, k) \in Seq(Nat) /\ Len(Following(b, k)) = k
      /\ \A n \in 1..k : Following(b, k)[n] = b + n
  BY DEF Following
<1>2. Append(Following(b, k), b + k + 1) = Following(b, k + 1)
  BY <1>1 DEF Following
<1> QED BY <1>1, <1>2

LEMMA LeastOf ==
  ASSUME NEW a \in Int, NEW b \in Int
  PROVE  /\ Min({a, b}) = IF a <= b THEN a ELSE b
         /\ Max({a, b}) = IF a <= b THEN b ELSE a
BY DEF Min, Max

LEMMA LeastOfThree ==
  ASSUME NEW a \in Int, NEW b \in Int, NEW c \in Int
  PROVE  Min({a, b, c}) = Min({Min({a, b}), c})
<1>1. PICK m \in {a, b, c} : \A x \in {a, b, c} : m <= x
  OBVIOUS
<1>2. Min({a, b, c}) = m
  BY <1>1 DEF Min
<1>3. Min({a, b}) \in Int /\ Min({Min({a, b}), c}) = m
  BY <1>1, LeastOf
<1> QED BY <1>2, <1>3

LEMMA MostOfZero ==
  ASSUME NEW k \in Nat, NEW m \in Nat
  PROVE  Max({0, k + 1 - m}) = IF k + 1 <= m THEN 0 ELSE k + 1 - m
<1>1. 0 \in Int /\ k + 1 - m \in Int
  OBVIOUS
<1>2. Max({0, k + 1 - m}) = IF 0 <= k + 1 - m THEN k + 1 - m ELSE 0
  BY <1>1, LeastOf, Zenon
<1> QED BY <1>2

\* The oldest of k + 1 posts goes when there are too many.
LEMMA TrimmedFollowing ==
  ASSUME NEW b \in Nat, NEW k \in Nat, k <= MaxPosts, MaxPosts \in Nat
  PROVE  Trimmed(Following(b, k + 1)) =
           IF k + 1 <= MaxPosts THEN Following(b, k + 1) ELSE Following(b + 1, k)
<1> DEFINE list == Following(b, k + 1)
           from == Max({0, Len(list) - MaxPosts}) + 1
<1>1. list \in Seq(Nat) /\ Len(list) = k + 1 /\ \A n \in 1..(k + 1) : list[n] = b + n
  <2>1. k + 1 \in Nat
    OBVIOUS
  <2> QED BY <2>1, FollowingFacts
<1>2. from = IF k + 1 <= MaxPosts THEN 1 ELSE 2
  <2>1. from = Max({0, k + 1 - MaxPosts}) + 1
    <3>1. Len(list) = k + 1
      BY <1>1
    <3> HIDE DEF list
    <3> QED BY <3>1
  <2>2. Max({0, k + 1 - MaxPosts}) = IF k + 1 <= MaxPosts THEN 0 ELSE k + 1 - MaxPosts
    BY MostOfZero
  <2> HIDE DEF from
  <2> QED BY <2>1, <2>2
<1>3. Trimmed(list) = SubSeq(list, from, Len(list))
  BY DEF Trimmed
<1> HIDE DEF list, from
<1>4. CASE k + 1 <= MaxPosts
  <2>1. SubSeq(list, from, Len(list)) = list
    BY <1>1, <1>2, <1>4
  <2> QED BY <1>3, <1>4, <2>1 DEF list
<1>5. CASE ~(k + 1 <= MaxPosts)
  <2>1. SubSeq(list, from, Len(list)) = Following(b + 1, k)
    BY <1>1, <1>2, <1>5 DEF Following
  <2> QED BY <1>3, <1>5, <2>1 DEF list
<1> QED BY <1>4, <1>5

\* How many posts are due, of those saved since a save was cut short, and how
\* many are shown of the k that the file holds.
DueOf(since, m, limit) == Min({since, m, Max({1, limit})})
ShownOf(k, m, limit) == Min({k, Max({1, Min({limit, m})})})

LEMMA ShownAreDue ==
  ASSUME NEW since \in Nat, NEW m \in Nat \ {0}, NEW limit \in Nat,
         NEW k \in Nat, k <= since, k <= m, k = since \/ k = m
  PROVE  DueOf(since, m, limit) = ShownOf(k, m, limit) /\ ShownOf(k, m, limit) \in 0..k
<1> DEFINE low   == IF limit <= m THEN limit ELSE m
           high  == IF 1 <= limit THEN limit ELSE 1
           inner == IF 1 <= low THEN low ELSE 1
<1>1. 1 \in Int /\ since \in Int /\ m \in Int /\ limit \in Int /\ k \in Int
  OBVIOUS
<1>2. low \in Int /\ high \in Int /\ inner \in Int
  OBVIOUS
<1>3. Min({limit, m}) = low /\ Max({1, limit}) = high /\ Min({since, m}) = k
  BY <1>1, LeastOf
<1>4. (IF k <= high THEN k ELSE high) = (IF k <= inner THEN k ELSE inner)
  OBVIOUS
<1>5. (IF k <= inner THEN k ELSE inner) \in 0..k
  OBVIOUS
<1>6. inner = IF 1 <= low THEN low ELSE 1
  OBVIOUS
<1> HIDE DEF low, high, inner
<1>7. Max({1, low}) = inner
  BY <1>1, <1>2, <1>6, LeastOf
<1>8. Min({k, inner}) = (IF k <= inner THEN k ELSE inner)
  BY <1>1, <1>2, LeastOf
<1>9. Min({k, high}) = (IF k <= high THEN k ELSE high)
  BY <1>1, <1>2, LeastOf
<1>10. Min({since, m, high}) = Min({Min({since, m}), high})
  BY <1>1, <1>2, LeastOfThree
<1>11. DueOf(since, m, limit) = Min({k, high})
  BY <1>3, <1>10, Zenon DEF DueOf
<1>12. ShownOf(k, m, limit) = Min({k, inner})
  BY <1>3, <1>7, Zenon DEF ShownOf
<1> QED BY <1>4, <1>5, <1>8, <1>9, <1>11, <1>12

\* One more post: the oldest goes when there are too many.
LEMMA PostKept ==
  ASSUME FilesInv, NEW c \in Clients, PostMessage(c)
  PROVE  FilesInv'
<1> DEFINE k == FeedLength
           b == posted.all - FeedLength
           list == Following(b, k + 1)
<1>1. /\ MaxPosts \in Nat \ {0} /\ posted.all \in Nat /\ posted.since \in Nat
      /\ posted.since <= posted.all
  BY BridgeAssumption DEF FilesInv
<1>2. /\ posted' = [all |-> posted.all + 1, since |-> posted.since + 1]
      /\ Load(feed') = Trimmed(Append(Load(feed), posted.all + 1))
      /\ feed'.decodes /\ sites' = sites /\ added' = added
  BY DEF PostMessage, OneMore, Load, Whole
<1>3. /\ k \in Nat /\ b \in Nat /\ b + k + 1 = posted.all + 1
      /\ k <= MaxPosts
  BY <1>1 DEF FeedLength
<1>4. FeedLength' = IF k + 1 <= MaxPosts THEN k + 1 ELSE k
  BY <1>1, <1>2 DEF FeedLength
<1>5. /\ posted' \in [all : Nat, since : Nat] /\ posted'.since <= posted'.all
      /\ posted'.all = posted.all + 1
  BY <1>1, <1>2
<1>6. Append(Load(feed), posted.all + 1) = list
  <2>1. Load(feed) = Following(b, k) /\ Append(Following(b, k), b + k + 1) = list
    BY <1>3, FollowingFacts DEF FilesInv
  <2> QED BY <1>3, <2>1
<1> HIDE DEF k, b
<1>7. Trimmed(list) = IF k + 1 <= MaxPosts THEN list ELSE Following(b + 1, k)
  BY <1>1, <1>3, TrimmedFollowing
<1>8. Load(feed') = Following(posted'.all - FeedLength', FeedLength')
  <2>1. Load(feed') = IF k + 1 <= MaxPosts THEN Following(b, k + 1) ELSE Following(b + 1, k)
    BY <1>2, <1>6, <1>7, Zenon
  <2>2. CASE k + 1 <= MaxPosts
    <3>1. b = posted'.all - FeedLength' /\ k + 1 = FeedLength'
      BY <1>1, <1>3, <1>4, <1>5, <2>2
    <3> QED BY <2>1, <2>2, <3>1
  <2>3. CASE ~(k + 1 <= MaxPosts)
    <3>1. b + 1 = posted'.all - FeedLength' /\ k = FeedLength'
      BY <1>1, <1>3, <1>4, <1>5, <2>3
    <3> QED BY <2>1, <2>3, <3>1
  <2> QED BY <2>2, <2>3
<1> QED BY <1>2, <1>5, <1>8 DEF FilesInv

LEMMA SiteKept ==
  ASSUME FilesInv, NEW c \in Clients, AddSite(c)
  PROVE  FilesInv'
<1> DEFINE k == added.since
           b == added.all - added.since
<1>1. /\ added' = [all |-> added.all + 1, since |-> added.since + 1]
      /\ Load(sites') = Append(Load(sites), added.all + 1)
      /\ sites'.decodes /\ feed' = feed /\ posted' = posted
  BY DEF AddSite, OneMore, Load, Whole
<1>2. /\ added.all \in Nat /\ k \in Nat /\ b \in Nat /\ b + k + 1 = added.all + 1
      /\ k <= added.all
  BY DEF FilesInv
<1>3. /\ added' \in [all : Nat, since : Nat] /\ added'.since <= added'.all
      /\ added'.all - added'.since = b /\ added'.since = k + 1
  <2>1. /\ added'.all = added.all + 1 /\ added'.since = k + 1
        /\ added' = [all |-> added'.all, since |-> added'.since]
    BY <1>1
  <2>2. added.all + 1 \in Nat /\ k + 1 \in Nat /\ k + 1 <= added.all + 1
    BY <1>2
  <2>3. added.all + 1 - (k + 1) = b
    BY <1>2
  <2>4. [all |-> added.all + 1, since |-> added.since + 1] \in [all : Nat, since : Nat]
    BY <2>2
  <2>5. added' \in [all : Nat, since : Nat]
    BY <1>1, <2>4, Zenon
  <2>6. added'.since <= added'.all
    BY <2>1, <2>2
  <2>7. added'.all - added'.since = b
    BY <1>2, <2>1
  <2> QED BY <2>1, <2>5, <2>6, <2>7
<1>4. Append(Following(b, k), b + k + 1) = Following(b, k + 1)
  BY <1>2, FollowingFacts
<1>5. Load(sites') = Following(b, k + 1)
  BY <1>1, <1>2, <1>4 DEF FilesInv
<1>6. FeedLength' = FeedLength /\ Load(feed)' = Load(feed)
  BY <1>1 DEF FeedLength, Load
<1> QED BY <1>1, <1>3, <1>5, <1>6 DEF FilesInv

LEMMA CutKept ==
  ASSUME FilesInv, CutSave
  PROVE  FilesInv'
<1>1. MaxPosts \in Nat \ {0} /\ \A x \in Nat : Following(x, 0) = << >>
  BY BridgeAssumption DEF Following
<1>2. CASE feed' \in {Cut, Mangled} /\ posted' = [posted EXCEPT !.since = 0] /\ UNCHANGED <<sites, added>>
  <2>1. /\ posted' \in [all : Nat, since : Nat] /\ posted'.since = 0 /\ posted'.all \in Nat
    BY <1>2 DEF FilesInv
  <2>2. FeedLength' = 0 /\ Load(feed') = << >>
    BY <1>1, <1>2, <2>1 DEF FeedLength, Load, Cut, Mangled, Whole
  <2>3. posted'.all - 0 = posted'.all
    BY <2>1
  <2> QED BY <1>1, <1>2, <2>1, <2>2, <2>3 DEF FilesInv
<1>3. CASE sites' \in {Cut, Mangled} /\ added' = [added EXCEPT !.since = 0] /\ UNCHANGED <<feed, posted>>
  <2>1. /\ added' \in [all : Nat, since : Nat] /\ added'.since = 0 /\ added'.all \in Nat
    BY <1>3 DEF FilesInv
  <2>2. FeedLength' = FeedLength /\ Load(sites') = << >>
    BY <1>3 DEF FeedLength, Load, Cut, Mangled, Whole
  <2>3. added'.all - 0 = added'.all
    BY <2>1
  <2> QED BY <1>1, <1>3, <2>1, <2>2, <2>3 DEF FilesInv
<1> QED BY <1>2, <1>3 DEF CutSave

\* The feed shows the newest posts, newest first, and the directory all entries
\* that were saved since a save was cut short, for any number of posts; a file
\* that does not decode has taken none since.
THEOREM LatestIsShown == BridgeSpec => []FeedIsLatest
<1>1. BridgeInit => FilesInv
  BY BridgeAssumption DEF BridgeInit, FilesInv, Following, FeedLength, Load, Whole, NoneYet
<1>2. FilesInv /\ [BridgeNext]_bridgeVars => FilesInv'
  <2>1. ASSUME FilesInv, UNCHANGED <<feed, sites, posted, added>> PROVE FilesInv'
    BY <2>1 DEF FilesInv, FeedLength
  <2>2. ASSUME FilesInv,
               \/ UNCHANGED bridgeVars \/ TimePasses
               \/ \E c \in Clients : Refuse(c) \/ PostElsewhere(c) \/ PostUnread(c)
        PROVE  FilesInv'
    <3>1. UNCHANGED <<feed, sites, posted, added>>
      BY <2>2 DEF bridgeVars, TimePasses, Refuse, PostElsewhere, PostUnread
    <3> QED BY <2>1, <2>2, <3>1
  <2>3. ASSUME FilesInv, BridgeRestarts PROVE FilesInv'
    BY <2>1, <2>3, CutKept DEF BridgeRestarts
  <2> QED BY <2>2, <2>3, PostKept, SiteKept, CutKept DEF BridgeNext, SaveFails
<1>3. FilesInv => FeedIsLatest
  <2> SUFFICES ASSUME FilesInv, NEW limit \in 0..(MaxPosts + 1)
               PROVE  PostsShown(limit) =
                        [n \in 1..Min({posted.since, MaxPosts, Max({1, limit})}) |->
                           posted.all + 1 - n]
    BY DEF FeedIsLatest, FilesInv, Following
  <2> DEFINE k == FeedLength
             b == posted.all - FeedLength
             newest == Reverse(Load(feed))
             length == Min({k, Max({1, Min({limit, MaxPosts})})})
  <2>1. /\ MaxPosts \in Nat \ {0} /\ limit \in Nat /\ posted.all \in Nat
        /\ posted.since \in Nat /\ posted.since <= posted.all
    BY BridgeAssumption DEF FilesInv
  <2>2. /\ k \in Nat /\ b \in Nat /\ b + k = posted.all
        /\ k = IF posted.since < MaxPosts THEN posted.since ELSE MaxPosts
    BY <2>1 DEF FeedLength
  <2> HIDE DEF k
  <2>3. Min({posted.since, MaxPosts, Max({1, limit})}) = length /\ length \in 0..k
    <3>1. DueOf(posted.since, MaxPosts, limit) = ShownOf(k, MaxPosts, limit)
          /\ ShownOf(k, MaxPosts, limit) \in 0..k
      <4>1. /\ k \in Nat /\ k <= posted.since /\ k <= MaxPosts
            /\ (k = posted.since \/ k = MaxPosts)
        BY <2>1, <2>2
      <4> QED BY <2>1, <4>1, ShownAreDue
    <3> QED BY <3>1, Zenon DEF DueOf, ShownOf
  <2>4. length \in Nat /\ length <= k
    BY <2>2, <2>3
  <2> HIDE DEF length
  <2>5. Load(feed) \in Seq(Nat) /\ Len(Load(feed)) = k /\ \A n \in 1..k : Load(feed)[n] = b + n
    <3>1. Load(feed) = Following(b, k)
      BY DEF FilesInv, k
    <3> HIDE DEF b
    <3>2. /\ Following(b, k) \in Seq(Nat) /\ Len(Following(b, k)) = k
          /\ \A n \in 1..k : Following(b, k)[n] = b + n
      BY <2>2, FollowingFacts
    <3> QED BY <3>1, <3>2, Zenon
  <2>6. /\ Len(newest) = k /\ newest \in Seq(Nat)
        /\ \A n \in 1..k : newest[n] = posted.all + 1 - n
    <3>1. newest = [n \in 1..k |-> Load(feed)[(k - n) + 1]]
      BY <2>5 DEF Reverse
    <3> HIDE DEF b, newest
    <3>2. \A n \in 1..k : (k - n) + 1 \in 1..k /\ b + ((k - n) + 1) = posted.all + 1 - n
      BY <2>1, <2>2
    <3>3. \A n \in 1..k : newest[n] = posted.all + 1 - n /\ newest[n] \in Nat
      <4> TAKE n \in 1..k
      <4>1. newest[n] = Load(feed)[(k - n) + 1] /\ (k - n) + 1 \in 1..k
        BY <3>1, <3>2
      <4>2. newest[n] = b + ((k - n) + 1)
        BY <2>5, <4>1
      <4> QED BY <2>1, <2>2, <3>2, <4>2
    <3>4. newest \in [1..k -> Nat]
      BY <3>1, <3>3
    <3>5. newest \in Seq(Nat) /\ Len(newest) = k
      <4>1. k \in Nat
        BY <2>2
      <4> QED BY <3>4, <4>1
    <3> QED BY <3>3, <3>5, Zenon
  <2>7. PostsShown(limit) = SubSeq(newest, 1, length)
    BY <2>6 DEF PostsShown, length
  <2> HIDE DEF k, b, newest, length
  <2>8. SubSeq(newest, 1, length) = [n \in 1..length |-> posted.all + 1 - n]
    BY <2>1, <2>2, <2>4, <2>6
  <2> QED BY <2>3, <2>7, <2>8
<1> QED BY <1>1, <1>2, <1>3, PTL DEF BridgeSpec

----------------------------------------------------------------------------
(* WebBridge: the rate limit holds at every instant.                       *)

\* The POSTs of c that a window ending at end counts.
InWindow(c, end) ==
  {n \in DOMAIN admitted[c] : admitted[c][n] <= end /\ admitted[c][n] + Window > end}

RateTypeOK ==
  /\ time \in Nat
  /\ admitted \in [Clients -> Seq(Nat)]
  /\ buckets \in [Clients -> SUBSET Nat]
  /\ \A c \in Clients : buckets[c] \subseteq 1..Len(admitted[c])

\* What a bucket no longer holds is out of the window for good.
BucketInv ==
  \A c \in Clients : \A n \in 1..Len(admitted[c]) :
    /\ admitted[c][n] <= time
    /\ n \in buckets[c] \/ admitted[c][n] + Window <= time

RateInv == RateTypeOK /\ BucketInv /\ RateBounded

\* What a bucket holds, and what is left of it, is finite.
LEMMA BucketsFinite ==
  ASSUME RateTypeOK, NEW c \in Clients
  PROVE  /\ IsFiniteSet(Pruned(c)) /\ Cardinality(Pruned(c)) \in Nat
         /\ Pruned(c) \in SUBSET (1..Len(admitted[c])) /\ Len(admitted[c]) \in Nat
<1>1. Pruned(c) \in SUBSET (1..Len(admitted[c])) /\ Len(admitted[c]) \in Nat
  BY DEF RateTypeOK, Pruned
<1> QED BY <1>1, FinitePlaces

\* Of no POST none is counted.
LEMMA NoneCounted ==
  ASSUME NEW P, P = {}, NEW A, NEW end
  PROVE  Cardinality({n \in P : A[n] <= end /\ A[n] + Window > end}) <= MaxRate
<1>1. {n \in P : A[n] <= end /\ A[n] + Window > end} = {}
  OBVIOUS
<1>2. Cardinality({}) = 0
  BY FS_EmptySet
<1>3. 0 <= MaxRate
  BY BridgeAssumption
<1> QED BY <1>1, <1>2, <1>3

\* Another POST: whoever counts it counts it with what the bucket has left.
LEMMA AdmitKeepsRate ==
  ASSUME RateInv, NEW c \in Clients, Admit(c), time' = time
  PROVE  RateInv'
<1> DEFINE m == Len(admitted[c])
<1>0. /\ Window \in Nat \ {0} /\ MaxRate \in Nat \ {0} /\ MaxTime \in Nat
      /\ RateTypeOK /\ BucketInv /\ RateBounded
  BY BridgeAssumption DEF RateInv
<1>1. /\ IsFiniteSet(Pruned(c)) /\ Cardinality(Pruned(c)) \in Nat
      /\ Pruned(c) \in SUBSET (1..m) /\ m \in Nat
  BY <1>0, BucketsFinite
<1>2. Cardinality(Pruned(c)) < MaxRate
  BY DEF Admit, Within
<1>3. /\ admitted' = [admitted EXCEPT ![c] = Append(@, time)]
      /\ buckets' = [buckets EXCEPT ![c] = Pruned(c) \cup {m + 1}]
  BY DEF Admit
<1>4. /\ admitted'[c] \in Seq(Nat) /\ Len(admitted'[c]) = m + 1
      /\ \A n \in 1..m : admitted'[c][n] = admitted[c][n]
      /\ admitted'[c][m + 1] = time
  BY <1>0, <1>1, <1>3 DEF RateTypeOK
<1>5. \A d \in Clients : d # c => admitted'[d] = admitted[d] /\ buckets'[d] = buckets[d]
  BY <1>0, <1>3 DEF RateTypeOK
<1>6. buckets'[c] = Pruned(c) \cup {m + 1}
  BY <1>0, <1>3 DEF RateTypeOK
<1>7. RateTypeOK'
  <2>1. admitted' \in [Clients -> Seq(Nat)]
    BY <1>0, <1>3, <1>4 DEF RateTypeOK
  <2>2. buckets' \in [Clients -> SUBSET Nat]
    BY <1>0, <1>1, <1>3 DEF RateTypeOK
  <2>3. ASSUME NEW d \in Clients PROVE buckets'[d] \subseteq 1..Len(admitted'[d])
    <3>1. CASE d # c
      BY <1>0, <1>5, <3>1 DEF RateTypeOK
    <3>2. CASE d = c
      <4>1. Pruned(c) \cup {m + 1} \subseteq 1..(m + 1)
        BY <1>1
      <4> QED BY <1>4, <1>6, <3>2, <4>1
    <3> QED BY <3>1, <3>2
  <2> QED BY <1>0, <2>1, <2>2, <2>3 DEF RateTypeOK
<1>8. BucketInv'
  <2>1. ASSUME NEW n \in 1..(m + 1)
        PROVE  /\ admitted'[c][n] <= time
               /\ n \in buckets'[c] \/ admitted'[c][n] + Window <= time
    <3>1. CASE n = m + 1
      BY <1>0, <1>4, <1>6, <3>1 DEF RateTypeOK
    <3>2. CASE n \in 1..m
      <4>1. admitted'[c][n] = admitted[c][n] /\ admitted[c][n] \in Nat
        BY <1>0, <1>4, <3>2 DEF RateTypeOK
      <4>2. admitted[c][n] <= time /\ (n \in buckets[c] \/ admitted[c][n] + Window <= time)
        BY <1>0, <3>2 DEF BucketInv
      <4>3. time \in Nat /\ admitted[c][n] + Window \in Nat
        BY <1>0, <4>1 DEF RateTypeOK
      <4>4. n \in Pruned(c) <=> n \in buckets[c] /\ ~(admitted[c][n] + Window <= time)
        BY <4>3 DEF Pruned
      <4>5. n \in Pruned(c) => n \in buckets'[c]
        BY <1>6
      <4> QED BY <4>1, <4>2, <4>4, <4>5
    <3> QED BY <1>1, <3>1, <3>2
  <2> QED BY <1>0, <1>4, <1>5, <2>1 DEF BucketInv
<1>9. ASSUME NEW end \in 0..MaxTime PROVE Cardinality(InWindow(c, end)') <= MaxRate
  <2>1. InWindow(c, end)' = {n \in 1..(m + 1) : admitted'[c][n] <= end
                                             /\ admitted'[c][n] + Window > end}
    BY <1>4 DEF InWindow
  <2>2. CASE end < time
    <3>1. InWindow(c, end)' = InWindow(c, end)
      <4>1. InWindow(c, end) = {n \in 1..m : admitted[c][n] <= end /\ admitted[c][n] + Window > end}
        BY <1>0 DEF InWindow, RateTypeOK
      <4>2. ~(admitted'[c][m + 1] <= end)
        BY <1>0, <1>4, <2>2 DEF RateTypeOK
      <4>3. ASSUME NEW n \in 1..(m + 1), admitted'[c][n] <= end
            PROVE  n \in 1..m
        <5>1. n # m + 1
          BY <4>2, <4>3
        <5> QED BY <1>1, <5>1
      <4>4. InWindow(c, end)' = {n \in 1..m : admitted'[c][n] <= end
                                            /\ admitted'[c][n] + Window > end}
        <5>1. 1..m \subseteq 1..(m + 1)
          BY <1>1
        <5> QED BY <2>1, <4>3, <5>1, Zenon
      <4> QED BY <1>4, <4>1, <4>4
    <3> QED BY <1>0, <3>1 DEF RateBounded, InWindow
  <2>3. CASE ~(end < time)
    <3>1. InWindow(c, end)' \subseteq Pruned(c) \cup {m + 1}
      <4> SUFFICES ASSUME NEW n \in 1..m, admitted'[c][n] + Window > end PROVE n \in Pruned(c)
        BY <1>1, <2>1
      <4>1. admitted[c][n] + Window > time /\ n \in buckets[c]
        <5>1. admitted'[c][n] = admitted[c][n] /\ admitted[c][n] \in Nat /\ time \in Nat
          <6>1. admitted[c] \in Seq(Nat) /\ time \in Nat
            BY <1>0 DEF RateTypeOK
          <6>2. admitted'[c][n] = admitted[c][n]
            BY <1>4
          <6> QED BY <6>1, <6>2
        <5>2. n \in buckets[c] \/ admitted[c][n] + Window <= time
          BY <1>0 DEF BucketInv
        <5> QED BY <1>0, <2>3, <5>1, <5>2
      <4> QED BY <4>1 DEF Pruned
    <3>2. /\ IsFiniteSet(Pruned(c) \cup {m + 1})
          /\ Cardinality(Pruned(c) \cup {m + 1}) = Cardinality(Pruned(c)) + 1
      <4>1. m + 1 \notin Pruned(c)
        BY <1>1
      <4> QED BY <1>1, <4>1, FS_AddElement
    <3>3. Cardinality(InWindow(c, end)') <= Cardinality(Pruned(c) \cup {m + 1})
          /\ Cardinality(InWindow(c, end)') \in Nat
      BY <3>1, <3>2, FS_Subset, FS_CardinalityType
    <3> QED BY <1>0, <1>1, <1>2, <3>2, <3>3
  <2> QED BY <2>2, <2>3
<1>10. RateBounded'
  <2> SUFFICES ASSUME NEW d \in Clients, NEW end \in 0..MaxTime
               PROVE  Cardinality(InWindow(d, end)') <= MaxRate
    BY DEF RateBounded, InWindow
  <2>1. CASE d = c
    BY <1>9, <2>1
  <2>2. CASE d # c
    BY <1>0, <1>5, <2>2 DEF RateBounded, InWindow
  <2> QED BY <2>1, <2>2
<1> QED BY <1>7, <1>8, <1>10 DEF RateInv

\* No client gets more than MaxRate POSTs through in any Window seconds, however
\* its requests lie and whatever becomes of them.
THEOREM RateIsBounded == BridgeSpec => []RateBounded
<1>1. BridgeInit => RateInv
  <2> SUFFICES ASSUME BridgeInit PROVE RateInv OBVIOUS
  <2>1. /\ time = 0 /\ buckets = [c \in Clients |-> {}]
        /\ admitted = [c \in Clients |-> << >>]
    BY DEF BridgeInit
  <2>2. RateTypeOK /\ BucketInv
    BY <2>1 DEF RateTypeOK, BucketInv
  <2>3. \A c \in Clients : DOMAIN admitted[c] = {}
    BY <2>1
  <2> QED BY <2>2, <2>3, NoneCounted DEF RateInv, RateBounded
<1>2. RateInv /\ [BridgeNext]_bridgeVars => RateInv'
  <2> SUFFICES ASSUME RateInv, [BridgeNext]_bridgeVars PROVE RateInv'
    OBVIOUS
  <2>0. RateTypeOK /\ BucketInv /\ RateBounded /\ Window \in Nat \ {0}
    BY BridgeAssumption DEF RateInv
  <2>1. CASE UNCHANGED bridgeVars
    BY <2>1 DEF bridgeVars, RateInv, RateTypeOK, BucketInv, RateBounded
  <2>2. CASE TimePasses
    <3>1. time' = time + 1 /\ UNCHANGED <<admitted, buckets>>
      BY <2>2 DEF TimePasses
    <3>2. BucketInv'
      <4> SUFFICES ASSUME NEW c \in Clients, NEW n \in 1..Len(admitted[c])
                   PROVE  /\ admitted[c][n] <= time + 1
                          /\ n \in buckets[c] \/ admitted[c][n] + Window <= time + 1
        BY <3>1 DEF BucketInv
      <4>1. admitted[c][n] \in Nat /\ time \in Nat
        BY <2>0 DEF RateTypeOK
      <4> QED BY <2>0, <4>1 DEF BucketInv
    <3> QED BY <2>0, <3>1, <3>2 DEF RateInv, RateTypeOK, RateBounded
  <2>3. ASSUME NEW c \in Clients, Refuse(c) PROVE RateInv'
    <3>1. buckets' = [buckets EXCEPT ![c] = Pruned(c)] /\ UNCHANGED <<time, admitted>>
      BY <2>3 DEF Refuse
    <3>2. Pruned(c) \in SUBSET (1..Len(admitted[c])) /\ Len(admitted[c]) \in Nat
      BY <2>0, BucketsFinite
    <3>3. RateTypeOK'
      BY <2>0, <3>1, <3>2 DEF RateTypeOK
    <3>4. BucketInv'
      <4> SUFFICES ASSUME NEW d \in Clients, NEW n \in 1..Len(admitted[d])
                   PROVE  n \in buckets'[d] \/ admitted[d][n] + Window <= time
        BY <2>0, <3>1 DEF BucketInv
      <4>1. CASE d # c
        BY <2>0, <3>1, <4>1 DEF BucketInv, RateTypeOK
      <4>2. CASE d = c
        <5>1. buckets'[c] = Pruned(c) /\ admitted[c][n] \in Nat /\ time \in Nat
          BY <2>0, <3>1, <4>2 DEF RateTypeOK
        <5> QED BY <2>0, <4>2, <5>1 DEF BucketInv, Pruned
      <4> QED BY <4>1, <4>2
    <3> QED BY <2>0, <3>1, <3>3, <3>4 DEF RateInv, RateBounded
  <2>4. ASSUME NEW c \in Clients,
               \/ PostElsewhere(c) \/ PostMessage(c) \/ AddSite(c)
               \/ PostUnread(c) \/ SaveFails(c)
        PROVE  RateInv'
    <3>1. Admit(c) /\ time' = time
      BY <2>4 DEF PostElsewhere, PostMessage, AddSite, PostUnread, SaveFails
    <3> QED BY <3>1, AdmitKeepsRate
  <2>5. CASE BridgeRestarts
    <3>1. /\ time' = time /\ buckets' = [c \in Clients |-> {}]
          /\ admitted' = [c \in Clients |-> << >>]
      BY <2>5 DEF BridgeRestarts
    <3>2. time' \in Nat
      BY <2>0, <3>1 DEF RateTypeOK
    <3>3. RateTypeOK' /\ BucketInv'
      BY <3>1, <3>2 DEF RateTypeOK, BucketInv
    <3>4. \A c \in Clients : DOMAIN admitted'[c] = {}
      BY <3>1
    <3> QED BY <3>3, <3>4, NoneCounted DEF RateInv, RateBounded
  <2> QED BY <2>1, <2>2, <2>3, <2>4, <2>5 DEF BridgeNext
<1>3. RateInv => RateBounded
  BY DEF RateInv
<1> QED BY <1>1, <1>2, <1>3, PTL DEF BridgeSpec
=============================================================================
