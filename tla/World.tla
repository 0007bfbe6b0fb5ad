-------------------------------- MODULE World --------------------------------
(***************************************************************************)
(* The AIM World once it is launched: the tasks of the governor, the       *)
(* protector and the builder (city/governor.py, protector.py, builder.py)  *)
(* and the calls of the IntegrityGuard, over the registry and the ledger   *)
(* they share.  Each keeps tables of its own beside the ledger.  The tasks *)
(* are coroutines that never wait, so that a task is one step.  The tables *)
(* begin empty at a launch; the ledger begins with what its file holds.    *)
(***************************************************************************)
EXTENDS Naturals, Sequences, FiniteSets

CONSTANTS Staff,     \* the node_ids of the launched bots
          Newcomers, \* the ids that requests name
          Governor, Protector,
          Snapshots, \* the labels given to the guard's verify()
          EarlierEntries, MaxEarlier, \* what CityConfig.ledger_path holds
          MaxEntries

ASSUME WorldAssumption ==
  /\ {Governor, Protector} \subseteq Staff
  /\ Staff \cap Newcomers = {}
  \* The ids are UUIDs.
  /\ Staff \cap ({"registry", "ledger"} \cup Snapshots) = {}
  /\ IsFiniteSet(Staff) /\ MaxEarlier \in Nat /\ MaxEntries \in Nat

VARIABLES
  bots,         \* the governor's _world_bots
  citizens,     \* its _entities
  policies, alerts, \* how many it has
  nodeRegistry, \* the shared registry: node_id to creator
  blacklist,
  threats,      \* the protector's _threat_log
  built,        \* the builder's _build_log
  history,      \* the shared ledger
  loaded        \* how many of its entries are of earlier launches

worldVars ==
  <<bots, citizens, policies, alerts, nodeRegistry, blacklist, threats, built,
    history, loaded>>

Creators == {"origin", "foreign", "none"}
Event(kind, id) == [kind |-> kind, id |-> id]

\* The entries the constructors make, in some order, for ids in rest.
Deployments(rest) ==
  {log \in [1 .. Cardinality(rest) -> {Event("bot_deployed", b) : b \in rest}] :
     \A b \in rest : \E n \in DOMAIN log : log[n].id = b}

\* What the constructors of the bots with tables leave in them.
GovernorMade  == citizens = {} /\ policies = 0 /\ alerts = 0
ProtectorMade == blacklist = {} /\ threats = << >>
BuilderMade   == built = << >>

\* What LegacyLedger can load.
Earlier == UNION {[1 .. n -> EarlierEntries] : n \in 0 .. MaxEarlier}

\* launch(): the ledger is loaded, the bots are made, each of which records its
\* deployment, and get into the registry and into the governor's table.
WorldInit ==
  /\ GovernorMade /\ ProtectorMade /\ BuilderMade
  /\ \E log \in Earlier :
       /\ loaded = Len(log)
       /\ history = log \o (CHOOSE made \in Deployments(Staff) : TRUE)
  /\ bots = Staff
  /\ nodeRegistry = [n \in Staff \cup Newcomers |->
                       IF n \in Staff THEN "origin" ELSE "none"]

Records(kind, id) ==
  /\ Len(history) < loaded + Cardinality(Staff) + MaxEntries
  /\ history' = Append(history, Event(kind, id))
  /\ UNCHANGED loaded

NotGovernors  == UNCHANGED <<nodeRegistry, blacklist, threats, built>>
NotProtectors == UNCHANGED <<bots, citizens, policies, alerts, nodeRegistry, built>>

----------------------------------------------------------------------------
(* The governor.                                                           *)

IssuePolicy ==
  /\ policies' = policies + 1
  /\ Records("policy_issued", Governor)
  /\ UNCHANGED <<bots, citizens, alerts>> /\ NotGovernors

RaiseAlert ==
  /\ alerts' = alerts + 1
  /\ Records("alert_raised", Governor)
  /\ UNCHANGED <<bots, citizens, policies>> /\ NotGovernors

\* A second registration of an id replaces the first.
RegisterBot(n) ==
  /\ bots' = bots \cup {n}
  /\ Records("bot_deployed", n)
  /\ UNCHANGED <<citizens, policies, alerts>> /\ NotGovernors

CitizenJoin(n) ==
  /\ citizens' = citizens \cup {n}
  /\ Records("citizen_joined", n)
  /\ UNCHANGED <<bots, policies, alerts>> /\ NotGovernors

\* Leaving without a word to the ledger.
LeaveUnrecorded(n) ==
  /\ citizens' = citizens \ {n}
  /\ UNCHANGED <<bots, policies, alerts, history, loaded>> /\ NotGovernors

\* Whether or not n had joined.
CitizenLeave(n) ==
  /\ citizens' = citizens \ {n}
  /\ Records("citizen_left", n)
  /\ UNCHANGED <<bots, policies, alerts>> /\ NotGovernors

----------------------------------------------------------------------------
(* The protector.                                                          *)

Foreign == {n \in DOMAIN nodeRegistry : nodeRegistry[n] = "foreign"}
Verdict == IF Foreign = {} THEN "audit_passed" ELSE "audit_failed"

\* One threat for each record that another creator signed.
AuditRegistry ==
  /\ \E found \in [1 .. Cardinality(Foreign) -> Foreign] :
       /\ \A n \in Foreign : \E k \in DOMAIN found : found[k] = n
       /\ threats' = threats \o [k \in DOMAIN found |->
                                   Event("invalid_creator", found[k])]
  /\ Records(Verdict, Protector)
  /\ UNCHANGED blacklist /\ NotProtectors

BlacklistNode(n) ==
  /\ blacklist' = blacklist \cup {n}
  /\ threats' = Append(threats, Event("blacklisted", n))
  /\ Records("threat_detected", n)
  /\ NotProtectors

CheckSignature(valid) ==
  /\ threats' = IF valid THEN threats
                ELSE Append(threats, Event("signature_mismatch", Protector))
  /\ Records(IF valid THEN "integrity_verified" ELSE "integrity_violated",
             Protector)
  /\ UNCHANGED blacklist /\ NotProtectors

----------------------------------------------------------------------------
(* The builder, the guard, and others that use the registry.               *)

BuildNode(n) ==
  /\ nodeRegistry' = [nodeRegistry EXCEPT ![n] = "origin"]
  /\ built' = Append(built, n)
  /\ Records("build_completed", n)
  /\ UNCHANGED <<bots, citizens, policies, alerts, blacklist, threats>>

\* audit_registry() and audit_ledger() change the ledger alone; its entries
\* all carry the origin creator.
GuardAuditsRegistry ==
  /\ Records(Verdict, "registry")
  /\ UNCHANGED <<bots, citizens, policies, alerts>> /\ NotGovernors

GuardAuditsLedger ==
  /\ Records("audit_passed", "ledger")
  /\ UNCHANGED <<bots, citizens, policies, alerts>> /\ NotGovernors

\* verify() of a label that has a snapshot; its violations are a list of the
\* guard's own.
GuardVerifies(label, matches) ==
  /\ Records(IF matches THEN "integrity_verified" ELSE "integrity_violated",
             label)
  /\ UNCHANGED <<bots, citizens, policies, alerts>> /\ NotGovernors

\* NodeRegistry.register() takes a record of any creator.
RegisterNode(n, creator) ==
  /\ nodeRegistry' = [nodeRegistry EXCEPT ![n] = creator]
  /\ UNCHANGED <<bots, citizens, policies, alerts, blacklist, threats, built,
                 history, loaded>>

WorldNext ==
  \/ IssuePolicy \/ RaiseAlert \/ AuditRegistry
  \/ GuardAuditsRegistry \/ GuardAuditsLedger
  \/ \E valid \in BOOLEAN : CheckSignature(valid)
  \/ \E label \in Snapshots, matches \in BOOLEAN : GuardVerifies(label, matches)
  \/ \E n \in Newcomers :
       \/ RegisterBot(n) \/ CitizenJoin(n) \/ CitizenLeave(n)
       \/ BlacklistNode(n) \/ BuildNode(n)
       \/ \E creator \in {"origin", "foreign"} : RegisterNode(n, creator)

WorldSpec == WorldInit /\ [][WorldNext]_worldVars

----------------------------------------------------------------------------
\* The entries of this launch.
Positions(kind) ==
  {i \in DOMAIN history : i > loaded /\ history[i].kind = kind}
PositionsOf(kind, id) == {i \in Positions(kind) : history[i].id = id}
Ids(kind)           == {history[i].id : i \in Positions(kind)}
ThreatCount(kind)   == Cardinality({i \in DOMAIN threats : threats[i].kind = kind})

\* n joined after it last left, if it ever did.
Joined(n) ==
  \E i \in Positions("citizen_joined") :
    /\ history[i].id = n
    /\ \A j \in Positions("citizen_left") : history[j].id = n => j < i

\* The tables of the governor, the protector and the builder can be told from
\* what this launch has added to the ledger they share, whatever their requests
\* and their order, whatever earlier launches left in it and whatever the guard
\* writes: who is deployed, who has joined and not left, how many policies,
\* alerts, builds and refused signatures there were, and who is blacklisted;
\* and the protector knows of a foreign record exactly if one of its audits
\* failed.
LedgerReplays ==
  /\ bots = Ids("bot_deployed")
  /\ citizens = {n \in Newcomers : Joined(n)}
  /\ policies = Cardinality(Positions("policy_issued"))
  /\ alerts = Cardinality(Positions("alert_raised"))
  /\ blacklist = Ids("threat_detected")
  /\ Len(built) = Cardinality(Positions("build_completed"))
  /\ ThreatCount("signature_mismatch") =
       Cardinality(PositionsOf("integrity_violated", Protector))
  /\ ThreatCount("invalid_creator") > 0 <=>
       PositionsOf("audit_failed", Protector) # {}
=============================================================================
