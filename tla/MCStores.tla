------------------------------- MODULE MCStores -------------------------------
(***************************************************************************)
(* The instance for TLC of the components that keep data in memory or in   *)
(* files.  They hold no variable in common, so that a behaviour exercises  *)
(* one of them while the others rest.                                      *)
(***************************************************************************)
EXTENDS ContentLedger, ContentStore, VCloud, Names, Builder, WebBridge,
        BrainSessions, World, IntegrityGuard, Launcher, AgentMemory

VARIABLE busy  \* the component that a behaviour exercises

CONSTANTS p1, p2, p3, s1, s2, u1, u2, n1, former

MCFilters == {{p1, p2}}

MCKind == [r \in Resources |->
             CASE r = s1 -> "connection" [] r = s2 -> "vserver"
               [] r = u1 -> "vcpu"    [] r = u2 -> "vcloud"]

\* Servers with ids of their own.
MCNodeIdOf == [s \in Servers |-> s]

\* One name, registered again and again.
MCNameOf == [r \in Registrations |-> "a"]

\* From a launch with another fleet and the same clients.
MCEarlier ==
  {Event("bot_deployed", former), Event("citizen_joined", n1),
   Event("threat_detected", n1)}

MCFleet == <<"governor", "protector", "builder">>

Init ==
  /\ busy \in {"ledger", "content", "cloud", "names", "builder",
               "web", "session", "world", "guard", "launcher",
               "memory"}
  /\ LedgerInit /\ StoreInit /\ CloudInit /\ NamesInit /\ BuilderInit
  /\ BridgeInit /\ SessionInit /\ WorldInit /\ GuardInit /\ LauncherInit
  /\ MemoryInit
  /\ busy # "world" => loaded = 0

Next ==
  /\ UNCHANGED busy
  /\ \/ /\ busy = "ledger" /\ LedgerNext
        /\ UNCHANGED <<storeVars, cloudVars, nameVars, builderVars, bridgeVars,
                       sessionVars, worldVars, guardVars, launcherVars, memoryVars>>
     \/ /\ busy = "content" /\ StoreNext
        /\ UNCHANGED <<ledgerVars, cloudVars, nameVars, builderVars, bridgeVars,
                       sessionVars, worldVars, guardVars, launcherVars, memoryVars>>
     \/ /\ busy = "cloud" /\ CloudNext
        /\ UNCHANGED <<ledgerVars, storeVars, nameVars, builderVars, bridgeVars,
                       sessionVars, worldVars, guardVars, launcherVars, memoryVars>>
     \/ /\ busy = "names" /\ NamesNext
        /\ UNCHANGED <<ledgerVars, storeVars, cloudVars, builderVars, bridgeVars,
                       sessionVars, worldVars, guardVars, launcherVars, memoryVars>>
     \/ /\ busy = "builder" /\ BuilderNext
        /\ UNCHANGED <<ledgerVars, storeVars, cloudVars, nameVars, bridgeVars,
                       sessionVars, worldVars, guardVars, launcherVars, memoryVars>>
     \/ /\ busy = "web" /\ BridgeNext
        /\ UNCHANGED <<ledgerVars, storeVars, cloudVars, nameVars, builderVars,
                       sessionVars, worldVars, guardVars, launcherVars, memoryVars>>
     \/ /\ busy = "session" /\ SessionNext
        /\ UNCHANGED <<ledgerVars, storeVars, cloudVars, nameVars, builderVars,
                       bridgeVars, worldVars, guardVars, launcherVars, memoryVars>>
     \/ /\ busy = "world" /\ WorldNext
        /\ UNCHANGED <<ledgerVars, storeVars, cloudVars, nameVars, builderVars,
                       bridgeVars, sessionVars, guardVars, launcherVars, memoryVars>>
     \/ /\ busy = "guard" /\ GuardNext
        /\ UNCHANGED <<ledgerVars, storeVars, cloudVars, nameVars, builderVars,
                       bridgeVars, sessionVars, worldVars, launcherVars, memoryVars>>
     \/ /\ busy = "launcher" /\ LauncherNext
        /\ UNCHANGED <<ledgerVars, storeVars, cloudVars, nameVars, builderVars,
                       bridgeVars, sessionVars, worldVars, guardVars, memoryVars>>
     \/ /\ busy = "memory" /\ MemoryNext
        /\ UNCHANGED <<ledgerVars, storeVars, cloudVars, nameVars, builderVars,
                       bridgeVars, sessionVars, worldVars, guardVars, launcherVars>>

vars == <<busy, ledgerVars, storeVars, cloudVars, nameVars, builderVars,
          bridgeVars, sessionVars, worldVars, guardVars, launcherVars, memoryVars>>

Spec == Init /\ [][Next]_vars
=============================================================================
