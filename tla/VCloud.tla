-------------------------------- MODULE VCloud --------------------------------
(***************************************************************************)
(* VCloudManager (vcloud/manager.py) with the NodeRegistry it keeps up to  *)
(* date (node/registry.py), used by several threads.  Each of the two has  *)
(* its own lock: a server is stored and then registered, removed and then  *)
(* deregistered.  AIBrain's connections (ai/brain.py) and the web server's *)
(* DELETE look a resource up before they destroy it.                       *)
(***************************************************************************)
EXTENDS Naturals, FiniteSets

CONSTANTS Resources,  \* each is created by a call of its own
          Removers,   \* the calls that remove a resource
          Nodes,
          Kind,       \* of a resource; a connection is a server tagged as one
          Bound,      \* the servers created with a port
          NodeIdOf,   \* the node_id of a server, bound or not
          NoRecord

\* The resources that are a VirtualServer.
Servers == {r \in Resources : Kind[r] \in {"vserver", "connection"}}

ASSUME CloudAssumption ==
  /\ Kind \in [Resources -> {"vcpu", "vcloud", "vserver", "connection"}]
  /\ Bound \subseteq Servers
  /\ NodeIdOf \in [Servers -> Nodes]
  /\ NoRecord \notin Resources
  /\ Resources # {}

VARIABLES
  state,      \* of the resources in _resources; "absent" when not there
  creation,   \* where create_vcpu, create_vserver or create_vcloud stands
  registered, \* NodeRegistry._records, by the server that wrote the record
  removal,    \* where a removal stands
  removing,   \* the resource a removal was given, once it has begun
  overtaken   \* the servers removed before they were registered

cloudVars == <<state, creation, registered, removal, removing, overtaken>>

States == {"available", "allocated", "suspended"}

CloudInit ==
  /\ state = [r \in Resources |-> "absent"]
  /\ creation = [r \in Resources |-> "idle"]
  /\ registered = [n \in Nodes |-> NoRecord]
  /\ removal = [d \in Removers |-> "idle"]
  /\ removing = [d \in Removers |-> CHOOSE r \in Resources : TRUE]
  /\ overtaken = {}

Becomes(r, s)   == state' = [state EXCEPT ![r] = s]
Creation(r, at) == creation' = [creation EXCEPT ![r] = at]
Removal(d, at)  == removal' = [removal EXCEPT ![d] = at]

----------------------------------------------------------------------------
(* The factory methods.                                                    *)

\* r gets into the store, and is registered later if it is a bound server.
Stored(r, then) ==
  /\ creation[r] = "idle"
  /\ Becomes(r, "available")
  /\ Creation(r, then)
  /\ UNCHANGED <<registered, removal, removing, overtaken>>

CreateVcpu(r)   == Kind[r] = "vcpu" /\ Stored(r, "ended")
CreateVcloud(r) == Kind[r] = "vcloud" /\ Stored(r, "ended")

\* Without a port nothing is registered.
StoredServer(r) == Stored(r, IF r \in Bound THEN "stored" ELSE "ended")

CreateVserver(r) == Kind[r] = "vserver" /\ StoredServer(r)

\* AIBrain.register_connection: a server, tagged aim_connection.
RegisterConnection(r) == Kind[r] = "connection" /\ StoredServer(r)

RefusedCall(r) ==
  /\ creation[r] = "idle"
  /\ Creation(r, "ended")
  /\ UNCHANGED <<state, registered, removal, removing, overtaken>>

\* The web server answers 400: a body, a number or a kind it cannot use.
CreateRefused(r)     == Kind[r] # "connection" /\ RefusedCall(r)
ConnectionRefused(r) == Kind[r] = "connection" /\ RefusedCall(r)

RegisterServer(r) ==
  /\ creation[r] = "stored"
  /\ registered' = [registered EXCEPT ![NodeIdOf[r]] = r]
  /\ Creation(r, "ended")
  /\ UNCHANGED <<state, removal, removing, overtaken>>

----------------------------------------------------------------------------
(* allocate, release and suspend, each under the lock; whatever they find  *)
(* wrong raises and changes nothing.                                       *)

Allocate(r) ==
  /\ state[r] = "available"
  /\ Becomes(r, "allocated")
  /\ UNCHANGED <<creation, registered, removal, removing, overtaken>>

Release(r) ==
  /\ state[r] \in States
  /\ Becomes(r, "available")
  /\ UNCHANGED <<creation, registered, removal, removing, overtaken>>

Suspend(r) ==
  /\ state[r] \in {"available", "allocated"}
  /\ Becomes(r, "suspended")
  /\ UNCHANGED <<creation, registered, removal, removing, overtaken>>

----------------------------------------------------------------------------
(* Removing: get() first, where the caller asks for an answer.             *)

LookUp(d, r, found) ==
  /\ removal[d] = "idle"
  /\ removing' = [removing EXCEPT ![d] = r]
  /\ Removal(d, IF found THEN "found" ELSE "ended")
  /\ UNCHANGED <<state, creation, registered, overtaken>>

\* The web server's DELETE takes any resource, remove_connection only one
\* that is tagged.
FindResource(d, r)   == LookUp(d, r, state[r] # "absent")
FindConnection(d, r) == LookUp(d, r, state[r] # "absent" /\ Kind[r] = "connection")

\* destroy(): out of the store, under the lock.  A server without a port has a
\* node_id too, its own or one it was given, and is deregistered as well.
Destroy(d) ==
  LET r == removing[d] IN
  /\ removal[d] = "found" /\ state[r] # "absent"
  /\ Becomes(r, "absent")
  /\ Removal(d, IF r \in Servers THEN "removed" ELSE "ended")
  /\ overtaken' = IF creation[r] = "stored" THEN overtaken \cup {r} ELSE overtaken
  /\ UNCHANGED <<creation, registered, removing>>

\* Another thread was faster: nothing is left to destroy.
DestroyNothing(d) ==
  /\ removal[d] = "found" /\ state[removing[d]] = "absent"
  /\ Removal(d, "ended")
  /\ UNCHANGED <<state, creation, registered, removing, overtaken>>

\* Deregistering by the resource's id, which the registry does not know.
DeregisterResource(d) ==
  /\ removal[d] = "removed"
  /\ Removal(d, "ended")
  /\ UNCHANGED <<state, creation, registered, removing, overtaken>>

\* deregister(), by node_id.
DeregisterServer(d) ==
  /\ removal[d] = "removed"
  /\ registered' = [registered EXCEPT ![NodeIdOf[removing[d]]] = NoRecord]
  /\ Removal(d, "ended")
  /\ UNCHANGED <<state, creation, removing, overtaken>>

CloudNext ==
  \/ \E r \in Resources :
       \/ CreateVcpu(r) \/ CreateVcloud(r) \/ CreateVserver(r)
       \/ RegisterConnection(r) \/ CreateRefused(r) \/ ConnectionRefused(r)
       \/ RegisterServer(r)
       \/ Allocate(r) \/ Release(r) \/ Suspend(r)
  \/ \E d \in Removers :
       \/ \E r \in Resources : FindResource(d, r) \/ FindConnection(d, r)
       \/ Destroy(d) \/ DestroyNothing(d) \/ DeregisterServer(d)

CloudSpec == CloudInit /\ [][CloudNext]_cloudVars

----------------------------------------------------------------------------
\* No other server, bound or not, was given the node_id of r.
OwnNodeId(r) == \A q \in Servers : NodeIdOf[q] = NodeIdOf[r] => q = r

\* Nothing is under way between the store and the registry for r.
Settled(r) ==
  /\ creation[r] # "stored"
  /\ \A d \in Removers : removing[d] = r => removal[d] # "removed"

\* The task router is offered a server exactly as long as the manager has it:
\* between the steps of its creation and removal, however many remove it at
\* the same time.  Left out are servers that share a node_id, and servers
\* removed before their creation had registered them, whose record stays
\* (create_vserver, destroy).
RegistryAgrees ==
  \A r \in Bound \ overtaken :
    OwnNodeId(r) /\ Settled(r) =>
      (registered[NodeIdOf[r]] = r <=> state[r] # "absent")
=============================================================================
