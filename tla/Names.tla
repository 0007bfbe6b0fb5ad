-------------------------------- MODULE Names --------------------------------
(***************************************************************************)
(* The names of the mesh: ANSRegistry and ANSResolver (ans/registry.py,    *)
(* ans/resolver.py) and the DNS bridge over them (dns/bridge.py), used by  *)
(* several threads.  A lookup reads a record, looks at its age and removes *)
(* an expired one by its name, each in a step of its own.  A registration  *)
(* made from DNS asks the system's resolver first.  Both set the process'  *)
(* default socket timeout while they ask DNS.                              *)
(***************************************************************************)
EXTENDS Naturals

CONSTANTS Registrations, \* each registers a name once
          Lookups,       \* the calls of DNSBridge.resolve()
          NameSet, NameOf, Ttl,
          MaxAge,
          NoEntry

ASSUME NamesAssumption ==
  /\ NameOf \in [Registrations -> NameSet]
  /\ Ttl \in Nat /\ MaxAge \in Nat
  /\ NoEntry \notin Registrations

VARIABLES
  now,
  names,        \* ANSRegistry._records, by the registration that wrote it
  madeAt,       \* registered_at of a registration's record
  registration, \* where a registration stands
  lookup,       \* where a lookup stands: its name, its record
  timeout,      \* socket.getdefaulttimeout(): set or not
  latest,       \* the newest registration of a name
  met           \* the registrations that met a lookup of their name

nameVars == <<now, names, madeAt, registration, lookup, timeout, latest,
              met>>

NamesInit ==
  /\ now = 0
  /\ names = [n \in NameSet |-> NoEntry]
  /\ madeAt = [r \in Registrations |-> 0]
  /\ registration = [r \in Registrations |-> "idle"]
  /\ lookup = [l \in Lookups |-> [at |-> "idle", name |-> NoEntry,
                                  record |-> NoEntry]]
  /\ timeout = FALSE
  /\ latest = [n \in NameSet |-> NoEntry]
  /\ met = {}

Registering(r, at) == registration' = [registration EXCEPT ![r] = at]
LookingUp(l, at)   == lookup' = [lookup EXCEPT ![l].at = at]

NamesAge ==
  /\ now < MaxAge /\ now' = now + 1
  /\ UNCHANGED <<names, madeAt, registration, lookup, timeout, latest,
                 met>>

----------------------------------------------------------------------------
(* The default timeout, which belongs to the whole process.                *)

AskDns   == timeout' = TRUE
DnsAsked == timeout' = FALSE

----------------------------------------------------------------------------
(* register_from_dns().                                                    *)

RegisterAsks(r) ==
  /\ registration[r] = "idle"
  /\ Registering(r, "asking")
  /\ AskDns
  /\ UNCHANGED <<now, names, madeAt, lookup, latest, met>>

\* An address or, without DNS, the hostname itself.
RegisterAsked(r) ==
  /\ registration[r] = "asking"
  /\ Registering(r, "asked")
  /\ DnsAsked
  /\ UNCHANGED <<now, names, madeAt, lookup, latest, met>>

\* A hostname that cannot be encoded raises.
AskRaises(r) ==
  /\ registration[r] = "asking"
  /\ Registering(r, "ended")
  /\ DnsAsked
  /\ UNCHANGED <<now, names, madeAt, lookup, latest, met>>

\* ANSRecord() takes the time.
MakeRecord(r) ==
  /\ registration[r] = "asked"
  /\ Registering(r, "made") /\ madeAt' = [madeAt EXCEPT ![r] = now]
  /\ UNCHANGED <<now, names, lookup, timeout, latest, met>>

RegistrationEnds(r, at) ==
  /\ registration[r] = at
  /\ Registering(r, "ended")
  /\ UNCHANGED <<now, names, madeAt, lookup, timeout, latest, met>>

\* Or it raises: a bad name, id or port.
RecordRefused(r) == RegistrationEnds(r, "asked")

\* The web server answers 400 before it asks for anything.
RegisterRefused(r) == RegistrationEnds(r, "idle")

\* A lookup of the name is between its read of the record and its removal.
Met(n) == \E l \in Lookups : lookup[l].name = n /\ lookup[l].at \in {"read", "stale"}

Register(r) ==
  LET n == NameOf[r] IN
  /\ registration[r] = "made"
  /\ names' = [names EXCEPT ![n] = r]
  /\ latest' = [latest EXCEPT ![n] = r]
  /\ met' = IF Met(n) THEN met \cup {r} ELSE met
  /\ Registering(r, "ended")
  /\ UNCHANGED <<now, madeAt, lookup, timeout>>

----------------------------------------------------------------------------
(* resolve(): the registry first, then DNS.                                *)

\* The web server answers 400 without a name.
LookupRefused(l) ==
  /\ lookup[l].at = "idle"
  /\ LookingUp(l, "ended")
  /\ UNCHANGED <<now, names, madeAt, registration, timeout, latest, met>>

\* The name does not look like one of the mesh.
NotAnsName(l) ==
  /\ lookup[l].at = "idle"
  /\ LookingUp(l, "unknown")
  /\ UNCHANGED <<now, names, madeAt, registration, timeout, latest, met>>

\* ANSRegistry.get().
ReadRecord(l) ==
  /\ lookup[l].at = "idle"
  /\ \E n \in NameSet :
       lookup' = [lookup EXCEPT
                    ![l] = [at     |-> IF names[n] = NoEntry THEN "unknown"
                                                             ELSE "read",
                            name   |-> n,
                            record |-> names[n]]]
  /\ UNCHANGED <<now, names, madeAt, registration, timeout, latest, met>>

\* Expired as soon as its time is up.
ExpiredAtOnce(r) == now - madeAt[r] >= Ttl

Expired(r) == now - madeAt[r] > Ttl

JudgeAge(l) ==
  /\ lookup[l].at = "read"
  /\ LookingUp(l, IF Expired(lookup[l].record) THEN "stale" ELSE "ended")
  /\ UNCHANGED <<now, names, madeAt, registration, timeout, latest, met>>

\* deregister() takes the name: it removes whatever is there by now.
DropStale(l) ==
  /\ lookup[l].at = "stale"
  /\ names' = [names EXCEPT ![lookup[l].name] = NoEntry]
  /\ LookingUp(l, "unknown")
  /\ UNCHANGED <<now, madeAt, registration, timeout, latest, met>>

\* An unknown name may be a hostname.
LookupAsks(l) ==
  /\ lookup[l].at = "unknown"
  /\ LookingUp(l, "asking")
  /\ AskDns
  /\ UNCHANGED <<now, names, madeAt, registration, latest, met>>

LookupAsked(l) ==
  /\ lookup[l].at = "asking"
  /\ LookingUp(l, "ended")
  /\ DnsAsked
  /\ UNCHANGED <<now, names, madeAt, registration, latest, met>>

NamesNext ==
  \/ NamesAge
  \/ \E r \in Registrations :
       \/ RegisterRefused(r) \/ RegisterAsks(r) \/ RegisterAsked(r)
       \/ AskRaises(r) \/ MakeRecord(r) \/ RecordRefused(r) \/ Register(r)
  \/ \E l \in Lookups :
       \/ LookupRefused(l) \/ NotAnsName(l) \/ ReadRecord(l) \/ JudgeAge(l) \/ DropStale(l)
       \/ LookupAsks(l) \/ LookupAsked(l)

NamesSpec == NamesInit /\ [][NamesNext]_nameVars

----------------------------------------------------------------------------
\* The newest registration of a name lasts as long as its ttl, the last moment
\* included, if it met no lookup that had read the record before it; such a
\* lookup may remove it (_lookup).
NamesKept ==
  \A n \in NameSet :
    LET r == latest[n] IN
    /\ r # NoEntry /\ r \notin met
    /\ now <= madeAt[r] + Ttl
    => names[n] = r
=============================================================================
