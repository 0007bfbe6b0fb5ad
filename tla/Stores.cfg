SPECIFICATION Spec
CONSTANTS
  Items = {i1, i2}
  Deleters = {d1, d2}
  MaxFailures = 1
  MaxCrashes = 1
  p1 = p1
  p2 = p2
  p3 = p3
  Posts = {p1, p2, p3}
  Listers = {l1}
  Readers = {e1}
  Filters <- MCFilters
  Limits = {0, 9}
  MaxLimit = 2
  MaxStoreFailures = 1
  MaxStoreCrashes = 1
  s1 = s1
  s2 = s2
  u1 = u1
  u2 = u2
  Resources = {s1, s2, u1, u2}
  Kind <- MCKind
  Removers = {d1, d2}
  Nodes = {s1, s2}
  Bound = {s1}
  NodeIdOf <- MCNodeIdOf
  NoRecord = NoRecord
  Registrations = {r1, r2}
  Lookups = {l1, l2}
  NameSet = {"a"}
  NameOf <- MCNameOf
  Ttl = 1
  MaxAge = 3
  NoEntry = NoEntry
  Modules = {"m", "n"}
  Scripts = {"s"}
  Configs = {"c"}
  MaxBuilds = 3
  MaxFaults = 2
  Clients = {c1, c2}
  Window = 2
  MaxRate = 2
  MaxPosts = 2
  MaxTime = 4
  MaxRequests = 4
  MaxCuts = 1
  Queries = {q1, q2, q3, q4}
  Keep = 4
  Staff = {governor, protector, builder}
  Newcomers = {n1, n2}
  Governor = governor
  Protector = protector
  n1 = n1
  former = former
  Snapshots = {"registry_initial"}
  EarlierEntries <- MCEarlier
  MaxEarlier = 1
  MaxEntries = 3
  Checks = {k1, k2, k3, k4}
  Labels = {"registry_initial"}
  Data = {"a", "b"}
  NoDigest = NoDigest
  Fleet <- MCFleet
  Setters = {w1, w2}
  Getters = {g1}
  Locals = {v1}
  NoValue = NoValue
  MaxRestarts = 1
INVARIANT LedgerAgrees
INVARIANT FileAgrees
INVARIANT OneLostPerFailure
INVARIANT ListingsComplete
INVARIANT RegistryAgrees
INVARIANT NamesKept
INVARIANT BuiltWhole
INVARIANT RateBounded
INVARIANT FeedIsLatest
INVARIANT SessionKept
INVARIANT TamperingNoticed
INVARIANT LedgerReplays
INVARIANT ShutdownComplete
INVARIANT NoOldValue
CHECK_DEADLOCK FALSE
