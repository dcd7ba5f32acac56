SPECIFICATION MCSpec
CONSTANTS
  None = None
  MemoryClients = {m1}
  SessionClient = s1
  Ops = {"memory.capabilities", "memory.query", "session.candidate", "session.binding", "session.list"}
  Scopes = {home, away}
  Home = home
  Grants <- MCGrants
  Versions = {"v3"}
  Profiles <- MCProfiles
  TrustedName = "trusted"
  Sizes = {2, 3}
  Faults = {"other_operation", "effect"}
  MaxBindings = 1
  MaxOperations = 2
  MaxRequests = 2
  MaxEvents = 1
  TrustedScope = home
  OtherScope = away
  Varied <- MCVaried
  MaxChanges = 2

CHECK_DEADLOCK FALSE
INVARIANTS
  CallsAreAuthorized
  ReferencesAreOwn
  OffersAreTrusted
PROPERTIES
  ImplementsAtMostOnce
  EveryRequestEnds
