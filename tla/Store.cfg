SPECIFICATION MCSpec
CONSTANTS
  None = None
  Manifests <- MCManifests
  EventInputs <- MCEventInputs
  Contents <- MCContents
  Grants <- MCGrants
  Associations <- MCAssociations
  MaxSnapshots = 2
  MaxEvents = 3
  MaxContents = 2
  MaxCompare = 4
  MaxChanged = 4
  Limits = {1, 2}
  MaxTime = 1
  MaxTrail = 2
  CaptureIds = {"s1", "s2"}
  CaptureSizes = {1, 3}
  PrivateScopes <- MCScopes
  MaxQueue = 2
  MaxRecord = 1
  MaxObject = 3
  Quota = 6
  Tag = 1
  MaxPuts = 3
CHECK_DEADLOCK FALSE
INVARIANTS
  PagesArePrefixes
  StoreSound
  VaultKeeps
PROPERTIES
  ReadsWithinGrant
