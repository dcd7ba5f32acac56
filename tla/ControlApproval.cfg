SPECIFICATION MCSpec
CONSTANTS
  None = None
  t1 = t1
  t2 = t2
  n = n
  h = h
  locked = locked
  Texts = {t1}
  SeedText = seed
  Bytes <- MCBytes
  NoteIds = {n}
  SeedIds = {h}
  LockedIds = {locked}
  ObjectiveId = objective
  MaxItems = 2
  MaxNotes = 2
  MaxTotalNoteBytes = 3
  MaxComponentBytes = 6
  MaxEvents = 2
  DraftTtl = 3
  PreviewTtl = 1
  WindowTtl = 2
  Forever = 9
  MaxOperations = 1
  MaxItemVersion = 1
  MaxGeneration = 8
  Keys = {k1, k2, k3, k4}
  OpKinds = {"include_item"}
  HostMoves = {}
  MaxDrafts = 2
  MaxDraftVersion = 2
  MaxPreviews = 2
  MaxControlVersion = 4
  MaxControllerEpoch = 1
  MaxNow = 1
  MaxSequence = 0
CHECK_DEADLOCK FALSE
INVARIANTS
  TypeOK
  CommittedAsApproved
  PreparedIsActive
  OneWinnerPerVersion
  DraftsCoherent
  JournalResolvable
  ProtectedNeverSelected
PROPERTIES
  ReceiptsImmutable
  ApprovedInThisHold
  StopIsFinal
  StaleContinuationHeld
