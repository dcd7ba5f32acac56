SPECIFICATION Spec
CONSTANTS
  None = None
  t1 = t1
  t2 = t2
  Texts = {t1, t2}
  SeedText = seed
  Bytes <- MCBytes
  NoteIds = {n}
  SeedIds = {h}
  LockedIds = {locked}
  ObjectiveId = objective
  MaxItems = 2
  MaxNotes = 2
  MaxTotalNoteBytes = 3
  MaxComponentBytes = 6
  MaxEvents = 2
  DraftTtl = 3
  PreviewTtl = 1
  WindowTtl = 2
  Forever = 9
  MaxOperations = 1
  MaxItemVersion = 3
  MaxGeneration = 8
  Keys = {k1}
  OpKinds = {"put_note"}
  HostMoves = {}
  MaxDrafts = 2
  MaxDraftVersion = 3
  MaxPreviews = 0
  MaxControlVersion = 0
  MaxControllerEpoch = 1
  MaxNow = 0
  MaxSequence = 0
CHECK_DEADLOCK FALSE
INVARIANTS JournalRecoverable
