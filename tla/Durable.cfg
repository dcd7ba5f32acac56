SPECIFICATION MCSpec
CONSTANTS
  None = None
  t1 = t1
  t2 = t2
  k1 = k1
  k2 = k2
  p1 = p1
  p2 = p2
  Texts = {t1}
  SeedText = seed
  Bytes <- MCBytes
  NoteIds = {n}
  SeedIds = {h}
  LockedIds = {locked}
  ObjectiveId = objective
  MaxItems = 2
  MaxNotes = 1
  MaxTotalNoteBytes = 2
  MaxComponentBytes = 4
  MaxEvents = 8
  DraftTtl = 1
  PreviewTtl = 1
  WindowTtl = 1
  Forever = 9
  Procs = {p1}
  Keys = {k1, k2, k3}
  BindingIds = {b}
  SnapshotIds = {s1}
  MaxDrafts = 1
  MaxDraftVersion = 2
  MaxPreviews = 2
  MaxControlVersion = 3
  MaxControllerEpoch = 2
SYMMETRY Symmetric
CHECK_DEADLOCK FALSE
INVARIANTS
  AckedNeverLostByOne
  StoreFollowsJournal
PROPERTIES
  StoredOnce
