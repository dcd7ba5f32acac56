SPECIFICATION MCSpec
CONSTANTS
  None = None
  o1 = o1
  Requests = {r1, r2}
  Modes = {TRUE, FALSE}
  Ops = {"list", "read", "recover_receipt", "refresh_capabilities", "create_draft", "create_preview", "pause", "commit", "resume"}
  OtherOps = {"create_draft", "commit"}
  Edits = {}
  Keys = {k1}
  Objectives = {o1}
  FirstRevisions <- MCOneRevision
  MaxEntries = 1
  MaxNotes = 1
  MaxItemCount = 1
  MaxRevisions = 2
  MaxDrafts = 1
  MaxDraftVersion = 1
  MaxPreviews = 1
SYMMETRY Symmetric
INVARIANTS
  IndexSound
  ForwardedIsIssued
  RetryableMeansUnapplied
  OwnReference
  AuthorityAgrees
