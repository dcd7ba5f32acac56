SPECIFICATION MCSpec
CONSTANTS
  None = None
  o1 = o1
  Requests = {}
  Modes = {FALSE}
  Ops = {"list", "create_draft", "create_preview", "commit"}
  OtherOps = {}
  Edits = {}
  Keys = {k1, k2}
  Objectives = {o1}
  FirstRevisions <- MCOneRevision
  MaxEntries = 2
  MaxNotes = 1
  MaxItemCount = 1
  MaxRevisions = 2
  MaxDrafts = 1
  MaxDraftVersion = 1
  MaxPreviews = 1
SYMMETRY Symmetric
INVARIANTS
  NamesStayKnown
