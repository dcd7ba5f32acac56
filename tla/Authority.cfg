\* An owner request and a trusted facade request under edits, revocations and time,
\* and the journal's keys under edits, rotations and crashes.
SPECIFICATION MCSpec
CONSTANTS
  None = None
  GrantIds = {1, 2}
  Subjects = {"alice"}
  Scopes = {"s"}
  Permissions <- MCPermissions
  MaxTime = 4
  MaxSubjectGrants = 2
  Bearers = {"b"}
  Requests <- MCRequests
  GrantSpecs <- MCGrantSpecs
  PrincipalFiles <- MCPrincipalFiles
  SlotFiles <- MCSlotFiles
  ConsoleScope = "s"
  MaxEdits = 2
  NoKeys = NoKeys
  Locators = {l1, l2}
  KeyIds = {k1, k2}
  Materials = {m1, m2, m3}
  MaxBody = 2
INVARIANTS
  GrantsAreEvidence
  RevocationIsFence
  SentUnderEvidence
  RowsStayOpenable
