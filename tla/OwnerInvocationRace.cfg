SPECIFICATION Spec
CONSTANTS
  None = None
  Handlers = {h1, h2}
  Keys = {k1, k2}
  LookupKeys = {k1}
  Calls = {c1, c2}
  Results = {r1, r2}
  MaxRows = 2
  MaxAttempts = 3
SYMMETRY Symmetric
INVARIANTS
  TruthfulAnswers
  RecordsValid
PROPERTIES
  SettledByHolder
  ImplementsAtMostOnce
