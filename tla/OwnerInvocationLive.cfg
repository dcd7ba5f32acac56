SPECIFICATION Spec
CONSTANTS
  None = None
  Handlers = {h1}
  Keys = {k1, k2}
  LookupKeys = {k1}
  Calls = {c1}
  Results = {r1}
  MaxRows = 1
  MaxAttempts = 3
PROPERTIES
  EveryRequestEnds
