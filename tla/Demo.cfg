SPECIFICATION MCSpec
CONSTANTS
  None = None
  Runs <- MCRuns
  Keys <- MCKeys
  Details = {"evaluation", "executable_candidate"}
  Modes = {"inspect_only", "fixture_only"}
  PlanKinds = {"prepared-bindings", "fork-plans"}
  OperationKinds = {"retire"}
  MaxBindings = 2
  MaxCandidates = 1
  MaxOperations = 2
  Tokens = {"editor", "objective", "session", "read"}
  MaxVersion = 3
CHECK_DEADLOCK FALSE
INVARIANTS
  ServerSound
  ShownIsDurable
PROPERTIES
  StepsAreProved
