SPECIFICATION Spec
CONSTANTS
  t1 = t1
  t2 = t2
  doc = doc
  code = code
  guard = guard
  None = None
  Tasks = {t1, t2}
  Files = {doc, code, guard}
  Artifacts = {}
  Protected = {guard}
  Grants <- OneGrant
  Scopes <- DeclaredScopes
  Edits <- ExecutorEdits
  Renames <- MovedGuard
  Strays <- StrayFiles
  Modes = {"main"}
  MaxRevisions = 1
  MaxRounds = 1
  MaxFailures = 2
  Steps = 1
  MinSteps = 1
  MaxDispatches = 2
  MaxFaults = 2
  MaxPushes = 1
INVARIANTS
  MainOnlyGranted
  GrantsBounded
SYMMETRY Same
CHECK_DEADLOCK FALSE
