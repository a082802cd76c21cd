CONSTANTS
  Ids = {a, b, c}
  WIds = {}
  Fields = {"f"}
  Roots = {1, 2}
  OuterRoots = {}
  LocalRoots = {}
  KeptSlots <- ClosureSlots
  Keeps <- ClosureKeeps
  Hooked = {c}
  HookOps = {}
  Hidden = {b}
  Nil = Nil
SPECIFICATION FairSpec
INVARIANTS SweepSparesLive GarbageHandled CloseEmpties
PROPERTIES CollectionEnds CloseEnds
CHECK_DEADLOCK FALSE
