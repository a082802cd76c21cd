CONSTANTS
  Ids = {a, b, c}
  WIds = {}
  Fields = {"f"}
  Roots = {1, 2}
  OuterRoots = {2}
  LocalRoots = {}
  KeptSlots <- NoPairs
  Keeps <- NoPairs
  Hooked = {}
  HookOps = {}
  Hidden = {c}
  Nil = Nil
SPECIFICATION Spec
INVARIANTS NoCycleLeft
CHECK_DEADLOCK FALSE
