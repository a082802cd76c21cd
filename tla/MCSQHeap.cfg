CONSTANTS
  Ids = {a, c}
  WIds = {w}
  Fields = {"f"}
  Roots = {1, 2}
  OuterRoots = {}
  LocalRoots = {2}
  KeptSlots <- NoPairs
  Keeps <- NoPairs
  Hooked = {c}
  HookOps = {"new", "deref", "late"}
  Hidden = {}
  Nil = Nil
SPECIFICATION Spec
INVARIANTS NoDangling IInv RefCountExact WeakRefsPaired MarksExact
CHECK_DEADLOCK FALSE
