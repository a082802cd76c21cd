SPECIFICATION Spec
CONSTANTS
  Keys = {"constructor", "_newmember"}
  MetaNames = {"_newmember"}
  Data = {"null"}
  Closures = {"f"}
  MEMBER_MAX_COUNT = 2
  MaxClasses = 2
  MaxInstances = 2
  MaxHandles = 1
  MaxSteps = 7
  UdSizes = {1}
INVARIANTS MembersIndexed ValuesFit ConstructorFound HandlesReachField
PROPERTY LayoutFrozen
CHECK_DEADLOCK FALSE
