SPECIFICATION Spec
CONSTANTS
  DefaultDelegate = {"len"}
  Names = {"a", "len"}
  Checks = {0, 2}
  Scenes <- MCScenes
INVARIANTS DeadSlotsNull DelegatesAcyclic FunctionsServed
PROPERTY CallsBalanced
CHECK_DEADLOCK FALSE
