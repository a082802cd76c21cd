CONSTANTS
  Gens = {g, h}
  None = None
  MaxNativeCalls = 3
  MaxCalls = 4
  MaxTraps = 1
  MovedAt = {4}
  ForeachInTry = FALSE
  MixedResume = FALSE
  FlagsAnywhere = FALSE
SYMMETRY Symmetric
SPECIFICATION Spec
INVARIANTS CallsMatch TrapsCounted TrapsBelong GeneratorsConsistent
