CONSTANTS
  Gens = {g}
  None = None
  MaxNativeCalls = 3
  MaxCalls = 4
  MaxTraps = 1
  MovedAt = {4}
  ForeachInTry = TRUE
  MixedResume = FALSE
  FlagsAnywhere = FALSE
SPECIFICATION Spec
INVARIANT RootReturnsTrapFree
