SPECIFICATION Spec
CONSTANTS
  Programs <- MCLoopFirst
  Code <- Compile
  Meaning <- Behaviour
  MaxInputs = 2
  InitialStack = 12
  MinStackOverhead = 2
INVARIANT BehavesAsWritten
CHECK_DEADLOCK FALSE
