SPECIFICATION Spec
CONSTANTS
  Programs <- MCPrograms
  Code <- Compile
  Meaning <- Behaviour
  MaxInputs = 2
  InitialStack = 12
  MinStackOverhead = 2
INVARIANTS BehavesAsWritten CodeWellFormed TrapsBalanced OutersCurrent
CHECK_DEADLOCK FALSE
