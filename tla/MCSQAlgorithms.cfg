SPECIFICATION Spec
CONSTANTS
  DefaultDelegate = {"len"}
  Infinity = 9
  Alphas = {"a", "e", "f", "g", "i", "n", "u", "x"}
  Keywords <- MCKeywords
  MAX_HEX_DIGITS = 2
  SortLen = 5
  SortKeys = 3
  Getting <- Get
  Setting <- Set
  ShouldGet <- ExpectedGet
  ShouldSet <- ExpectedSet
  Compiling <- Compile
  Matching <- Match
  Searching <- Search
  Meaning <- Ends
  Saving <- SaveClosure
  Writing <- WriteClosure
  Reading <- ReadClosure
INVARIANTS LookupsRight MatchesSound CapturesSound SortsRight StreamsRight TokensRight
CHECK_DEADLOCK FALSE
