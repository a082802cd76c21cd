CONSTANTS
  KeysA = {a1, a2, a3}
  KeysB = {b1, b2}
  KeysC = {}
  Keys = {a1, a2, a3, b1, b2}
  Vals = {v1}
  Nil = Nil
  HashCodes = {0, 3, 5, 7}
  HashFuns <- MCHashFuns
  InitialSizes = {0}
  Traversed <- MCTraversed
SYMMETRY Symmetric
SPECIFICATION Spec
INVARIANTS Inv AnswersRight NoNestedRehash TraversalComplete
PROPERTY ImplementsMap
