CONSTANTS
  ObjsA = {a1, a2, a3}
  ObjsB = {b1, b2}
  Objs = {a1, a2, a3, b1, b2}
  Nil = Nil
  HashCodes = {0, 3}
  HashFuns <- MCHashFuns
  MaxHeld = 2
  QueryAny = FALSE
SYMMETRY Symmetric
SPECIFICATION Spec
INVARIANTS Inv AssertionsHold
