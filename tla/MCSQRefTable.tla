---------------------------- MODULE MCSQRefTable ----------------------------
EXTENDS SQRefTable, TLC

CONSTANTS ObjsA, ObjsB,   \* objects of one class have the same hash code
          HashCodes

MCHashFuns == {[o \in ObjsA \cup ObjsB |-> IF o \in ObjsA THEN a ELSE b] :
                 a \in HashCodes, b \in HashCodes}

Symmetric == Permutations(ObjsA) \cup Permutations(ObjsB)
=============================================================================
