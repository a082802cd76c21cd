----------------------------- MODULE MCSQTable -----------------------------
EXTENDS SQTable, TLC

CONSTANTS KeysA, KeysB, KeysC,   \* keys of one class have the same hash code
          HashCodes

\* Every choice of a code for each class.
MCHashFuns ==
  {[k \in KeysA \cup KeysB \cup KeysC \cup {Nil} |->
      IF k \in KeysA THEN a ELSE IF k \in KeysB THEN b ELSE IF k \in KeysC THEN c ELSE 0] :
     a \in HashCodes, b \in HashCodes, c \in HashCodes}

\* A traversal is added for one of them.
MCTraversed == {h \in MCHashFuns : \A k \in KeysA : h[k] = 0 /\ \A l \in KeysB : h[l] = 3}

\* Keys of one class are interchangeable.
Symmetric == Permutations(KeysA) \cup Permutations(KeysB) \cup Permutations(KeysC)
=============================================================================
