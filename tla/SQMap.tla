------------------------------- MODULE SQMap -------------------------------
(***************************************************************************)
(* What a Squirrel table promises to the rest of the virtual machine: a    *)
(* partial function from keys to values.  SQTable (the hash table of       *)
(* sqtable.cpp) is shown to implement it.                                  *)
(***************************************************************************)
CONSTANTS Keys, Vals, Nil

VARIABLE map     \* the partial function

Empty == [k \in {} |-> Nil]

\* The answer of Get.
Lookup(k) == IF k \in DOMAIN map THEN [ok |-> TRUE, val |-> map[k]]
             ELSE [ok |-> FALSE, val |-> Nil]

\* NewSlot creates or overwrites.
MNewSlot(k, v) == map' = [x \in DOMAIN map \cup {k} |-> IF x = k THEN v ELSE map[x]]

\* Set overwrites the value of a present key.
MSet(k, v) == k \in DOMAIN map /\ map' = [map EXCEPT ![k] = v]

MRemove(k) == map' = [x \in DOMAIN map \ {k} |-> map[x]]

MClear == map' = Empty

MInit == map = Empty

MNext == \/ \E k \in Keys, v \in Vals : MNewSlot(k, v) \/ MSet(k, v)
         \/ \E k \in Keys : MRemove(k)
         \/ MClear

MSpec == MInit /\ [][MNext]_map
=============================================================================
