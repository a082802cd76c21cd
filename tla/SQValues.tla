------------------------------ MODULE SQValues ------------------------------
(***************************************************************************)
(* The values programs of SQExecute compute with, tables and arrays.       *)
(***************************************************************************)
EXTENDS SQFold, FiniteSets

NullV == <<"null">>
IntV(n) == <<"int", n>>
BoolV(b) == <<"bool", b>>
StrV(s) == <<"str", s>>
Root == <<"tab", 1>>
Failure == StrV("error")       \* whatever message Raise_Error formats

IsFalse(v) == v \in {NullV, IntV(0), BoolV(FALSE)}
Shown(v) == IF v[1] \in {"null", "int", "bool", "str"} THEN v ELSE <<v[1]>>

Good(v) == [ok |-> TRUE, v |-> v]
Bad == [ok |-> FALSE, v |-> Failure]

\* ARITH_OP on integers; programs stay far from the limits of their width.
Arith(op, l, r) ==
  IF l[1] # "int" \/ r[1] # "int" THEN Bad
  ELSE Good(IntV(CASE op = "ADD" -> l[2] + r[2] [] op = "SUB" -> l[2] - r[2] [] op = "MUL" -> l[2] * r[2]))
Negate(v) == IF v[1] = "int" THEN Good(IntV(-v[2])) ELSE Bad

\* ObjCmp: null comes before everything.  Two strings, which it orders, and two
\* objects, whose addresses it orders, are not compared by the programs.
ObjCmp(l, r) ==
  CASE l = r -> Good(0)
    [] l # r /\ l[1] = "int" /\ r[1] = "int" -> Good(IF l[2] < r[2] THEN -1 ELSE 1)
    [] l # r /\ l[1] = "bool" /\ r[1] = "bool" -> Good(IF r[2] THEN -1 ELSE 1)
    [] l = NullV /\ r # NullV -> Good(-1)
    [] l # NullV /\ r = NullV -> Good(1)
    [] OTHER -> Bad

\* CMP_OP by CmpOP: 0 is >, 2 is >=, 3 is <, 4 is <=.
Compare(op, l, r) ==
  LET c == ObjCmp(l, r)
  IN  IF ~c.ok THEN Bad
      ELSE Good(BoolV(CASE op = 0 -> c.v > 0 [] op = 2 -> c.v >= 0 [] op = 3 -> c.v < 0 [] op = 4 -> c.v <= 0))

\* A table is a function from its keys, which are strings here; an array a
\* sequence, whose indexes start at 0.
NoSlots == [k \in {} |-> NullV]
RootTable == [k \in {"in", "out", "g"} |-> IF k = "g" THEN IntV(5) ELSE <<"nat", k>>]
Slot(heap, o, k) ==
  CASE o[1] = "tab" /\ k[1] = "str" ->
         IF k[2] \in DOMAIN heap[o[2]] THEN Good(heap[o[2]][k[2]]) ELSE Bad
    [] o[1] = "arr" /\ k[1] = "int" ->
         IF k[2] + 1 \in DOMAIN heap[o[2]] THEN Good(heap[o[2]][k[2] + 1]) ELSE Bad
    [] OTHER -> Bad
WithSlot(heap, o, k, v) ==
  IF o[1] = "arr" THEN [heap EXCEPT ![o[2]][k[2] + 1] = v]
  ELSE [heap EXCEPT ![o[2]] = [x \in DOMAIN @ \cup {k[2]} |-> IF x = k[2] THEN v ELSE @[x]]]
WithoutSlot(heap, o, k) ==
  [heap EXCEPT ![o[2]] = [x \in DOMAIN @ \ {k[2]} |-> @[x]]]
=============================================================================
