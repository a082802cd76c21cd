------------------------------- MODULE SQSort -------------------------------
(***************************************************************************)
(* array.sort (squirrel/sqbaselib.cpp): a heap sort that compares with a   *)
(* script's function, or with ObjCmp, which may call a script's _cmp; both *)
(* may answer anything, fail, or resize the array.  The heap has the       *)
(* children of node r at 2r and 2r + 1 with the root at 0, so that the     *)
(* root is its own child.  A sort q is the array (positions from 0), its   *)
(* size when the sort began, whether there is a compare function, the loop *)
(* i of _hsort, the sift down from root to bottom and what it compares     *)
(* next.  A position outside of the array makes the sort undefined.        *)
(***************************************************************************)
EXTENDS Integers

Swap(q, i, j) ==
  IF {i, j} \subseteq DOMAIN q.arr THEN [q EXCEPT !.arr = [@ EXCEPT ![i] = q.arr[j], ![j] = q.arr[i]]]
  ELSE [q EXCEPT !.pc = "undefined"]

\* A sift down from root, over the positions up to bottom.
Sift(q, root, bottom) == IF q.pc = "undefined" THEN q ELSE [q EXCEPT !.root = root, !.bottom = bottom, !.pc = "sift"]
\* An element of the heap's root goes to position i, and the rest is sifted.
TakeOut(q, i) == Sift([Swap(q, 0, i) EXCEPT !.phase = "sort", !.i = i], 0, i - 1)

\* Mutant: the last of the sift downs is left out.
NextSiftEarly(q) ==
  CASE q.phase = "build" /\ q.i > 0 -> Sift([q EXCEPT !.i = @ - 1], q.i - 1, q.bottom)
    [] q.phase = "build" /\ q.i = 0 -> TakeOut(q, q.size - 1)
    [] q.phase = "sort" /\ q.i > 2 -> TakeOut(q, q.i - 1)
    [] OTHER -> [q EXCEPT !.pc = "done"]

\* The two loops of _hsort: the next sift down, or the end.
NextSift(q) ==
  CASE q.phase = "build" /\ q.i > 0 -> Sift([q EXCEPT !.i = @ - 1], q.i - 1, q.bottom)
    [] q.phase = "build" /\ q.i = 0 -> TakeOut(q, q.size - 1)
    [] q.phase = "sort" /\ q.i > 1 -> TakeOut(q, q.i - 1)
    [] OTHER -> [q EXCEPT !.pc = "done"]

\* The head of the loop of _hsort_sift_down: which child is compared.
SiftHead(q) ==
  CASE 2 * q.root > q.bottom -> NextSift(q)
    [] 2 * q.root = q.bottom -> [q EXCEPT !.child = 2 * q.root, !.pc = "down"]
    [] 2 * q.root < q.bottom -> [q EXCEPT !.pc = "children"]

\* The pair of positions the compare function is called with.
Compared(q) == IF q.pc = "children" THEN <<2 * q.root, 2 * q.root + 1>> ELSE <<q.root, q.child>>

\* Its answer: ret < 0, = 0 or > 0.
Answered(q, ret) ==
  CASE q.pc = "children" -> [q EXCEPT !.child = IF ret > 0 THEN 2 * q.root ELSE 2 * q.root + 1, !.pc = "down"]
    [] q.pc = "down" /\ ret < 0 /\ q.root = q.child -> [q EXCEPT !.pc = "inconsistent"]
    [] q.pc = "down" /\ ret < 0 /\ q.root # q.child -> Sift(Swap(q, q.root, q.child), q.child, q.bottom)
    [] q.pc = "down" /\ ret >= 0 -> NextSift(q)

\* The elements of these positions are read to be compared.
Readable(q) == \A i \in 1 .. 2 : Compared(q)[i] \in DOMAIN q.arr
ReadOutside(q) == [q EXCEPT !.pc = "undefined"]

\* It threw or answered no number.
CompareFailed(q) == [q EXCEPT !.pc = "failed"]

\* It changed the size of the array to n: an error after a compare function,
\* unnoticed after ObjCmp, where the sort goes on with its answer.
CompareResized(q, n, ret) ==
  IF q.func THEN CompareFailed(q)
  ELSE Answered([q EXCEPT !.arr = [i \in 0 .. n - 1 |-> IF i \in DOMAIN @ THEN @[i] ELSE 0]], ret)

StartSort(arr, n, func) ==
  [arr |-> arr, size |-> n, func |-> func, phase |-> "build", i |-> n \div 2, root |-> n \div 2, bottom |-> n - 1, child |-> 0,
   pc |-> IF n > 1 THEN "sift" ELSE "done"]
=============================================================================
