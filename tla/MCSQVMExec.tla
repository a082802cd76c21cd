----------------------------- MODULE MCSQVMExec -----------------------------
(* TLC instances of SQVMExec: the .cfg files give the constants. *)
EXTENDS SQVMExec, TLC

\* Generators are interchangeable.
Symmetric == Permutations(Gens)
=============================================================================
