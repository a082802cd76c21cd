------------------------------- MODULE SQFold -------------------------------
(* A fold from the left that TLC evaluates once per definition without      *)
(* parameters; SequencesExt!FoldLeft computes the same value.               *)
EXTENDS Integers, Sequences

Fold(Op(_, _), b, s) ==
  LET f[i \in 0 .. Len(s)] == IF i = 0 THEN b ELSE Op(f[i - 1], s[i])
  IN  f[Len(s)]
=============================================================================
