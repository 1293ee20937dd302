------------------------------- MODULE SetSums -------------------------------
(***************************************************************************)
(* The sum of a function's values over a finite set.                       *)
(***************************************************************************)
EXTENDS Naturals, FiniteSetsExt

SumOver(f, S) == MapThenSumSet(LAMBDA x : f[x], S)
=============================================================================
