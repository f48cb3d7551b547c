--------------------------- MODULE MCTotOrdering ---------------------------
(* TotOrdering for TLC: the workers are interchangeable.                     *)
EXTENDS TotOrdering, TLC

Symmetry == Permutations(Workers)
=============================================================================
