----------------------------- MODULE MCLockstep -----------------------------
(* Lockstep for TLC: the targets are interchangeable, so that they may be    *)
(* numbered in the order in which the options name them.                     *)
EXTENDS Lockstep

OptionsInOrder == {<<1, 2>>, <<1, 3>>, <<2, 3>>}
=============================================================================
