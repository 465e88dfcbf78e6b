-------------------------------- MODULE MCKeys --------------------------------
(* Keys for TLC: tabs are interchangeable. *)
EXTENDS Keys, TLC

Symmetry == Permutations(Tabs)
===============================================================================
