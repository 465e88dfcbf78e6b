------------------------------- MODULE MCAccess -------------------------------
(* Access for TLC: guests and request slots are interchangeable. *)
EXTENDS Access, TLC

Symmetry == Permutations(Guests) \cup Permutations(Requests)
===============================================================================
