---------------------------- MODULE MCLocalUpload ----------------------------
(***************************************************************************)
(* LocalUpload for TLC: ids and request slots are interchangeable.  Where  *)
(* a liveness property rules symmetry out the ids are numbers, and of the  *)
(* behaviours that differ in their names alone those are left that take    *)
(* them in order.                                                          *)
(***************************************************************************)
EXTENDS LocalUpload, TLC

Symmetric == Permutations(Uploads) \cup Permutations(Ids) \cup Permutations(Requests)

IdsInOrder == \A i, j \in Ids : i < j /\ owner[j] # NoUpload => owner[i] # NoUpload
===============================================================================
