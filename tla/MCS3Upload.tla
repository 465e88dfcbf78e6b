------------------------------ MODULE MCS3Upload ------------------------------
(* S3Upload for TLC: request slots are interchangeable. *)
EXTENDS S3Upload, TLC

Symmetry == Permutations(Requests)
===============================================================================
