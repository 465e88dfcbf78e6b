----------------------------- MODULE MCReencrypt -----------------------------
(* Reencrypt for TLC.  The tabs are interchangeable, and so are the slots. *)
EXTENDS Reencrypt, TLC

Symmetric == Permutations(Clients) \cup Permutations(Requests)
===============================================================================
