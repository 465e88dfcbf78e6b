------------------------------ MODULE MCAccounts ------------------------------
(* Accounts for TLC: browsers and users are interchangeable. *)
EXTENDS Accounts, TLC

Symmetry == Permutations(Browsers) \cup Permutations(Users)
===============================================================================
