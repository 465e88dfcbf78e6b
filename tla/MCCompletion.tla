---------------------------- MODULE MCCompletion -----------------------------
(***************************************************************************)
(* Completion for TLC.  Files are interchangeable but for the infected.    *)
(***************************************************************************)
EXTENDS Completion, TLC

Symmetric == Permutations(Requests) \cup Permutations(Shares)
                \cup Permutations(Infected) \cup Permutations(Files \ Infected)
===============================================================================
