------------------------------ MODULE MCEditing ------------------------------
(* Editing for TLC: tabs are interchangeable, and so are the files of a kind. *)
EXTENDS Editing, TLC

Symmetry == Permutations(Tabs) \cup Permutations(OldFiles) \cup Permutations(NewFiles)
===============================================================================
