----------------------------- MODULE MCShareStore -----------------------------
(* Small instances of ShareStore for TLC. *)
EXTENDS ShareStore, TLC

\* Requests and files are interchangeable; the cron tasks are not.
Symmetric == Permutations(Requests) \cup Permutations(Files)

\* Bound: tasks in progress at a time.
FewTasks == Cardinality({t \in Tasks : task[t] # Idle}) <= 3
===============================================================================
