------------------------------- MODULE Delivery -------------------------------
(***************************************************************************)
(* What uploading files to a share promises: a file is in the share as a   *)
(* whole or not at all, the uploader is told so only when it is, and once  *)
(* the share is closed, with every file told, nothing is added any more.   *)
(***************************************************************************)
CONSTANT Uploads    \* the files of one share

VARIABLES
    stored,         \* uploads whose file is in the share, whole
    told,           \* uploads the uploader knows to be stored
    closed          \* whether the share is completed

vars == <<stored, told, closed>>

Init == stored = {} /\ told = {} /\ closed = FALSE

Store(u) ==
    /\ ~closed /\ u \notin stored
    /\ stored' = stored \cup {u}
    /\ UNCHANGED <<told, closed>>

Tell(u) ==
    /\ u \in stored \ told
    /\ told' = told \cup {u}
    /\ UNCHANGED <<stored, closed>>

Close ==
    /\ told = Uploads
    /\ closed' = TRUE
    /\ UNCHANGED <<stored, told>>

Next == (\E u \in Uploads : Store(u) \/ Tell(u)) \/ Close

Spec == Init /\ [][Next]_vars
===============================================================================
