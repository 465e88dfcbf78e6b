-------------------------------- MODULE Editing --------------------------------
(***************************************************************************)
(* The owner edits a completed share (EditableUpload, in any of her tabs): *)
(* the share is opened, new files are uploaded, files she marked are       *)
(* removed, and the share is completed again; whatever fails, it must not  *)
(* stay open, for a job deletes shares that are open for a day.  Requests  *)
(* go through the API client, which refreshes the access token once for    *)
(* all requests that were denied meanwhile and sends them again.           *)
(*                                                                         *)
(* A request takes effect and is answered in one step, or is lost with or  *)
(* without effect.  An upload is stored as a whole (LocalUpload).          *)
(***************************************************************************)
EXTENDS Integers, FiniteSets, FiniteSetsExt

CONSTANTS
    Tabs,
    OldFiles,
    NewFiles,
    Nothing,    \* the file of a request that is about none
    Grace,      \* a day, in ticks
    MaxSaves,   \* bound: saves, in all tabs together
    MaxFaults   \* bound: lost requests, failed uploads, left pages, ended sessions

ASSUME FileAssumption == OldFiles \cap NewFiles = {} /\ Nothing \notin OldFiles \cup NewFiles
ASSUME BoundAssumption == Grace \in Nat /\ MaxSaves \in Nat /\ MaxFaults \in Nat

VARIABLES
    row,        \* the Share row: there, uploadLocked, the time since createdAt
    files,      \* how many files of the share have this content
    session,    \* the access token's cookie, and the refresh token
    tab,        \* the page
    calls,      \* its requests to the API
    faults,
    scars       \* history: what went wrong

vars == <<row, files, session, tab, calls, faults, scars>>

Files == OldFiles \cup NewFiles
Row == [there : BOOLEAN, locked : BOOLEAN, age : 0 .. Grace + 1]
Session == [access : BOOLEAN, alive : BOOLEAN]

\* marked and added are what the page shows, asked what was marked at first; the uploads
\* of sending go on; the failure of failed is seen, that of pending is queued to be.
Saving == {"revert", "upload", "remove", "complete", "relock"}
Tab == [phase : Saving \cup {"idle", "back", "gone"}, marked : SUBSET OldFiles,
        asked : SUBSET OldFiles, added : SUBSET NewFiles, sending : SUBSET NewFiles,
        failed : SUBSET NewFiles, pending : SUBSET NewFiles, hasFailed : BOOLEAN,
        saves : Nat]
Call == [what : {"revert", "remove", "complete"}, file : OldFiles \cup {Nothing},
         save : Nat, at : {"sent", "waiting"}, retried : BOOLEAN]

Init ==
    /\ row = [there |-> TRUE, locked |-> TRUE, age |-> 0]
    /\ files = [f \in Files |-> IF f \in OldFiles THEN 1 ELSE 0]
    /\ session = [access |-> TRUE, alive |-> TRUE]
    /\ \E A \in [Tabs -> SUBSET NewFiles], M \in [Tabs -> SUBSET OldFiles] :
        /\ \A t, u \in Tabs : t # u => A[t] \cap A[u] = {}
        /\ tab = [t \in Tabs |-> [phase |-> "idle", marked |-> M[t], asked |-> M[t],
                    added |-> A[t], sending |-> {}, failed |-> {}, pending |-> {},
                    hasFailed |-> FALSE, saves |-> 0]]
    /\ calls = [t \in Tabs |-> {}]
    /\ faults = 0 /\ scars = {}

Fault == faults < MaxFaults /\ faults' = faults + 1
Scar(s, condition) == scars' = IF condition THEN scars \cup {s} ELSE scars

NewCall(t, what, f) == [what |-> what, file |-> f, save |-> tab[t].saves, at |-> "sent", retried |-> FALSE]

-----------------------------------------------------------------------------
(* The page. *)

Save(t) ==
    LET p == tab[t] IN
    /\ p.phase = "idle" /\ p.marked \cup p.added # {}
    /\ MapThenSumSet(LAMBDA u : tab[u].saves, Tabs) < MaxSaves
    /\ tab' = [tab EXCEPT ![t].phase = "revert", ![t].saves = @ + 1]
    /\ calls' = [calls EXCEPT ![t] = @ \cup {[NewCall(t, "revert", Nothing) EXCEPT !.save = @ + 1]}]
    /\ UNCHANGED <<row, files, session, faults, scars>>

\* An upload that fails tells so by a state update, which React runs at once or with
\* the next rendering.
Failing(t, f) ==
    LET p == [tab[t] EXCEPT !.sending = @ \ {f}] IN
    \E seen \in BOOLEAN : tab' = [tab EXCEPT ![t] =
        IF seen THEN [p EXCEPT !.failed = @ \cup {f}] ELSE [p EXCEPT !.pending = @ \cup {f}]]

\* A worker signs in again by itself.  The failure may be the owner's Cancel.
CanUpload == row.there /\ ~row.locked /\ (session.access \/ session.alive)
UploadEnds(t) == \E f \in tab[t].sending :
    /\ tab[t].phase = "upload"
    /\ \/ /\ CanUpload
          /\ files' = [files EXCEPT ![f] = @ + 1]
          /\ \/ /\ tab' = [tab EXCEPT ![t].sending = @ \ {f}]
                /\ UNCHANGED faults
             \/ Failing(t, f) /\ Fault
       \/ /\ Failing(t, f) /\ IF CanUpload THEN Fault ELSE UNCHANGED faults
          /\ UNCHANGED files
    /\ UNCHANGED <<row, session, calls, scars>>

Render(t) ==
    /\ tab[t].pending # {}
    /\ tab' = [tab EXCEPT ![t].failed = @ \cup tab[t].pending, ![t].pending = {}]
    /\ UNCHANGED <<row, files, session, calls, faults, scars>>

\* Mutant: the marked files are removed in any case.
UploadedAnyway(t, failed) ==
    LET p == tab[t] IN
    IF p.marked # {}
    THEN /\ tab' = [tab EXCEPT ![t].phase = "remove", ![t].hasFailed = failed]
         /\ calls' = [calls EXCEPT ![t] = @ \cup {NewCall(t, "remove", f) : f \in p.marked}]
    ELSE /\ tab' = [tab EXCEPT ![t].phase = "complete", ![t].hasFailed = failed]
         /\ calls' = [calls EXCEPT ![t] = @ \cup {NewCall(t, "complete", Nothing)}]

\* Mutant: the page waits for removals though none is asked.
UploadedWaits(t, failed) ==
    LET p == tab[t] IN
    IF ~failed
    THEN /\ tab' = [tab EXCEPT ![t].phase = "remove", ![t].hasFailed = failed]
         /\ calls' = [calls EXCEPT ![t] = @ \cup {NewCall(t, "remove", f) : f \in p.marked}]
    ELSE /\ tab' = [tab EXCEPT ![t].phase = "complete", ![t].hasFailed = failed]
         /\ calls' = [calls EXCEPT ![t] = @ \cup {NewCall(t, "complete", Nothing)}]

\* The marked files are removed when all new ones are there.
Uploaded(t, failed) ==
    LET p == tab[t] IN
    IF ~failed /\ p.marked # {}
    THEN /\ tab' = [tab EXCEPT ![t].phase = "remove", ![t].hasFailed = failed]
         /\ calls' = [calls EXCEPT ![t] = @ \cup {NewCall(t, "remove", f) : f \in p.marked}]
    ELSE /\ tab' = [tab EXCEPT ![t].phase = "complete", ![t].hasFailed = failed]
         /\ calls' = [calls EXCEPT ![t] = @ \cup {NewCall(t, "complete", Nothing)}]

UploadsOver(t) ==
    /\ tab[t].phase = "upload" /\ tab[t].sending = {}
    /\ Uploaded(t, tab[t].failed # {})
    /\ Scar("unrendered", tab[t].failed = {} /\ tab[t].pending # {})
    /\ UNCHANGED <<row, files, session, faults>>

\* A save without new files asks for no key before it opens an encrypted share, and
\* fails when there is none.
KeyMissing(t) ==
    /\ tab[t].phase = "upload" /\ tab[t].added = {}
    /\ tab' = [tab EXCEPT ![t].phase = "relock"]
    /\ calls' = [calls EXCEPT ![t] = @ \cup {NewCall(t, "complete", Nothing)}]
    /\ Scar("keyless", TRUE)
    /\ UNCHANGED <<row, files, session, faults>>

Current(t, c) == c.save = tab[t].saves /\ c.what = CASE tab[t].phase = "revert" -> "revert"
                                                     [] tab[t].phase = "remove" -> "remove"
                                                     [] tab[t].phase \in {"complete", "relock"} -> "complete"
                                                     [] OTHER -> "none"

\* What the page does when a request of the save succeeds; C are the other requests.
Resolve(t, c, C) ==
    LET p == tab[t]
        Go(q, more) == tab' = [tab EXCEPT ![t] = q] /\ calls' = [calls EXCEPT ![t] = C \cup more]
    IN
    IF ~Current(t, c) THEN Go(p, {})
    ELSE CASE c.what = "revert" ->
                Go([p EXCEPT !.phase = "upload", !.sending = p.added, !.failed = {}, !.pending = {}], {})
           [] c.what = "remove" ->
                IF \E d \in C : Current(t, d) THEN Go(p, {})
                ELSE Go([p EXCEPT !.phase = "complete", !.marked = {}], {NewCall(t, "complete", Nothing)})
           [] c.what = "complete" ->
                Go([p EXCEPT !.phase = IF p.phase = "relock" \/ p.hasFailed THEN "idle" ELSE "back"], {})

\* Mutant: a save that fails ends.
RejectForgetful(t, D, C) ==
    LET p == tab[t] IN
    IF \A d \in D : ~Current(t, d) THEN tab' = tab /\ calls' = [calls EXCEPT ![t] = C]
    ELSE /\ tab' = [tab EXCEPT ![t].phase = "idle"]
         /\ calls' = [calls EXCEPT ![t] = C]

\* Requests D fail.  When the share was opened it is completed, once more if need be.
Reject(t, D, C) ==
    LET p == tab[t] IN
    IF \A d \in D : ~Current(t, d) THEN tab' = tab /\ calls' = [calls EXCEPT ![t] = C]
    ELSE IF p.phase \in {"remove", "complete"}
    THEN /\ tab' = [tab EXCEPT ![t].phase = "relock"]
         /\ calls' = [calls EXCEPT ![t] = C \cup {NewCall(t, "complete", Nothing)}]
    ELSE /\ tab' = [tab EXCEPT ![t].phase = "idle"]
         /\ calls' = [calls EXCEPT ![t] = C]

-----------------------------------------------------------------------------
(* The API. *)

Empty == \A f \in Files : files[f] = 0
Possible(c) ==
    /\ row.there
    /\ c.what = "remove" => files[c.file] > 0
    /\ c.what = "complete" => ~row.locked /\ ~Empty

Apply(c) ==
    /\ row' = CASE c.what = "revert" -> [row EXCEPT !.locked = FALSE, !.age = 0]
                [] c.what = "remove" -> row
                [] c.what = "complete" -> [row EXCEPT !.locked = TRUE]
    /\ files' = IF c.what = "remove" THEN [files EXCEPT ![c.file] = @ - 1] ELSE files

\* The access token comes first, but for a share that is not there.
Denied(c) == ~session.access /\ (row.there \/ c.what = "complete")

Answer(t) == \E c \in calls[t] :
    /\ c.at = "sent" /\ ~Denied(c)
    /\ IF Possible(c)
       THEN /\ Apply(c) /\ Resolve(t, c, calls[t] \ {c})
            /\ scars' = scars
                    \cup (IF c.what = "revert" /\ ~Current(t, c) THEN {"unheard"} ELSE {})
                    \cup (IF c.what = "revert" /\ \E f \in tab[t].added : files[f] > 0 THEN {"again"} ELSE {})
       ELSE /\ Reject(t, {c}, calls[t] \ {c}) /\ UNCHANGED <<row, files>>
            /\ scars' = scars \cup (IF c.what = "complete" /\ row.there /\ Empty THEN {"emptied"} ELSE {})
                              \cup (IF c.what = "remove" /\ row.there THEN {"missing"} ELSE {})
    /\ UNCHANGED <<session, faults>>

Lose(t) == \E c \in calls[t] :
    /\ c.at = "sent" /\ Fault
    /\ Reject(t, {c}, calls[t] \ {c})
    /\ \/ UNCHANGED <<row, files, scars>>
       \/ ~Denied(c) /\ Possible(c) /\ Apply(c) /\ Scar("unheard", c.what = "revert")
    /\ UNCHANGED session

\* A request that is denied waits for the refresh, which it starts unless there is one;
\* it is sent again once.
Waiting(t) == {c \in calls[t] : c.at = "waiting"}
Deny(t) == \E c \in calls[t] :
    /\ c.at = "sent" /\ Denied(c)
    /\ IF c.retried
       THEN Reject(t, {c}, calls[t] \ {c})
       ELSE calls' = [calls EXCEPT ![t] = (@ \ {c}) \cup {[c EXCEPT !.at = "waiting"]}] /\ UNCHANGED tab
    /\ UNCHANGED <<row, files, session, faults, scars>>

Refresh(t) ==
    /\ Waiting(t) # {} /\ session.alive
    /\ session' = [session EXCEPT !.access = TRUE]
    /\ calls' = [calls EXCEPT ![t] = (@ \ Waiting(t))
                    \cup {[c EXCEPT !.at = "sent", !.retried = TRUE] : c \in Waiting(t)}]
    /\ UNCHANGED <<row, files, tab, faults, scars>>

\* What was sent may still arrive.
Leave(t) ==
    /\ tab' = [tab EXCEPT ![t].phase = "gone", ![t].sending = {}, ![t].pending = {}]
    /\ calls' = [calls EXCEPT ![t] = @ \ Waiting(t)]
    /\ Scar("left", tab[t].phase \in Saving)

\* The refresh fails: the page goes to the sign-in page and the save with it, or, soon
\* after an upload, the requests fail.
RefreshFails(t) ==
    /\ Waiting(t) # {}
    /\ IF session.alive THEN Fault ELSE UNCHANGED faults
    /\ \/ Leave(t)
       \/ Reject(t, Waiting(t), calls[t] \ Waiting(t)) /\ UNCHANGED scars
    /\ UNCHANGED <<row, files, session>>

-----------------------------------------------------------------------------
(* The rest of the world. *)

Close(t) ==
    /\ tab[t].phase # "gone" /\ Fault /\ Leave(t)
    /\ UNCHANGED <<row, files, session>>

\* The access token expires, or the session ends.
Lapse ==
    /\ Fault
    /\ \/ session.access /\ session' = [session EXCEPT !.access = FALSE]
       \/ session.alive /\ session' = [session EXCEPT !.alive = FALSE]
    /\ UNCHANGED <<row, files, tab, calls, scars>>

Tick ==
    /\ row.there /\ ~row.locked /\ row.age <= Grace
    /\ row' = [row EXCEPT !.age = @ + 1]
    /\ UNCHANGED <<files, session, tab, calls, faults, scars>>

Idle(t) == tab[t].phase \notin Saving

\* deleteUnfinishedShares
DeleteUnfinished ==
    /\ row.there /\ ~row.locked /\ row.age > Grace
    /\ row' = [row EXCEPT !.there = FALSE]
    /\ files' = [f \in Files |-> 0]
    /\ Scar("long", \E t \in Tabs : ~Idle(t))
    /\ UNCHANGED <<session, tab, calls, faults>>

Next ==
    \/ \E t \in Tabs :
        \/ Save(t) \/ UploadEnds(t) \/ Render(t) \/ UploadsOver(t) \/ KeyMissing(t)
        \/ Answer(t) \/ Lose(t) \/ Deny(t) \/ Refresh(t) \/ RefreshFails(t) \/ Close(t)
    \/ Lapse \/ Tick \/ DeleteUnfinished

Spec == Init /\ [][Next]_vars

-----------------------------------------------------------------------------
(* Properties. *)

\* The types of the state; the page waits for exactly what its phase says.
TypeOK ==
    /\ row \in Row /\ files \in [Files -> Nat] /\ session \in Session
    /\ tab \in [Tabs -> Tab] /\ calls \in [Tabs -> SUBSET Call]
    /\ \A t \in Tabs :
        /\ tab[t].phase \in Saving \ {"upload"} <=> \E c \in calls[t] : Current(t, c)
        /\ tab[t].sending # {} => tab[t].phase = "upload"

\* A share that was edited is closed again when the save is over, and the job spares it,
\* whichever request fails: unless the answer to the revert itself is lost, the page is
\* left, no file is left, or two things fail (a session that ends is two: both tokens).
\* (A save that takes more than a day loses the share.)
Excused == \/ scars \cap {"unheard", "left", "emptied"} # {}
           \/ faults + Cardinality(scars \cap {"missing", "keyless"}) >= 2
ShareKept ==
    /\ row.there /\ ~row.locked /\ (\A t \in Tabs : Idle(t)) => Excused
    /\ ~row.there => Excused \/ "long" \in scars

\* An old file goes only when all that was to replace it is there, and a save that tells
\* of success has done what was asked, unless the failure of an upload was not rendered
\* by then.  No file is stored twice, unless a save is repeated.
EditsTrue ==
    LET replaced(t) == \A f \in tab[t].added : files[f] > 0 \/ "unrendered" \in scars IN
    row.there =>
        /\ \A f \in OldFiles : files[f] = 0 => \E t \in Tabs : f \in tab[t].asked /\ replaced(t)
        /\ \A t \in Tabs : tab[t].phase = "back" =>
                replaced(t) /\ \A f \in tab[t].asked : files[f] = 0
        /\ \A f \in NewFiles : files[f] <= 1 \/ "again" \in scars
===============================================================================
