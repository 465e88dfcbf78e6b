---------------------------- MODULE Editing_proofs ----------------------------
(* The type invariant and the two safety invariants of Editing hold in every *)
(* state, for any number of tabs, files, saves and faults.                   *)
EXTENDS Editing, FiniteSetTheorems, TLAPS

-----------------------------------------------------------------------------
(* The inductive invariant. *)

\* The types, and what never changes: the new files a page shows and the old ones it was
\* asked to remove, which its removals are about.
Typed ==
    /\ row \in Row /\ files \in [Files -> Nat] /\ session \in Session
    /\ tab \in [Tabs -> Tab] /\ calls \in [Tabs -> SUBSET Call] /\ faults \in Nat
    /\ \A t \in Tabs :
        /\ tab[t].sending \subseteq tab[t].added
        /\ tab[t].marked \in {{}, tab[t].asked}
        /\ \A c \in calls[t] : c.what = "remove" => c.file \in tab[t].asked
    /\ \A t, u \in Tabs : t # u => tab[t].added \cap tab[u].added = {}

\* A page that saves waits for a request, but while it uploads.
Waits == \A t \in Tabs :
    /\ tab[t].phase \in Saving \ {"upload"} => \E c \in calls[t] : Current(t, c)
    /\ tab[t].sending # {} => tab[t].phase = "upload"

\* A request was ever denied, or would be.
Denials == ~session.access \/ \E t \in Tabs : \E c \in calls[t] : c.at = "waiting" \/ c.retried

\* What is known of the tokens took as many faults.
Lapsed ==
    /\ ~session.alive \/ Denials => faults >= 1
    /\ ~session.alive /\ Denials => faults >= 2
    /\ ~session.access /\ (\E t \in Tabs : \E c \in calls[t] : c.retried) => faults >= 2

Trouble == faults >= 1 \/ scars \cap {"missing", "keyless"} # {}

\* A page that will complete the share: a second attempt is one after a trouble.
Closing(t) == \/ tab[t].phase \in {"upload", "remove", "complete"}
              \/ tab[t].phase = "relock" /\ Trouble

\* An open share has a page that will close it.
Kept ==
    /\ row.there /\ ~row.locked => Excused \/ \E t \in Tabs : Closing(t)
    /\ ~row.there => Excused \/ "long" \in scars

\* A page that tells of success, or will when the share is completed.
Reported(t) == tab[t].phase = "back" \/ (tab[t].phase = "complete" /\ ~tab[t].hasFailed)
Replaced(t) == \A f \in tab[t].added : files[f] > 0 \/ "unrendered" \in scars
Removed(t) == \A f \in tab[t].asked : files[f] = 0

\* Where the new files of a page are: stored, on their way, or failed.
Stored ==
    /\ \A t \in Tabs : tab[t].phase = "upload" =>
        \A f \in tab[t].added : files[f] > 0 \/ f \in tab[t].sending \cup tab[t].failed \cup tab[t].pending
    /\ \A t \in Tabs : \A f \in tab[t].sending : files[f] = 0 \/ "again" \in scars
    /\ \A f \in NewFiles : files[f] <= 1 \/ "again" \in scars

\* Removals begin when the new files are there.
Ordered == \A t \in Tabs :
    /\ tab[t].phase = "remove" \/ (\E c \in calls[t] : c.what = "remove") => Replaced(t)
    /\ Reported(t) => Replaced(t)

\* Each file a page was asked to remove is gone, or its removal is awaited.
Thorough ==
    /\ \A f \in OldFiles : files[f] <= 1
    /\ \A f \in OldFiles : files[f] = 0 => \E t \in Tabs : f \in tab[t].asked /\ Replaced(t)
    /\ \A t \in Tabs :
        /\ tab[t].marked = {} => Removed(t)
        /\ tab[t].phase = "remove" =>
            /\ ~tab[t].hasFailed
            /\ \A f \in tab[t].marked : files[f] = 0 \/ \E c \in calls[t] : Current(t, c) /\ c.file = f
        /\ Reported(t) => Removed(t)

IndInv == Typed /\ Waits /\ Lapsed /\ Kept /\ (row.there => Stored /\ Ordered /\ Thorough)

-----------------------------------------------------------------------------
(* What the steps do to a page and its requests, field by field. *)

\* The step is of page t.
Alone(t) ==
    /\ \A u \in Tabs : u # t => tab'[u] = tab[u] /\ calls'[u] = calls[u]
    /\ tab'[t].asked = tab[t].asked /\ tab'[t].added = tab[t].added
    /\ tab' \in [Tabs -> Tab] /\ calls' \in [Tabs -> SUBSET Call]

Rests(t) ==
    /\ tab'[t].sending = tab[t].sending /\ tab'[t].failed = tab[t].failed
    /\ tab'[t].pending = tab[t].pending

\* A request that page t sends now.
Fresh(t, n, what, f) ==
    /\ n \in Call /\ n.what = what /\ n.file = f /\ n.save = tab'[t].saves
    /\ n.at = "sent" /\ ~n.retried

\* Requests that are about as much as some that were there.
FromOld(t, D) == \A d \in D : \E c \in calls[t] :
    d.what = c.what /\ d.file = c.file /\ d.save = c.save

PhaseOf(what) == CASE what = "revert" -> {"revert"}
                   [] what = "remove" -> {"remove"}
                   [] what = "complete" -> {"complete", "relock"}

LEMMA CurrentPhase ==
    ASSUME Typed, NEW t \in Tabs, NEW c \in Call
    PROVE  Current(t, c) <=> c.save = tab[t].saves /\ tab[t].phase \in PhaseOf(c.what)
<1>1. tab[t].phase \in Saving \cup {"idle", "back", "gone"} /\ c.what \in {"revert", "remove", "complete"}
  BY DEF Typed, Tab, Call
<1>2. CASE c.what = "revert"
  BY <1>1, <1>2 DEF Current, PhaseOf, Saving
<1>3. CASE c.what = "remove"
  BY <1>1, <1>3 DEF Current, PhaseOf, Saving
<1>4. CASE c.what = "complete"
  BY <1>1, <1>4 DEF Current, PhaseOf, Saving
<1>5. QED BY <1>1, <1>2, <1>3, <1>4

LEMMA CurrentPhaseNext ==
    ASSUME tab' \in [Tabs -> Tab], NEW t \in Tabs, NEW c \in Call
    PROVE  Current(t, c)' <=> c.save = tab'[t].saves /\ tab'[t].phase \in PhaseOf(c.what)
<1>1. tab'[t].phase \in Saving \cup {"idle", "back", "gone"} /\ c.what \in {"revert", "remove", "complete"}
  BY DEF Tab, Call
<1>2. CASE c.what = "revert"
  BY <1>1, <1>2 DEF Current, PhaseOf, Saving
<1>3. CASE c.what = "remove"
  BY <1>1, <1>3 DEF Current, PhaseOf, Saving
<1>4. CASE c.what = "complete"
  BY <1>1, <1>4 DEF Current, PhaseOf, Saving
<1>5. QED BY <1>1, <1>2, <1>3, <1>4

LEMMA NewCallFresh ==
    ASSUME Typed, NEW t \in Tabs, NEW what \in {"revert", "remove", "complete"},
           NEW f \in OldFiles \cup {Nothing}
    PROVE  LET n == NewCall(t, what, f)
           IN  /\ n \in Call /\ n.what = what /\ n.file = f /\ n.save = tab[t].saves
               /\ n.at = "sent" /\ ~n.retried
<1>1. tab[t].saves \in Nat
  BY DEF Typed, Tab
<1>2. QED BY <1>1 DEF NewCall, Call

LEMMA TabFields ==
    ASSUME Typed, NEW t \in Tabs
    PROVE  /\ tab[t] \in Tab /\ calls[t] \subseteq Call
           /\ tab[t].phase \in Saving \cup {"idle", "back", "gone"}
           /\ tab[t].marked \subseteq OldFiles /\ tab[t].asked \subseteq OldFiles
           /\ tab[t].added \subseteq NewFiles /\ tab[t].sending \subseteq NewFiles
           /\ tab[t].failed \subseteq NewFiles /\ tab[t].pending \subseteq NewFiles
           /\ tab[t].hasFailed \in BOOLEAN /\ tab[t].saves \in Nat
BY DEF Typed, Tab

\* The step replaces page t by q and its requests by D.
LEMMA Turn ==
    ASSUME Typed, NEW t \in Tabs, NEW q \in Tab, NEW D, D \subseteq Call,
           q.asked = tab[t].asked, q.added = tab[t].added,
           tab' = [tab EXCEPT ![t] = q], calls' = [calls EXCEPT ![t] = D]
    PROVE  Alone(t) /\ tab'[t] = q /\ calls'[t] = D
<1>1. tab \in [Tabs -> Tab] /\ calls \in [Tabs -> SUBSET Call]
  BY DEF Typed
<1>2. QED BY <1>1 DEF Alone

SaveDoes(t) ==
    /\ Alone(t) /\ Rests(t)
    /\ tab[t].phase = "idle" /\ tab'[t].phase = "revert"
    /\ tab'[t].marked = tab[t].marked /\ tab'[t].hasFailed = tab[t].hasFailed
    /\ \E n : Fresh(t, n, "revert", Nothing) /\ calls'[t] = calls[t] \cup {n}
    /\ UNCHANGED <<row, files, session, faults, scars>>

LEMMA SaveEffect == ASSUME Typed, NEW t \in Tabs, Save(t) PROVE SaveDoes(t)
<1> DEFINE q == [tab[t] EXCEPT !.phase = "revert", !.saves = @ + 1]
           n == [NewCall(t, "revert", Nothing) EXCEPT !.save = @ + 1]
           D == calls[t] \cup {n}
<1>0. /\ tab[t] \in Tab /\ calls[t] \subseteq Call
      /\ tab[t].failed \subseteq NewFiles /\ tab[t].pending \subseteq NewFiles
      /\ tab[t].sending \subseteq NewFiles /\ tab[t].saves \in Nat
  BY TabFields
<1>1. /\ q \in Tab /\ q.asked = tab[t].asked /\ q.added = tab[t].added /\ q.phase = "revert"
      /\ q.sending = tab[t].sending /\ q.failed = tab[t].failed /\ q.pending = tab[t].pending
      /\ q.marked = tab[t].marked /\ q.hasFailed = tab[t].hasFailed
      /\ q.saves = tab[t].saves + 1
  <2> DEFINE r == [tab[t] EXCEPT !.phase = "revert"]
  <2>1. /\ r \in Tab /\ r.asked = tab[t].asked /\ r.added = tab[t].added /\ r.phase = "revert"
        /\ r.sending = tab[t].sending /\ r.failed = tab[t].failed /\ r.pending = tab[t].pending
        /\ r.marked = tab[t].marked /\ r.hasFailed = tab[t].hasFailed /\ r.saves = tab[t].saves
    BY <1>0 DEF Tab, Saving
  <2>2. q = [r EXCEPT !.saves = tab[t].saves + 1]
    BY <1>0 DEF Tab
  <2> HIDE DEF q, r
  <2>3. QED BY <1>0, <2>1, <2>2 DEF Tab
<1>2. n \in Call /\ n.what = "revert" /\ n.file = Nothing /\ n.save = tab[t].saves + 1 /\ n.at = "sent" /\ ~n.retried
  <2> DEFINE m == NewCall(t, "revert", Nothing)
  <2>1. /\ m \in Call /\ m.what = "revert" /\ m.file = Nothing /\ m.save = tab[t].saves
        /\ m.at = "sent" /\ ~m.retried
    BY NewCallFresh
  <2>2. n = [m EXCEPT !.save = m.save + 1]
    OBVIOUS
  <2> HIDE DEF n, m
  <2>3. QED BY <1>0, <2>1, <2>2 DEF Call
<1>3. tab' = [tab EXCEPT ![t] = q] /\ calls' = [calls EXCEPT ![t] = D]
  BY DEF Save, Typed
<1>4. tab[t].phase = "idle" /\ UNCHANGED <<row, files, session, faults, scars>>
  BY DEF Save
<1>5. D \subseteq Call
  BY <1>2, <1>0
<1> HIDE DEF q, n, D
<1>6. Alone(t) /\ tab'[t] = q /\ calls'[t] = D
  <2>1. q \in Tab /\ q.asked = tab[t].asked /\ q.added = tab[t].added
    BY <1>1
  <2>2. QED BY <1>3, <1>5, <2>1, Turn
<1>7. Fresh(t, n, "revert", Nothing)
  BY <1>1, <1>2, <1>6 DEF Fresh
<1>8. QED BY <1>1, <1>4, <1>6, <1>7 DEF SaveDoes, Rests, D

\* The failure of an upload is seen, or queued.
FailingDoes(t, f) ==
    /\ Alone(t) /\ UNCHANGED calls
    /\ tab'[t].phase = tab[t].phase /\ tab'[t].marked = tab[t].marked
    /\ tab'[t].hasFailed = tab[t].hasFailed /\ tab'[t].saves = tab[t].saves
    /\ tab'[t].sending = tab[t].sending \ {f}
    /\ tab'[t].failed \cup tab'[t].pending = tab[t].failed \cup tab[t].pending \cup {f}

LEMMA FailingEffect ==
    ASSUME Typed, NEW t \in Tabs, NEW f \in tab[t].sending, Failing(t, f), UNCHANGED calls
    PROVE  FailingDoes(t, f)
<1> DEFINE p == [tab[t] EXCEPT !.sending = @ \ {f}]
           q(seen) == IF seen THEN [p EXCEPT !.failed = @ \cup {f}] ELSE [p EXCEPT !.pending = @ \cup {f}]
<1>0. /\ tab[t] \in Tab /\ calls[t] \subseteq Call
      /\ tab[t].failed \subseteq NewFiles /\ tab[t].pending \subseteq NewFiles
      /\ tab[t].sending \subseteq NewFiles /\ tab[t].saves \in Nat
  BY TabFields
<1>1. PICK seen \in BOOLEAN : tab' = [tab EXCEPT ![t] = q(seen)]
  BY DEF Failing
<1> DEFINE r == q(seen)
<1>2. /\ p \in Tab /\ p.asked = tab[t].asked /\ p.added = tab[t].added /\ p.phase = tab[t].phase
      /\ p.sending = tab[t].sending \ {f} /\ p.failed = tab[t].failed /\ p.pending = tab[t].pending
      /\ p.marked = tab[t].marked /\ p.hasFailed = tab[t].hasFailed /\ p.saves = tab[t].saves
  BY <1>0 DEF Tab
<1> HIDE DEF p
<1>3. f \in NewFiles
  BY <1>0
<1>4. /\ r \in Tab /\ r.asked = p.asked /\ r.added = p.added /\ r.phase = p.phase
      /\ r.sending = p.sending /\ r.failed \cup r.pending = p.failed \cup p.pending \cup {f}
      /\ r.marked = p.marked /\ r.hasFailed = p.hasFailed /\ r.saves = p.saves
  <2>1. CASE seen
    BY <1>2, <1>3, <2>1 DEF Tab
  <2>2. CASE ~seen
    BY <1>2, <1>3, <2>2 DEF Tab
  <2>3. QED BY <2>1, <2>2
<1>5. tab' = [tab EXCEPT ![t] = r] /\ calls' = [calls EXCEPT ![t] = calls[t]]
  BY <1>1 DEF Typed
<1> HIDE DEF r
<1>6. calls[t] \subseteq Call /\ r.asked = tab[t].asked /\ r.added = tab[t].added
  BY <1>0, <1>2, <1>4
<1>7. Alone(t) /\ tab'[t] = r
  BY <1>4, <1>5, <1>6, Turn
<1>8. QED BY <1>2, <1>4, <1>7 DEF FailingDoes

RenderDoes(t) ==
    /\ Alone(t) /\ UNCHANGED calls
    /\ tab'[t].phase = tab[t].phase /\ tab'[t].marked = tab[t].marked
    /\ tab'[t].hasFailed = tab[t].hasFailed /\ tab'[t].saves = tab[t].saves
    /\ tab'[t].sending = tab[t].sending
    /\ tab'[t].failed \cup tab'[t].pending = tab[t].failed \cup tab[t].pending
    /\ UNCHANGED <<row, files, session, faults, scars>>

LEMMA RenderEffect == ASSUME Typed, NEW t \in Tabs, Render(t) PROVE RenderDoes(t)
<1> DEFINE r == [tab[t] EXCEPT !.failed = @ \cup tab[t].pending]
           q == [tab[t] EXCEPT !.failed = @ \cup tab[t].pending, !.pending = {}]
<1>0. /\ tab[t] \in Tab /\ calls[t] \subseteq Call
      /\ tab[t].failed \subseteq NewFiles /\ tab[t].pending \subseteq NewFiles
  BY TabFields
<1>1. /\ r \in Tab /\ r.asked = tab[t].asked /\ r.added = tab[t].added /\ r.phase = tab[t].phase
      /\ r.sending = tab[t].sending /\ r.failed = tab[t].failed \cup tab[t].pending
      /\ r.marked = tab[t].marked /\ r.hasFailed = tab[t].hasFailed /\ r.saves = tab[t].saves
  BY <1>0 DEF Tab
<1>2. q = [r EXCEPT !.pending = {}]
  BY <1>0 DEF Tab
<1>3. tab' = [tab EXCEPT ![t] = q] /\ calls' = [calls EXCEPT ![t] = calls[t]]
  BY DEF Render, Typed
<1> HIDE DEF q, r
<1>4. /\ q \in Tab /\ q.asked = tab[t].asked /\ q.added = tab[t].added /\ q.phase = tab[t].phase
      /\ q.sending = tab[t].sending /\ q.failed = tab[t].failed \cup tab[t].pending /\ q.pending = {}
      /\ q.marked = tab[t].marked /\ q.hasFailed = tab[t].hasFailed /\ q.saves = tab[t].saves
  BY <1>1, <1>2 DEF Tab
<1>5. Alone(t) /\ tab'[t] = q
  BY <1>0, <1>3, <1>4, Turn
<1>6. UNCHANGED <<row, files, session, calls, faults, scars>>
  BY DEF Render
<1>7. QED BY <1>4, <1>5, <1>6 DEF RenderDoes

\* Upload f ends: it is stored, or it failed and the page knows, or both.
UploadEndsDoes(t, f) ==
    /\ f \in tab[t].sending /\ tab[t].phase = "upload" /\ Alone(t) /\ UNCHANGED calls
    /\ tab'[t].phase = "upload" /\ tab'[t].marked = tab[t].marked
    /\ tab'[t].hasFailed = tab[t].hasFailed /\ tab'[t].saves = tab[t].saves
    /\ tab'[t].sending = tab[t].sending \ {f}
    /\ tab[t].failed \cup tab[t].pending \subseteq tab'[t].failed \cup tab'[t].pending
    /\ \/ files' = [files EXCEPT ![f] = @ + 1]
       \/ files' = files /\ f \in tab'[t].failed \cup tab'[t].pending
    /\ faults' \in {faults, faults + 1}
    /\ UNCHANGED <<row, session, scars>>

LEMMA UploadEndsEffect ==
    ASSUME Typed, NEW t \in Tabs, UploadEnds(t)
    PROVE  \E f \in tab[t].sending : UploadEndsDoes(t, f)
<1>1. PICK f \in tab[t].sending :
        /\ tab[t].phase = "upload"
        /\ \/ /\ CanUpload
              /\ files' = [files EXCEPT ![f] = @ + 1]
              /\ \/ /\ tab' = [tab EXCEPT ![t].sending = @ \ {f}]
                    /\ UNCHANGED faults
                 \/ Failing(t, f) /\ Fault
           \/ /\ Failing(t, f) /\ IF CanUpload THEN Fault ELSE UNCHANGED faults
              /\ UNCHANGED files
        /\ UNCHANGED <<row, session, calls, scars>>
  BY DEF UploadEnds
<1>2. CASE Failing(t, f)
  <2>1. FailingDoes(t, f)
    BY <1>1, <1>2, FailingEffect
  <2>2. faults' \in {faults, faults + 1}
    BY <1>1 DEF Fault
  <2>3. files' = [files EXCEPT ![f] = @ + 1] \/ files' = files
    BY <1>1
  <2>4. UploadEndsDoes(t, f)
    BY <1>1, <2>1, <2>2, <2>3 DEF UploadEndsDoes, FailingDoes
  <2>5. QED BY <2>4
<1>3. CASE /\ files' = [files EXCEPT ![f] = @ + 1]
           /\ tab' = [tab EXCEPT ![t].sending = @ \ {f}] /\ UNCHANGED faults
  <2> DEFINE q == [tab[t] EXCEPT !.sending = @ \ {f}]
  <2>1. tab[t] \in Tab /\ calls[t] \subseteq Call
    BY TabFields
  <2>2. /\ q \in Tab /\ q.asked = tab[t].asked /\ q.added = tab[t].added /\ q.phase = tab[t].phase
        /\ q.sending = tab[t].sending \ {f} /\ q.failed = tab[t].failed /\ q.pending = tab[t].pending
        /\ q.marked = tab[t].marked /\ q.hasFailed = tab[t].hasFailed /\ q.saves = tab[t].saves
    BY <2>1 DEF Tab
  <2>3. tab' = [tab EXCEPT ![t] = q] /\ calls' = [calls EXCEPT ![t] = calls[t]]
    BY <1>1, <1>3 DEF Typed
  <2> HIDE DEF q
  <2>4. Alone(t) /\ tab'[t] = q
    BY <2>1, <2>2, <2>3, Turn
  <2>5. UploadEndsDoes(t, f)
    BY <1>1, <1>3, <2>2, <2>4 DEF UploadEndsDoes
  <2>6. QED BY <2>5
<1>4. QED BY <1>1, <1>2, <1>3

\* The uploads of page t are over, and failed tells whether the page saw one fail.
UploadsOverDoes(t) ==
    /\ tab[t].phase = "upload" /\ tab[t].sending = {} /\ Alone(t) /\ Rests(t)
    /\ tab'[t].marked = tab[t].marked /\ tab'[t].saves = tab[t].saves
    /\ tab'[t].hasFailed = (tab[t].failed # {})
    /\ \/ /\ tab[t].failed = {} /\ tab[t].marked # {} /\ tab'[t].phase = "remove"
          /\ \E N : /\ calls'[t] = calls[t] \cup N
                    /\ \A n \in N : \E f \in tab[t].marked : Fresh(t, n, "remove", f)
                    /\ \A f \in tab[t].marked : \E n \in N : Fresh(t, n, "remove", f)
       \/ /\ tab[t].failed # {} \/ tab[t].marked = {}
          /\ tab'[t].phase = "complete"
          /\ \E n : Fresh(t, n, "complete", Nothing) /\ calls'[t] = calls[t] \cup {n}
    /\ tab[t].failed = {} /\ tab[t].pending # {} => "unrendered" \in scars'
    /\ scars \subseteq scars' /\ scars' \subseteq scars \cup {"unrendered"}
    /\ UNCHANGED <<row, files, session, faults>>

LEMMA UploadsOverEffect ==
    ASSUME Typed, NEW t \in Tabs, UploadsOver(t) PROVE UploadsOverDoes(t)
<1> DEFINE bad == tab[t].failed # {}
           to == IF ~bad /\ tab[t].marked # {} THEN "remove" ELSE "complete"
           r == [tab[t] EXCEPT !.phase = to]
           q == [tab[t] EXCEPT !.phase = to, !.hasFailed = bad]
           N == IF ~bad /\ tab[t].marked # {} THEN {NewCall(t, "remove", f) : f \in tab[t].marked}
                ELSE {NewCall(t, "complete", Nothing)}
           D == calls[t] \cup N
<1>0. tab[t] \in Tab /\ calls[t] \subseteq Call /\ tab[t].marked \subseteq OldFiles
  BY TabFields
<1>1. /\ r \in Tab /\ r.asked = tab[t].asked /\ r.added = tab[t].added /\ r.phase = to
      /\ r.sending = tab[t].sending /\ r.failed = tab[t].failed /\ r.pending = tab[t].pending
      /\ r.marked = tab[t].marked /\ r.hasFailed = tab[t].hasFailed /\ r.saves = tab[t].saves
  <2>1. to \in Saving
    BY DEF Saving
  <2> HIDE DEF to
  <2>2. QED BY <1>0, <2>1 DEF Tab
<1>2. q = [r EXCEPT !.hasFailed = bad] /\ bad \in BOOLEAN
  <2> HIDE DEF to, bad
  <2>1. q = [r EXCEPT !.hasFailed = bad]
    BY <1>0 DEF Tab
  <2>2. QED BY <2>1 DEF bad
<1>3. tab' = [tab EXCEPT ![t] = q] /\ calls' = [calls EXCEPT ![t] = D]
  <2>1. Uploaded(t, bad)
    BY DEF UploadsOver
  <2>2. CASE ~bad /\ tab[t].marked # {}
    <3>1. /\ tab' = [tab EXCEPT ![t].phase = "remove", ![t].hasFailed = bad]
          /\ calls' = [calls EXCEPT ![t] = @ \cup {NewCall(t, "remove", f) : f \in tab[t].marked}]
      BY <2>1, <2>2, Zenon DEF Uploaded
    <3>2. to = "remove" /\ N = {NewCall(t, "remove", f) : f \in tab[t].marked}
      BY <2>2
    <3> HIDE DEF to, N, bad
    <3>3. tab' = [tab EXCEPT ![t] = q]
      BY <3>1, <3>2 DEF Typed
    <3>4. QED BY <3>1, <3>2, <3>3 DEF Typed
  <2>3. CASE ~(~bad /\ tab[t].marked # {})
    <3>1. /\ tab' = [tab EXCEPT ![t].phase = "complete", ![t].hasFailed = bad]
          /\ calls' = [calls EXCEPT ![t] = @ \cup {NewCall(t, "complete", Nothing)}]
      BY <2>1, <2>3, Zenon DEF Uploaded
    <3>2. to = "complete" /\ N = {NewCall(t, "complete", Nothing)}
      BY <2>3
    <3> HIDE DEF to, N, bad
    <3>3. tab' = [tab EXCEPT ![t] = q]
      BY <3>1, <3>2 DEF Typed
    <3>4. QED BY <3>1, <3>2, <3>3 DEF Typed
  <2>4. QED BY <2>2, <2>3
<1>4. /\ tab[t].phase = "upload" /\ tab[t].sending = {}
      /\ Scar("unrendered", tab[t].failed = {} /\ tab[t].pending # {})
      /\ UNCHANGED <<row, files, session, faults>>
  BY DEF UploadsOver
<1>5. N \subseteq Call
  <2>1. \A f \in tab[t].marked : NewCall(t, "remove", f) \in Call
    BY <1>0, NewCallFresh
  <2>2. NewCall(t, "complete", Nothing) \in Call
    BY NewCallFresh
  <2>3. QED BY <2>1, <2>2
<1>6. Alone(t) /\ tab'[t] = q /\ calls'[t] = D
      /\ q.phase = to /\ q.hasFailed = bad /\ q.marked = tab[t].marked /\ q.saves = tab[t].saves
      /\ q.sending = tab[t].sending /\ q.failed = tab[t].failed /\ q.pending = tab[t].pending
  <2> HIDE DEF r, q, N, to, bad
  <2>1. /\ q \in Tab /\ q.asked = tab[t].asked /\ q.added = tab[t].added /\ q.phase = to
        /\ q.sending = tab[t].sending /\ q.failed = tab[t].failed /\ q.pending = tab[t].pending
        /\ q.marked = tab[t].marked /\ q.hasFailed = bad /\ q.saves = tab[t].saves
    BY <1>1, <1>2 DEF Tab
  <2>2. D \subseteq Call
    BY <1>0, <1>5
  <2> HIDE DEF D
  <2>3. QED BY <1>3, <2>1, <2>2, Turn
<1> HIDE DEF q, r, D
<1>7. CASE ~bad /\ tab[t].marked # {}
  <2>1. \A f \in tab[t].marked : Fresh(t, NewCall(t, "remove", f), "remove", f)
    BY <1>0, <1>6, NewCallFresh DEF Fresh
  <2>2. N = {NewCall(t, "remove", f) : f \in tab[t].marked} /\ to = "remove"
    BY <1>7
  <2> HIDE DEF N, to
  <2>3. /\ \A n \in N : \E f \in tab[t].marked : Fresh(t, n, "remove", f)
        /\ \A f \in tab[t].marked : \E n \in N : Fresh(t, n, "remove", f)
    BY <2>1, <2>2
  <2>4. calls'[t] = calls[t] \cup N
    BY <1>6 DEF D
  <2>5. QED BY <1>4, <1>6, <1>7, <2>2, <2>3, <2>4 DEF UploadsOverDoes, Scar, Rests
<1>8. CASE ~(~bad /\ tab[t].marked # {})
  <2>1. Fresh(t, NewCall(t, "complete", Nothing), "complete", Nothing)
    BY <1>0, <1>6, NewCallFresh DEF Fresh
  <2>2. calls'[t] = calls[t] \cup {NewCall(t, "complete", Nothing)} /\ to = "complete"
    BY <1>6, <1>8 DEF D
  <2> HIDE DEF N, to
  <2>3. QED BY <1>4, <1>6, <1>8, <2>1, <2>2 DEF UploadsOverDoes, Scar, Rests
<1>9. QED BY <1>7, <1>8

KeyMissingDoes(t) ==
    /\ tab[t].phase = "upload" /\ tab[t].added = {} /\ Alone(t) /\ Rests(t)
    /\ tab'[t].marked = tab[t].marked /\ tab'[t].saves = tab[t].saves
    /\ tab'[t].hasFailed = tab[t].hasFailed /\ tab'[t].phase = "relock"
    /\ \E n : Fresh(t, n, "complete", Nothing) /\ calls'[t] = calls[t] \cup {n}
    /\ scars' = scars \cup {"keyless"}
    /\ UNCHANGED <<row, files, session, faults>>

LEMMA KeyMissingEffect ==
    ASSUME Typed, NEW t \in Tabs, KeyMissing(t) PROVE KeyMissingDoes(t)
<1> DEFINE q == [tab[t] EXCEPT !.phase = "relock"]
           n == NewCall(t, "complete", Nothing)
           D == calls[t] \cup {n}
<1>0. tab[t] \in Tab /\ calls[t] \subseteq Call
  BY TabFields
<1>1. /\ q \in Tab /\ q.asked = tab[t].asked /\ q.added = tab[t].added /\ q.phase = "relock"
      /\ q.sending = tab[t].sending /\ q.failed = tab[t].failed /\ q.pending = tab[t].pending
      /\ q.marked = tab[t].marked /\ q.hasFailed = tab[t].hasFailed /\ q.saves = tab[t].saves
  BY <1>0 DEF Tab, Saving
<1>2. /\ n \in Call /\ n.what = "complete" /\ n.file = Nothing /\ n.save = tab[t].saves
      /\ n.at = "sent" /\ ~n.retried
  BY NewCallFresh
<1>3. tab' = [tab EXCEPT ![t] = q] /\ calls' = [calls EXCEPT ![t] = D]
  BY DEF KeyMissing, Typed
<1>4. /\ tab[t].phase = "upload" /\ tab[t].added = {} /\ scars' = scars \cup {"keyless"}
      /\ UNCHANGED <<row, files, session, faults>>
  BY DEF KeyMissing, Scar
<1> HIDE DEF q, n
<1>5. D \subseteq Call
  BY <1>0, <1>2
<1> HIDE DEF D
<1>6. Alone(t) /\ tab'[t] = q /\ calls'[t] = D
  <2>1. q \in Tab /\ q.asked = tab[t].asked /\ q.added = tab[t].added
    BY <1>1
  <2>2. QED BY <1>3, <1>5, <2>1, Turn
<1>7. Fresh(t, n, "complete", Nothing)
  BY <1>1, <1>2, <1>6 DEF Fresh
<1>8. QED BY <1>1, <1>4, <1>6, <1>7 DEF KeyMissingDoes, Rests, D

\* Requests D of page t fail, and C are left.
RejectDoes(t, D, C) ==
    /\ Alone(t) /\ Rests(t)
    /\ tab'[t].marked = tab[t].marked /\ tab'[t].saves = tab[t].saves
    /\ tab'[t].hasFailed = tab[t].hasFailed
    /\ \/ /\ \A d \in D : ~Current(t, d)
          /\ tab'[t].phase = tab[t].phase /\ calls'[t] = C
       \/ /\ \E d \in D : Current(t, d)
          /\ tab[t].phase \in {"remove", "complete"} /\ tab'[t].phase = "relock"
          /\ \E n : Fresh(t, n, "complete", Nothing) /\ calls'[t] = C \cup {n}
       \/ /\ \E d \in D : Current(t, d)
          /\ tab[t].phase \in {"revert", "relock"} /\ tab'[t].phase = "idle"
          /\ calls'[t] = C

LEMMA RejectEffect ==
    ASSUME Typed, NEW t \in Tabs, NEW D, D \subseteq calls[t], NEW C, C \subseteq calls[t],
           Reject(t, D, C)
    PROVE  RejectDoes(t, D, C)
<1>0. /\ tab[t] \in Tab /\ calls[t] \subseteq Call /\ C \subseteq Call
      /\ tab[t].phase \in Saving \cup {"idle", "back", "gone"}
  BY TabFields
<1>1. CASE \A d \in D : ~Current(t, d)
  <2>1. tab' = [tab EXCEPT ![t] = tab[t]] /\ calls' = [calls EXCEPT ![t] = C]
    BY <1>1 DEF Reject, Typed
  <2>2. Alone(t) /\ tab'[t] = tab[t] /\ calls'[t] = C
    BY <1>0, <2>1, Turn
  <2>3. QED BY <1>1, <2>2 DEF RejectDoes, Rests
<1>2. CASE \E d \in D : Current(t, d)
  <2>1. tab[t].phase \in {"revert", "remove", "complete", "relock"}
    BY <1>0, <1>2, CurrentPhase DEF PhaseOf, Call
  <2>2. CASE tab[t].phase \in {"remove", "complete"}
    <3> DEFINE q == [tab[t] EXCEPT !.phase = "relock"]
               n == NewCall(t, "complete", Nothing)
               E == C \cup {n}
    <3>1. /\ q \in Tab /\ q.asked = tab[t].asked /\ q.added = tab[t].added /\ q.phase = "relock"
          /\ q.sending = tab[t].sending /\ q.failed = tab[t].failed /\ q.pending = tab[t].pending
          /\ q.marked = tab[t].marked /\ q.hasFailed = tab[t].hasFailed /\ q.saves = tab[t].saves
      BY <1>0 DEF Tab, Saving
    <3>2. /\ n \in Call /\ n.what = "complete" /\ n.file = Nothing /\ n.save = tab[t].saves
          /\ n.at = "sent" /\ ~n.retried
      BY NewCallFresh
    <3>3. tab' = [tab EXCEPT ![t] = q] /\ calls' = [calls EXCEPT ![t] = E]
      BY <1>2, <2>2 DEF Reject, Typed
    <3> HIDE DEF q, n
    <3>4. E \subseteq Call
      BY <1>0, <3>2
    <3> HIDE DEF E
    <3>5. Alone(t) /\ tab'[t] = q /\ calls'[t] = E
      <4>1. q \in Tab /\ q.asked = tab[t].asked /\ q.added = tab[t].added
        BY <3>1
      <4>2. QED BY <3>3, <3>4, <4>1, Turn
    <3>6. Fresh(t, n, "complete", Nothing)
      BY <3>1, <3>2, <3>5 DEF Fresh
    <3>7. QED BY <1>2, <2>2, <3>1, <3>5, <3>6 DEF RejectDoes, Rests, E
  <2>3. CASE tab[t].phase \in {"revert", "relock"}
    <3> DEFINE q == [tab[t] EXCEPT !.phase = "idle"]
    <3>1. /\ q \in Tab /\ q.asked = tab[t].asked /\ q.added = tab[t].added /\ q.phase = "idle"
          /\ q.sending = tab[t].sending /\ q.failed = tab[t].failed /\ q.pending = tab[t].pending
          /\ q.marked = tab[t].marked /\ q.hasFailed = tab[t].hasFailed /\ q.saves = tab[t].saves
      BY <1>0 DEF Tab, Saving
    <3>2. tab' = [tab EXCEPT ![t] = q] /\ calls' = [calls EXCEPT ![t] = C]
      BY <1>2, <2>3 DEF Reject, Typed
    <3> HIDE DEF q
    <3>3. C \subseteq Call
      BY <1>0
    <3>4. Alone(t) /\ tab'[t] = q /\ calls'[t] = C
      <4>1. q \in Tab /\ q.asked = tab[t].asked /\ q.added = tab[t].added
        BY <3>1
      <4>2. QED BY <3>2, <3>3, <4>1, Turn
    <3>5. QED BY <1>2, <2>3, <3>1, <3>4 DEF RejectDoes, Rests
  <2>4. QED BY <2>1, <2>2, <2>3
<1>3. QED BY <1>1, <1>2

\* Request c of page t succeeds, and C are left.
Opens(t, C) ==
    /\ tab[t].phase = "revert" /\ tab'[t].phase = "upload"
    /\ tab'[t].sending = tab[t].added /\ tab'[t].marked = tab[t].marked
    /\ calls'[t] = C
RemovesLast(t, C) ==
    /\ tab[t].phase = "remove" /\ tab'[t].phase = "complete"
    /\ \A d \in C : ~Current(t, d)
    /\ Rests(t) /\ tab'[t].marked = {}
    /\ \E n : Fresh(t, n, "complete", Nothing) /\ calls'[t] = C \cup {n}
Finishes(t, C) ==
    /\ tab[t].phase \in {"complete", "relock"}
    /\ tab'[t].phase = IF Reported(t) THEN "back" ELSE "idle"
    /\ Rests(t) /\ tab'[t].marked = tab[t].marked /\ calls'[t] = C

ResolveDoes(t, c, C) ==
    /\ Alone(t) /\ tab'[t].saves = tab[t].saves /\ tab'[t].hasFailed = tab[t].hasFailed
    /\ \/ /\ ~Current(t, c) \/ (c.what = "remove" /\ \E d \in C : Current(t, d))
          /\ tab'[t] = tab[t] /\ calls'[t] = C
       \/ Current(t, c) /\ c.what = "revert" /\ Opens(t, C)
       \/ Current(t, c) /\ c.what = "remove" /\ RemovesLast(t, C)
       \/ Current(t, c) /\ c.what = "complete" /\ Finishes(t, C)

LEMMA ResolveEffect ==
    ASSUME Typed, NEW t \in Tabs, NEW c \in calls[t], NEW C, C \subseteq calls[t], Resolve(t, c, C)
    PROVE  ResolveDoes(t, c, C)
<1>0. /\ tab[t] \in Tab /\ calls[t] \subseteq Call /\ C \subseteq Call /\ c \in Call
      /\ c.what \in {"revert", "remove", "complete"} /\ tab[t].added \subseteq NewFiles
      /\ tab[t].hasFailed \in BOOLEAN
  BY TabFields DEF Call
<1>1. CASE ~Current(t, c) \/ (c.what = "remove" /\ \E d \in C : Current(t, d))
  <2>1. tab' = [tab EXCEPT ![t] = tab[t]] /\ calls' = [calls EXCEPT ![t] = C \cup {}]
    <3>1. CASE ~Current(t, c)
      BY <3>1 DEF Resolve
    <3>2. CASE Current(t, c) /\ c.what = "remove" /\ \E d \in C : Current(t, d)
      BY <3>2 DEF Resolve
    <3>3. QED BY <1>1, <3>1, <3>2
  <2>2. tab[t] \in Tab /\ C \cup {} = C
    BY <1>0
  <2>3. calls' = [calls EXCEPT ![t] = C] /\ tab' = [tab EXCEPT ![t] = tab[t]]
    BY <2>1, <2>2
  <2>4. C \subseteq Call
    BY <1>0
  <2>5. Alone(t) /\ tab'[t] = tab[t] /\ calls'[t] = C
    BY <2>2, <2>3, <2>4, Turn
  <2>6. QED BY <1>1, <2>5 DEF ResolveDoes
<1>2. CASE Current(t, c) /\ c.what = "revert"
  <2> DEFINE q1 == [tab[t] EXCEPT !.phase = "upload"]
             q2 == [q1 EXCEPT !.sending = tab[t].added]
             q3 == [q2 EXCEPT !.failed = {}]
             q == [tab[t] EXCEPT !.phase = "upload", !.sending = tab[t].added, !.failed = {}, !.pending = {}]
  <2>1. /\ q1 \in Tab /\ q1.asked = tab[t].asked /\ q1.added = tab[t].added /\ q1.phase = "upload"
        /\ q1.marked = tab[t].marked /\ q1.hasFailed = tab[t].hasFailed /\ q1.saves = tab[t].saves
    BY <1>0 DEF Tab, Saving
  <2>2. q = [q3 EXCEPT !.pending = {}]
    BY <1>0 DEF Tab
  <2>3. tab' = [tab EXCEPT ![t] = q] /\ calls' = [calls EXCEPT ![t] = C \cup {}]
    BY <1>2 DEF Resolve, Typed
  <2> HIDE DEF q1, q
  <2>4. /\ q2 \in Tab /\ q2.asked = q1.asked /\ q2.added = q1.added /\ q2.phase = q1.phase
        /\ q2.sending = tab[t].added
        /\ q2.marked = q1.marked /\ q2.hasFailed = q1.hasFailed /\ q2.saves = q1.saves
    BY <1>0, <2>1 DEF Tab
  <2> HIDE DEF q2
  <2>5. /\ q3 \in Tab /\ q3.asked = q2.asked /\ q3.added = q2.added /\ q3.phase = q2.phase
        /\ q3.sending = q2.sending
        /\ q3.marked = q2.marked /\ q3.hasFailed = q2.hasFailed /\ q3.saves = q2.saves
    BY <2>4 DEF Tab
  <2> HIDE DEF q3
  <2>6. /\ q \in Tab /\ q.asked = tab[t].asked /\ q.added = tab[t].added /\ q.phase = "upload"
        /\ q.sending = tab[t].added
        /\ q.marked = tab[t].marked /\ q.hasFailed = tab[t].hasFailed /\ q.saves = tab[t].saves
    BY <2>1, <2>2, <2>4, <2>5 DEF Tab
  <2>7. Alone(t) /\ tab'[t] = q /\ calls'[t] = C
    <3>1. C \subseteq Call /\ C \cup {} = C
      BY <1>0
    <3>2. tab' = [tab EXCEPT ![t] = q] /\ calls' = [calls EXCEPT ![t] = C]
      BY <2>3, <3>1
    <3>3. q \in Tab /\ q.asked = tab[t].asked /\ q.added = tab[t].added
      BY <2>6
    <3>4. QED BY <3>1, <3>2, <3>3, Turn
  <2>8. tab[t].phase = "revert"
    BY <1>0, <1>2, CurrentPhase DEF PhaseOf
  <2>9. Opens(t, C)
    BY <2>6, <2>7, <2>8 DEF Opens
  <2>10. QED BY <1>2, <2>6, <2>7, <2>9 DEF ResolveDoes
<1>3. CASE Current(t, c) /\ c.what = "remove" /\ ~\E d \in C : Current(t, d)
  <2> DEFINE q1 == [tab[t] EXCEPT !.phase = "complete"]
             q == [tab[t] EXCEPT !.phase = "complete", !.marked = {}]
             n == NewCall(t, "complete", Nothing)
             D == C \cup {n}
  <2>1. /\ q1 \in Tab /\ q1.asked = tab[t].asked /\ q1.added = tab[t].added /\ q1.phase = "complete"
        /\ q1.sending = tab[t].sending /\ q1.failed = tab[t].failed /\ q1.pending = tab[t].pending
        /\ q1.hasFailed = tab[t].hasFailed /\ q1.saves = tab[t].saves
    BY <1>0 DEF Tab, Saving
  <2>2. q = [q1 EXCEPT !.marked = {}]
    BY <1>0 DEF Tab
  <2>3. tab' = [tab EXCEPT ![t] = q] /\ calls' = [calls EXCEPT ![t] = D]
    BY <1>3 DEF Resolve, Typed
  <2>4. /\ n \in Call /\ n.what = "complete" /\ n.file = Nothing /\ n.save = tab[t].saves
        /\ n.at = "sent" /\ ~n.retried
    BY NewCallFresh
  <2> HIDE DEF q1, q, n
  <2>5. /\ q \in Tab /\ q.asked = tab[t].asked /\ q.added = tab[t].added /\ q.phase = "complete"
        /\ q.sending = tab[t].sending /\ q.failed = tab[t].failed /\ q.pending = tab[t].pending
        /\ q.marked = {} /\ q.hasFailed = tab[t].hasFailed /\ q.saves = tab[t].saves
    BY <2>1, <2>2 DEF Tab
  <2>6. D \subseteq Call
    BY <1>0, <2>4
  <2> HIDE DEF D
  <2>7. Alone(t) /\ tab'[t] = q /\ calls'[t] = D
    <3>1. q \in Tab /\ q.asked = tab[t].asked /\ q.added = tab[t].added
      BY <2>5
    <3>2. QED BY <2>3, <2>6, <3>1, Turn
  <2>8. tab[t].phase = "remove"
    BY <1>0, <1>3, CurrentPhase DEF PhaseOf
  <2>9. Fresh(t, n, "complete", Nothing)
    BY <2>4, <2>5, <2>7 DEF Fresh
  <2>10. RemovesLast(t, C)
    BY <1>3, <2>5, <2>7, <2>8, <2>9 DEF RemovesLast, Rests, D
  <2>11. QED BY <1>3, <2>5, <2>7, <2>10 DEF ResolveDoes
<1>4. CASE Current(t, c) /\ c.what = "complete"
  <2> DEFINE to == IF tab[t].phase = "relock" \/ tab[t].hasFailed THEN "idle" ELSE "back"
             q == [tab[t] EXCEPT !.phase = to]
  <2>1. tab' = [tab EXCEPT ![t] = q] /\ calls' = [calls EXCEPT ![t] = C \cup {}]
    BY <1>4 DEF Resolve, Typed
  <2>2. tab[t].phase \in {"complete", "relock"}
    BY <1>0, <1>4, CurrentPhase DEF PhaseOf
  <2>3. to = (IF Reported(t) THEN "back" ELSE "idle") /\ to \in {"back", "idle"}
    BY <1>0, <2>2 DEF Reported
  <2> HIDE DEF to
  <2>4. /\ q \in Tab /\ q.asked = tab[t].asked /\ q.added = tab[t].added /\ q.phase = to
        /\ q.sending = tab[t].sending /\ q.failed = tab[t].failed /\ q.pending = tab[t].pending
        /\ q.marked = tab[t].marked /\ q.hasFailed = tab[t].hasFailed /\ q.saves = tab[t].saves
    BY <1>0, <2>3 DEF Tab
  <2> HIDE DEF q
  <2>5. C \subseteq Call /\ C \cup {} = C
    BY <1>0
  <2>6. tab' = [tab EXCEPT ![t] = q] /\ calls' = [calls EXCEPT ![t] = C]
    BY <2>1, <2>5
  <2>7. Alone(t) /\ tab'[t] = q /\ calls'[t] = C
    <3>1. q \in Tab /\ q.asked = tab[t].asked /\ q.added = tab[t].added
      BY <2>4
    <3>2. QED BY <2>5, <2>6, <3>1, Turn
  <2>8. Finishes(t, C)
    BY <2>2, <2>3, <2>4, <2>7 DEF Finishes, Rests
  <2>9. QED BY <1>4, <2>4, <2>7, <2>8 DEF ResolveDoes
<1>5. QED BY <1>0, <1>1, <1>2, <1>3, <1>4

-----------------------------------------------------------------------------
(* What the steps of the API do. *)

\* Request c takes effect.
ApplyDoes(c) ==
    /\ row.there /\ row' \in Row /\ row'.there /\ files' \in [Files -> Nat]
    /\ \/ c.what = "revert" /\ ~row'.locked /\ files' = files
       \/ /\ c.what = "remove" /\ row' = row /\ c.file \in OldFiles /\ files[c.file] > 0
          /\ files' = [files EXCEPT ![c.file] = @ - 1]
       \/ c.what = "complete" /\ row'.locked /\ files' = files

LEMMA ApplyEffect ==
    ASSUME Typed, NEW t \in Tabs, NEW c \in calls[t], Possible(c), Apply(c)
    PROVE  ApplyDoes(c)
<1>0. /\ c \in Call /\ row \in Row /\ files \in [Files -> Nat] /\ row.there
      /\ c.what \in {"revert", "remove", "complete"}
      /\ c.what = "remove" => c.file \in OldFiles /\ files[c.file] > 0
  <2>1. c \in Call /\ tab[t].asked \subseteq OldFiles
    BY TabFields
  <2>2. row \in Row /\ files \in [Files -> Nat] /\ (c.what = "remove" => c.file \in tab[t].asked)
    BY DEF Typed
  <2>3. row.there /\ (c.what = "remove" => files[c.file] > 0)
    BY DEF Possible
  <2>4. QED BY <2>1, <2>2, <2>3 DEF Call
<1>1. CASE c.what = "revert"
  <2>1. row' = [row EXCEPT !.locked = FALSE, !.age = 0] /\ files' = files
    BY <1>1 DEF Apply
  <2> DEFINE r == [row EXCEPT !.locked = FALSE]
  <2>2. r \in Row /\ r.there = row.there /\ ~r.locked
    BY <1>0 DEF Row
  <2>3. row' = [r EXCEPT !.age = 0]
    BY <1>0, <2>1 DEF Row
  <2> HIDE DEF r
  <2>4. row' \in Row /\ row'.there = row.there /\ ~row'.locked
    <3>1. 0 \in 0 .. Grace + 1
      BY BoundAssumption
    <3>2. QED BY <2>2, <2>3, <3>1 DEF Row
  <2>5. QED BY <1>0, <1>1, <2>1, <2>4 DEF ApplyDoes
<1>2. CASE c.what = "remove"
  <2>1. row' = row /\ files' = [files EXCEPT ![c.file] = @ - 1]
    BY <1>2 DEF Apply
  <2>2. files' \in [Files -> Nat]
    <3>1. c.file \in Files /\ files[c.file] \in Nat /\ files[c.file] - 1 \in Nat
      BY <1>0, <1>2 DEF Files
    <3>2. QED BY <1>0, <2>1, <3>1
  <2>3. QED BY <1>0, <1>2, <2>1, <2>2 DEF ApplyDoes
<1>3. CASE c.what = "complete"
  <2>1. row' = [row EXCEPT !.locked = TRUE] /\ files' = files
    BY <1>3 DEF Apply
  <2>2. row' \in Row /\ row'.there = row.there /\ row'.locked
    BY <1>0, <2>1 DEF Row
  <2>3. QED BY <1>0, <1>3, <2>1, <2>2 DEF ApplyDoes
<1>4. QED BY <1>0, <1>1, <1>2, <1>3

AnswerDoes(t, c) ==
    /\ c \in calls[t] /\ UNCHANGED <<session, faults>> /\ scars \subseteq scars'
    /\ \/ /\ ApplyDoes(c) /\ ResolveDoes(t, c, calls[t] \ {c})
          /\ c.what = "revert" /\ ~Current(t, c) => "unheard" \in scars'
          /\ c.what = "revert" /\ (\E f \in tab[t].added : files[f] > 0) => "again" \in scars'
       \/ /\ ~Possible(c) /\ RejectDoes(t, {c}, calls[t] \ {c}) /\ UNCHANGED <<row, files>>
          /\ c.what = "complete" /\ row.there /\ Empty => "emptied" \in scars'
          /\ c.what = "remove" /\ row.there => "missing" \in scars'

LEMMA AnswerEffect ==
    ASSUME Typed, NEW t \in Tabs, Answer(t) PROVE \E c \in calls[t] : AnswerDoes(t, c)
<1>1. PICK c \in calls[t] :
        /\ IF Possible(c)
           THEN /\ Apply(c) /\ Resolve(t, c, calls[t] \ {c})
                /\ scars' = scars
                        \cup (IF c.what = "revert" /\ ~Current(t, c) THEN {"unheard"} ELSE {})
                        \cup (IF c.what = "revert" /\ \E f \in tab[t].added : files[f] > 0 THEN {"again"} ELSE {})
           ELSE /\ Reject(t, {c}, calls[t] \ {c}) /\ UNCHANGED <<row, files>>
                /\ scars' = scars \cup (IF c.what = "complete" /\ row.there /\ Empty THEN {"emptied"} ELSE {})
                                  \cup (IF c.what = "remove" /\ row.there THEN {"missing"} ELSE {})
        /\ UNCHANGED <<session, faults>>
  BY DEF Answer
<1> DEFINE C == calls[t] \ {c}
<1>2. C \subseteq calls[t] /\ {c} \subseteq calls[t]
  OBVIOUS
<1> HIDE DEF C
<1>3. CASE Possible(c)
  <2>1. Apply(c) /\ Resolve(t, c, C)
    BY <1>1, <1>3 DEF C
  <2>2. ApplyDoes(c) /\ ResolveDoes(t, c, C)
    BY <1>2, <1>3, <2>1, ApplyEffect, ResolveEffect
  <2>3. /\ scars \subseteq scars'
        /\ c.what = "revert" /\ ~Current(t, c) => "unheard" \in scars'
        /\ c.what = "revert" /\ (\E f \in tab[t].added : files[f] > 0) => "again" \in scars'
    BY <1>1, <1>3
  <2>4. AnswerDoes(t, c)
    BY <1>1, <2>2, <2>3 DEF AnswerDoes, C
  <2>5. QED BY <2>4
<1>4. CASE ~Possible(c)
  <2>1. Reject(t, {c}, C)
    BY <1>1, <1>4 DEF C
  <2>2. RejectDoes(t, {c}, C)
    BY <1>2, <2>1, RejectEffect
  <2>3. /\ scars \subseteq scars' /\ UNCHANGED <<row, files>>
        /\ c.what = "complete" /\ row.there /\ Empty => "emptied" \in scars'
        /\ c.what = "remove" /\ row.there => "missing" \in scars'
    BY <1>1, <1>4
  <2>4. AnswerDoes(t, c)
    BY <1>1, <1>4, <2>2, <2>3 DEF AnswerDoes, C
  <2>5. QED BY <2>4
<1>5. QED BY <1>3, <1>4

LoseDoes(t, c) ==
    /\ c \in calls[t] /\ RejectDoes(t, {c}, calls[t] \ {c})
    /\ UNCHANGED session /\ faults' = faults + 1 /\ scars \subseteq scars'
    /\ \/ UNCHANGED <<row, files>>
       \/ ApplyDoes(c) /\ (c.what = "revert" => "unheard" \in scars')

LEMMA LoseEffect ==
    ASSUME Typed, NEW t \in Tabs, Lose(t) PROVE \E c \in calls[t] : LoseDoes(t, c)
<1>1. PICK c \in calls[t] :
        /\ c.at = "sent" /\ Fault
        /\ Reject(t, {c}, calls[t] \ {c})
        /\ \/ UNCHANGED <<row, files, scars>>
           \/ ~Denied(c) /\ Possible(c) /\ Apply(c) /\ Scar("unheard", c.what = "revert")
        /\ UNCHANGED session
  BY DEF Lose
<1> DEFINE C == calls[t] \ {c}
<1>2. C \subseteq calls[t] /\ {c} \subseteq calls[t]
  OBVIOUS
<1>3. Reject(t, {c}, C)
  BY <1>1
<1> HIDE DEF C
<1>4. RejectDoes(t, {c}, C)
  BY <1>2, <1>3, RejectEffect
<1>5. \/ UNCHANGED <<row, files, scars>>
      \/ ApplyDoes(c) /\ Scar("unheard", c.what = "revert")
  BY <1>1, ApplyEffect
<1>6. faults' = faults + 1 /\ UNCHANGED session
  BY <1>1 DEF Fault
<1>7. LoseDoes(t, c)
  BY <1>4, <1>5, <1>6 DEF LoseDoes, Scar, C
<1>8. QED BY <1>7

\* The requests of page t are as before, but for where they wait.
Resent(t) ==
    /\ Alone(t) /\ tab' = tab
    /\ \A c \in calls[t] : \E d \in calls'[t] : d.what = c.what /\ d.file = c.file /\ d.save = c.save
    /\ \A d \in calls'[t] : \E c \in calls[t] : d.what = c.what /\ d.file = c.file /\ d.save = c.save
    /\ UNCHANGED <<row, files, faults, scars>>

DenyDoes(t) ==
    /\ ~session.access /\ UNCHANGED <<row, files, session, faults, scars>>
    /\ \/ Resent(t) /\ (\A d \in calls'[t] : d.retried => \E c \in calls[t] : c.retried)
       \/ \E c \in calls[t] : c.retried /\ RejectDoes(t, {c}, calls[t] \ {c})

LEMMA DenyEffect == ASSUME Typed, NEW t \in Tabs, Deny(t) PROVE DenyDoes(t)
<1>1. PICK c \in calls[t] :
        /\ c.at = "sent" /\ Denied(c)
        /\ IF c.retried
           THEN Reject(t, {c}, calls[t] \ {c})
           ELSE calls' = [calls EXCEPT ![t] = (@ \ {c}) \cup {[c EXCEPT !.at = "waiting"]}] /\ UNCHANGED tab
        /\ UNCHANGED <<row, files, session, faults, scars>>
  BY DEF Deny
<1>2. ~session.access
  BY <1>1 DEF Denied
<1>3. CASE c.retried
  <2> DEFINE C == calls[t] \ {c}
  <2>1. C \subseteq calls[t] /\ {c} \subseteq calls[t]
    OBVIOUS
  <2>2. Reject(t, {c}, C)
    BY <1>1, <1>3
  <2> HIDE DEF C
  <2>3. RejectDoes(t, {c}, C)
    BY <2>1, <2>2, RejectEffect
  <2>4. QED BY <1>1, <1>2, <1>3, <2>3 DEF DenyDoes, C
<1>4. CASE ~c.retried
  <2> DEFINE d == [c EXCEPT !.at = "waiting"]
             D == (calls[t] \ {c}) \cup {d}
  <2>1. tab[t] \in Tab /\ calls[t] \subseteq Call /\ c \in Call
    BY TabFields
  <2>2. d \in Call /\ d.what = c.what /\ d.file = c.file /\ d.save = c.save /\ d.retried = c.retried
    BY <2>1 DEF Call
  <2>3. tab' = [tab EXCEPT ![t] = tab[t]] /\ calls' = [calls EXCEPT ![t] = D] /\ tab' = tab
    BY <1>1, <1>4 DEF Typed
  <2> HIDE DEF d
  <2>4. D \subseteq Call
    BY <2>1, <2>2
  <2>5. Alone(t) /\ calls'[t] = D
    <3> HIDE DEF D
    <3>1. QED BY <2>1, <2>3, <2>4, Turn
  <2>6. Resent(t)
    BY <1>1, <2>2, <2>3, <2>5 DEF Resent
  <2>7. \A e \in calls'[t] : e.retried => \E b \in calls[t] : b.retried
    BY <2>2, <2>5
  <2>8. QED BY <1>1, <1>2, <2>6, <2>7 DEF DenyDoes
<1>5. QED BY <1>3, <1>4

RefreshDoes(t) ==
    /\ Resent(t) /\ session' \in Session /\ session.alive /\ session'.alive /\ session'.access
    /\ \E c \in calls[t] : c.at = "waiting"

LEMMA RefreshEffect == ASSUME Typed, NEW t \in Tabs, Refresh(t) PROVE RefreshDoes(t)
<1> DEFINE W == Waiting(t)
           re(c) == [c EXCEPT !.at = "sent", !.retried = TRUE]
           Again == {re(c) : c \in W}
           D == (calls[t] \ W) \cup Again
<1>1. tab[t] \in Tab /\ calls[t] \subseteq Call /\ W \subseteq calls[t]
  BY TabFields DEF Waiting
<1>2. /\ W # {} /\ session.alive /\ session' = [session EXCEPT !.access = TRUE]
      /\ UNCHANGED <<row, files, tab, faults, scars>>
  BY DEF Refresh
<1>3. calls' = [calls EXCEPT ![t] = D]
  BY DEF Refresh, Typed
<1>4. \A c \in Call : re(c) \in Call /\ re(c).what = c.what /\ re(c).file = c.file /\ re(c).save = c.save
  <2> TAKE c \in Call
  <2> DEFINE b == [c EXCEPT !.at = "sent"]
             d == re(c)
  <2>1. b \in Call /\ b.what = c.what /\ b.file = c.file /\ b.save = c.save
    BY DEF Call
  <2>2. d = [b EXCEPT !.retried = TRUE]
    BY DEF Call
  <2> HIDE DEF b, d
  <2>3. d \in Call /\ d.what = c.what /\ d.file = c.file /\ d.save = c.save
    BY <2>1, <2>2 DEF Call
  <2>4. QED BY <2>3 DEF d
<1> HIDE DEF re
<1>5. Again \subseteq Call
  BY <1>1, <1>4
<1>6. /\ \A c \in W : \E d \in Again : d.what = c.what /\ d.file = c.file /\ d.save = c.save
      /\ \A d \in Again : \E c \in W : d.what = c.what /\ d.file = c.file /\ d.save = c.save
  BY <1>1, <1>4
<1> HIDE DEF Again, W
<1>7. D \subseteq Call
  BY <1>1, <1>5
<1>8. /\ \A c \in calls[t] : \E d \in D : d.what = c.what /\ d.file = c.file /\ d.save = c.save
      /\ \A d \in D : \E c \in calls[t] : d.what = c.what /\ d.file = c.file /\ d.save = c.save
  BY <1>1, <1>6
<1> HIDE DEF D
<1>9. Alone(t) /\ calls'[t] = D
  <2>1. tab' = [tab EXCEPT ![t] = tab[t]]
    BY <1>2 DEF Typed
  <2>2. tab[t] \in Tab
    BY <1>1
  <2>3. QED BY <1>3, <1>7, <2>1, <2>2, Turn
<1>10. Resent(t)
  BY <1>2, <1>8, <1>9 DEF Resent
<1>11. session' \in Session /\ session'.alive /\ session'.access
  BY <1>2 DEF Typed, Session
<1>12. \E c \in calls[t] : c.at = "waiting"
  BY <1>2 DEF W, Waiting
<1>13. QED BY <1>2, <1>10, <1>11, <1>12 DEF RefreshDoes

\* Page t goes away.
LeaveDoes(t) ==
    /\ Alone(t) /\ tab'[t].phase = "gone" /\ tab'[t].sending = {}
    /\ tab'[t].marked = tab[t].marked /\ tab'[t].hasFailed = tab[t].hasFailed
    /\ tab'[t].saves = tab[t].saves
    /\ calls'[t] \subseteq calls[t] /\ scars \subseteq scars'
    /\ tab[t].phase \in Saving => "left" \in scars'

LEMMA LeaveEffect == ASSUME Typed, NEW t \in Tabs, Leave(t) PROVE LeaveDoes(t)
<1> DEFINE q1 == [tab[t] EXCEPT !.phase = "gone"]
           q2 == [q1 EXCEPT !.sending = {}]
           q == [tab[t] EXCEPT !.phase = "gone", !.sending = {}, !.pending = {}]
           D == calls[t] \ Waiting(t)
<1>0. tab[t] \in Tab /\ calls[t] \subseteq Call
  BY TabFields
<1>1. /\ q1 \in Tab /\ q1.asked = tab[t].asked /\ q1.added = tab[t].added /\ q1.phase = "gone"
      /\ q1.marked = tab[t].marked /\ q1.hasFailed = tab[t].hasFailed /\ q1.saves = tab[t].saves
  BY <1>0 DEF Tab
<1>2. q = [q2 EXCEPT !.pending = {}]
  BY <1>0 DEF Tab
<1>3. tab' = [tab EXCEPT ![t] = q] /\ calls' = [calls EXCEPT ![t] = D]
  BY DEF Leave, Typed
<1>4. Scar("left", tab[t].phase \in Saving)
  BY DEF Leave
<1> HIDE DEF q1, q
<1>5. /\ q2 \in Tab /\ q2.asked = q1.asked /\ q2.added = q1.added /\ q2.phase = q1.phase
      /\ q2.sending = {}
      /\ q2.marked = q1.marked /\ q2.hasFailed = q1.hasFailed /\ q2.saves = q1.saves
  BY <1>1 DEF Tab
<1> HIDE DEF q2
<1>6. /\ q \in Tab /\ q.asked = tab[t].asked /\ q.added = tab[t].added /\ q.phase = "gone"
      /\ q.sending = {}
      /\ q.marked = tab[t].marked /\ q.hasFailed = tab[t].hasFailed /\ q.saves = tab[t].saves
  BY <1>1, <1>2, <1>5 DEF Tab
<1>7. D \subseteq Call /\ D \subseteq calls[t]
  BY <1>0
<1> HIDE DEF D
<1>8. Alone(t) /\ tab'[t] = q /\ calls'[t] = D
  <2>1. q \in Tab /\ q.asked = tab[t].asked /\ q.added = tab[t].added
    BY <1>6
  <2>2. D \subseteq Call
    BY <1>7
  <2>3. QED BY <1>3, <2>1, <2>2, Turn
<1>9. QED BY <1>4, <1>6, <1>7, <1>8 DEF LeaveDoes, Scar

RefreshFailsDoes(t) ==
    /\ UNCHANGED <<row, files, session>> /\ faults' \in {faults, faults + 1}
    /\ scars \subseteq scars'
    /\ session.alive => faults' = faults + 1
    /\ \E c \in calls[t] : c.at = "waiting"
    /\ \/ LeaveDoes(t)
       \/ \E D \in SUBSET calls[t] : RejectDoes(t, D, calls[t] \ D)

LEMMA RefreshFailsEffect == ASSUME Typed, NEW t \in Tabs, RefreshFails(t) PROVE RefreshFailsDoes(t)
<1> DEFINE W == Waiting(t)
           C == calls[t] \ W
<1>1. W \subseteq calls[t] /\ C \subseteq calls[t]
  BY DEF Waiting
<1>2. /\ W # {} /\ (IF session.alive THEN Fault ELSE UNCHANGED faults)
      /\ Leave(t) \/ (Reject(t, W, C) /\ UNCHANGED scars)
      /\ UNCHANGED <<row, files, session>>
  BY DEF RefreshFails
<1>3. \E c \in calls[t] : c.at = "waiting"
  BY <1>2 DEF Waiting
<1>4. faults' \in {faults, faults + 1} /\ (session.alive => faults' = faults + 1)
  BY <1>2 DEF Fault
<1> HIDE DEF W
<1>5. CASE Leave(t)
  BY <1>2, <1>3, <1>4, <1>5, LeaveEffect DEF RefreshFailsDoes, LeaveDoes
<1>6. CASE Reject(t, W, C) /\ UNCHANGED scars
  <2> HIDE DEF C
  <2>1. RejectDoes(t, W, C)
    BY <1>1, <1>6, RejectEffect
  <2>2. QED BY <1>1, <1>2, <1>3, <1>4, <1>6, <2>1 DEF RefreshFailsDoes, C
<1>7. QED BY <1>2, <1>5, <1>6

CloseDoes(t) ==
    /\ LeaveDoes(t) /\ faults' = faults + 1 /\ UNCHANGED <<row, files, session>>

LapseDoes ==
    /\ session' \in Session /\ faults' = faults + 1
    /\ session'.access => session.access
    /\ session'.alive => session.alive
    /\ session'.access = session.access \/ session'.alive = session.alive
    /\ UNCHANGED <<row, files, tab, calls, scars>>

TickDoes ==
    /\ row' \in Row /\ row'.there = row.there /\ row'.locked = row.locked
    /\ UNCHANGED <<files, session, tab, calls, faults, scars>>

DeleteDoes ==
    /\ row.there /\ ~row.locked /\ row' \in Row /\ ~row'.there
    /\ files' \in [Files -> Nat] /\ scars \subseteq scars'
    /\ (\E t \in Tabs : ~Idle(t)) => "long" \in scars'
    /\ UNCHANGED <<session, tab, calls, faults>>

PageDoes(t) ==
    \/ SaveDoes(t) \/ (\E f \in tab[t].sending : UploadEndsDoes(t, f)) \/ RenderDoes(t)
    \/ UploadsOverDoes(t) \/ KeyMissingDoes(t)
    \/ (\E c \in calls[t] : AnswerDoes(t, c)) \/ (\E c \in calls[t] : LoseDoes(t, c))
    \/ DenyDoes(t) \/ RefreshDoes(t) \/ RefreshFailsDoes(t) \/ CloseDoes(t)

LEMMA CloseEffect == ASSUME Typed, NEW t \in Tabs, Close(t) PROVE CloseDoes(t)
BY LeaveEffect DEF Close, CloseDoes, Fault

LEMMA LapseEffect == ASSUME Typed, Lapse PROVE LapseDoes
<1>1. session \in Session /\ faults' = faults + 1 /\ UNCHANGED <<row, files, tab, calls, scars>>
  BY DEF Typed, Lapse, Fault
<1>2. CASE session' = [session EXCEPT !.access = FALSE]
  BY <1>1, <1>2 DEF LapseDoes, Session
<1>3. CASE session' = [session EXCEPT !.alive = FALSE]
  BY <1>1, <1>3 DEF LapseDoes, Session
<1>4. QED BY <1>2, <1>3 DEF Lapse

LEMMA TickEffect == ASSUME Typed, Tick PROVE TickDoes
<1>1. row \in Row /\ row.age <= Grace /\ row' = [row EXCEPT !.age = @ + 1]
  BY DEF Typed, Tick
<1>2. row.age + 1 \in 0 .. Grace + 1
  BY <1>1, BoundAssumption DEF Row
<1>3. row' \in Row /\ row'.there = row.there /\ row'.locked = row.locked
  BY <1>1, <1>2 DEF Row
<1>4. UNCHANGED <<files, session, tab, calls, faults, scars>>
  BY DEF Tick
<1>5. QED BY <1>3, <1>4 DEF TickDoes

LEMMA DeleteEffect == ASSUME Typed, DeleteUnfinished PROVE DeleteDoes
<1>1. row \in Row /\ row.there /\ ~row.locked /\ row' = [row EXCEPT !.there = FALSE]
  BY DEF Typed, DeleteUnfinished
<1>2. row' \in Row /\ ~row'.there
  BY <1>1 DEF Row
<1>3. files' \in [Files -> Nat]
  BY DEF DeleteUnfinished
<1>4. QED BY <1>1, <1>2, <1>3 DEF DeleteUnfinished, DeleteDoes, Scar

\* A step is of a page, or of the world.
LEMMA Kinds ==
    ASSUME Typed, [Next]_vars
    PROVE  \/ \E t \in Tabs : PageDoes(t)
           \/ LapseDoes \/ TickDoes \/ DeleteDoes \/ UNCHANGED vars
<1>1. ASSUME NEW t \in Tabs, Save(t) PROVE PageDoes(t)
  BY <1>1, SaveEffect DEF PageDoes
<1>2. ASSUME NEW t \in Tabs, UploadEnds(t) PROVE PageDoes(t)
  BY <1>2, UploadEndsEffect DEF PageDoes
<1>3. ASSUME NEW t \in Tabs, Render(t) PROVE PageDoes(t)
  BY <1>3, RenderEffect DEF PageDoes
<1>4. ASSUME NEW t \in Tabs, UploadsOver(t) PROVE PageDoes(t)
  BY <1>4, UploadsOverEffect DEF PageDoes
<1>5. ASSUME NEW t \in Tabs, KeyMissing(t) PROVE PageDoes(t)
  BY <1>5, KeyMissingEffect DEF PageDoes
<1>6. ASSUME NEW t \in Tabs, Answer(t) PROVE PageDoes(t)
  BY <1>6, AnswerEffect DEF PageDoes
<1>7. ASSUME NEW t \in Tabs, Lose(t) PROVE PageDoes(t)
  BY <1>7, LoseEffect DEF PageDoes
<1>8. ASSUME NEW t \in Tabs, Deny(t) PROVE PageDoes(t)
  BY <1>8, DenyEffect DEF PageDoes
<1>9. ASSUME NEW t \in Tabs, Refresh(t) PROVE PageDoes(t)
  BY <1>9, RefreshEffect DEF PageDoes
<1>10. ASSUME NEW t \in Tabs, RefreshFails(t) PROVE PageDoes(t)
  BY <1>10, RefreshFailsEffect DEF PageDoes
<1>11. ASSUME NEW t \in Tabs, Close(t) PROVE PageDoes(t)
  BY <1>11, CloseEffect DEF PageDoes
<1>12. CASE \E t \in Tabs :
          \/ Save(t) \/ UploadEnds(t) \/ Render(t) \/ UploadsOver(t) \/ KeyMissing(t)
          \/ Answer(t) \/ Lose(t) \/ Deny(t) \/ Refresh(t) \/ RefreshFails(t) \/ Close(t)
  BY <1>1, <1>2, <1>3, <1>4, <1>5, <1>6, <1>7, <1>8, <1>9, <1>10, <1>11, <1>12
<1>13. CASE Lapse \/ Tick \/ DeleteUnfinished \/ UNCHANGED vars
  BY <1>13, LapseEffect, TickEffect, DeleteEffect
<1>14. QED BY <1>12, <1>13 DEF Next

-----------------------------------------------------------------------------
(* Typed *)

LEMMA PageTyped ==
    ASSUME Typed, NEW t \in Tabs, Alone(t),
           row' \in Row, files' \in [Files -> Nat], session' \in Session, faults' \in Nat,
           tab'[t].sending \subseteq tab[t].added,
           tab'[t].marked \in {{}, tab[t].asked},
           \A c \in calls'[t] : c.what = "remove" => c.file \in tab[t].asked
    PROVE  Typed'
<1>1. \A u \in Tabs : tab'[u].asked = tab[u].asked /\ tab'[u].added = tab[u].added
  BY DEF Alone
<1>2. \A u \in Tabs :
        /\ tab'[u].sending \subseteq tab'[u].added
        /\ tab'[u].marked \in {{}, tab'[u].asked}
        /\ \A c \in calls'[u] : c.what = "remove" => c.file \in tab'[u].asked
  <2> TAKE u \in Tabs
  <2>1. CASE u = t
    BY <1>1, <2>1
  <2>2. CASE u # t
    BY <2>2 DEF Alone, Typed
  <2>3. QED BY <2>1, <2>2
<1>3. QED BY <1>1, <1>2 DEF Typed, Alone

\* Requests that fail take none with them, and the completion that follows removes nothing.
LEMMA RejectTyped ==
    ASSUME Typed, NEW t \in Tabs, NEW D, NEW C, C \subseteq calls[t], RejectDoes(t, D, C),
           row' \in Row, files' \in [Files -> Nat], session' \in Session, faults' \in Nat
    PROVE  Typed'
<1>1. \A c \in calls'[t] : c.what = "remove" => c.file \in tab[t].asked
  BY DEF Typed, RejectDoes, Fresh
<1>2. Alone(t) /\ tab'[t].sending \subseteq tab[t].added /\ tab'[t].marked \in {{}, tab[t].asked}
  BY DEF Typed, RejectDoes, Rests
<1>3. QED BY <1>1, <1>2, PageTyped

LEMMA ResolveTyped ==
    ASSUME Typed, NEW t \in Tabs, NEW c, NEW C, C \subseteq calls[t], ResolveDoes(t, c, C),
           row' \in Row, files' \in [Files -> Nat], session' \in Session, faults' \in Nat
    PROVE  Typed'
<1>1. \A d \in calls'[t] : d.what = "remove" => d.file \in tab[t].asked
  BY DEF Typed, ResolveDoes, Opens, RemovesLast, Finishes, Fresh
<1>2. Alone(t) /\ tab'[t].sending \subseteq tab[t].added /\ tab'[t].marked \in {{}, tab[t].asked}
  BY DEF Typed, ResolveDoes, Opens, RemovesLast, Finishes, Rests
<1>3. QED BY <1>1, <1>2, PageTyped

LEMMA TypedNext == ASSUME Typed, [Next]_vars PROVE Typed'
<1>0. row \in Row /\ files \in [Files -> Nat] /\ session \in Session /\ faults \in Nat /\ faults + 1 \in Nat
  BY DEF Typed
<1>1. ASSUME NEW t \in Tabs, PageDoes(t) PROVE Typed'
  <2>0. /\ tab[t].sending \subseteq tab[t].added /\ tab[t].marked \in {{}, tab[t].asked}
        /\ \A c \in calls[t] : c.what = "remove" => c.file \in tab[t].asked
    BY DEF Typed
  <2>1. CASE SaveDoes(t)
    <3>1. \A c \in calls'[t] : c.what = "remove" => c.file \in tab[t].asked
      BY <2>0, <2>1 DEF SaveDoes, Fresh
    <3>2. QED BY <1>0, <2>0, <2>1, <3>1, PageTyped DEF SaveDoes, Rests
  <2>2. CASE \E f \in tab[t].sending : UploadEndsDoes(t, f)
    <3>1. PICK f \in tab[t].sending : UploadEndsDoes(t, f)
      BY <2>2
    <3>2. files' \in [Files -> Nat] /\ faults' \in Nat
      <4>1. f \in Files /\ files[f] + 1 \in Nat
        BY <1>0, TabFields DEF Files
      <4>2. QED BY <1>0, <3>1, <4>1 DEF UploadEndsDoes
    <3>3. /\ Alone(t) /\ row' = row /\ session' = session /\ calls'[t] = calls[t]
          /\ tab'[t].sending \subseteq tab[t].added /\ tab'[t].marked = tab[t].marked
      BY <2>0, <3>1 DEF UploadEndsDoes
    <3>4. QED BY <1>0, <2>0, <3>2, <3>3, PageTyped
  <2>3. CASE RenderDoes(t)
    BY <1>0, <2>0, <2>3, PageTyped DEF RenderDoes
  <2>4. CASE UploadsOverDoes(t)
    <3>1. \A c \in calls'[t] : c.what = "remove" => c.file \in tab[t].asked
      BY <2>0, <2>4 DEF UploadsOverDoes, Fresh
    <3>2. QED BY <1>0, <2>0, <2>4, <3>1, PageTyped DEF UploadsOverDoes, Rests
  <2>5. CASE KeyMissingDoes(t)
    <3>1. \A c \in calls'[t] : c.what = "remove" => c.file \in tab[t].asked
      BY <2>0, <2>5 DEF KeyMissingDoes, Fresh
    <3>2. QED BY <1>0, <2>0, <2>5, <3>1, PageTyped DEF KeyMissingDoes, Rests
  <2>6. CASE \E c \in calls[t] : AnswerDoes(t, c)
    <3>1. PICK c \in calls[t] : AnswerDoes(t, c)
      BY <2>6
    <3>2. calls[t] \ {c} \subseteq calls[t]
      OBVIOUS
    <3>3. session' \in Session /\ faults' \in Nat
      BY <1>0, <3>1 DEF AnswerDoes
    <3>4. CASE ApplyDoes(c) /\ ResolveDoes(t, c, calls[t] \ {c})
      BY <3>2, <3>3, <3>4, ResolveTyped DEF ApplyDoes
    <3>5. CASE RejectDoes(t, {c}, calls[t] \ {c}) /\ UNCHANGED <<row, files>>
      BY <1>0, <3>2, <3>3, <3>5, RejectTyped
    <3>6. QED BY <3>1, <3>4, <3>5 DEF AnswerDoes
  <2>7. CASE \E c \in calls[t] : LoseDoes(t, c)
    <3>1. PICK c \in calls[t] : LoseDoes(t, c)
      BY <2>7
    <3>2. calls[t] \ {c} \subseteq calls[t]
      OBVIOUS
    <3>3. session' \in Session /\ faults' \in Nat /\ row' \in Row /\ files' \in [Files -> Nat]
      BY <1>0, <3>1 DEF LoseDoes, ApplyDoes
    <3>4. RejectDoes(t, {c}, calls[t] \ {c})
      BY <3>1 DEF LoseDoes
    <3>5. QED BY <3>2, <3>3, <3>4, RejectTyped
  <2>8. CASE DenyDoes(t)
    <3>1. CASE Resent(t)
      BY <1>0, <2>0, <2>8, <3>1, PageTyped DEF DenyDoes, Resent
    <3>2. ASSUME NEW c \in calls[t], RejectDoes(t, {c}, calls[t] \ {c}) PROVE Typed'
      <4>1. calls[t] \ {c} \subseteq calls[t]
        OBVIOUS
      <4>2. session' \in Session /\ faults' \in Nat /\ row' \in Row /\ files' \in [Files -> Nat]
        BY <1>0, <2>8 DEF DenyDoes
      <4>3. QED BY <3>2, <4>1, <4>2, RejectTyped
    <3>3. QED BY <2>8, <3>1, <3>2 DEF DenyDoes
  <2>9. CASE RefreshDoes(t)
    BY <1>0, <2>0, <2>9, PageTyped DEF RefreshDoes, Resent
  <2>10. CASE RefreshFailsDoes(t)
    <3>1. session' \in Session /\ faults' \in Nat /\ row' \in Row /\ files' \in [Files -> Nat]
      BY <1>0, <2>10 DEF RefreshFailsDoes
    <3>2. CASE LeaveDoes(t)
      <4>1. \A c \in calls'[t] : c.what = "remove" => c.file \in tab[t].asked
        BY <2>0, <3>2 DEF LeaveDoes
      <4>2. QED BY <2>0, <3>1, <3>2, <4>1, PageTyped DEF LeaveDoes
    <3>3. ASSUME NEW D \in SUBSET calls[t], RejectDoes(t, D, calls[t] \ D) PROVE Typed'
      <4>1. calls[t] \ D \subseteq calls[t]
        OBVIOUS
      <4>2. QED BY <3>1, <3>3, <4>1, RejectTyped
    <3>4. QED BY <2>10, <3>2, <3>3 DEF RefreshFailsDoes
  <2>11. CASE CloseDoes(t)
    <3>1. \A c \in calls'[t] : c.what = "remove" => c.file \in tab[t].asked
      BY <2>0, <2>11 DEF CloseDoes, LeaveDoes
    <3>2. QED BY <1>0, <2>0, <2>11, <3>1, PageTyped DEF CloseDoes, LeaveDoes
  <2>12. QED BY <1>1, <2>1, <2>2, <2>3, <2>4, <2>5, <2>6, <2>7, <2>8, <2>9, <2>10, <2>11 DEF PageDoes
<1>2. CASE LapseDoes
  BY <1>0, <1>2 DEF LapseDoes, Typed
<1>3. CASE TickDoes
  BY <1>0, <1>3 DEF TickDoes, Typed
<1>4. CASE DeleteDoes
  BY <1>0, <1>4 DEF DeleteDoes, Typed
<1>5. CASE UNCHANGED vars
  BY <1>5 DEF vars, Typed
<1>6. QED BY <1>1, <1>2, <1>3, <1>4, <1>5, Kinds

-----------------------------------------------------------------------------
(* Waits *)

LEMMA Elsewhere ==
    ASSUME NEW t \in Tabs, Alone(t), NEW u \in Tabs, u # t, NEW c
    PROVE  Current(u, c)' <=> Current(u, c)
BY DEF Alone, Current

LEMMA StillCurrent ==
    ASSUME Typed, NEW t \in Tabs, Alone(t), tab'[t].phase = tab[t].phase, tab'[t].saves = tab[t].saves,
           NEW c \in Call, NEW d \in Call, d.what = c.what, d.save = c.save
    PROVE  Current(t, d)' <=> Current(t, c)
BY CurrentPhase, CurrentPhaseNext DEF Alone

LEMMA FreshCurrent ==
    ASSUME NEW t \in Tabs, Alone(t), NEW n, NEW what, NEW f, Fresh(t, n, what, f),
           tab'[t].phase \in PhaseOf(what)
    PROVE  Current(t, n)'
BY CurrentPhaseNext DEF Alone, Fresh

LEMMA PageWaits ==
    ASSUME Waits, NEW t \in Tabs, Alone(t),
           tab'[t].phase \in Saving \ {"upload"} => \E c \in calls'[t] : Current(t, c)',
           tab'[t].sending # {} => tab'[t].phase = "upload"
    PROVE  Waits'
<1>1. ASSUME NEW u \in Tabs, u # t
      PROVE  /\ tab'[u].phase \in Saving \ {"upload"} => \E c \in calls'[u] : Current(u, c)'
             /\ tab'[u].sending # {} => tab'[u].phase = "upload"
  <2>1. tab'[u] = tab[u] /\ calls'[u] = calls[u]
    BY <1>1 DEF Alone
  <2>2. \A c \in calls[u] : Current(u, c)' <=> Current(u, c)
    BY <1>1, Elsewhere
  <2>3. QED BY <2>1, <2>2 DEF Waits
<1>2. QED BY <1>1 DEF Waits

LEMMA RejectWaits ==
    ASSUME Typed, Waits, NEW t \in Tabs, NEW D, D \subseteq calls[t], RejectDoes(t, D, calls[t] \ D)
    PROVE  Waits'
<1>0. /\ Alone(t) /\ Rests(t) /\ tab'[t].saves = tab[t].saves /\ calls[t] \subseteq Call
      /\ tab[t].sending # {} => tab[t].phase = "upload"
      /\ tab[t].phase \in Saving \ {"upload"} => \E c \in calls[t] : Current(t, c)
  BY TabFields DEF RejectDoes, Waits
<1>1. CASE /\ \A d \in D : ~Current(t, d)
           /\ tab'[t].phase = tab[t].phase /\ calls'[t] = calls[t] \ D
  <2>1. \A c \in calls[t] : Current(t, c)' <=> Current(t, c)
    BY <1>0, <1>1, StillCurrent
  <2>2. tab'[t].phase \in Saving \ {"upload"} => \E c \in calls'[t] : Current(t, c)'
    BY <1>0, <1>1, <2>1
  <2>3. tab'[t].sending # {} => tab'[t].phase = "upload"
    BY <1>0, <1>1 DEF Rests
  <2>4. QED BY <1>0, <2>2, <2>3, PageWaits
<1>2. CASE /\ tab[t].phase \in {"remove", "complete"} /\ tab'[t].phase = "relock"
           /\ \E n : Fresh(t, n, "complete", Nothing) /\ calls'[t] = (calls[t] \ D) \cup {n}
  <2>1. tab'[t].sending = {}
    BY <1>0, <1>2 DEF Rests
  <2>2. \E c \in calls'[t] : Current(t, c)'
    BY <1>0, <1>2, FreshCurrent DEF PhaseOf
  <2>3. QED BY <1>0, <2>1, <2>2, PageWaits
<1>3. CASE tab[t].phase \in {"revert", "relock"} /\ tab'[t].phase = "idle"
  <2>1. tab'[t].sending = {} /\ tab'[t].phase \notin Saving
    BY <1>0, <1>3 DEF Rests, Saving
  <2>2. QED BY <1>0, <2>1, PageWaits
<1>4. QED BY <1>1, <1>2, <1>3 DEF RejectDoes

LEMMA ResolveWaits ==
    ASSUME Typed, Waits, NEW t \in Tabs, NEW c \in calls[t], ResolveDoes(t, c, calls[t] \ {c})
    PROVE  Waits'
<1> DEFINE C == calls[t] \ {c}
<1>0. /\ Alone(t) /\ tab'[t].saves = tab[t].saves /\ calls[t] \subseteq Call
      /\ tab[t].sending # {} => tab[t].phase = "upload"
      /\ tab[t].phase \in Saving \ {"upload"} => \E d \in calls[t] : Current(t, d)
  BY TabFields DEF ResolveDoes, Waits
<1>1. CASE /\ ~Current(t, c) \/ (c.what = "remove" /\ \E d \in C : Current(t, d))
           /\ tab'[t] = tab[t] /\ calls'[t] = C
  <2>1. \A d \in calls[t] : Current(t, d)' <=> Current(t, d)
    BY <1>0, <1>1, StillCurrent
  <2>2. tab'[t].phase \in Saving \ {"upload"} => \E d \in calls'[t] : Current(t, d)'
    BY <1>0, <1>1, <2>1
  <2>3. tab'[t].sending # {} => tab'[t].phase = "upload"
    BY <1>0, <1>1
  <2>4. QED BY <1>0, <2>2, <2>3, PageWaits
<1>2. CASE Opens(t, C)
  BY <1>0, <1>2, PageWaits DEF Opens
<1>3. CASE RemovesLast(t, C)
  <2>1. tab'[t].sending = {}
    BY <1>0, <1>3 DEF RemovesLast, Rests
  <2>2. \E d \in calls'[t] : Current(t, d)'
    BY <1>0, <1>3, FreshCurrent DEF PhaseOf, RemovesLast
  <2>3. QED BY <1>0, <2>1, <2>2, PageWaits
<1>4. CASE Finishes(t, C)
  <2>1. tab'[t].sending = {} /\ tab'[t].phase \notin Saving
    BY <1>0, <1>4 DEF Finishes, Rests, Saving
  <2>2. QED BY <1>0, <2>1, PageWaits
<1>5. QED BY <1>1, <1>2, <1>3, <1>4 DEF ResolveDoes

LEMMA ResentWaits ==
    ASSUME Typed, Waits, NEW t \in Tabs, Resent(t)
    PROVE  Waits'
<1>0. Alone(t) /\ tab'[t] = tab[t] /\ calls[t] \subseteq Call /\ calls'[t] \subseteq Call
  BY TabFields DEF Resent, Alone
<1>1. ASSUME NEW c \in calls[t], Current(t, c) PROVE \E d \in calls'[t] : Current(t, d)'
  <2>1. PICK d \in calls'[t] : d.what = c.what /\ d.save = c.save
    BY DEF Resent
  <2>2. QED BY <1>0, <1>1, <2>1, StillCurrent
<1>2. QED BY <1>0, <1>1, PageWaits DEF Waits

LEMMA LeaveWaits == ASSUME Waits, NEW t \in Tabs, LeaveDoes(t) PROVE Waits'
<1>1. Alone(t) /\ tab'[t].phase \notin Saving /\ tab'[t].sending = {}
  BY DEF LeaveDoes, Saving
<1>2. QED BY <1>1, PageWaits

LEMMA WaitsNext == ASSUME Typed, Waits, [Next]_vars PROVE Waits'
<1>1. ASSUME NEW t \in Tabs, PageDoes(t) PROVE Waits'
  <2>0. /\ tab[t].sending # {} => tab[t].phase = "upload"
        /\ tab[t].phase \in Saving \ {"upload"} => \E d \in calls[t] : Current(t, d)
        /\ calls[t] \subseteq Call
    BY TabFields DEF Waits
  <2>1. CASE SaveDoes(t)
    <3>1. \E d \in calls'[t] : Current(t, d)'
      BY <2>1, FreshCurrent DEF SaveDoes, PhaseOf
    <3>2. Alone(t) /\ tab'[t].sending = {}
      BY <2>0, <2>1 DEF SaveDoes, Rests
    <3>3. QED BY <3>1, <3>2, PageWaits
  <2>2. CASE \E f \in tab[t].sending : UploadEndsDoes(t, f)
    BY <2>2, PageWaits DEF UploadEndsDoes
  <2>3. CASE RenderDoes(t)
    <3>1. \A c \in calls[t] : Current(t, c)' <=> Current(t, c)
      BY <2>0, <2>3, StillCurrent DEF RenderDoes
    <3>2. QED BY <2>0, <2>3, <3>1, PageWaits DEF RenderDoes
  <2>4. CASE UploadsOverDoes(t)
    <3>0. Alone(t) /\ tab'[t].sending = {}
      BY <2>4 DEF UploadsOverDoes, Rests
    <3>1. CASE tab[t].failed = {} /\ tab[t].marked # {} /\ tab'[t].phase = "remove"
      <4>1. PICK n \in calls'[t], f \in tab[t].marked : Fresh(t, n, "remove", f)
        BY <2>4, <3>1 DEF UploadsOverDoes
      <4>2. Current(t, n)'
        BY <3>0, <3>1, <4>1, FreshCurrent DEF PhaseOf
      <4>3. QED BY <3>0, <4>2, PageWaits
    <3>2. CASE tab'[t].phase = "complete"
      <4>1. PICK n \in calls'[t] : Fresh(t, n, "complete", Nothing)
        BY <2>4, <3>2 DEF UploadsOverDoes
      <4>2. Current(t, n)'
        BY <3>0, <3>2, <4>1, FreshCurrent DEF PhaseOf
      <4>3. QED BY <3>0, <4>2, PageWaits
    <3>3. QED BY <2>4, <3>1, <3>2 DEF UploadsOverDoes
  <2>5. CASE KeyMissingDoes(t)
    <3>1. tab[t].sending = {}
      BY <2>5 DEF KeyMissingDoes, Typed
    <3>2. \E d \in calls'[t] : Current(t, d)'
      BY <2>5, FreshCurrent DEF KeyMissingDoes, PhaseOf
    <3>3. QED BY <2>5, <3>1, <3>2, PageWaits DEF KeyMissingDoes, Rests
  <2>6. CASE \E c \in calls[t] : AnswerDoes(t, c)
    <3>1. PICK c \in calls[t] : AnswerDoes(t, c)
      BY <2>6
    <3>2. CASE ResolveDoes(t, c, calls[t] \ {c})
      BY <3>2, ResolveWaits
    <3>3. CASE RejectDoes(t, {c}, calls[t] \ {c})
      BY <3>3, RejectWaits
    <3>4. QED BY <3>1, <3>2, <3>3 DEF AnswerDoes
  <2>7. CASE \E c \in calls[t] : LoseDoes(t, c)
    <3>1. PICK c \in calls[t] : LoseDoes(t, c)
      BY <2>7
    <3>2. RejectDoes(t, {c}, calls[t] \ {c})
      BY <3>1 DEF LoseDoes
    <3>3. QED BY <3>2, RejectWaits
  <2>8. CASE DenyDoes(t)
    <3>1. ASSUME NEW c \in calls[t], RejectDoes(t, {c}, calls[t] \ {c}) PROVE Waits'
      BY <3>1, RejectWaits
    <3>2. QED BY <2>8, <3>1, ResentWaits DEF DenyDoes
  <2>9. CASE RefreshDoes(t)
    BY <2>9, ResentWaits DEF RefreshDoes
  <2>10. CASE RefreshFailsDoes(t)
    <3>1. ASSUME NEW D \in SUBSET calls[t], RejectDoes(t, D, calls[t] \ D) PROVE Waits'
      <4>1. D \subseteq calls[t]
        OBVIOUS
      <4>2. QED BY <3>1, <4>1, RejectWaits
    <3>2. QED BY <2>10, <3>1, LeaveWaits DEF RefreshFailsDoes
  <2>11. CASE CloseDoes(t)
    BY <2>11, LeaveWaits DEF CloseDoes
  <2>12. QED BY <1>1, <2>1, <2>2, <2>3, <2>4, <2>5, <2>6, <2>7, <2>8, <2>9, <2>10, <2>11 DEF PageDoes
<1>2. CASE UNCHANGED <<tab, calls>>
  BY <1>2 DEF Waits, Current
<1>3. CASE LapseDoes \/ TickDoes \/ DeleteDoes \/ UNCHANGED vars
  <2>1. UNCHANGED <<tab, calls>>
    BY <1>3 DEF LapseDoes, TickDoes, DeleteDoes, vars
  <2>2. QED BY <1>2, <2>1
<1>4. QED BY <1>1, <1>3, Kinds

-----------------------------------------------------------------------------
(* Lapsed *)

\* Requests that are sent now were not denied yet.
Undenied(t) == \A d \in calls'[t] : d \in calls[t] \/ (d.at = "sent" /\ ~d.retried)

LEMMA RejectUndenied ==
    ASSUME NEW t \in Tabs, NEW D, NEW C, C \subseteq calls[t], RejectDoes(t, D, C)
    PROVE  Undenied(t)
BY DEF RejectDoes, Undenied, Fresh

LEMMA ResolveUndenied ==
    ASSUME NEW t \in Tabs, NEW c, NEW C, C \subseteq calls[t], ResolveDoes(t, c, C)
    PROVE  Undenied(t)
BY DEF ResolveDoes, Opens, RemovesLast, Finishes, Undenied, Fresh

Retried == \E t \in Tabs : \E c \in calls[t] : c.retried

LEMMA LapsedKeeps ==
    ASSUME Typed, Lapsed, NEW t \in Tabs, Alone(t), Undenied(t), UNCHANGED session,
           faults' \in {faults, faults + 1}
    PROVE  Lapsed'
<1>1. \A u \in Tabs : \A d \in calls'[u] : d.at = "waiting" \/ d.retried => d \in calls[u]
  BY DEF Alone, Undenied
<1>2. (Denials' => Denials) /\ (Retried' => Retried)
  BY <1>1 DEF Denials, Retried
<1>3. faults \in Nat /\ faults' \in Nat /\ faults' >= faults
  BY DEF Typed
<1>4. Lapsed <=> /\ ~session.alive \/ Denials => faults >= 1
                 /\ ~session.alive /\ Denials => faults >= 2
                 /\ ~session.access /\ Retried => faults >= 2
  BY DEF Lapsed, Retried
<1>5. Lapsed' <=> /\ ~session.alive \/ Denials' => faults' >= 1
                  /\ ~session.alive /\ Denials' => faults' >= 2
                  /\ ~session.access /\ Retried' => faults' >= 2
  BY DEF Lapsed, Retried
<1> HIDE DEF Denials, Retried, Lapsed
<1>6. QED BY <1>2, <1>3, <1>4, <1>5

LEMMA LapsedNext == ASSUME Typed, Lapsed, [Next]_vars PROVE Lapsed'
<1>0. faults \in Nat /\ session \in Session
  BY DEF Typed
<1>1. ASSUME NEW t \in Tabs, PageDoes(t) PROVE Lapsed'
  <2>1. CASE SaveDoes(t)
    BY <2>1, LapsedKeeps DEF SaveDoes, Undenied, Fresh
  <2>2. CASE \E f \in tab[t].sending : UploadEndsDoes(t, f)
    BY <2>2, LapsedKeeps DEF UploadEndsDoes, Undenied
  <2>3. CASE RenderDoes(t)
    BY <2>3, LapsedKeeps DEF RenderDoes, Undenied
  <2>4. CASE UploadsOverDoes(t)
    BY <2>4, LapsedKeeps DEF UploadsOverDoes, Undenied, Fresh
  <2>5. CASE KeyMissingDoes(t)
    BY <2>5, LapsedKeeps DEF KeyMissingDoes, Undenied, Fresh
  <2>6. CASE \E c \in calls[t] : AnswerDoes(t, c)
    <3>1. PICK c \in calls[t] : AnswerDoes(t, c)
      BY <2>6
    <3>2. calls[t] \ {c} \subseteq calls[t]
      OBVIOUS
    <3>3. Alone(t) /\ Undenied(t)
      BY <3>1, <3>2, RejectUndenied, ResolveUndenied DEF AnswerDoes, ResolveDoes, RejectDoes
    <3>4. QED BY <3>1, <3>3, LapsedKeeps DEF AnswerDoes
  <2>7. CASE \E c \in calls[t] : LoseDoes(t, c)
    <3>1. PICK c \in calls[t] : LoseDoes(t, c)
      BY <2>7
    <3>2. calls[t] \ {c} \subseteq calls[t]
      OBVIOUS
    <3>3. Alone(t) /\ Undenied(t)
      BY <3>1, <3>2, RejectUndenied DEF LoseDoes, RejectDoes
    <3>4. QED BY <3>1, <3>3, LapsedKeeps DEF LoseDoes
  <2>8. CASE DenyDoes(t)
    <3>1. ASSUME NEW c \in calls[t], RejectDoes(t, {c}, calls[t] \ {c}) PROVE Lapsed'
      <4>1. calls[t] \ {c} \subseteq calls[t]
        OBVIOUS
      <4>2. Alone(t) /\ Undenied(t)
        BY <3>1, <4>1, RejectUndenied DEF RejectDoes
      <4>3. QED BY <2>8, <4>2, LapsedKeeps DEF DenyDoes
    <3>2. CASE Resent(t) /\ \A d \in calls'[t] : d.retried => \E c \in calls[t] : c.retried
      <4>1. ~session.access /\ UNCHANGED <<session, faults>>
        BY <2>8 DEF DenyDoes
      <4>2. Retried' => Retried
        BY <3>2 DEF Retried, Resent, Alone
      <4>3. Denials
        BY <4>1 DEF Denials
      <4>4. QED BY <4>1, <4>2, <4>3 DEF Lapsed, Retried
    <3>3. QED BY <2>8, <3>1, <3>2 DEF DenyDoes
  <2>9. CASE RefreshDoes(t)
    <3>1. Denials /\ session'.alive /\ session'.access /\ faults' = faults
      BY <2>9 DEF RefreshDoes, Resent, Denials
    <3>2. QED BY <3>1 DEF Lapsed
  <2>10. CASE RefreshFailsDoes(t)
    <3>1. CASE LeaveDoes(t)
      BY <2>10, <3>1, LapsedKeeps DEF LeaveDoes, Undenied, RefreshFailsDoes
    <3>2. ASSUME NEW D \in SUBSET calls[t], RejectDoes(t, D, calls[t] \ D) PROVE Lapsed'
      <4>1. calls[t] \ D \subseteq calls[t]
        OBVIOUS
      <4>2. Alone(t) /\ Undenied(t)
        BY <3>2, <4>1, RejectUndenied DEF RejectDoes
      <4>3. QED BY <2>10, <4>2, LapsedKeeps DEF RefreshFailsDoes
    <3>3. QED BY <2>10, <3>1, <3>2 DEF RefreshFailsDoes
  <2>11. CASE CloseDoes(t)
    BY <2>11, LapsedKeeps DEF CloseDoes, LeaveDoes, Undenied
  <2>12. QED BY <1>1, <2>1, <2>2, <2>3, <2>4, <2>5, <2>6, <2>7, <2>8, <2>9, <2>10, <2>11 DEF PageDoes
<1>2. CASE LapseDoes
  <2>1. /\ faults' = faults + 1 /\ UNCHANGED calls
        /\ session'.access \in BOOLEAN /\ session'.alive \in BOOLEAN
        /\ session'.access => session.access
        /\ session'.alive => session.alive
    BY <1>2 DEF LapseDoes, Session
  <2>2. faults' \in Nat /\ faults' >= 1
    BY <1>0, <2>1
  <2>3. CASE faults >= 1
    <3>1. faults' >= 2
      BY <1>0, <2>1, <2>3
    <3>2. QED BY <2>2, <3>1 DEF Lapsed
  <2>4. CASE ~(faults >= 1)
    <3>1. session.alive /\ ~Denials
      BY <2>4 DEF Lapsed
    <3>2. session.access /\ ~Retried /\ ~Retried'
      BY <2>1, <3>1 DEF Denials, Retried
    <3>3. session'.alive \/ session'.access
      BY <1>2, <3>1, <3>2 DEF LapseDoes
    <3>4. session'.access => ~Denials'
      BY <2>1, <3>1 DEF Denials
    <3>5. QED BY <2>2, <3>2, <3>3, <3>4 DEF Lapsed, Retried
  <2>5. QED BY <2>3, <2>4
<1>3. CASE UNCHANGED <<session, calls, faults>>
  BY <1>3 DEF Lapsed, Denials
<1>4. CASE TickDoes \/ DeleteDoes \/ UNCHANGED vars
  <2>1. UNCHANGED <<session, calls, faults>>
    BY <1>4 DEF TickDoes, DeleteDoes, vars
  <2>2. QED BY <1>3, <2>1
<1>5. QED BY <1>1, <1>2, <1>4, Kinds

-----------------------------------------------------------------------------
(* Kept *)

Lapses == Cardinality(scars \cap {"missing", "keyless"})

LEMMA LapsesCount ==
    /\ Lapses \in Nat
    /\ scars \cap {"missing", "keyless"} # {} => Lapses >= 1
<1> DEFINE S == scars \cap {"missing", "keyless"}
<1>1. IsFiniteSet({"missing", "keyless"})
  <2>1. IsFiniteSet({"missing"})
    BY FS_Singleton
  <2>2. IsFiniteSet({"missing"} \cup {"keyless"})
    BY <2>1, FS_AddElement
  <2>3. {"missing"} \cup {"keyless"} = {"missing", "keyless"}
    OBVIOUS
  <2>4. QED BY <2>2, <2>3
<1>2. S \subseteq {"missing", "keyless"}
  OBVIOUS
<1>3. IsFiniteSet(S)
  BY <1>1, <1>2, FS_Subset
<1>4. Cardinality(S) \in Nat
  BY <1>3, FS_CardinalityType
<1>5. S # {} => Cardinality(S) # 0
  BY <1>3, FS_EmptySet
<1>6. QED BY <1>4, <1>5 DEF Lapses

LEMMA LapsesNext ==
    ASSUME scars \subseteq scars'
    PROVE  Lapses \in Nat /\ Lapses' \in Nat /\ Lapses <= Lapses'
<1> DEFINE S == scars \cap {"missing", "keyless"}
           T == scars' \cap {"missing", "keyless"}
<1>1. IsFiniteSet({"missing", "keyless"})
  <2>1. IsFiniteSet({"missing"})
    BY FS_Singleton
  <2>2. IsFiniteSet({"missing"} \cup {"keyless"})
    BY <2>1, FS_AddElement
  <2>3. {"missing"} \cup {"keyless"} = {"missing", "keyless"}
    OBVIOUS
  <2>4. QED BY <2>2, <2>3
<1>2. T \subseteq {"missing", "keyless"} /\ S \subseteq T
  OBVIOUS
<1>3. IsFiniteSet(T)
  BY <1>1, <1>2, FS_Subset
<1>4. IsFiniteSet(S) /\ Cardinality(S) <= Cardinality(T)
  BY <1>2, <1>3, FS_Subset
<1>5. Cardinality(S) \in Nat /\ Cardinality(T) \in Nat
  BY <1>3, <1>4, FS_CardinalityType
<1>6. QED BY <1>4, <1>5 DEF Lapses

LEMMA Sums ==
    ASSUME NEW f \in Nat, NEW g \in Nat, g >= f, NEW a \in Nat, NEW b \in Nat, a <= b
    PROVE  /\ f + a >= 2 => g + b >= 2
           /\ f + a >= 1 /\ g > f => g + b >= 2
           /\ g >= 2 => g + b >= 2
OBVIOUS

LEMMA Sum1 == ASSUME NEW f \in Nat, NEW a \in Nat, f >= 1 \/ a >= 1 PROVE f + a >= 1
OBVIOUS

\* Time excuses more, never less.
LEMMA ExcusedNext ==
    ASSUME faults \in Nat, faults' \in Nat, faults' >= faults, scars \subseteq scars'
    PROVE  /\ Excused => Excused'
           /\ Trouble => Trouble'
           /\ Trouble /\ faults' > faults => Excused'
           /\ faults' >= 2 => Excused'
           /\ scars' \cap {"unheard", "left", "emptied"} # {} => Excused'
<1>1. Lapses \in Nat /\ Lapses' \in Nat /\ Lapses <= Lapses'
  BY LapsesNext
<1>2. Excused <=> scars \cap {"unheard", "left", "emptied"} # {} \/ faults + Lapses >= 2
  BY DEF Excused, Lapses
<1>3. Excused' <=> scars' \cap {"unheard", "left", "emptied"} # {} \/ faults' + Lapses' >= 2
  BY DEF Excused, Lapses
<1>4. scars \cap {"missing", "keyless"} # {} => Lapses >= 1
  BY LapsesCount
<1>5. Trouble => faults + Lapses >= 1
  BY <1>1, <1>4, Sum1 DEF Trouble
<1>6. Trouble => Trouble'
  BY DEF Trouble
<1>7. scars \cap {"unheard", "left", "emptied"} # {} => scars' \cap {"unheard", "left", "emptied"} # {}
  OBVIOUS
<1> DEFINE Many == faults + Lapses >= 2
           ManyNext == faults' + Lapses' >= 2
<1>8. /\ Many => ManyNext
      /\ faults + Lapses >= 1 /\ faults' > faults => ManyNext
      /\ faults' >= 2 => ManyNext
  BY <1>1, Sums
<1>9. /\ Excused <=> scars \cap {"unheard", "left", "emptied"} # {} \/ Many
      /\ Excused' <=> scars' \cap {"unheard", "left", "emptied"} # {} \/ ManyNext
  BY <1>2, <1>3
<1> HIDE DEF Many, ManyNext
<1>10. Excused => Excused'
  BY <1>7, <1>8, <1>9, Zenon
<1>11. /\ Trouble /\ faults' > faults => Excused'
       /\ faults' >= 2 => Excused'
       /\ scars' \cap {"unheard", "left", "emptied"} # {} => Excused'
  BY <1>5, <1>8, <1>9, Zenon
<1>12. QED BY <1>6, <1>10, <1>11

LEMMA KeptPage ==
    ASSUME Typed, Kept, NEW t \in Tabs, Alone(t), row'.there = row.there,
           faults' \in {faults, faults + 1}, scars \subseteq scars',
           row.there /\ ~row'.locked => Excused' \/ Closing(t)' \/ (~row.locked /\ ~Closing(t))
    PROVE  Kept'
<1>1. faults \in Nat /\ faults' \in Nat /\ faults' >= faults
  BY DEF Typed
<1>2. (Excused => Excused') /\ (Trouble => Trouble')
  BY <1>1, ExcusedNext
<1>3. ~row'.there => Excused' \/ "long" \in scars'
  BY <1>2 DEF Kept
<1>4. ASSUME NEW u \in Tabs, u # t, Closing(u) PROVE Closing(u)'
  BY <1>2, <1>4 DEF Closing, Alone
<1>5. row'.there /\ ~row'.locked => Excused' \/ \E u \in Tabs : Closing(u)'
  <2>1. SUFFICES ASSUME row'.there, ~row'.locked, ~Excused', ~Closing(t)'
                 PROVE  \E u \in Tabs : Closing(u)'
    OBVIOUS
  <2>2. row.there /\ ~row.locked /\ ~Closing(t) /\ ~Excused
    BY <1>2, <2>1
  <2>3. PICK u \in Tabs : Closing(u)
    BY <2>2 DEF Kept
  <2>4. u # t
    BY <2>2, <2>3
  <2>5. QED BY <1>4, <2>3, <2>4
<1>6. QED BY <1>3, <1>5 DEF Kept

\* A page whose phase stays is as likely to close the share as before.
LEMMA StillClosing ==
    ASSUME Typed, NEW t \in Tabs, tab'[t].phase = tab[t].phase,
           faults' \in {faults, faults + 1}, scars \subseteq scars', Closing(t)
    PROVE  Closing(t)'
<1>1. faults \in Nat /\ faults' \in Nat /\ faults' >= faults
  BY DEF Typed
<1>2. QED BY <1>1, ExcusedNext DEF Closing

LEMMA KeptNext == ASSUME Typed, Lapsed, Kept, [Next]_vars PROVE Kept'
<1>0. faults \in Nat /\ faults + 1 \in Nat
  BY DEF Typed
<1>1. ASSUME NEW t \in Tabs, PageDoes(t) PROVE Kept'
  <2>0. \A c \in calls[t] : c \in Call /\ c.what \in {"revert", "remove", "complete"}
    BY TabFields DEF Call
  <2>1. CASE SaveDoes(t)
    <3>1. ~Closing(t)
      BY <2>1 DEF SaveDoes, Closing
    <3>2. QED BY <2>1, <3>1, KeptPage DEF SaveDoes
  <2>2. CASE \E f \in tab[t].sending : UploadEndsDoes(t, f)
    <3>1. Closing(t)'
      BY <2>2 DEF UploadEndsDoes, Closing
    <3>2. QED BY <2>2, <3>1, KeptPage DEF UploadEndsDoes
  <2>3. CASE RenderDoes(t)
    BY <2>3, StillClosing, KeptPage DEF RenderDoes
  <2>4. CASE UploadsOverDoes(t)
    <3>1. Closing(t)'
      BY <2>4 DEF UploadsOverDoes, Closing
    <3>2. QED BY <2>4, <3>1, KeptPage DEF UploadsOverDoes
  <2>5. CASE KeyMissingDoes(t)
    <3>1. Closing(t)'
      BY <2>5 DEF KeyMissingDoes, Closing, Trouble
    <3>2. QED BY <2>5, <3>1, KeptPage DEF KeyMissingDoes
  <2>6. CASE \E c \in calls[t] : AnswerDoes(t, c)
    <3>1. PICK c \in calls[t] : AnswerDoes(t, c)
      BY <2>6
    <3>2. UNCHANGED faults /\ scars \subseteq scars' /\ faults' \in Nat /\ faults' >= faults
      BY <1>0, <3>1 DEF AnswerDoes
    <3>3. CASE ApplyDoes(c) /\ ResolveDoes(t, c, calls[t] \ {c})
      <4>1. Alone(t) /\ row.there /\ row'.there
        BY <3>3 DEF ApplyDoes, ResolveDoes
      <4>2. CASE c.what = "revert"
        <5>1. CASE Current(t, c)
          <6>1. Closing(t)'
            BY <3>3, <4>2, <5>1 DEF ResolveDoes, Opens, Closing
          <6>2. QED BY <3>2, <4>1, <6>1, KeptPage
        <5>2. CASE ~Current(t, c)
          <6>1. "unheard" \in scars' \/ ~Possible(c)
            BY <3>1, <4>2, <5>2 DEF AnswerDoes
          <6>2. CASE "unheard" \in scars'
            BY <1>0, <3>2, <4>1, <6>2, ExcusedNext, KeptPage
          <6>3. CASE ~Possible(c)
            BY <4>1, <4>2, <6>3 DEF Possible
          <6>4. QED BY <6>1, <6>2, <6>3
        <5>3. QED BY <5>1, <5>2
      <4>3. CASE c.what = "remove"
        <5>1. row' = row
          BY <3>3, <4>3 DEF ApplyDoes
        <5>2. CASE tab'[t] = tab[t]
          BY <3>2, <4>1, <5>1, <5>2, StillClosing, KeptPage
        <5>3. CASE RemovesLast(t, calls[t] \ {c})
          <6>1. Closing(t)'
            BY <5>3 DEF RemovesLast, Closing
          <6>2. QED BY <3>2, <4>1, <6>1, KeptPage
        <5>4. QED BY <3>3, <4>3, <5>2, <5>3 DEF ResolveDoes
      <4>4. CASE c.what = "complete"
        <5>1. row'.locked
          BY <3>3, <4>4 DEF ApplyDoes
        <5>2. QED BY <3>2, <4>1, <5>1, KeptPage
      <4>5. QED BY <2>0, <4>2, <4>3, <4>4
    <3>4. CASE /\ ~Possible(c) /\ RejectDoes(t, {c}, calls[t] \ {c}) /\ UNCHANGED <<row, files>>
               /\ c.what = "complete" /\ row.there /\ Empty => "emptied" \in scars'
               /\ c.what = "remove" /\ row.there => "missing" \in scars'
      <4>1. Alone(t)
        BY <3>4 DEF RejectDoes
      <4>2. CASE tab'[t].phase = tab[t].phase
        BY <3>2, <3>4, <4>1, <4>2, StillClosing, KeptPage
      <4>3. CASE /\ Current(t, c) /\ tab[t].phase \in {"remove", "complete", "relock"}
                 /\ tab[t].phase # "relock" => tab'[t].phase = "relock"
        <5>1. c.what \in {"remove", "complete"} /\ (tab[t].phase = "relock" => c.what = "complete")
          BY <2>0, <4>3, CurrentPhase DEF PhaseOf
        <5>2. CASE c.what = "remove"
          <6>1. row.there => Closing(t)'
            BY <3>4, <4>3, <5>1, <5>2 DEF Closing, Trouble
          <6>2. QED BY <3>2, <3>4, <4>1, <6>1, KeptPage
        <5>3. CASE c.what = "complete"
          <6>1. row.there /\ ~row.locked => "emptied" \in scars'
            BY <3>4, <5>3 DEF Possible
          <6>2. row.there /\ ~row.locked => Excused'
            BY <1>0, <3>2, <6>1, ExcusedNext
          <6>3. QED BY <3>2, <3>4, <4>1, <6>2, KeptPage
        <5>4. QED BY <5>1, <5>2, <5>3
      <4>4. CASE tab[t].phase = "revert"
        <5>1. ~Closing(t)
          BY <4>4 DEF Closing
        <5>2. QED BY <3>2, <3>4, <4>1, <5>1, KeptPage
      <4>5. QED BY <3>4, <4>2, <4>3, <4>4 DEF RejectDoes
    <3>5. QED BY <3>1, <3>3, <3>4 DEF AnswerDoes
  <2>7. CASE \E c \in calls[t] : LoseDoes(t, c)
    <3>1. PICK c \in calls[t] : LoseDoes(t, c)
      BY <2>7
    <3>2. /\ faults' = faults + 1 /\ scars \subseteq scars' /\ faults' \in Nat /\ faults' >= faults
          /\ faults' > faults /\ faults' >= 1 /\ RejectDoes(t, {c}, calls[t] \ {c}) /\ Alone(t)
      BY <1>0, <3>1 DEF LoseDoes, RejectDoes
    <3>3. row'.there = row.there /\ (row' = row \/ row'.locked \/ "unheard" \in scars')
      BY <3>1 DEF LoseDoes, ApplyDoes
    <3>4. CASE "unheard" \in scars'
      BY <1>0, <3>2, <3>3, <3>4, ExcusedNext, KeptPage
    <3>5. CASE row'.locked
      BY <3>2, <3>3, <3>5, KeptPage
    <3>6. CASE row' = row
      <4>1. CASE tab'[t].phase = tab[t].phase
        BY <3>2, <3>6, <4>1, StillClosing, KeptPage
      <4>2. CASE tab'[t].phase = "relock"
        <5>1. Closing(t)'
          BY <3>2, <4>2 DEF Closing, Trouble
        <5>2. QED BY <3>2, <3>6, <5>1, KeptPage
      <4>3. CASE tab[t].phase \in {"revert", "relock"}
        <5>1. Closing(t) => Excused'
          BY <1>0, <3>2, <4>3, ExcusedNext DEF Closing
        <5>2. QED BY <3>2, <3>6, <5>1, KeptPage
      <4>4. QED BY <3>2, <4>1, <4>2, <4>3 DEF RejectDoes
    <3>7. QED BY <3>3, <3>4, <3>5, <3>6
  <2>8. CASE DenyDoes(t)
    <3>0. UNCHANGED <<row, faults, scars>>
      BY <2>8 DEF DenyDoes
    <3>1. CASE Resent(t)
      BY <3>0, <3>1, StillClosing, KeptPage DEF Resent
    <3>2. ASSUME NEW c \in calls[t], c.retried, RejectDoes(t, {c}, calls[t] \ {c}) PROVE Kept'
      <4>1. faults >= 2
        BY <2>8, <3>2 DEF Lapsed, DenyDoes
      <4>2. Excused' /\ Alone(t)
        BY <1>0, <3>0, <3>2, <4>1, ExcusedNext DEF RejectDoes
      <4>3. QED BY <3>0, <4>2, KeptPage
    <3>3. QED BY <2>8, <3>1, <3>2 DEF DenyDoes
  <2>9. CASE RefreshDoes(t)
    BY <2>9, StillClosing, KeptPage DEF RefreshDoes, Resent
  <2>10. CASE RefreshFailsDoes(t)
    <3>1. Denials
      BY <2>10 DEF RefreshFailsDoes, Denials
    <3>2. faults' >= 2 /\ faults' \in Nat /\ faults' >= faults
      BY <1>0, <2>10, <3>1 DEF RefreshFailsDoes, Lapsed
    <3>3. Excused'
      BY <1>0, <2>10, <3>2, ExcusedNext DEF RefreshFailsDoes
    <3>4. Alone(t)
      BY <2>10 DEF RefreshFailsDoes, LeaveDoes, RejectDoes
    <3>5. QED BY <2>10, <3>3, <3>4, KeptPage DEF RefreshFailsDoes
  <2>11. CASE CloseDoes(t)
    <3>1. Alone(t) /\ row' = row /\ faults' = faults + 1 /\ scars \subseteq scars' /\ faults' >= faults
      BY <1>0, <2>11 DEF CloseDoes, LeaveDoes
    <3>2. Excused' \/ ~Closing(t)
      BY <1>0, <2>11, <3>1, ExcusedNext DEF CloseDoes, LeaveDoes, Closing, Saving
    <3>3. QED BY <3>1, <3>2, KeptPage
  <2>12. QED BY <1>1, <2>1, <2>2, <2>3, <2>4, <2>5, <2>6, <2>7, <2>8, <2>9, <2>10, <2>11 DEF PageDoes
<1>2. CASE LapseDoes
  <2>1. faults' = faults + 1 /\ faults' \in Nat /\ faults' >= faults /\ UNCHANGED <<row, tab, scars>>
    BY <1>0, <1>2 DEF LapseDoes
  <2>2. (Excused => Excused') /\ (Trouble => Trouble')
    BY <1>0, <2>1, ExcusedNext
  <2>3. QED BY <2>1, <2>2 DEF Kept, Closing
<1>3. CASE TickDoes
  BY <1>3 DEF TickDoes, Kept, Closing, Excused, Trouble
<1>4. CASE DeleteDoes
  <2>1. Excused \/ \E t \in Tabs : Closing(t)
    BY <1>4 DEF DeleteDoes, Kept
  <2>2. (Excused => Excused') /\ UNCHANGED <<faults, tab>> /\ scars \subseteq scars'
    BY <1>0, <1>4, ExcusedNext DEF DeleteDoes
  <2>3. \A t \in Tabs : Closing(t) => ~Idle(t)
    BY DEF Closing, Idle, Saving
  <2>4. QED BY <1>4, <2>1, <2>2, <2>3 DEF DeleteDoes, Kept
<1>5. CASE UNCHANGED vars
  BY <1>5 DEF vars, Kept, Closing, Excused, Trouble
<1>6. QED BY <1>1, <1>2, <1>3, <1>4, <1>5, Kinds

-----------------------------------------------------------------------------
(* Stored *)

\* What a step of page t may do to the files.
FilesDo(t) ==
    /\ files' \in [Files -> Nat] /\ scars \subseteq scars' /\ Alone(t)
    /\ \/ files' = files
       \/ \E f \in tab[t].sending : files' = [files EXCEPT ![f] = @ + 1]
       \/ \E c \in calls[t] : /\ c.what = "remove" /\ c.file \in OldFiles
                              /\ files' = [files EXCEPT ![c.file] = @ - 1]

LEMMA PageFiles == ASSUME Typed, NEW t \in Tabs, PageDoes(t) PROVE FilesDo(t)
<1>0. files \in [Files -> Nat]
  BY DEF Typed
<1>1. CASE SaveDoes(t) \/ RenderDoes(t) \/ UploadsOverDoes(t) \/ KeyMissingDoes(t) \/ CloseDoes(t)
  BY <1>0, <1>1 DEF SaveDoes, RenderDoes, UploadsOverDoes, KeyMissingDoes, CloseDoes, LeaveDoes, FilesDo
<1>2. ASSUME NEW f \in tab[t].sending, UploadEndsDoes(t, f) PROVE FilesDo(t)
  <2>1. f \in Files /\ files[f] + 1 \in Nat
    BY <1>0, TabFields DEF Files
  <2>2. files' \in [Files -> Nat]
    BY <1>0, <1>2, <2>1 DEF UploadEndsDoes
  <2>3. QED BY <1>2, <2>2 DEF UploadEndsDoes, FilesDo
<1>3. ASSUME NEW c \in calls[t], AnswerDoes(t, c) PROVE FilesDo(t)
  BY <1>0, <1>3 DEF AnswerDoes, ApplyDoes, ResolveDoes, RejectDoes, FilesDo
<1>4. ASSUME NEW c \in calls[t], LoseDoes(t, c) PROVE FilesDo(t)
  BY <1>0, <1>4 DEF LoseDoes, ApplyDoes, RejectDoes, FilesDo
<1>5. CASE DenyDoes(t) \/ RefreshDoes(t) \/ RefreshFailsDoes(t)
  BY <1>0, <1>5 DEF DenyDoes, RefreshDoes, RefreshFailsDoes, Resent, RejectDoes, LeaveDoes, FilesDo
<1>6. QED BY <1>1, <1>2, <1>3, <1>4, <1>5 DEF PageDoes

\* New files stay, old ones do not come back, and each page's report stays true.
LEMMA FilesNext ==
    ASSUME Typed, NEW t \in Tabs, FilesDo(t)
    PROVE  /\ \A f \in NewFiles : files[f] > 0 => files'[f] > 0
           /\ \A f \in OldFiles : files'[f] <= files[f]
           /\ \A f \in OldFiles : files[f] = 0 => files'[f] = 0
           /\ \A u \in Tabs : (Replaced(u) => Replaced(u)') /\ (Removed(u) => Removed(u)')
<1>0. /\ files \in [Files -> Nat] /\ files' \in [Files -> Nat] /\ Files = OldFiles \cup NewFiles
      /\ OldFiles \cap NewFiles = {} /\ scars \subseteq scars' /\ tab[t].sending \subseteq NewFiles
  BY TabFields, FileAssumption DEF Typed, FilesDo, Files
<1>1. \A f \in NewFiles : files[f] > 0 => files'[f] > 0
  BY <1>0 DEF FilesDo
<1>2. \A f \in OldFiles : files'[f] <= files[f]
  BY <1>0 DEF FilesDo
<1>3. \A f \in OldFiles : files[f] = 0 => files'[f] = 0
  BY <1>0, <1>2
<1>4. \A u \in Tabs : /\ tab'[u].asked = tab[u].asked /\ tab'[u].added = tab[u].added
                      /\ tab[u].asked \subseteq OldFiles /\ tab[u].added \subseteq NewFiles
  BY TabFields DEF FilesDo, Alone
<1>5. \A u \in Tabs : Replaced(u) => Replaced(u)'
  BY <1>0, <1>1, <1>4 DEF Replaced
<1>6. \A u \in Tabs : Removed(u) => Removed(u)'
  BY <1>0, <1>3, <1>4 DEF Removed
<1>7. QED BY <1>1, <1>2, <1>3, <1>5, <1>6

\* Old files are not new ones: an answer changes no count of a new file.
LEMMA NewFilesSame ==
    ASSUME Typed, NEW c, ApplyDoes(c) \/ UNCHANGED files
    PROVE  \A f \in NewFiles : files'[f] = files[f]
<1>1. files \in [Files -> Nat] /\ Files = OldFiles \cup NewFiles /\ OldFiles \cap NewFiles = {}
  BY FileAssumption DEF Typed, Files
<1>2. QED BY <1>1 DEF ApplyDoes

LEMMA StoredPage ==
    ASSUME Typed, Stored, NEW t \in Tabs, Alone(t), scars \subseteq scars',
           \A f \in NewFiles : files'[f] = files[f],
           tab'[t].phase = "upload" => \A f \in tab[t].added :
                files[f] > 0 \/ f \in tab'[t].sending \cup tab'[t].failed \cup tab'[t].pending,
           tab'[t].sending \subseteq tab[t].added,
           \A f \in tab'[t].sending : files[f] = 0 \/ "again" \in scars'
    PROVE  Stored'
<1>0. \A u \in Tabs : /\ tab'[u].added = tab[u].added
                      /\ tab[u].sending \subseteq NewFiles /\ tab[u].added \subseteq NewFiles
  BY TabFields DEF Alone
<1>1. \A u \in Tabs : tab'[u].phase = "upload" => \A f \in tab'[u].added :
        files'[f] > 0 \/ f \in tab'[u].sending \cup tab'[u].failed \cup tab'[u].pending
  <2> TAKE u \in Tabs
  <2>1. CASE u = t
    BY <1>0, <2>1
  <2>2. CASE u # t
    BY <1>0, <2>2 DEF Alone, Stored
  <2>3. QED BY <2>1, <2>2
<1>2. \A u \in Tabs : \A f \in tab'[u].sending : files'[f] = 0 \/ "again" \in scars'
  <2> TAKE u \in Tabs
  <2>1. CASE u = t
    BY <1>0, <2>1
  <2>2. CASE u # t
    BY <1>0, <2>2 DEF Alone, Stored
  <2>3. QED BY <2>1, <2>2
<1>3. \A f \in NewFiles : files'[f] <= 1 \/ "again" \in scars'
  BY DEF Stored
<1>4. QED BY <1>1, <1>2, <1>3 DEF Stored

LEMMA UploadStored ==
    ASSUME Typed, Stored, NEW t \in Tabs, NEW f \in tab[t].sending, UploadEndsDoes(t, f)
    PROVE  Stored'
<1>0. /\ files \in [Files -> Nat] /\ f \in NewFiles /\ f \in Files /\ f \in tab[t].added
      /\ tab[t].sending \subseteq tab[t].added
  BY TabFields DEF Typed, Files
<1>1. CASE files' = files /\ f \in tab'[t].failed \cup tab'[t].pending
  <2>1. \A g \in NewFiles : files'[g] = files[g]
    BY <1>1
  <2>2. \A g \in tab[t].added : files[g] > 0 \/ g \in tab'[t].sending \cup tab'[t].failed \cup tab'[t].pending
    BY <1>1 DEF UploadEndsDoes, Stored
  <2>3. /\ tab'[t].sending \subseteq tab[t].added
        /\ \A g \in tab'[t].sending : files[g] = 0 \/ "again" \in scars'
    BY <1>0 DEF UploadEndsDoes, Stored
  <2>4. QED BY <2>1, <2>2, <2>3, StoredPage DEF UploadEndsDoes
<1>2. CASE files' = [files EXCEPT ![f] = @ + 1]
  <2>1. /\ files'[f] = files[f] + 1 /\ files'[f] > 0 /\ \A g \in Files : g # f => files'[g] = files[g]
        /\ NewFiles \subseteq Files /\ \A u \in Tabs : tab[u].added \subseteq NewFiles
    BY <1>0, <1>2, TabFields DEF Files
  <2>2. \A u \in Tabs : u # t => f \notin tab[u].sending
    BY <1>0 DEF Typed
  <2>3. \A u \in Tabs : tab'[u].added = tab[u].added /\ tab[u].sending \subseteq tab[u].added
    BY DEF UploadEndsDoes, Alone, Typed
  <2>4. \A u \in Tabs : tab'[u].phase = "upload" => \A g \in tab'[u].added :
          files'[g] > 0 \/ g \in tab'[u].sending \cup tab'[u].failed \cup tab'[u].pending
    <3> TAKE u \in Tabs
    <3>1. CASE u = t
      <4>1. \A g \in tab[t].added : files[g] > 0 \/ g \in tab[t].sending \cup tab[t].failed \cup tab[t].pending
        BY DEF UploadEndsDoes, Stored
      <4>2. QED BY <2>1, <2>3, <3>1, <4>1 DEF UploadEndsDoes
    <3>2. CASE u # t
      BY <2>1, <2>3, <3>2 DEF Alone, Stored, UploadEndsDoes
    <3>3. QED BY <3>1, <3>2
  <2>5. \A u \in Tabs : \A g \in tab'[u].sending : files'[g] = 0 \/ "again" \in scars'
    <3> TAKE u \in Tabs
    <3>1. \A g \in tab'[u].sending : g \in tab[u].sending /\ g # f
      BY <2>2 DEF UploadEndsDoes, Alone
    <3>2. QED BY <2>1, <2>3, <3>1 DEF UploadEndsDoes, Stored
  <2>6. \A g \in NewFiles : files'[g] <= 1 \/ "again" \in scars'
    <3>1. files[f] = 0 \/ "again" \in scars'
      BY DEF UploadEndsDoes, Stored
    <3>2. QED BY <1>0, <2>1, <3>1 DEF UploadEndsDoes, Stored
  <2>7. QED BY <2>4, <2>5, <2>6 DEF Stored
<1>3. QED BY <1>1, <1>2 DEF UploadEndsDoes

LEMMA RejectStored ==
    ASSUME Typed, Stored, NEW t \in Tabs, NEW D, NEW C, RejectDoes(t, D, C), scars \subseteq scars',
           \A f \in NewFiles : files'[f] = files[f]
    PROVE  Stored'
<1>1. /\ Alone(t) /\ Rests(t) /\ (tab'[t].phase = "upload" => tab[t].phase = "upload")
      /\ tab[t].sending \subseteq tab[t].added
  BY DEF RejectDoes, Typed
<1>2. /\ tab'[t].phase = "upload" => \A f \in tab[t].added :
             files[f] > 0 \/ f \in tab'[t].sending \cup tab'[t].failed \cup tab'[t].pending
      /\ \A f \in tab'[t].sending : files[f] = 0 \/ "again" \in scars'
  BY <1>1 DEF Rests, Stored
<1>3. tab'[t].sending \subseteq tab[t].added
  BY <1>1 DEF Rests
<1>4. QED BY <1>1, <1>2, <1>3, StoredPage

LEMMA ResolveStored ==
    ASSUME Typed, Stored, NEW t \in Tabs, NEW c, NEW C, ResolveDoes(t, c, C), scars \subseteq scars',
           \A f \in NewFiles : files'[f] = files[f],
           c.what = "revert" /\ (\E f \in tab[t].added : files[f] > 0) => "again" \in scars'
    PROVE  Stored'
<1>0. /\ Alone(t) /\ tab[t].sending \subseteq tab[t].added /\ tab[t].added \subseteq Files
      /\ files \in [Files -> Nat]
  BY TabFields DEF ResolveDoes, Typed, Files
<1>1. CASE c.what = "revert" /\ Opens(t, C)
  <2>1. \A f \in tab'[t].sending : files[f] = 0 \/ "again" \in scars'
    BY <1>0, <1>1 DEF Opens
  <2>2. /\ \A f \in tab[t].added : f \in tab'[t].sending \cup tab'[t].failed \cup tab'[t].pending
        /\ tab'[t].sending \subseteq tab[t].added
    BY <1>1 DEF Opens
  <2>3. QED BY <1>0, <2>1, <2>2, StoredPage
<1>2. CASE Rests(t) /\ (tab'[t].phase = "upload" => tab[t].phase = "upload")
  <2>1. /\ tab'[t].phase = "upload" => \A f \in tab[t].added :
               files[f] > 0 \/ f \in tab'[t].sending \cup tab'[t].failed \cup tab'[t].pending
        /\ \A f \in tab'[t].sending : files[f] = 0 \/ "again" \in scars'
        /\ tab'[t].sending \subseteq tab[t].added
    BY <1>0, <1>2 DEF Rests, Stored
  <2>2. QED BY <1>0, <2>1, StoredPage
<1>3. QED BY <1>1, <1>2 DEF ResolveDoes, RemovesLast, Finishes, Rests

LEMMA StoredNext == ASSUME Typed, Stored, NEW t \in Tabs, PageDoes(t) PROVE Stored'
<1>0. /\ tab[t].sending \subseteq tab[t].added
      /\ \A f \in tab[t].sending : files[f] = 0 \/ "again" \in scars
      /\ tab[t].phase = "upload" => \A f \in tab[t].added :
            files[f] > 0 \/ f \in tab[t].sending \cup tab[t].failed \cup tab[t].pending
  BY DEF Typed, Stored
<1>1. CASE SaveDoes(t)
  BY <1>0, <1>1, StoredPage DEF SaveDoes, Rests
<1>2. CASE \E f \in tab[t].sending : UploadEndsDoes(t, f)
  BY <1>2, UploadStored
<1>3. CASE RenderDoes(t)
  <2>1. tab[t].phase = "upload" => \A f \in tab[t].added :
            files[f] > 0 \/ f \in tab'[t].sending \cup tab'[t].failed \cup tab'[t].pending
    BY <1>0, <1>3 DEF RenderDoes
  <2>2. QED BY <1>0, <1>3, <2>1, StoredPage DEF RenderDoes
<1>4. CASE UploadsOverDoes(t)
  BY <1>0, <1>4, StoredPage DEF UploadsOverDoes, Rests
<1>5. CASE KeyMissingDoes(t)
  BY <1>0, <1>5, StoredPage DEF KeyMissingDoes, Rests
<1>6. ASSUME NEW c \in calls[t], AnswerDoes(t, c) PROVE Stored'
  <2>1. scars \subseteq scars'
    BY <1>6 DEF AnswerDoes
  <2>2. \A f \in NewFiles : files'[f] = files[f]
    BY <1>6, NewFilesSame DEF AnswerDoes
  <2>3. QED BY <1>6, <2>1, <2>2, ResolveStored, RejectStored DEF AnswerDoes
<1>7. ASSUME NEW c \in calls[t], LoseDoes(t, c) PROVE Stored'
  <2>1. scars \subseteq scars'
    BY <1>7 DEF LoseDoes
  <2>2. \A f \in NewFiles : files'[f] = files[f]
    BY <1>7, NewFilesSame DEF LoseDoes
  <2>3. QED BY <1>7, <2>1, <2>2, RejectStored DEF LoseDoes
<1>8. CASE DenyDoes(t)
  <2>1. CASE Resent(t)
    BY <1>0, <2>1, StoredPage DEF Resent
  <2>2. QED BY <1>8, <2>1, RejectStored DEF DenyDoes
<1>9. CASE RefreshDoes(t)
  BY <1>0, <1>9, StoredPage DEF RefreshDoes, Resent
<1>10. CASE RefreshFailsDoes(t)
  <2>1. CASE LeaveDoes(t)
    BY <1>10, <2>1, StoredPage DEF LeaveDoes, RefreshFailsDoes
  <2>2. QED BY <1>10, <2>1, RejectStored DEF RefreshFailsDoes
<1>11. CASE CloseDoes(t)
  BY <1>11, StoredPage DEF CloseDoes, LeaveDoes
<1>12. QED BY <1>1, <1>2, <1>3, <1>4, <1>5, <1>6, <1>7, <1>8, <1>9, <1>10, <1>11 DEF PageDoes

-----------------------------------------------------------------------------
(* Ordered *)

LEMMA OrderedPage ==
    ASSUME Typed, Ordered, NEW t \in Tabs, FilesDo(t),
           tab'[t].phase = "remove" \/ (\E c \in calls'[t] : c.what = "remove") =>
                Replaced(t) \/ Replaced(t)',
           Reported(t)' => Replaced(t) \/ Replaced(t)'
    PROVE  Ordered'
<1>1. \A u \in Tabs : Replaced(u) => Replaced(u)'
  BY FilesNext
<1>2. ASSUME NEW u \in Tabs, u # t
      PROVE  /\ tab'[u].phase = "remove" \/ (\E c \in calls'[u] : c.what = "remove") => Replaced(u)'
             /\ Reported(u)' => Replaced(u)'
  <2>1. tab'[u] = tab[u] /\ calls'[u] = calls[u]
    BY <1>2 DEF FilesDo, Alone
  <2>2. Reported(u)' => Reported(u)
    BY <2>1 DEF Reported
  <2>3. QED BY <1>1, <2>1, <2>2 DEF Ordered
<1>3. QED BY <1>1, <1>2 DEF Ordered

LEMMA RejectOrdered ==
    ASSUME Typed, Ordered, NEW t \in Tabs, NEW D, NEW C, C \subseteq calls[t], RejectDoes(t, D, C),
           FilesDo(t)
    PROVE  Ordered'
<1>1. /\ tab'[t].phase = "remove" => tab[t].phase = "remove"
      /\ (\E c \in calls'[t] : c.what = "remove") => \E c \in calls[t] : c.what = "remove"
  BY DEF RejectDoes, Fresh
<1>2. Reported(t)' => Reported(t)
  BY DEF RejectDoes, Reported
<1>3. QED BY <1>1, <1>2, OrderedPage DEF Ordered

LEMMA OrderedNext == ASSUME Typed, Stored, Ordered, NEW t \in Tabs, PageDoes(t) PROVE Ordered'
<1>0. FilesDo(t)
  BY PageFiles
<1>a. /\ tab[t].phase = "remove" \/ (\E c \in calls[t] : c.what = "remove") => Replaced(t)
      /\ Reported(t) => Replaced(t)
  BY DEF Ordered
<1>1. CASE SaveDoes(t)
  <2>1. (\E c \in calls'[t] : c.what = "remove") => \E c \in calls[t] : c.what = "remove"
    BY <1>1 DEF SaveDoes, Fresh
  <2>2. ~Reported(t)'
    BY <1>1 DEF SaveDoes, Reported
  <2>3. tab'[t].phase # "remove"
    BY <1>1 DEF SaveDoes
  <2>4. QED BY <1>0, <1>a, <2>1, <2>2, <2>3, OrderedPage
<1>2. CASE \E f \in tab[t].sending : UploadEndsDoes(t, f)
  <2>1. tab'[t].phase = "upload" /\ calls'[t] = calls[t]
    BY <1>2 DEF UploadEndsDoes
  <2>2. ~Reported(t)'
    BY <2>1 DEF Reported
  <2>3. QED BY <1>0, <1>a, <2>1, <2>2, OrderedPage
<1>3. CASE RenderDoes(t)
  <2>1. tab'[t].phase = tab[t].phase /\ calls'[t] = calls[t]
    BY <1>3 DEF RenderDoes
  <2>2. Reported(t)' => Reported(t)
    BY <1>3 DEF RenderDoes, Reported
  <2>3. QED BY <1>0, <1>a, <2>1, <2>2, OrderedPage
<1>4. CASE UploadsOverDoes(t)
  <2>1. tab[t].failed = {} => Replaced(t)'
    <3>1. SUFFICES ASSUME tab[t].failed = {}, NEW f \in tab[t].added
                   PROVE  files[f] > 0 \/ "unrendered" \in scars'
      BY <1>4 DEF Replaced, UploadsOverDoes, Alone
    <3>2. files[f] > 0 \/ f \in tab[t].pending
      BY <1>4, <3>1 DEF UploadsOverDoes, Stored
    <3>3. QED BY <1>4, <3>1, <3>2 DEF UploadsOverDoes
  <2>2. CASE tab[t].failed = {}
    <3>1. Replaced(t)'
      BY <2>1, <2>2
    <3>2. QED BY <1>0, <3>1, OrderedPage
  <2>3. CASE tab[t].failed # {}
    <3>1. tab'[t].phase = "complete" /\ tab'[t].hasFailed
      BY <1>4, <2>3 DEF UploadsOverDoes
    <3>2. (\E c \in calls'[t] : c.what = "remove") => \E c \in calls[t] : c.what = "remove"
      BY <1>4, <2>3 DEF UploadsOverDoes, Fresh
    <3>3. ~Reported(t)'
      BY <3>1 DEF Reported
    <3>4. QED BY <1>0, <1>a, <3>1, <3>2, <3>3, OrderedPage
  <2>4. QED BY <2>2, <2>3
<1>5. CASE KeyMissingDoes(t)
  <2>1. (\E c \in calls'[t] : c.what = "remove") => \E c \in calls[t] : c.what = "remove"
    BY <1>5 DEF KeyMissingDoes, Fresh
  <2>2. ~Reported(t)'
    BY <1>5 DEF KeyMissingDoes, Reported
  <2>3. tab'[t].phase # "remove"
    BY <1>5 DEF KeyMissingDoes
  <2>4. QED BY <1>0, <1>a, <2>1, <2>2, <2>3, OrderedPage
<1>6. ASSUME NEW c \in calls[t], NEW C, C \subseteq calls[t], ResolveDoes(t, c, C) PROVE Ordered'
  <2>1. (\E d \in calls'[t] : d.what = "remove") => \E d \in calls[t] : d.what = "remove"
    BY <1>6 DEF ResolveDoes, Opens, RemovesLast, Finishes, Fresh
  <2>2. tab'[t].phase = "remove" => tab[t].phase = "remove"
    BY <1>6 DEF ResolveDoes, Opens, RemovesLast, Finishes
  <2>3. Reported(t)' => Reported(t) \/ tab[t].phase = "remove"
    BY <1>6 DEF ResolveDoes, Opens, RemovesLast, Finishes, Reported
  <2>4. QED BY <1>0, <1>a, <2>1, <2>2, <2>3, OrderedPage
<1>7. ASSUME NEW c \in calls[t], AnswerDoes(t, c) PROVE Ordered'
  <2>1. calls[t] \ {c} \subseteq calls[t]
    OBVIOUS
  <2>2. QED BY <1>0, <1>6, <1>7, <2>1, RejectOrdered DEF AnswerDoes
<1>8. ASSUME NEW c \in calls[t], LoseDoes(t, c) PROVE Ordered'
  <2>1. calls[t] \ {c} \subseteq calls[t]
    OBVIOUS
  <2>2. QED BY <1>0, <1>8, <2>1, RejectOrdered DEF LoseDoes
<1>9. CASE Resent(t)
  <2>1. /\ (\E d \in calls'[t] : d.what = "remove") => \E d \in calls[t] : d.what = "remove"
        /\ tab' = tab
    BY <1>9 DEF Resent
  <2>2. Reported(t)' => Reported(t)
    BY <2>1 DEF Reported
  <2>3. QED BY <1>0, <1>a, <2>1, <2>2, OrderedPage
<1>10. CASE DenyDoes(t)
  <2>1. ASSUME NEW c \in calls[t], RejectDoes(t, {c}, calls[t] \ {c}) PROVE Ordered'
    <3>1. calls[t] \ {c} \subseteq calls[t]
      OBVIOUS
    <3>2. QED BY <1>0, <2>1, <3>1, RejectOrdered
  <2>2. QED BY <1>9, <1>10, <2>1 DEF DenyDoes
<1>11. CASE LeaveDoes(t)
  <2>1. (\E d \in calls'[t] : d.what = "remove") => \E d \in calls[t] : d.what = "remove"
    BY <1>11 DEF LeaveDoes
  <2>2. tab'[t].phase = "gone"
    BY <1>11 DEF LeaveDoes
  <2>3. ~Reported(t)'
    BY <2>2 DEF Reported
  <2>4. QED BY <1>0, <1>a, <2>1, <2>2, <2>3, OrderedPage
<1>12. CASE RefreshFailsDoes(t)
  <2>1. ASSUME NEW D \in SUBSET calls[t], RejectDoes(t, D, calls[t] \ D) PROVE Ordered'
    <3>1. calls[t] \ D \subseteq calls[t]
      OBVIOUS
    <3>2. QED BY <1>0, <2>1, <3>1, RejectOrdered
  <2>2. QED BY <1>11, <1>12, <2>1 DEF RefreshFailsDoes
<1>13. CASE RefreshDoes(t) \/ CloseDoes(t)
  BY <1>9, <1>11, <1>13 DEF RefreshDoes, CloseDoes
<1>14. QED BY <1>1, <1>2, <1>3, <1>4, <1>5, <1>7, <1>8, <1>10, <1>12, <1>13 DEF PageDoes

-----------------------------------------------------------------------------
(* Thorough *)

LEMMA ThoroughPage ==
    ASSUME Typed, Ordered, Thorough, NEW t \in Tabs, FilesDo(t),
           tab'[t].marked = {} => Removed(t) \/ Removed(t)',
           tab'[t].phase = "remove" =>
                /\ ~tab'[t].hasFailed
                /\ \A f \in tab'[t].marked : files'[f] = 0 \/ \E c \in calls'[t] : Current(t, c)' /\ c.file = f,
           Reported(t)' => Removed(t) \/ Removed(t)'
    PROVE  Thorough'
<1>1. /\ \A f \in OldFiles : files'[f] <= files[f]
      /\ \A f \in OldFiles : files[f] = 0 => files'[f] = 0
      /\ \A u \in Tabs : Replaced(u) => Replaced(u)'
      /\ \A u \in Tabs : Removed(u) => Removed(u)'
  BY FilesNext
<1>2. /\ files \in [Files -> Nat] /\ files' \in [Files -> Nat] /\ OldFiles \subseteq Files
      /\ OldFiles \cap NewFiles = {} /\ tab[t].sending \subseteq NewFiles
      /\ \A u \in Tabs : tab'[u].asked = tab[u].asked
      /\ \A u \in Tabs : tab[u].marked \subseteq OldFiles
  BY FileAssumption, TabFields DEF Typed, FilesDo, Files, Alone
<1>3. \A f \in OldFiles : files'[f] <= 1
  <2> TAKE f \in OldFiles
  <2>1. files[f] <= 1 /\ files[f] \in Nat /\ files'[f] \in Nat /\ files'[f] <= files[f]
    BY <1>1, <1>2 DEF Thorough
  <2>2. QED BY <2>1
<1>4. ASSUME NEW f \in OldFiles, files'[f] = 0
      PROVE  \E u \in Tabs : f \in tab'[u].asked /\ Replaced(u)'
  <2>1. CASE files[f] = 0
    <3>1. PICK u \in Tabs : f \in tab[u].asked /\ Replaced(u)
      BY <2>1 DEF Thorough
    <3>2. QED BY <1>1, <1>2, <3>1
  <2>2. CASE files[f] # 0
    <3>1. PICK c \in calls[t] : c.what = "remove" /\ c.file = f
      BY <1>2, <1>4, <2>2 DEF FilesDo
    <3>2. f \in tab[t].asked /\ Replaced(t)
      BY <3>1 DEF Typed, Ordered
    <3>3. QED BY <1>1, <1>2, <3>2
  <2>3. QED BY <2>1, <2>2
<1>5. ASSUME NEW u \in Tabs, u # t
      PROVE  /\ tab'[u].marked = {} => Removed(u)'
             /\ tab'[u].phase = "remove" =>
                  /\ ~tab'[u].hasFailed
                  /\ \A f \in tab'[u].marked : files'[f] = 0 \/ \E c \in calls'[u] : Current(u, c)' /\ c.file = f
             /\ Reported(u)' => Removed(u)'
  <2>1. tab'[u] = tab[u] /\ calls'[u] = calls[u] /\ Alone(t)
    BY <1>5 DEF FilesDo, Alone
  <2>2. Reported(u)' => Reported(u)
    BY <2>1 DEF Reported
  <2>3. \A c \in calls[u] : Current(u, c)' <=> Current(u, c)
    BY <1>5, <2>1, Elsewhere
  <2>4. /\ tab[u].marked = {} => Removed(u)
        /\ tab[u].phase = "remove" =>
             /\ ~tab[u].hasFailed
             /\ \A f \in tab[u].marked : files[f] = 0 \/ \E c \in calls[u] : Current(u, c) /\ c.file = f
        /\ Reported(u) => Removed(u)
    BY DEF Thorough
  <2>5. QED BY <1>1, <1>2, <2>1, <2>2, <2>3, <2>4
<1>6. QED BY <1>1, <1>3, <1>4, <1>5 DEF Thorough

LEMMA RejectThorough ==
    ASSUME Typed, Ordered, Thorough, NEW t \in Tabs, NEW D, D \subseteq calls[t],
           RejectDoes(t, D, calls[t] \ D), FilesDo(t)
    PROVE  Thorough'
<1>0. /\ tab[t].marked = {} => Removed(t)
      /\ tab[t].phase = "remove" =>
           /\ ~tab[t].hasFailed
           /\ \A f \in tab[t].marked : files[f] = 0 \/ \E c \in calls[t] : Current(t, c) /\ c.file = f
      /\ Reported(t) => Removed(t)
      /\ tab[t].marked \subseteq OldFiles /\ calls[t] \subseteq Call
  BY TabFields DEF Thorough
<1>1. tab'[t].marked = tab[t].marked /\ tab'[t].hasFailed = tab[t].hasFailed /\ Alone(t)
      /\ tab'[t].saves = tab[t].saves
  BY DEF RejectDoes
<1>2. Reported(t)' => Reported(t)
  BY DEF RejectDoes, Reported
<1>3. ASSUME tab'[t].phase = "remove", NEW f \in tab[t].marked
      PROVE  files'[f] = 0 \/ \E c \in calls'[t] : Current(t, c)' /\ c.file = f
  <2>1. tab[t].phase = "remove" /\ calls'[t] = calls[t] \ D /\ \A d \in D : ~Current(t, d)
    BY <1>3 DEF RejectDoes
  <2>2. \A c \in calls[t] : Current(t, c)' <=> Current(t, c)
    BY <1>0, <1>1, <1>3, <2>1, StillCurrent
  <2>3. files[f] = 0 => files'[f] = 0
    BY <1>0, FilesNext
  <2>4. QED BY <1>0, <2>1, <2>2, <2>3
<1>4. tab'[t].phase = "remove" => tab[t].phase = "remove"
  BY DEF RejectDoes
<1>5. QED BY <1>0, <1>1, <1>2, <1>3, <1>4, ThoroughPage

\* A removal that succeeds takes the only copy; the last one leaves none that was asked for.
LEMMA RemoveThorough ==
    ASSUME Typed, Ordered, Thorough, NEW t \in Tabs, NEW c \in calls[t], c.what = "remove",
           ResolveDoes(t, c, calls[t] \ {c}), FilesDo(t), ApplyDoes(c)
    PROVE  Thorough'
<1> DEFINE C == calls[t] \ {c}
<1>0. /\ tab[t].marked = {} => Removed(t)
      /\ tab[t].phase = "remove" =>
           /\ ~tab[t].hasFailed
           /\ \A f \in tab[t].marked : files[f] = 0 \/ \E d \in calls[t] : Current(t, d) /\ d.file = f
      /\ Reported(t) => Removed(t)
      /\ tab[t].marked \subseteq OldFiles /\ calls[t] \subseteq Call /\ Alone(t)
      /\ tab[t].marked \in {{}, tab[t].asked} /\ tab[t].asked \subseteq OldFiles
      /\ tab'[t].saves = tab[t].saves /\ tab'[t].hasFailed = tab[t].hasFailed
  BY TabFields DEF Thorough, ResolveDoes, Typed
<1>1. c.file \in OldFiles /\ files'[c.file] = 0
  <2>1. c.file \in OldFiles /\ files[c.file] > 0 /\ files' = [files EXCEPT ![c.file] = @ - 1]
    BY DEF ApplyDoes
  <2>2. files \in [Files -> Nat] /\ c.file \in Files /\ files[c.file] <= 1
    BY <2>1 DEF Typed, Files, Thorough
  <2>3. files[c.file] \in Nat /\ files'[c.file] = files[c.file] - 1
    BY <2>1, <2>2
  <2>4. QED BY <2>1, <2>2, <2>3
<1>2. \A f \in OldFiles : files[f] = 0 => files'[f] = 0
  BY FilesNext
<1>3. CASE tab'[t] = tab[t] /\ calls'[t] = C
  <2>1. \A d \in calls[t] : Current(t, d)' <=> Current(t, d)
    BY <1>0, <1>3, StillCurrent
  <2>2. ASSUME tab[t].phase = "remove", NEW f \in tab[t].marked
        PROVE  files'[f] = 0 \/ \E d \in calls'[t] : Current(t, d)' /\ d.file = f
    <3>1. CASE files[f] = 0
      BY <1>0, <1>2, <3>1
    <3>2. CASE \E d \in calls[t] : Current(t, d) /\ d.file = f
      BY <1>1, <1>3, <2>1, <3>2
    <3>3. QED BY <1>0, <2>2, <3>1, <3>2
  <2>3. Reported(t)' => Reported(t)
    BY <1>3 DEF Reported
  <2>4. QED BY <1>0, <1>3, <2>2, <2>3, ThoroughPage
<1>4. CASE RemovesLast(t, C)
  <2>1. tab[t].phase = "remove" /\ tab'[t].phase = "complete" /\ \A d \in C : ~Current(t, d)
    BY <1>4 DEF RemovesLast
  <2>2. \A f \in tab[t].marked : files'[f] = 0
    BY <1>0, <1>1, <1>2, <2>1
  <2>3. Removed(t) \/ Removed(t)'
    <3>1. CASE tab[t].marked = {}
      BY <1>0, <3>1
    <3>2. CASE tab[t].marked = tab[t].asked
      BY <1>0, <2>2, <3>2 DEF Removed, Alone
    <3>3. QED BY <1>0, <3>1, <3>2
  <2>4. QED BY <2>1, <2>3, ThoroughPage
<1>5. QED BY <1>3, <1>4 DEF ResolveDoes

LEMMA ResolveThorough ==
    ASSUME Typed, Ordered, Thorough, NEW t \in Tabs, NEW c \in calls[t], c.what # "remove",
           ResolveDoes(t, c, calls[t] \ {c}), FilesDo(t)
    PROVE  Thorough'
<1> DEFINE C == calls[t] \ {c}
<1>0. /\ tab[t].marked = {} => Removed(t)
      /\ tab[t].phase = "remove" =>
           /\ ~tab[t].hasFailed
           /\ \A f \in tab[t].marked : files[f] = 0 \/ \E d \in calls[t] : Current(t, d) /\ d.file = f
      /\ Reported(t) => Removed(t)
      /\ tab[t].marked \subseteq OldFiles /\ calls[t] \subseteq Call /\ Alone(t)
      /\ tab'[t].saves = tab[t].saves /\ tab'[t].hasFailed = tab[t].hasFailed
  BY TabFields DEF Thorough, ResolveDoes
<1>2. \A f \in OldFiles : files[f] = 0 => files'[f] = 0
  BY FilesNext
<1>3. CASE ~Current(t, c) /\ tab'[t] = tab[t] /\ calls'[t] = C
  <2>1. \A d \in calls[t] : Current(t, d)' <=> Current(t, d)
    BY <1>0, <1>3, StillCurrent
  <2>2. ASSUME tab[t].phase = "remove", NEW f \in tab[t].marked
        PROVE  files'[f] = 0 \/ \E d \in calls'[t] : Current(t, d)' /\ d.file = f
    BY <1>0, <1>2, <1>3, <2>1, <2>2
  <2>3. Reported(t)' => Reported(t)
    BY <1>3 DEF Reported
  <2>4. QED BY <1>0, <1>3, <2>2, <2>3, ThoroughPage
<1>4. CASE Opens(t, C)
  <2>1. tab'[t].phase = "upload" /\ tab'[t].marked = tab[t].marked
    BY <1>4 DEF Opens
  <2>2. ~Reported(t)'
    BY <2>1 DEF Reported
  <2>3. QED BY <1>0, <2>1, <2>2, ThoroughPage
<1>5. CASE Finishes(t, C)
  <2>1. tab'[t].phase \in {"idle", "back"} /\ tab'[t].marked = tab[t].marked
        /\ (tab'[t].phase = "back" => Reported(t))
    BY <1>5 DEF Finishes
  <2>2. Reported(t)' => Reported(t)
    BY <2>1 DEF Reported
  <2>3. QED BY <1>0, <2>1, <2>2, ThoroughPage
<1>6. QED BY <1>3, <1>4, <1>5 DEF ResolveDoes

LEMMA ResentThorough ==
    ASSUME Typed, Ordered, Thorough, NEW t \in Tabs, Resent(t), FilesDo(t)
    PROVE  Thorough'
<1>0. /\ tab[t].marked = {} => Removed(t)
      /\ tab[t].phase = "remove" =>
           /\ ~tab[t].hasFailed
           /\ \A f \in tab[t].marked : files[f] = 0 \/ \E d \in calls[t] : Current(t, d) /\ d.file = f
      /\ Reported(t) => Removed(t)
      /\ calls[t] \subseteq Call /\ calls'[t] \subseteq Call /\ Alone(t)
      /\ tab' = tab /\ files' = files
  BY TabFields DEF Thorough, Resent, Alone
<1>1. ASSUME NEW d \in calls[t], Current(t, d) PROVE \E e \in calls'[t] : Current(t, e)' /\ e.file = d.file
  <2>1. PICK e \in calls'[t] : e.what = d.what /\ e.file = d.file /\ e.save = d.save
    BY DEF Resent
  <2>2. QED BY <1>0, <1>1, <2>1, StillCurrent
<1>2. Reported(t)' => Reported(t)
  BY <1>0 DEF Reported
<1>3. QED BY <1>0, <1>1, <1>2, ThoroughPage

LEMMA LeaveThorough ==
    ASSUME Typed, Ordered, Thorough, NEW t \in Tabs, LeaveDoes(t), FilesDo(t)
    PROVE  Thorough'
<1>1. tab'[t].phase = "gone" /\ tab'[t].marked = tab[t].marked
  BY DEF LeaveDoes
<1>2. ~Reported(t)'
  BY <1>1 DEF Reported
<1>3. QED BY <1>1, <1>2, ThoroughPage DEF Thorough

LEMMA UploadsOverThorough ==
    ASSUME Typed, Ordered, Thorough, NEW t \in Tabs, UploadsOverDoes(t), FilesDo(t)
    PROVE  Thorough'
<1>0. /\ tab[t].marked = {} => Removed(t)
      /\ tab'[t].marked = tab[t].marked /\ tab'[t].hasFailed = (tab[t].failed # {}) /\ Alone(t)
  BY DEF Thorough, UploadsOverDoes
<1>1. CASE /\ tab[t].failed = {} /\ tab[t].marked # {} /\ tab'[t].phase = "remove"
           /\ \E N : /\ calls'[t] = calls[t] \cup N
                     /\ \A n \in N : \E f \in tab[t].marked : Fresh(t, n, "remove", f)
                     /\ \A f \in tab[t].marked : \E n \in N : Fresh(t, n, "remove", f)
  <2>1. ASSUME NEW f \in tab[t].marked
        PROVE  \E d \in calls'[t] : Current(t, d)' /\ d.file = f
    <3>1. PICK n \in calls'[t] : Fresh(t, n, "remove", f)
      BY <1>1, <2>1
    <3>2. Current(t, n)' /\ n.file = f
      BY <1>0, <1>1, <3>1, FreshCurrent DEF PhaseOf, Fresh
    <3>3. QED BY <3>2
  <2>2. ~Reported(t)'
    BY <1>1 DEF Reported
  <2>3. QED BY <1>0, <1>1, <2>1, <2>2, ThoroughPage
<1>2. CASE (tab[t].failed # {} \/ tab[t].marked = {}) /\ tab'[t].phase = "complete"
  <2>1. Reported(t)' => Removed(t)
    BY <1>0, <1>2 DEF Reported
  <2>2. QED BY <1>0, <1>2, <2>1, ThoroughPage
<1>3. QED BY <1>1, <1>2 DEF UploadsOverDoes

LEMMA ThoroughNext == ASSUME Typed, Ordered, Thorough, NEW t \in Tabs, PageDoes(t) PROVE Thorough'
<1>0. FilesDo(t)
  BY PageFiles
<1>a. /\ tab[t].marked = {} => Removed(t)
      /\ tab[t].phase = "remove" =>
           /\ ~tab[t].hasFailed
           /\ \A f \in tab[t].marked : files[f] = 0 \/ \E d \in calls[t] : Current(t, d) /\ d.file = f
      /\ Reported(t) => Removed(t)
      /\ calls[t] \subseteq Call
  BY TabFields DEF Thorough
<1>1. CASE SaveDoes(t) \/ KeyMissingDoes(t) \/ \E f \in tab[t].sending : UploadEndsDoes(t, f)
  <2>1. tab'[t].phase \in {"revert", "relock", "upload"} /\ tab'[t].marked = tab[t].marked
    BY <1>1 DEF SaveDoes, KeyMissingDoes, UploadEndsDoes
  <2>2. ~Reported(t)'
    BY <2>1 DEF Reported
  <2>3. QED BY <1>0, <1>a, <2>1, <2>2, ThoroughPage
<1>2. CASE RenderDoes(t)
  <2>1. /\ tab'[t].phase = tab[t].phase /\ calls'[t] = calls[t] /\ tab'[t].hasFailed = tab[t].hasFailed
        /\ tab'[t].marked = tab[t].marked /\ tab'[t].saves = tab[t].saves /\ files' = files /\ Alone(t)
    BY <1>2 DEF RenderDoes
  <2>2. \A d \in calls[t] : Current(t, d)' <=> Current(t, d)
    BY <1>a, <2>1, StillCurrent
  <2>3. Reported(t)' => Reported(t)
    BY <2>1 DEF Reported
  <2>4. QED BY <1>0, <1>a, <2>1, <2>2, <2>3, ThoroughPage
<1>3. ASSUME NEW c \in calls[t], AnswerDoes(t, c) PROVE Thorough'
  <2>1. {c} \subseteq calls[t]
    OBVIOUS
  <2>2. CASE RejectDoes(t, {c}, calls[t] \ {c})
    BY <1>0, <2>1, <2>2, RejectThorough
  <2>3. CASE ApplyDoes(c) /\ ResolveDoes(t, c, calls[t] \ {c})
    BY <1>0, <2>3, RemoveThorough, ResolveThorough
  <2>4. QED BY <1>3, <2>2, <2>3 DEF AnswerDoes
<1>4. ASSUME NEW c \in calls[t], RejectDoes(t, {c}, calls[t] \ {c}) PROVE Thorough'
  <2>1. {c} \subseteq calls[t]
    OBVIOUS
  <2>2. QED BY <1>0, <1>4, <2>1, RejectThorough
<1>5. CASE DenyDoes(t) \/ (\E c \in calls[t] : LoseDoes(t, c))
  BY <1>0, <1>4, <1>5, ResentThorough DEF DenyDoes, LoseDoes
<1>6. CASE RefreshFailsDoes(t)
  <2>1. ASSUME NEW D \in SUBSET calls[t], RejectDoes(t, D, calls[t] \ D) PROVE Thorough'
    <3>1. D \subseteq calls[t]
      OBVIOUS
    <3>2. QED BY <1>0, <2>1, <3>1, RejectThorough
  <2>2. QED BY <1>0, <1>6, <2>1, LeaveThorough DEF RefreshFailsDoes
<1>7. CASE RefreshDoes(t) \/ CloseDoes(t)
  BY <1>0, <1>7, ResentThorough, LeaveThorough DEF RefreshDoes, CloseDoes
<1>8. CASE UploadsOverDoes(t)
  BY <1>0, <1>8, UploadsOverThorough
<1>9. QED BY <1>1, <1>2, <1>3, <1>5, <1>6, <1>7, <1>8 DEF PageDoes

-----------------------------------------------------------------------------
(* The theorems. *)

LEMMA InitIndInv == Init => IndInv
<1> SUFFICES ASSUME Init PROVE IndInv
  OBVIOUS
<1>1. PICK A \in [Tabs -> SUBSET NewFiles], M \in [Tabs -> SUBSET OldFiles] :
        /\ \A t, u \in Tabs : t # u => A[t] \cap A[u] = {}
        /\ tab = [t \in Tabs |-> [phase |-> "idle", marked |-> M[t], asked |-> M[t],
                    added |-> A[t], sending |-> {}, failed |-> {}, pending |-> {},
                    hasFailed |-> FALSE, saves |-> 0]]
  BY DEF Init
<1>2. \A t \in Tabs : /\ tab[t] \in Tab /\ tab[t].phase = "idle" /\ tab[t].marked = tab[t].asked
                      /\ tab[t].added = A[t] /\ tab[t].sending = {} /\ calls[t] = {}
  BY <1>1 DEF Init, Tab, Saving
<1>3. tab \in [Tabs -> Tab] /\ calls \in [Tabs -> SUBSET Call]
  <2>1. tab = [t \in Tabs |-> tab[t]]
    BY <1>1
  <2>2. calls \in [Tabs -> SUBSET Call]
    BY DEF Init
  <2>3. QED BY <1>2, <2>1, <2>2
<1>4. row \in Row /\ row.there /\ row.locked
  <2>1. 0 \in 0 .. Grace + 1
    BY BoundAssumption
  <2>2. QED BY <2>1 DEF Init, Row
<1>5. /\ session \in Session /\ session.access /\ session.alive /\ faults = 0
      /\ files \in [Files -> Nat] /\ \A f \in OldFiles : files[f] = 1
      /\ \A f \in NewFiles : files[f] = 0
  BY FileAssumption DEF Init, Session, Files
<1>6. Typed
  BY <1>1, <1>2, <1>3, <1>4, <1>5 DEF Typed
<1>7. Waits
  BY <1>2 DEF Waits, Saving
<1>8. Lapsed
  BY <1>2, <1>5 DEF Lapsed, Denials
<1>9. Kept
  BY <1>4 DEF Kept
<1>10. Stored
  BY <1>2, <1>5 DEF Stored
<1>11. Ordered
  BY <1>2 DEF Ordered, Reported
<1>12. Thorough
  <2>1. \A f \in OldFiles : files[f] <= 1 /\ files[f] # 0
    BY <1>5
  <2>2. \A t \in Tabs : tab[t].marked = {} => Removed(t)
    BY <1>2 DEF Removed
  <2>3. QED BY <1>2, <2>1, <2>2 DEF Thorough, Reported
<1>13. QED BY <1>6, <1>7, <1>8, <1>9, <1>10, <1>11, <1>12 DEF IndInv

\* A share that is there was there before; its files change by the pages only.
LEMMA ContentNext ==
    ASSUME Typed, row.there => Stored /\ Ordered /\ Thorough, [Next]_vars, row'.there
    PROVE  (Stored /\ Ordered /\ Thorough)'
<1>1. ASSUME NEW t \in Tabs, PageDoes(t) PROVE (Stored /\ Ordered /\ Thorough)'
  <2>1. row.there
    BY <1>1 DEF PageDoes, SaveDoes, UploadEndsDoes, RenderDoes, UploadsOverDoes, KeyMissingDoes, AnswerDoes,
         LoseDoes, DenyDoes, RefreshDoes, Resent, RefreshFailsDoes, CloseDoes, ApplyDoes
  <2>2. QED BY <1>1, <2>1, StoredNext, OrderedNext, ThoroughNext
<1>2. CASE LapseDoes \/ TickDoes \/ UNCHANGED vars
  <2>1. row.there /\ UNCHANGED <<files, tab, calls, scars>>
    BY <1>2 DEF LapseDoes, TickDoes, vars
  <2>2. \A t \in Tabs : /\ Reported(t)' <=> Reported(t)
                        /\ Replaced(t)' <=> Replaced(t)
                        /\ Removed(t)' <=> Removed(t)
                        /\ \A c \in calls[t] : Current(t, c)' <=> Current(t, c)
    BY <2>1 DEF Reported, Replaced, Removed, Current
  <2>3. Stored'
    BY <2>1 DEF Stored
  <2>4. Ordered'
    BY <2>1, <2>2 DEF Ordered
  <2>5. Thorough'
    BY <2>1, <2>2 DEF Thorough
  <2>6. QED BY <2>3, <2>4, <2>5
<1>3. CASE DeleteDoes
  BY <1>3 DEF DeleteDoes
<1>4. QED BY <1>1, <1>2, <1>3, Kinds

LEMMA NextIndInv == IndInv /\ [Next]_vars => IndInv'
<1> SUFFICES ASSUME IndInv, [Next]_vars PROVE IndInv'
  OBVIOUS
<1>1. Typed /\ Waits /\ Lapsed /\ Kept /\ (row.there => Stored /\ Ordered /\ Thorough)
  BY DEF IndInv
<1>2. Typed' /\ Waits' /\ Lapsed' /\ Kept'
  BY <1>1, TypedNext, WaitsNext, LapsedNext, KeptNext
<1>3. row'.there => (Stored /\ Ordered /\ Thorough)'
  BY <1>1, ContentNext
<1>4. QED BY <1>2, <1>3 DEF IndInv

\* The inductive invariant: what pages, requests, tokens and files have to do with one
\* another in every state of EditableUpload and the API.
THEOREM Invariants == Spec => []IndInv
BY InitIndInv, NextIndInv, PTL DEF Spec

\* Every state has the types of TypeOK, and a page waits for exactly what its phase says.
THEOREM TypeCorrect == Spec => []TypeOK
<1>1. IndInv => TypeOK
  <2> SUFFICES ASSUME IndInv PROVE TypeOK
    OBVIOUS
  <2>1. Typed /\ Waits
    BY DEF IndInv
  <2>2. ASSUME NEW t \in Tabs, NEW c \in calls[t], Current(t, c)
        PROVE  tab[t].phase \in Saving \ {"upload"}
    <3>1. c \in Call /\ c.what \in {"revert", "remove", "complete"}
      BY <2>1, TabFields DEF Call
    <3>2. tab[t].phase \in PhaseOf(c.what)
      BY <2>1, <2>2, <3>1, CurrentPhase
    <3>3. QED BY <3>1, <3>2 DEF PhaseOf, Saving
  <2>3. \A t \in Tabs : /\ tab[t].phase \in Saving \ {"upload"} <=> \E c \in calls[t] : Current(t, c)
                        /\ tab[t].sending # {} => tab[t].phase = "upload"
    BY <2>1, <2>2 DEF Waits
  <2>4. QED BY <2>1, <2>3 DEF TypeOK, Typed
<1>2. QED BY <1>1, Invariants, PTL

\* A share that was edited is closed again when no page saves any more, and the job that
\* deletes open shares spares it, but for the excuses the property names: whatever the
\* number of tabs, saves and faults.
THEOREM SharesKept == Spec => []ShareKept
<1>1. IndInv => ShareKept
  <2>1. \A t \in Tabs : Closing(t) => ~Idle(t)
    BY DEF Closing, Idle, Saving
  <2>2. QED BY <2>1 DEF IndInv, Kept, ShareKept
<1>2. QED BY <1>1, Invariants, PTL

\* An old file goes only when what replaces it is there, a page that tells of success has
\* done what it was asked, unless a failure was not rendered in time; and no file is stored
\* twice, unless a save is repeated.
THEOREM EditsCorrect == Spec => []EditsTrue
<1>1. IndInv => EditsTrue
  <2> SUFFICES ASSUME IndInv, row.there PROVE EditsTrue
    BY DEF EditsTrue
  <2>1. Stored /\ Ordered /\ Thorough
    BY DEF IndInv
  <2>2. \A t \in Tabs : tab[t].phase = "back" => Replaced(t) /\ Removed(t)
    BY <2>1 DEF Ordered, Thorough, Reported
  <2>3. QED BY <2>1, <2>2 DEF EditsTrue, Stored, Thorough, Replaced, Removed
<1>2. QED BY <1>1, Invariants, PTL
===============================================================================
