-------------------------- MODULE Completion_proofs --------------------------
(***************************************************************************)
(* Theorems about Completion, for any number of shares, files and calls.   *)
(* Each invariant below is inductive on top of Typed (and Placed).         *)
(***************************************************************************)
EXTENDS Completion, FiniteSetTheorems, TLAPS

-----------------------------------------------------------------------------
(* Inductive invariants. *)

\* A call that has not sent its mails has not started a scan, and one that has not
\* checked has not started an archive.
SlotsWhole == \A r \in Requests :
    /\ run[r].at \in {"check", "notify"} => run[r].scan = "no"
    /\ run[r].at = "check" => run[r].zip = "no"

\* TypeOK without the lower bound of uses, which is Counted's.
Typed ==
    /\ locked \in [Shares -> BOOLEAN] /\ ready \in [Shares -> BOOLEAN] /\ removed \in [Shares -> BOOLEAN]
    /\ files \in [Shares -> SUBSET Files] /\ disk \in [Shares -> SUBSET Files]
    /\ partial \in [Shares -> SUBSET Files] /\ archive \in [Shares -> {NoArchive} \cup SUBSET Files]
    /\ dirs \in SUBSET Shares /\ uses \in Int
    /\ run \in [Requests -> Slot]
    /\ count \in [completes : 0 .. MaxCompletes, uploads : 0 .. MaxUploads,
                  reverts : 0 .. MaxReverts, crashes : 0 .. MaxCrashes]
    /\ closed \in SUBSET Shares /\ changed \in SUBSET Shares /\ overtaken \in SUBSET Shares
    /\ missed \in [Shares -> SUBSET Reasons]
    /\ SlotsWhole

\* Calls whose use is still to be counted, and calls that counted one and still close the share.
Uncounted == {r \in Requests : run[r].at \in {"check", "notify", "count"}}
Closing == {r \in Requests : run[r].at = "lock" /\ run[r].cookie}

\* Each use counted is of one call, and each share closed, or about to be, of one use.
Counted ==
    /\ uses <= Uses
    /\ Cardinality(Uncounted) + (Uses - uses) <= count.completes
    /\ Cardinality(closed) + Cardinality(Closing) <= Uses - uses

\* A directory that is gone is empty and stays so; one that is there has every file recorded.
Placed == \A s \in Shares :
    /\ s \notin dirs => disk[s] = {} /\ partial[s] = {} /\ archive[s] = NoArchive /\ s \in changed
    /\ s \in dirs => files[s] \subseteq disk[s]
    /\ removed[s] => s \notin dirs
    /\ \A r \in Requests : run[r].share = s /\ run[r].scan \in {"forget", "reason"} => s \notin dirs

\* What an archive is made of: nobody else completes the share while one is made, none
\* is ready meanwhile, and the share is closed or will be; it holds what was listed, and
\* what was listed is what there is.
Alone(s) == \A q, r \in Completers(s) : q = r
Closes(r, s) == run[r].share = s /\ run[r].at \in {"notify", "count", "lock"}
Closed(s) ==
    /\ ready[s] => Zipping(s) = {}
    /\ ready[s] \/ Zipping(s) # {} => locked[s] \/ \E r \in Requests : Closes(r, s)
Whole(s) == s \notin changed =>
    /\ \A r \in Zipping(s) : run[r].zip = "write" => run[r].listed = files[s] /\ archive[s] # NoArchive
    /\ \A r \in Zipping(s) : run[r].zip = "ready" => archive[s] = files[s]
    /\ ready[s] => archive[s] = files[s]
Archived == \A s \in Shares \ overtaken : Alone(s) /\ Closed(s) /\ Whole(s)

\* A scan that will report the file, or is removing what it reported.
Finds(r, s, f) ==
    /\ run[r].share = s
    /\ \/ run[r].scan \in {"list", "delete", "forget"}
       \/ run[r].scan = "files" /\ f \in run[r].entries

\* An infected file that no scan missed is one a scan finds.
InfectedFound == \A s \in Shares : missed[s] = {} =>
    \A f \in files[s] \cap Infected : \E r \in Requests : Finds(r, s, f)

-----------------------------------------------------------------------------
(* Slots. *)

\* What a step of slot r to q changes: the other slots stay, and q is only forgotten
\* once nothing of it is left to do.
Turns(r, q) ==
    /\ run' \in [Requests -> Slot]
    /\ \A x \in Requests \ {r} : run'[x] = run[x]
    /\ run'[r].at = q.at /\ run'[r].zip = q.zip /\ run'[r].scan = q.scan
    /\ q.at # "idle" \/ q.zip # "no" \/ q.scan # "no" => run'[r] = q

LEMMA IdleSlot == Idle \in Slot
BY DEF Idle, Slot

LEMMA Turned == ASSUME NEW r \in Requests, NEW q \in Slot, run \in [Requests -> Slot], Step(r, q)
                PROVE  Turns(r, q)
BY IdleSlot DEF Step, Settle, Turns, Idle

-----------------------------------------------------------------------------
(* Types. *)

LEMMA TypedInit == Init => Typed
<1> SUFFICES ASSUME Init PROVE Typed
  OBVIOUS
<1>1. count \in [completes : 0 .. MaxCompletes, uploads : 0 .. MaxUploads,
                 reverts : 0 .. MaxReverts, crashes : 0 .. MaxCrashes]
  BY BoundAssumption DEF Init
<1>2. uses \in Int
  BY BoundAssumption DEF Init
<1>3. run \in [Requests -> Slot] /\ SlotsWhole
  BY IdleSlot DEF Init, SlotsWhole, Idle
<1>4. QED BY <1>1, <1>2, <1>3 DEF Init, Typed

LEMMA SlotsStay ==
    ASSUME Typed, NEW r \in Requests, NEW q \in Slot, Turns(r, q),
           q.at \in {"check", "notify"} => q.scan = "no",
           q.at = "check" => q.zip = "no"
    PROVE  run' \in [Requests -> Slot] /\ SlotsWhole'
BY DEF Turns, Typed, SlotsWhole

\* The statements change some fields of a slot.
LEMMA SlotAt ==
    ASSUME NEW x \in Slot, NEW at \in {"idle", "count", "lock"}
    PROVE  [x EXCEPT !.at = at] \in Slot /\ [x EXCEPT !.at = at].at = at
BY DEF Slot

LEMMA SlotChecked ==
    ASSUME NEW x \in Slot, NEW z \in {"no", "list"}
    PROVE  LET q == [x EXCEPT !.at = "notify", !.zip = z]
           IN  q \in Slot /\ q.at = "notify" /\ q.scan = x.scan
BY DEF Slot

LEMMA SlotNotified ==
    ASSUME NEW x \in Slot
    PROVE  LET q == [x EXCEPT !.at = "count", !.scan = "list"] IN q \in Slot /\ q.at = "count"
BY DEF Slot

LEMMA TypedNext == Typed /\ [Next]_vars => Typed'
<1> SUFFICES ASSUME Typed, [Next]_vars PROVE Typed'
  OBVIOUS
<1> USE DEF Typed
<1>1. ASSUME NEW r \in Requests, NEW s \in Shares, CompleteRead(r, s) PROVE Typed'
  <2>1. PICK cookie, signedIn \in BOOLEAN :
            run' = [run EXCEPT ![r] = [Idle EXCEPT !.share = s, !.cookie = cookie, !.at = "check",
                                                  !.several = Cardinality(files[s]) > 1]]
    BY <1>1 DEF CompleteRead
  <2> DEFINE several == Cardinality(files[s]) > 1
             q == [Idle EXCEPT !.share = s, !.cookie = cookie, !.at = "check", !.several = several]
  <2>20. several \in BOOLEAN
    OBVIOUS
  <2>21. run' = [run EXCEPT ![r] = q]
    BY <2>1
  <2> HIDE DEF several
  <2>22. q \in Slot /\ q.zip = "no" /\ q.scan = "no"
    BY <2>20 DEF Idle, Slot
  <2>2. run' \in [Requests -> Slot] /\ SlotsWhole'
    BY <2>21, <2>22 DEF SlotsWhole
  <2>3. count' \in [completes : 0 .. MaxCompletes, uploads : 0 .. MaxUploads,
                    reverts : 0 .. MaxReverts, crashes : 0 .. MaxCrashes]
    BY <1>1, BoundAssumption DEF CompleteRead
  <2>4. QED BY <1>1, <2>2, <2>3 DEF CompleteRead, server
<1>2. ASSUME NEW r \in Requests, NEW s \in Shares, CompleteCheck(r, s) PROVE Typed'
  <2>1. CASE locked[s]
    <3> DEFINE q == [run[r] EXCEPT !.at = "idle"]
    <3>0. Step(r, q)
      BY <1>2, <2>1 DEF CompleteCheck
    <3>1. q \in Slot /\ q.at = "idle"
      BY SlotAt
    <3> HIDE DEF q
    <3>2. run' \in [Requests -> Slot] /\ SlotsWhole'
      BY <3>0, <3>1, Turned, SlotsStay
    <3>3. QED BY <1>2, <2>1, <3>2 DEF CompleteCheck, server
  <2>2. CASE ~locked[s]
    <3>0. PICK z \in {"no", "list"} : Step(r, [run[r] EXCEPT !.at = "notify", !.zip = z])
      BY <1>2, <2>2 DEF CompleteCheck
    <3> DEFINE q == [run[r] EXCEPT !.at = "notify", !.zip = z]
    <3>1. q \in Slot /\ q.at = "notify" /\ q.scan = run[r].scan
      BY SlotChecked
    <3>10. run[r].scan = "no"
      BY <1>2, <2>2 DEF CompleteCheck, Completing, SlotsWhole
    <3>11. Step(r, q)
      BY <3>0
    <3> HIDE DEF q
    <3>2. run' \in [Requests -> Slot] /\ SlotsWhole'
      BY <3>11, <3>1, <3>10, Turned, SlotsStay
    <3>3. QED BY <1>2, <2>2, <3>2 DEF CompleteCheck, server
  <2>3. QED BY <2>1, <2>2
<1>3. ASSUME NEW r \in Requests, NEW s \in Shares, CompleteNotify(r, s) PROVE Typed'
  <2> DEFINE q == [run[r] EXCEPT !.at = "count", !.scan = "list"]
  <2>1. q \in Slot /\ q.at = "count" /\ Step(r, q)
    BY <1>3, SlotNotified DEF CompleteNotify
  <2> HIDE DEF q
  <2>2. run' \in [Requests -> Slot] /\ SlotsWhole'
    BY <2>1, Turned, SlotsStay
  <2>3. QED BY <1>3, <2>2 DEF CompleteNotify, server
<1>4. ASSUME NEW r \in Requests, CompleteCount(r) PROVE Typed'
  <2> DEFINE q == [run[r] EXCEPT !.at = "lock"]
  <2>1. q \in Slot /\ q.at = "lock" /\ Step(r, q)
    BY <1>4, SlotAt DEF CompleteCount
  <2> HIDE DEF q
  <2>2. run' \in [Requests -> Slot] /\ SlotsWhole'
    BY <2>1, Turned, SlotsStay
  <2>3. QED BY <1>4, <2>2 DEF CompleteCount, history
<1>5. ASSUME NEW r \in Requests, NEW s \in Shares, CompleteLock(r, s) PROVE Typed'
  <2> DEFINE q == [run[r] EXCEPT !.at = "idle"]
  <2>1. q \in Slot /\ q.at = "idle" /\ Step(r, q)
    BY <1>5, SlotAt DEF CompleteLock
  <2> HIDE DEF q
  <2>2. run' \in [Requests -> Slot] /\ SlotsWhole'
    BY <2>1, Turned, SlotsStay
  <2>3. QED BY <1>5, <2>2 DEF CompleteLock
<1>6. ASSUME NEW r \in Requests, NEW s \in Shares, ZipList(r, s) \/ ZipWrite(r, s) \/ ZipReady(r, s)
      PROVE  Typed'
  <2>1. run[r].zip # "no" /\ run[r].at # "check" /\ (run[r].at = "notify" => run[r].scan = "no")
    BY <1>6 DEF ZipList, ZipWrite, ZipReady, SlotsWhole
  <2>2. \E z \in {"no", "write", "ready"}, F \in SUBSET Files :
            \/ Step(r, [run[r] EXCEPT !.zip = z])
            \/ Step(r, [run[r] EXCEPT !.zip = z, !.listed = F])
    BY <1>6 DEF ZipList, ZipWrite, ZipReady
  <2>3. PICK q \in Slot : q.at = run[r].at /\ q.scan = run[r].scan /\ Step(r, q)
    <3>1. PICK z, F : /\ z \in {"no", "write", "ready"} /\ F \in SUBSET Files
                     /\ \/ Step(r, [run[r] EXCEPT !.zip = z])
                        \/ Step(r, [run[r] EXCEPT !.zip = z, !.listed = F])
      BY <2>2
    <3>0. run[r] \in Slot
      OBVIOUS
    <3> HIDE DEF Typed
    <3> DEFINE p == [run[r] EXCEPT !.zip = z]
    <3> DEFINE q == [run[r] EXCEPT !.zip = z, !.listed = F]
    <3>2. p \in Slot /\ p.at = run[r].at /\ p.scan = run[r].scan
      BY <3>0, <3>1 DEF Slot
    <3>3. q \in Slot /\ q.at = run[r].at /\ q.scan = run[r].scan
      BY <3>0, <3>1 DEF Slot
    <3>4. Step(r, p) \/ Step(r, q)
      BY <3>1
    <3> HIDE DEF p, q
    <3>5. QED BY <3>2, <3>3, <3>4
  <2>4. run' \in [Requests -> Slot] /\ SlotsWhole'
    BY <2>1, <2>3, Turned, SlotsStay
  <2>5. CASE ZipList(r, s)
    BY <2>4, <2>5 DEF ZipList
  <2>6. CASE ZipWrite(r, s)
    <3>1. archive' \in [Shares -> {NoArchive} \cup SUBSET Files]
      BY <2>6 DEF ZipWrite, Slot
    <3>2. QED BY <2>4, <2>6, <3>1 DEF ZipWrite, history
  <2>7. CASE ZipReady(r, s)
    BY <2>4, <2>7 DEF ZipReady, history
  <2>8. QED BY <1>6, <2>5, <2>6, <2>7
<1>7. ASSUME NEW r \in Requests, NEW s \in Shares,
             ScanList(r, s) \/ ScanFiles(r, s) \/ ScanDelete(r, s) \/ ScanForget(r, s) \/ ScanReason(r, s)
      PROVE  Typed'
  <2>1. run[r].at \notin {"check", "notify"}
    BY <1>7 DEF ScanList, ScanFiles, ScanDelete, ScanForget, ScanReason, SlotsWhole
  <2>2. \E n \in {"no", "files", "delete", "forget", "reason"}, E \in SUBSET Files :
            \/ Step(r, [run[r] EXCEPT !.scan = n])
            \/ Step(r, [run[r] EXCEPT !.scan = n, !.entries = E])
    <3>1. CASE ScanList(r, s)
      BY <3>1 DEF ScanList, Slot
    <3>2. CASE ScanFiles(r, s)
      <4>1. \/ Step(r, [run[r] EXCEPT !.scan = "no", !.entries = {}])
            \/ Step(r, [run[r] EXCEPT !.scan = "delete", !.entries = {}])
        BY <3>2 DEF ScanFiles
      <4>2. QED BY <4>1
    <3>3. CASE ScanDelete(r, s) \/ ScanForget(r, s) \/ ScanReason(r, s)
      BY <3>3 DEF ScanDelete, ScanForget, ScanReason, Slot
    <3>4. QED BY <1>7, <3>1, <3>2, <3>3
  <2>3. PICK q \in Slot : q.at = run[r].at /\ q.zip = run[r].zip /\ Step(r, q)
    <3>1. PICK n, E : /\ n \in {"no", "files", "delete", "forget", "reason"} /\ E \in SUBSET Files
                     /\ \/ Step(r, [run[r] EXCEPT !.scan = n])
                        \/ Step(r, [run[r] EXCEPT !.scan = n, !.entries = E])
      BY <2>2
    <3>0. run[r] \in Slot
      OBVIOUS
    <3> HIDE DEF Typed
    <3> DEFINE p == [run[r] EXCEPT !.scan = n]
    <3> DEFINE q == [run[r] EXCEPT !.scan = n, !.entries = E]
    <3>2. p \in Slot /\ p.at = run[r].at /\ p.zip = run[r].zip
      BY <3>0, <3>1 DEF Slot
    <3>3. q \in Slot /\ q.at = run[r].at /\ q.zip = run[r].zip
      BY <3>0, <3>1 DEF Slot
    <3>4. Step(r, p) \/ Step(r, q)
      BY <3>1
    <3> HIDE DEF p, q
    <3>5. QED BY <3>2, <3>3, <3>4
  <2>4. run' \in [Requests -> Slot] /\ SlotsWhole'
    BY <2>1, <2>3, Turned, SlotsStay
  <2>5. CASE ScanList(r, s)
    BY <2>4, <2>5 DEF ScanList, server, Reasons
  <2>6. CASE ScanFiles(r, s)
    BY <2>4, <2>6 DEF ScanFiles, server, Reasons
  <2>7. CASE ScanDelete(r, s)
    BY <2>4, <2>7 DEF ScanDelete
  <2>8. CASE ScanForget(r, s) \/ ScanReason(r, s)
    BY <2>4, <2>8 DEF ScanForget, ScanReason, history
  <2>9. QED BY <1>7, <2>5, <2>6, <2>7, <2>8
<1>8. ASSUME NEW s \in Shares, Revert(s) PROVE Typed'
  BY <1>8, BoundAssumption DEF Revert, SlotsWhole
<1>9. ASSUME NEW s \in Shares, NEW f \in Files,
             UploadChunk(s, f) \/ UploadName(s, f) \/ UploadRecord(s, f) \/ RemoveFile(s, f)
      PROVE  Typed'
  <2>1. CASE UploadChunk(s, f)
    BY <2>1, BoundAssumption DEF UploadChunk, SlotsWhole
  <2>2. CASE UploadName(s, f)
    BY <2>2 DEF UploadName, SlotsWhole, history
  <2>3. CASE UploadRecord(s, f)
    BY <2>3 DEF UploadRecord, SlotsWhole, Reasons
  <2>4. CASE RemoveFile(s, f)
    BY <2>4 DEF RemoveFile, SlotsWhole
  <2>5. QED BY <1>9, <2>1, <2>2, <2>3, <2>4
<1>10. CASE Crash
  <2>1. run' \in [Requests -> Slot] /\ SlotsWhole'
    BY <1>10, IdleSlot DEF Crash, SlotsWhole, Idle
  <2>2. count' \in [completes : 0 .. MaxCompletes, uploads : 0 .. MaxUploads,
                    reverts : 0 .. MaxReverts, crashes : 0 .. MaxCrashes]
    BY <1>10, BoundAssumption DEF Crash
  <2>3. missed' \in [Shares -> SUBSET Reasons] /\ overtaken' \in SUBSET Shares
    BY <1>10 DEF Crash, Reasons
  <2>4. QED BY <1>10, <2>1, <2>2, <2>3 DEF Crash, server
<1>11. CASE UNCHANGED vars
  BY <1>11 DEF vars, server, history, SlotsWhole
<1>12. QED
  BY <1>1, <1>2, <1>3, <1>4, <1>5, <1>6, <1>7, <1>8, <1>9, <1>10, <1>11 DEF Next, Continue

-----------------------------------------------------------------------------
(* What each step does to its slot. *)

Moves(r, at, zip, scan) ==
    /\ \A x \in Requests \ {r} : run'[x] = run[x]
    /\ run'[r].at = at /\ run'[r].zip = zip /\ run'[r].scan = scan
    /\ run'[r].share \in {run[r].share, NoShare}
    /\ at # "idle" \/ zip # "no" \/ scan # "no" =>
           run'[r].share = run[r].share /\ run'[r].cookie = run[r].cookie
\* What it listed for the archive and for the scan stays while it is needed.
KeepsListed(r) == run'[r].zip # "no" => run'[r].listed = run[r].listed
KeepsEntries(r) == run'[r].scan # "no" => run'[r].entries = run[r].entries
Handles(r, at, zip, scan) == Moves(r, at, zip, scan) /\ KeepsListed(r) /\ KeepsEntries(r)

LEMMA Moved == ASSUME Typed, NEW r \in Requests, NEW q \in Slot, Step(r, q),
                      q.share = run[r].share, q.cookie = run[r].cookie
               PROVE  /\ Moves(r, q.at, q.zip, q.scan)
                      /\ q.listed = run[r].listed => KeepsListed(r)
                      /\ q.entries = run[r].entries => KeepsEntries(r)
BY DEF Typed, Step, Settle, Moves, KeepsListed, KeepsEntries, Idle

LEMMA HandlerMoves ==
    ASSUME Typed, NEW r \in Requests
    PROVE  /\ \A s \in Shares : CompleteCheck(r, s) =>
                  \/ locked[s] /\ Handles(r, "idle", run[r].zip, run[r].scan)
                  \/ ~locked[s] /\ \E z \in {"no", "list"} : Handles(r, "notify", z, run[r].scan)
           /\ \A s \in Shares : CompleteNotify(r, s) => Handles(r, "count", run[r].zip, "list")
           /\ CompleteCount(r) => Handles(r, "lock", run[r].zip, run[r].scan)
           /\ \A s \in Shares : CompleteLock(r, s) => Handles(r, "idle", run[r].zip, run[r].scan)
<1>0. run[r] \in Slot
  BY DEF Typed
<1>1. ASSUME NEW a \in {"idle", "notify", "count", "lock"}, Step(r, [run[r] EXCEPT !.at = a])
      PROVE  Handles(r, a, run[r].zip, run[r].scan)
  <2> DEFINE q == [run[r] EXCEPT !.at = a]
  <2>1. /\ q \in Slot /\ q.share = run[r].share /\ q.cookie = run[r].cookie
        /\ q.listed = run[r].listed /\ q.entries = run[r].entries
        /\ q.at = a /\ q.zip = run[r].zip /\ q.scan = run[r].scan
    BY <1>0 DEF Slot
  <2>2. Handles(r, q.at, q.zip, q.scan)
    BY <1>1, <2>1, Moved DEF Handles
  <2>3. QED BY <2>1, <2>2
<1>2. ASSUME NEW z \in {"no", "list"}, Step(r, [run[r] EXCEPT !.at = "notify", !.zip = z])
      PROVE  Handles(r, "notify", z, run[r].scan)
  <2> DEFINE q == [run[r] EXCEPT !.at = "notify", !.zip = z]
  <2>1. /\ q \in Slot /\ q.share = run[r].share /\ q.cookie = run[r].cookie
        /\ q.listed = run[r].listed /\ q.entries = run[r].entries
        /\ q.at = "notify" /\ q.zip = z /\ q.scan = run[r].scan
    BY <1>0 DEF Slot
  <2>2. Handles(r, q.at, q.zip, q.scan)
    BY <1>2, <2>1, Moved DEF Handles
  <2>3. QED BY <2>1, <2>2
<1>3. ASSUME Step(r, [run[r] EXCEPT !.at = "count", !.scan = "list"])
      PROVE  Handles(r, "count", run[r].zip, "list")
  <2> DEFINE q == [run[r] EXCEPT !.at = "count", !.scan = "list"]
  <2>1. /\ q \in Slot /\ q.share = run[r].share /\ q.cookie = run[r].cookie
        /\ q.listed = run[r].listed /\ q.entries = run[r].entries
        /\ q.at = "count" /\ q.zip = run[r].zip /\ q.scan = "list"
    BY <1>0 DEF Slot
  <2>2. Handles(r, q.at, q.zip, q.scan)
    BY <1>3, <2>1, Moved DEF Handles
  <2>3. QED BY <2>1, <2>2
<1>4. ASSUME NEW s \in Shares, CompleteCheck(r, s)
      PROVE  \/ locked[s] /\ Handles(r, "idle", run[r].zip, run[r].scan)
             \/ ~locked[s] /\ \E z \in {"no", "list"} : Handles(r, "notify", z, run[r].scan)
  <2>1. \/ locked[s] /\ Step(r, [run[r] EXCEPT !.at = "idle"])
        \/ ~locked[s] /\ \E z \in {"no", "list"} : Step(r, [run[r] EXCEPT !.at = "notify", !.zip = z])
    BY <1>4 DEF CompleteCheck
  <2>2. QED BY <1>1, <1>2, <2>1
<1>5. ASSUME NEW s \in Shares, CompleteNotify(r, s) PROVE Handles(r, "count", run[r].zip, "list")
  BY <1>3, <1>5 DEF CompleteNotify
<1>6. CompleteCount(r) => Handles(r, "lock", run[r].zip, run[r].scan)
  BY <1>1 DEF CompleteCount
<1>7. ASSUME NEW s \in Shares, CompleteLock(r, s) PROVE Handles(r, "idle", run[r].zip, run[r].scan)
  BY <1>1, <1>7 DEF CompleteLock
<1>8. QED BY <1>4, <1>5, <1>6, <1>7

LEMMA ZipMoves ==
    ASSUME Typed, NEW r \in Requests, NEW s \in Shares, ZipList(r, s) \/ ZipWrite(r, s) \/ ZipReady(r, s)
    PROVE  \E z \in {"no", "write", "ready"} : Moves(r, run[r].at, z, run[r].scan) /\ KeepsEntries(r)
<1>0. run[r] \in Slot /\ files[s] \in SUBSET Files
  BY DEF Typed
<1>1. PICK z \in {"no", "write", "ready"}, F \in SUBSET Files :
          \/ Step(r, [run[r] EXCEPT !.zip = z])
          \/ Step(r, [run[r] EXCEPT !.zip = z, !.listed = F])
  BY <1>0 DEF ZipList, ZipWrite, ZipReady, Slot
<1>2. \E q \in Slot : /\ q.share = run[r].share /\ q.cookie = run[r].cookie
                      /\ q.at = run[r].at /\ q.zip = z /\ q.scan = run[r].scan
                      /\ q.entries = run[r].entries /\ Step(r, q)
  BY <1>0, <1>1 DEF Slot
<1>3. QED BY <1>2, Moved

LEMMA ScanFilesStep ==
    ASSUME NEW r \in Requests, NEW s \in Shares, run[r] \in Slot, ScanFiles(r, s)
    PROVE  \E n \in {"no", "delete"} : Step(r, [run[r] EXCEPT !.scan = n, !.entries = {}])
<1>1. \/ Step(r, [run[r] EXCEPT !.scan = "no", !.entries = {}])
      \/ Step(r, [run[r] EXCEPT !.scan = "delete", !.entries = {}])
  BY DEF ScanFiles
<1>2. QED BY <1>1

LEMMA ScanMoves ==
    ASSUME Typed, NEW r \in Requests, NEW s \in Shares,
           ScanList(r, s) \/ ScanFiles(r, s) \/ ScanDelete(r, s) \/ ScanForget(r, s) \/ ScanReason(r, s)
    PROVE  \E n \in {"no", "files", "delete", "forget", "reason"} :
               /\ Moves(r, run[r].at, run[r].zip, n) /\ KeepsListed(r)
               /\ ScanDelete(r, s) => n = "forget"
               /\ ScanForget(r, s) => n = "reason"
<1>0. run[r] \in Slot /\ disk[s] \cup partial[s] \in SUBSET Files
  BY DEF Typed
<1>1. PICK n \in {"no", "files", "delete", "forget", "reason"}, E \in SUBSET Files :
          /\ \/ Step(r, [run[r] EXCEPT !.scan = n])
             \/ Step(r, [run[r] EXCEPT !.scan = n, !.entries = E])
          /\ ScanDelete(r, s) => n = "forget"
          /\ ScanForget(r, s) => n = "reason"
  <2>0. CASE ScanList(r, s)
    BY <1>0, <2>0 DEF ScanList, ScanDelete, ScanForget, Slot
  <2>1. CASE ScanFiles(r, s)
    <3>1. PICK n \in {"no", "delete"} : Step(r, [run[r] EXCEPT !.scan = n, !.entries = {}])
      BY <1>0, <2>1, ScanFilesStep
    <3>2. ~ScanDelete(r, s) /\ ~ScanForget(r, s)
      BY <2>1 DEF ScanFiles, ScanDelete, ScanForget
    <3>3. {} \in SUBSET Files /\ n \in {"no", "files", "delete", "forget", "reason"}
      OBVIOUS
    <3>4. QED BY <3>1, <3>2, <3>3, Zenon
  <2>2. CASE ScanDelete(r, s) \/ ScanForget(r, s) \/ ScanReason(r, s)
    BY <1>0, <2>2 DEF ScanDelete, ScanForget, ScanReason, Slot
  <2>3. QED BY <2>0, <2>1, <2>2
<1>2. \E q \in Slot : /\ q.share = run[r].share /\ q.cookie = run[r].cookie
                      /\ q.at = run[r].at /\ q.zip = run[r].zip /\ q.scan = n
                      /\ q.listed = run[r].listed /\ Step(r, q)
  BY <1>0, <1>1 DEF Slot
<1>3. QED BY <1>1, <1>2, Moved

LEMMA ReadMoves ==
    ASSUME Typed, NEW r \in Requests, NEW s \in Shares, CompleteRead(r, s)
    PROVE  /\ \A x \in Requests \ {r} : run'[x] = run[x]
           /\ run[r] = Idle
           /\ run'[r].at = "check" /\ run'[r].zip = "no" /\ run'[r].scan = "no"
<1>0. (Cardinality(files[s]) > 1) \in BOOLEAN
  OBVIOUS
<1>1. PICK cookie, signedIn, several \in BOOLEAN :
          run' = [run EXCEPT ![r] = [Idle EXCEPT !.share = s, !.cookie = cookie, !.at = "check",
                                                !.several = several]]
  BY <1>0 DEF CompleteRead
<1> DEFINE q == [Idle EXCEPT !.share = s, !.cookie = cookie, !.at = "check", !.several = several]
<1>2. q.at = "check" /\ q.zip = "no" /\ q.scan = "no"
  BY DEF Idle
<1>3. run' = [run EXCEPT ![r] = q]
  BY <1>1
<1> HIDE DEF q
<1>4. QED BY <1>2, <1>3 DEF Typed, CompleteRead

\* What a crash, an unchanged state and the owner's calls do to the slots.
LEMMA OthersMove ==
    ASSUME Typed,
           \/ Crash
           \/ UNCHANGED vars
           \/ \E s \in Shares : Revert(s) \/ \E f \in Files :
                  UploadChunk(s, f) \/ UploadName(s, f) \/ UploadRecord(s, f) \/ RemoveFile(s, f)
    PROVE  run' = run \/ (Crash /\ run' = [r \in Requests |-> Idle])
BY DEF Crash, vars, Revert, UploadChunk, UploadName, UploadRecord, RemoveFile

-----------------------------------------------------------------------------
(* Uses. *)

LEMMA CountedInit == Init => Counted
<1> SUFFICES ASSUME Init PROVE Counted
  OBVIOUS
<1>1. Uncounted = {} /\ Closing = {} /\ closed = {}
  BY DEF Init, Uncounted, Closing, Idle
<1>2. Cardinality({}) = 0
  BY FS_EmptySet
<1>3. QED BY <1>1, <1>2, BoundAssumption DEF Init, Counted

LEMMA CountedNext == Typed /\ Counted /\ [Next]_vars => Counted'
<1> SUFFICES ASSUME Typed, Counted, [Next]_vars PROVE Counted'
  OBVIOUS
<1>0. /\ IsFiniteSet(Uncounted) /\ IsFiniteSet(Closing) /\ IsFiniteSet(closed)
      /\ Cardinality(Uncounted) \in Nat /\ Cardinality(Closing) \in Nat /\ Cardinality(closed) \in Nat
  <2>1. Uncounted \subseteq Requests /\ Closing \subseteq Requests /\ closed \subseteq Shares
    BY DEF Typed, Uncounted, Closing
  <2>2. QED BY <2>1, FiniteAssumption, FS_Subset, FS_CardinalityType
<1>1. count.completes \in Nat /\ uses \in Int /\ Uses \in Int
  BY BoundAssumption DEF Typed
<1>2. ASSUME Uncounted' \subseteq Uncounted, Closing' \subseteq Closing, uses' = uses, closed' = closed,
             count'.completes = count.completes
      PROVE  Counted'
  <2>1. /\ Cardinality(Uncounted') \in Nat /\ Cardinality(Uncounted') <= Cardinality(Uncounted)
        /\ Cardinality(Closing') \in Nat /\ Cardinality(Closing') <= Cardinality(Closing)
    BY <1>0, <1>2, FS_Subset, FS_CardinalityType
  <2>2. QED BY <1>0, <1>1, <1>2, <2>1 DEF Counted
<1>3. ASSUME NEW r \in Requests, NEW s \in Shares, CompleteRead(r, s) PROVE Counted'
  <2>1. /\ \A x \in Requests \ {r} : run'[x] = run[x]
        /\ run[r].at = "idle" /\ run'[r].at = "check"
    BY <1>3, ReadMoves DEF Idle
  <2>2. Uncounted' = Uncounted \cup {r} /\ r \notin Uncounted /\ Closing' = Closing
    BY <2>1 DEF Uncounted, Closing
  <2>3. Cardinality(Uncounted') = Cardinality(Uncounted) + 1
    BY <1>0, <2>2, FS_AddElement
  <2>4. uses' = uses /\ closed' = closed /\ count'.completes = count.completes + 1
    BY <1>3 DEF CompleteRead, server, Typed
  <2>5. QED BY <1>0, <1>1, <2>2, <2>3, <2>4 DEF Counted
<1>4. ASSUME NEW r \in Requests, CompleteCount(r) PROVE Counted'
  <2>1. /\ \A x \in Requests \ {r} : run'[x] = run[x]
        /\ run[r].at = "count" /\ run'[r].at = "lock" /\ run'[r].cookie = run[r].cookie
    BY <1>4, HandlerMoves DEF Handles, Moves, CompleteCount, Completing
  <2>2. Uncounted' = Uncounted \ {r} /\ r \in Uncounted /\ r \notin Closing
    BY <2>1 DEF Uncounted, Closing
  <2>3. Closing' = IF run[r].cookie THEN Closing \cup {r} ELSE Closing
    BY <2>1 DEF Closing
  <2>4. /\ Cardinality(Uncounted') = Cardinality(Uncounted) - 1
        /\ Cardinality(Closing') = IF run[r].cookie THEN Cardinality(Closing) + 1 ELSE Cardinality(Closing)
    BY <1>0, <2>2, <2>3, FS_AddElement, FS_RemoveElement
  <2>5. closed' = closed /\ count' = count /\ uses' = IF run[r].cookie THEN uses - 1 ELSE uses
    BY <1>4 DEF CompleteCount, history
  <2>6. QED BY <1>0, <1>1, <2>4, <2>5 DEF Counted
<1>5. ASSUME NEW r \in Requests, NEW s \in Shares, CompleteLock(r, s) PROVE Counted'
  <2>1. /\ \A x \in Requests \ {r} : run'[x] = run[x]
        /\ run[r].at = "lock" /\ run'[r].at = "idle"
    BY <1>5, HandlerMoves DEF Handles, Moves, CompleteLock, Completing
  <2>2. Uncounted' = Uncounted /\ Closing' = Closing \ {r} /\ (run[r].cookie => r \in Closing)
    BY <2>1 DEF Uncounted, Closing
  <2>3. closed' = (IF run[r].cookie THEN closed \cup {s} ELSE closed) /\ count' = count /\ uses' = uses
    BY <1>5 DEF CompleteLock
  <2>4. Cardinality(Closing') = IF r \in Closing THEN Cardinality(Closing) - 1 ELSE Cardinality(Closing)
    BY <1>0, <2>2, FS_RemoveElement
  <2>5. Cardinality(closed \cup {s}) = IF s \in closed THEN Cardinality(closed) ELSE Cardinality(closed) + 1
    BY <1>0, FS_AddElement
  <2>6. Cardinality(closed') \in Nat /\ Cardinality(closed') <= IF run[r].cookie THEN Cardinality(closed) + 1
                                                                             ELSE Cardinality(closed)
    BY <1>0, <2>3, <2>5
  <2>7. QED BY <1>0, <1>1, <2>2, <2>3, <2>4, <2>6 DEF Counted
<1>6. ASSUME NEW r \in Requests, NEW s \in Shares, CompleteCheck(r, s) \/ CompleteNotify(r, s)
      PROVE  Counted'
  <2>1. /\ \A x \in Requests \ {r} : run'[x] = run[x]
        /\ run[r].at \in {"check", "notify"} /\ run'[r].at \in {"idle", "notify", "count"}
    BY <1>6, HandlerMoves DEF Handles, Moves, CompleteCheck, CompleteNotify, Completing
  <2>2. Uncounted' \subseteq Uncounted /\ Closing' \subseteq Closing
    BY <2>1 DEF Uncounted, Closing
  <2>3. QED BY <1>2, <1>6, <2>2 DEF CompleteCheck, CompleteNotify, server
<1>7. ASSUME NEW r \in Requests, NEW s \in Shares, ZipList(r, s) \/ ZipWrite(r, s) \/ ZipReady(r, s)
      PROVE  Counted'
  <2>1. /\ \A x \in Requests \ {r} : run'[x] = run[x]
        /\ run'[r].at = run[r].at /\ (run[r].at = "lock" => run'[r].cookie = run[r].cookie)
    BY <1>7, ZipMoves DEF Moves
  <2>2. Uncounted' \subseteq Uncounted /\ Closing' \subseteq Closing
    BY <2>1 DEF Uncounted, Closing
  <2>3. QED BY <1>2, <1>7, <2>2 DEF ZipList, ZipWrite, ZipReady, history
<1>8. ASSUME NEW r \in Requests, NEW s \in Shares,
             ScanList(r, s) \/ ScanFiles(r, s) \/ ScanDelete(r, s) \/ ScanForget(r, s) \/ ScanReason(r, s)
      PROVE  Counted'
  <2>1. /\ \A x \in Requests \ {r} : run'[x] = run[x]
        /\ run'[r].at = run[r].at /\ (run[r].at = "lock" => run'[r].cookie = run[r].cookie)
    BY <1>8, ScanMoves DEF Moves
  <2>2. Uncounted' \subseteq Uncounted /\ Closing' \subseteq Closing
    BY <2>1 DEF Uncounted, Closing
  <2>3. QED BY <1>2, <1>8, <2>2
        DEF ScanList, ScanFiles, ScanDelete, ScanForget, ScanReason, server, history
<1>9. ASSUME \/ Crash
             \/ UNCHANGED vars
             \/ \E s \in Shares : Revert(s) \/ \E f \in Files :
                    UploadChunk(s, f) \/ UploadName(s, f) \/ UploadRecord(s, f) \/ RemoveFile(s, f)
      PROVE  Counted'
  <2>1. Uncounted' \subseteq Uncounted /\ Closing' \subseteq Closing
    <3>1. run' = run \/ run' = [r \in Requests |-> Idle]
      BY <1>9, OthersMove
    <3>2. Idle.at = "idle"
      BY DEF Idle
    <3>3. QED BY <3>1, <3>2 DEF Uncounted, Closing
  <2>2. uses' = uses /\ closed' = closed /\ count'.completes = count.completes
    BY <1>9 DEF Crash, vars, server, history, Revert, UploadChunk, UploadName, UploadRecord, RemoveFile, Typed
  <2>3. QED BY <1>2, <2>1, <2>2
<1>10. QED
  BY <1>3, <1>4, <1>5, <1>6, <1>7, <1>8, <1>9 DEF Next, Continue

-----------------------------------------------------------------------------
(* Directories. *)

LEMMA PlacedInit == Init => Placed
BY DEF Init, Placed, Idle

LEMMA PlacedNext == Typed /\ Placed /\ [Next]_vars => Placed'
<1> SUFFICES ASSUME Typed, Placed, [Next]_vars PROVE Placed'
  OBVIOUS
<1> DEFINE Removing(x, s) == run[x].share = s /\ run[x].scan \in {"forget", "reason"}
<1>1. ASSUME \A s \in Shares, x \in Requests : Removing(x, s)' => Removing(x, s),
             UNCHANGED <<dirs, disk, partial, archive, files, changed, removed>>
      PROVE  Placed'
  BY <1>1 DEF Placed
<1>2. ASSUME NEW r \in Requests, NEW at, NEW zip, NEW scan, Moves(r, at, zip, scan),
             scan \in {"forget", "reason"} => scan = run[r].scan
      PROVE  \A s \in Shares, x \in Requests : Removing(x, s)' => Removing(x, s)
  BY <1>2, NullAssumption DEF Moves
<1>3. ASSUME NEW r \in Requests, NEW s \in Shares, CompleteRead(r, s) PROVE Placed'
  <2>1. \A t \in Shares, x \in Requests : Removing(x, t)' => Removing(x, t)
    BY <1>3, ReadMoves
  <2>2. QED BY <1>1, <1>3, <2>1 DEF CompleteRead, server, history
<1>4. ASSUME NEW r \in Requests,
             \/ CompleteCount(r)
             \/ \E s \in Shares : CompleteCheck(r, s) \/ CompleteNotify(r, s) \/ CompleteLock(r, s)
      PROVE  Placed'
  <2>1. \A t \in Shares, x \in Requests : Removing(x, t)' => Removing(x, t)
    BY <1>2, <1>4, HandlerMoves DEF Handles
  <2>2. QED BY <1>1, <1>4, <2>1
            DEF CompleteCount, CompleteCheck, CompleteNotify, CompleteLock, server, history
<1>5. ASSUME NEW r \in Requests, NEW s \in Shares, ZipList(r, s) \/ ZipWrite(r, s) \/ ZipReady(r, s)
      PROVE  Placed'
  <2>1. \A t \in Shares, x \in Requests : Removing(x, t)' => Removing(x, t)
    BY <1>2, <1>5, ZipMoves
  <2>2. UNCHANGED <<dirs, disk, partial, files, removed>>
    BY <1>5 DEF ZipList, ZipWrite, ZipReady
  <2>3. \A t \in Shares : t \notin dirs => archive'[t] = archive[t] /\ (t \in changed => t \in changed')
    <3>1. CASE ZipList(r, s)
      BY <3>1 DEF ZipList, Typed
    <3>2. CASE ZipWrite(r, s)
      BY <3>2 DEF ZipWrite, Typed, Placed, history
    <3>3. CASE ZipReady(r, s)
      BY <3>3 DEF ZipReady, history
    <3>4. QED BY <1>5, <3>1, <3>2, <3>3
  <2>4. QED BY <2>1, <2>2, <2>3 DEF Placed
<1>6. ASSUME NEW r \in Requests, NEW s \in Shares, ScanList(r, s) \/ ScanFiles(r, s) PROVE Placed'
  <2>1. PICK n \in {"no", "files", "delete", "forget", "reason"} : Moves(r, run[r].at, run[r].zip, n)
    BY <1>6, ScanMoves
  <2>2. run'[r].scan \notin {"forget", "reason"}
    <3>0. run[r] \in Slot
      BY DEF Typed
    <3>1. CASE ScanList(r, s)
      <4>1. \E q \in Slot : q.scan \notin {"forget", "reason"} /\ Step(r, q)
        <5>1. disk[s] \cup partial[s] \in SUBSET Files
          BY DEF Typed
        <5>2. QED BY <3>0, <3>1, <5>1 DEF ScanList, Slot
      <4>2. QED BY <4>1, Turned DEF Turns, Typed
    <3>2. CASE ScanFiles(r, s)
      <4>1. \E n1 \in {"no", "delete"} : Step(r, [run[r] EXCEPT !.scan = n1, !.entries = {}])
        BY <3>0, <3>2, ScanFilesStep
      <4>2. \E q \in Slot : q.scan \notin {"forget", "reason"} /\ Step(r, q)
        BY <3>0, <4>1 DEF Slot
      <4>3. QED BY <4>2, Turned DEF Turns, Typed
    <3>3. QED BY <1>6, <3>1, <3>2
  <2>3. \A t \in Shares, x \in Requests : Removing(x, t)' => Removing(x, t)
    BY <1>2, <2>1, <2>2 DEF Moves
  <2>4. QED BY <1>1, <1>6, <2>3 DEF ScanList, ScanFiles, server
<1>7. ASSUME NEW r \in Requests, NEW s \in Shares, ScanDelete(r, s) PROVE Placed'
  <2>1. /\ \A x \in Requests \ {r} : run'[x] = run[x]
        /\ run[r].share = s /\ run'[r].share \in {s, NoShare}
    BY <1>7, ScanMoves DEF Moves, ScanDelete
  <2>2. \A t \in Shares \ {s} : disk'[t] = disk[t] /\ partial'[t] = partial[t] /\ archive'[t] = archive[t]
    BY <1>7 DEF ScanDelete, Typed
  <2>3. disk'[s] = {} /\ partial'[s] = {} /\ archive'[s] = NoArchive
    BY <1>7 DEF ScanDelete, Typed
  <2>4. dirs' = dirs \ {s} /\ changed' = changed \cup {s} /\ files' = files /\ removed' = removed
    BY <1>7 DEF ScanDelete
  <2>5. QED BY <2>1, <2>2, <2>3, <2>4, NullAssumption DEF Placed
<1>8. ASSUME NEW r \in Requests, NEW s \in Shares, ScanForget(r, s) PROVE Placed'
  <2>1. /\ \A x \in Requests \ {r} : run'[x] = run[x]
        /\ run[r].share = s /\ run'[r].share \in {s, NoShare} /\ run[r].scan = "forget"
    BY <1>8, ScanMoves DEF Moves, ScanForget
  <2>2. \A t \in Shares : files'[t] = IF t = s THEN {} ELSE files[t]
    BY <1>8 DEF ScanForget, Typed
  <2>3. UNCHANGED <<dirs, disk, partial, archive, removed>> /\ changed' = changed \cup {s}
    BY <1>8 DEF ScanForget
  <2>4. s \notin dirs
    BY <2>1 DEF Placed
  <2>5. QED BY <2>1, <2>2, <2>3, <2>4, NullAssumption DEF Placed
<1>9. ASSUME NEW r \in Requests, NEW s \in Shares, ScanReason(r, s) PROVE Placed'
  <2>1. /\ \A x \in Requests \ {r} : run'[x] = run[x]
        /\ run[r].share = s /\ run'[r].share \in {s, NoShare} /\ run[r].scan = "reason"
    BY <1>9, ScanMoves DEF Moves, ScanReason
  <2>2. \A t \in Shares : removed'[t] => removed[t] \/ t = s
    BY <1>9 DEF ScanReason, Typed
  <2>3. UNCHANGED <<dirs, disk, partial, archive, files, changed>>
    BY <1>9 DEF ScanReason, history
  <2>4. s \notin dirs
    BY <2>1 DEF Placed
  <2>5. QED BY <2>1, <2>2, <2>3, <2>4, NullAssumption DEF Placed
<1>10. ASSUME NEW s \in Shares, Revert(s) PROVE Placed'
  BY <1>1, <1>10 DEF Revert
<1>11. ASSUME NEW s \in Shares, NEW f \in Files,
              UploadChunk(s, f) \/ UploadName(s, f) \/ UploadRecord(s, f) \/ RemoveFile(s, f)
       PROVE  Placed'
  <2>1. CASE UploadChunk(s, f)
    BY <2>1 DEF UploadChunk, Placed, Typed
  <2>2. CASE UploadName(s, f)
    BY <2>2 DEF UploadName, Placed, Typed, history
  <2>3. CASE UploadRecord(s, f)
    BY <2>3 DEF UploadRecord, Placed, Typed
  <2>4. CASE RemoveFile(s, f)
    BY <2>4 DEF RemoveFile, Placed, Typed
  <2>5. QED BY <1>11, <2>1, <2>2, <2>3, <2>4
<1>12. CASE Crash
  <2>1. \A t \in Shares, x \in Requests : Removing(x, t)' => Removing(x, t)
    BY <1>12, OthersMove, NullAssumption DEF Idle
  <2>2. QED BY <1>1, <1>12, <2>1 DEF Crash, server
<1>13. CASE UNCHANGED vars
  BY <1>1, <1>13 DEF vars, server, history
<1>14. QED
  BY <1>3, <1>4, <1>5, <1>6, <1>7, <1>8, <1>9, <1>10, <1>11, <1>12, <1>13 DEF Next, Continue

-----------------------------------------------------------------------------
(* Archives. *)

\* The slot of an archive that goes on: what it lists stays with it until it is written.
LEMMA ZipLists ==
    ASSUME Typed, NEW r \in Requests, NEW s \in Shares, ZipList(r, s)
    PROVE  \/ s \notin dirs /\ run'[r].zip = "no" /\ UNCHANGED <<archive, changed>>
           \/ /\ s \in dirs /\ run'[r].zip = "write" /\ run'[r].listed = files[s]
              /\ archive' = [archive EXCEPT ![s] = {}] /\ changed' = changed \ {s}
<1>0. run[r] \in Slot /\ files[s] \in SUBSET Files
  BY DEF Typed
<1>1. CASE s \notin dirs
  <2>1. Step(r, [run[r] EXCEPT !.zip = "no"]) /\ UNCHANGED <<archive, changed>>
    BY <1>1 DEF ZipList
  <2>2. \E q \in Slot : q.zip = "no" /\ Step(r, q)
    BY <1>0, <2>1 DEF Slot
  <2>3. QED BY <1>1, <2>1, <2>2, Turned DEF Turns, Typed
<1>2. CASE s \in dirs
  <2>1. /\ Step(r, [run[r] EXCEPT !.zip = "write", !.listed = files[s]])
        /\ archive' = [archive EXCEPT ![s] = {}] /\ changed' = changed \ {s}
    BY <1>2 DEF ZipList
  <2>2. \E q \in Slot : q.zip = "write" /\ q.listed = files[s] /\ Step(r, q)
    BY <1>0, <2>1 DEF Slot
  <2>3. QED BY <1>2, <2>1, <2>2, Turned DEF Turns, Typed
<1>3. QED BY <1>1, <1>2

LEMMA ZipWrites ==
    ASSUME Typed, NEW r \in Requests, NEW s \in Shares, ZipWrite(r, s)
    PROVE  /\ run'[r].zip \in {"no", "ready"} /\ changed' = changed
           /\ run'[r].zip = "no" => ~(run[r].listed \subseteq disk[s])
           /\ run'[r].zip = "ready" => archive'[s] = IF archive[s] = NoArchive THEN NoArchive ELSE run[r].listed
           /\ \A t \in Shares \ {s} : archive'[t] = archive[t]
<1>0. run[r] \in Slot
  BY DEF Typed
<1>1. PICK z \in {"no", "ready"} :
          /\ Step(r, [run[r] EXCEPT !.zip = z, !.listed = {}])
          /\ z = "no" => ~(run[r].listed \subseteq disk[s]) /\ archive' = archive
          /\ z = "ready" => archive' = [archive EXCEPT ![s] = IF archive[s] = NoArchive THEN NoArchive
                                                             ELSE run[r].listed]
  BY DEF ZipWrite
<1>2. \E q \in Slot : q.zip = z /\ Step(r, q)
  BY <1>0, <1>1 DEF Slot
<1>3. run'[r].zip = z
  BY <1>2, Turned DEF Turns, Typed
<1>4. QED BY <1>1, <1>3 DEF ZipWrite, Typed, history

\* A step that is not a complete's check adds nobody who completes a share.
LEMMA CompletersLeave ==
    ASSUME Typed, NEW s \in Shares, \A x \in Requests : run'[x] = run[x] \/
               /\ run'[x].share \in {run[x].share, NoShare}
               /\ run'[x].at \in {"notify", "count", "lock"} => run[x].at \in {"notify", "count", "lock"}
               /\ run'[x].zip # "no" => run[x].zip # "no"
    PROVE  Completers(s)' \subseteq Completers(s) /\ Zipping(s)' \subseteq Zipping(s)
BY NullAssumption DEF Completers, Zipping

LEMMA ZipReadies ==
    ASSUME Typed, NEW r \in Requests, NEW s \in Shares, ZipReady(r, s)
    PROVE  run'[r].zip = "no"
<1>1. Step(r, [run[r] EXCEPT !.zip = "no"]) /\ run[r] \in Slot
  BY DEF ZipReady, Typed
<1>2. \E q \in Slot : q.zip = "no" /\ Step(r, q)
  BY <1>1 DEF Slot
<1>3. QED BY <1>2, Turned DEF Turns, Typed

LEMMA OvertakenGrows == [Next]_vars => overtaken \subseteq overtaken'
<1>1. ASSUME NEW r \in Requests, NEW s \in Shares, CompleteRead(r, s) \/ Continue(r, s)
      PROVE  overtaken \subseteq overtaken'
  BY <1>1 DEF CompleteRead, Continue, CompleteCheck, CompleteNotify, CompleteLock, ZipList, ZipWrite, ZipReady,
              ScanList, ScanFiles, ScanDelete, ScanForget, ScanReason, history
<1>2. ASSUME NEW s \in Shares, Revert(s) \/ \E f \in Files : \/ UploadChunk(s, f) \/ UploadName(s, f)
                                                             \/ UploadRecord(s, f) \/ RemoveFile(s, f)
      PROVE  overtaken \subseteq overtaken'
  BY <1>2 DEF Revert, UploadChunk, UploadName, UploadRecord, RemoveFile, history
<1>3. QED
  BY <1>1, <1>2 DEF Next, CompleteCount, Crash, vars, history

LEMMA ArchivedInit == Init => Archived
BY DEF Init, Archived, Alone, Closed, Whole, Completers, Zipping, Idle

\* A share is not reopened while it is archived, and is closed once it is.
LEMMA ClosedNext ==
    ASSUME Typed, [Next]_vars, NEW s \in Shares, s \notin overtaken', Alone(s), Closed(s)
    PROVE  Closed(s)'
<1> DEFINE Going == {"notify", "count", "lock"}
           Safe == locked[s] \/ \E x \in Requests : Closes(x, s)
<1>0. /\ \A x \in Requests : x \in Zipping(s) <=> run[x].share = s /\ run[x].zip # "no"
      /\ \A x \in Requests : x \in Zipping(s)' <=> run'[x].share = s /\ run'[x].zip # "no"
      /\ Zipping(s) \subseteq Requests /\ Zipping(s)' \subseteq Requests
  BY DEF Zipping
<1>1. ASSUME Zipping(s)' \subseteq Zipping(s), ready' = ready, Safe => Safe'
      PROVE  Closed(s)'
  BY <1>1 DEF Closed
<1>2. ASSUME NEW r \in Requests, NEW at, NEW zip, NEW scan, Moves(r, at, zip, scan),
             run[r].at \in Going => at \in Going, locked' = locked
      PROVE  Safe => Safe'
  BY <1>2 DEF Moves, Closes
<1>3. ASSUME NEW r \in Requests, NEW at, NEW zip, NEW scan, Moves(r, at, zip, scan),
             zip # "no" => run[r].zip # "no"
      PROVE  Zipping(s)' \subseteq Zipping(s)
  BY <1>0, <1>3, NullAssumption DEF Moves
<1>4. ASSUME NEW r \in Requests, NEW t \in Shares, CompleteRead(r, t) PROVE Closed(s)'
  <2>1. /\ \A x \in Requests \ {r} : run'[x] = run[x]
        /\ run'[r].at = "check" /\ run'[r].zip = "no" /\ run[r].at = "idle"
    BY <1>4, ReadMoves DEF Idle
  <2>2. Zipping(s)' \subseteq Zipping(s)
    BY <1>0, <2>1
  <2>3. UNCHANGED <<ready, locked>>
    BY <1>4 DEF CompleteRead, server
  <2>4. Safe => Safe'
    BY <2>1, <2>3 DEF Closes
  <2>5. QED BY <1>1, <2>2, <2>3, <2>4
<1>5. ASSUME NEW r \in Requests, NEW t \in Shares, CompleteCheck(r, t) PROVE Closed(s)'
  <2>1. /\ UNCHANGED <<ready, locked>> /\ run[r].at = "check" /\ run[r].share = t
        /\ run[r].zip = "no"
    BY <1>5 DEF CompleteCheck, server, Completing, Typed, SlotsWhole
  <2>2. CASE locked[t]
    <3>1. Handles(r, "idle", run[r].zip, run[r].scan)
      BY <1>5, <2>2, HandlerMoves
    <3>2. QED BY <1>1, <1>2, <1>3, <2>1, <3>1 DEF Handles
  <2>3. CASE ~locked[t]
    <3>1. PICK z \in {"no", "list"} : Handles(r, "notify", z, run[r].scan)
      BY <1>5, <2>3, HandlerMoves
    <3>2. Safe => Safe'
      BY <1>2, <2>1, <3>1 DEF Handles
    <3>3. \A x \in Requests \ {r} : run'[x] = run[x]
      BY <3>1 DEF Handles, Moves
    <3>4. run'[r].share = t /\ run'[r].at = "notify"
      BY <2>1, <3>1 DEF Handles, Moves
    <3>5. CASE s = t
      <4>1. Completers(s) = {}
        BY <1>5, <2>3, <3>5 DEF CompleteCheck
      <4>2. ~Safe
        BY <2>3, <3>5, <4>1 DEF Completers, Closes
      <4>3. ready[s] = FALSE
        BY <4>2 DEF Closed, Typed
      <4>4. ready'[s] = FALSE /\ Closes(r, s)'
        BY <2>1, <3>4, <3>5, <4>3 DEF Closes
      <4>5. QED BY <4>4 DEF Closed
    <3>6. CASE s # t
      <4>1. Zipping(s)' \subseteq Zipping(s)
        BY <1>0, <3>3, <3>4, <3>6
      <4>2. QED BY <1>1, <2>1, <3>2, <4>1
    <3>7. QED BY <3>5, <3>6
  <2>4. QED BY <2>2, <2>3
<1>6. ASSUME NEW r \in Requests, CompleteCount(r) \/ \E t \in Shares : CompleteNotify(r, t)
      PROVE  Closed(s)'
  <2>1. UNCHANGED <<ready, locked>>
    BY <1>6 DEF CompleteCount, CompleteNotify, server
  <2>2. PICK at, scan : at \in {"lock", "count"} /\ Handles(r, at, run[r].zip, scan)
    BY <1>6, HandlerMoves
  <2>3. QED BY <1>1, <1>2, <1>3, <2>1, <2>2 DEF Handles
<1>7. ASSUME NEW r \in Requests, NEW t \in Shares, CompleteLock(r, t) PROVE Closed(s)'
  <2>1. Moves(r, "idle", run[r].zip, run[r].scan) /\ ready' = ready /\ run[r].share = t
    BY <1>7, HandlerMoves DEF Handles, CompleteLock
  <2>2. locked'[s] = IF s = t THEN TRUE ELSE locked[s]
    BY <1>7 DEF CompleteLock, Typed
  <2>3. ASSUME s # t, Safe PROVE Safe'
    <3>1. \A x \in Requests : Closes(x, s) => Closes(x, s)'
      BY <2>1, <2>3 DEF Moves, Closes
    <3>2. QED BY <2>2, <2>3, <3>1
  <2>4. s = t => Safe'
    BY <2>2
  <2>5. Safe => Safe'
    BY <2>3, <2>4
  <2>6. QED BY <1>1, <1>3, <2>1, <2>5
<1>8. ASSUME NEW r \in Requests, NEW t \in Shares, ZipList(r, t) \/ ZipWrite(r, t) PROVE Closed(s)'
  <2>1. run[r].zip # "no" /\ UNCHANGED <<ready, locked>>
    BY <1>8 DEF ZipList, ZipWrite
  <2>2. PICK z : Moves(r, run[r].at, z, run[r].scan)
    BY <1>8, ZipMoves
  <2>3. QED BY <1>1, <1>2, <1>3, <2>1, <2>2
<1>9. ASSUME NEW r \in Requests, NEW t \in Shares, ZipReady(r, t) PROVE Closed(s)'
  <2>1. run[r].zip = "ready" /\ run[r].share = t /\ locked' = locked /\ run'[r].zip = "no"
    BY <1>9, ZipReadies DEF ZipReady
  <2>2. Moves(r, run[r].at, "no", run[r].scan)
    BY <1>9, <2>1, ZipMoves DEF Moves
  <2>3. Zipping(s)' \subseteq Zipping(s) /\ (Safe => Safe')
    BY <1>2, <1>3, <2>1, <2>2
  <2>4. CASE s = t
    <3>1. \A x \in Zipping(s) : x = r
      BY <1>0, <2>1, <2>4 DEF Alone, Completers
    <3>2. r \in Zipping(s) /\ r \notin Zipping(s)'
      BY <1>0, <2>1, <2>4
    <3>3. Zipping(s)' = {}
      BY <2>3, <3>1, <3>2
    <3>4. QED BY <2>3, <3>2, <3>3 DEF Closed
  <2>5. CASE s # t
    <3>1. ready'[s] = ready[s]
      BY <1>9, <2>5 DEF ZipReady, Typed
    <3>2. QED BY <2>3, <3>1 DEF Closed
  <2>6. QED BY <2>4, <2>5
<1>10. ASSUME NEW r \in Requests, NEW t \in Shares,
              ScanList(r, t) \/ ScanFiles(r, t) \/ ScanDelete(r, t) \/ ScanForget(r, t) \/ ScanReason(r, t)
       PROVE  Closed(s)'
  <2>1. PICK n : Moves(r, run[r].at, run[r].zip, n)
    BY <1>10, ScanMoves
  <2>2. UNCHANGED <<ready, locked>>
    BY <1>10 DEF ScanList, ScanFiles, ScanDelete, ScanForget, ScanReason, server
  <2>3. QED BY <1>1, <1>2, <1>3, <2>1, <2>2
<1>11. ASSUME NEW t \in Shares, Revert(t) PROVE Closed(s)'
  <2>1. run' = run
    BY <1>11 DEF Revert
  <2>2. Zipping(s)' = Zipping(s)
    BY <2>1 DEF Zipping
  <2>3. CASE s = t
    <3>1. ready'[s] = FALSE /\ Zipping(s) = {}
      BY <1>11, <2>3 DEF Revert, Typed
    <3>2. QED BY <2>2, <3>1 DEF Closed
  <2>4. CASE s # t
    <3>1. ready'[s] = ready[s] /\ locked'[s] = locked[s]
      BY <1>11, <2>4 DEF Revert, Typed
    <3>2. Safe => Safe'
      BY <2>1, <3>1 DEF Closes
    <3>3. QED BY <2>2, <3>1, <3>2 DEF Closed
  <2>5. QED BY <2>3, <2>4
<1>12. ASSUME \/ UNCHANGED vars
              \/ \E t \in Shares, f \in Files : \/ UploadChunk(t, f) \/ UploadName(t, f)
                                                \/ UploadRecord(t, f) \/ RemoveFile(t, f)
       PROVE  Closed(s)'
  <2>1. UNCHANGED <<run, ready, locked>>
    BY <1>12 DEF vars, server, UploadChunk, UploadName, UploadRecord, RemoveFile
  <2>2. QED BY <1>1, <2>1 DEF Zipping, Closes
<1>13. CASE Crash
  <2>1. ~(ready[s] /\ ~locked[s]) /\ UNCHANGED <<ready, locked>> /\ run' = [r \in Requests |-> Idle]
    BY <1>13 DEF Crash, server
  <2>2. Zipping(s)' = {}
    BY <2>1, NullAssumption DEF Zipping, Idle
  <2>3. QED BY <2>1, <2>2 DEF Closed
<1>14. QED
  BY <1>4, <1>5, <1>6, <1>7, <1>8, <1>9, <1>10, <1>11, <1>12, <1>13 DEF Next, Continue

LEMMA ArchivedNext == Typed /\ Placed /\ Archived /\ [Next]_vars => Archived'
<1> SUFFICES ASSUME Typed, Placed, Archived, [Next]_vars, NEW s \in Shares, s \notin overtaken'
             PROVE  Alone(s)' /\ Whole(s)'
  BY OvertakenGrows, ClosedNext DEF Archived
<1> DEFINE Going == {"notify", "count", "lock"}
           Same == \A x \in Requests :
                       /\ x \in Zipping(s)' <=> x \in Zipping(s)
                       /\ x \in Zipping(s)' => run'[x].zip = run[x].zip /\ run'[x].listed = run[x].listed
           Fewer == \A x \in Requests : run'[x] = run[x] \/
                        /\ run'[x].share \in {run[x].share, NoShare}
                        /\ run'[x].at \in Going => run[x].at \in Going
                        /\ run'[x].zip # "no" => run[x].zip # "no"
<1>0. s \notin overtaken => Alone(s) /\ Closed(s) /\ Whole(s)
  BY DEF Archived
<1>1. ASSUME Fewer, Alone(s) PROVE Alone(s)' /\ Completers(s)' \subseteq Completers(s) /\ Zipping(s)' \subseteq Zipping(s)
  BY <1>1, CompletersLeave DEF Alone
<1>2. /\ \A x, y \in Requests : Alone(s) /\ x \in Zipping(s) /\ y \in Zipping(s) => x = y
      /\ \A x \in Requests : x \in Zipping(s) <=> run[x].share = s /\ run[x].zip # "no"
      /\ \A x \in Requests : x \in Zipping(s)' <=> run'[x].share = s /\ run'[x].zip # "no"
      /\ Zipping(s) \subseteq Requests /\ Zipping(s)' \subseteq Requests
  BY DEF Alone, Zipping, Completers
<1>3. ASSUME NEW r \in Requests, NEW at, NEW scan, Moves(r, at, run[r].zip, scan), KeepsListed(r) PROVE Same
  BY <1>2, <1>3, NullAssumption DEF Moves, KeepsListed
\* A share whose archive, files and slots a step leaves alone.
<1>30. ASSUME Same, s \notin overtaken, s \in changed => s \in changed', ready'[s] => ready[s],
              s \notin changed' => archive'[s] = archive[s] /\ files'[s] = files[s]
       PROVE  Alone(s) /\ Whole(s)'
  <2>1. Alone(s) /\ Whole(s)
    BY <1>0, <1>30
  <2>2. Zipping(s)' = Zipping(s)
    <3>1. Zipping(s) \subseteq Requests /\ Zipping(s)' \subseteq Requests
      BY DEF Zipping
    <3>2. \A x \in Requests : x \in Zipping(s)' <=> x \in Zipping(s)
      BY <1>30
    <3>3. QED BY <3>1, <3>2
  <2>3. Whole(s)'
    <3> SUFFICES ASSUME s \notin changed' PROVE Whole(s)'
      BY DEF Whole
    <3>1. s \notin changed /\ archive'[s] = archive[s] /\ files'[s] = files[s]
      BY <1>30
    <3>2. \A x \in Zipping(s) : run'[x].zip = run[x].zip /\ run'[x].listed = run[x].listed
      BY <1>2, <1>30, <2>2
    <3>3. \A x \in Zipping(s)' : run'[x].zip = "write" => run'[x].listed = files'[s] /\ archive'[s] # NoArchive
      BY <2>1, <2>2, <3>1, <3>2 DEF Whole
    <3>4. \A x \in Zipping(s)' : run'[x].zip = "ready" => archive'[s] = files'[s]
      BY <2>1, <2>2, <3>1, <3>2 DEF Whole
    <3>5. ready[s] => archive'[s] = files'[s]
      BY <2>1, <3>1 DEF Whole
    <3>6. QED BY <1>30, <3>3, <3>4, <3>5, Zenon DEF Whole
  <2>4. QED BY <2>1, <2>3
<1>31. ASSUME UNCHANGED <<archive, files, ready, changed>>
       PROVE  /\ s \in changed => s \in changed'
              /\ ready'[s] => ready[s]
              /\ s \notin changed' => archive'[s] = archive[s] /\ files'[s] = files[s]
  BY <1>31
<1>4. ASSUME NEW r \in Requests, NEW t \in Shares, CompleteRead(r, t) PROVE Alone(s)' /\ Whole(s)'
  <2>1. overtaken' = overtaken /\ UNCHANGED <<archive, files, ready, changed>>
    BY <1>4 DEF CompleteRead, server
  <2>2. /\ \A x \in Requests \ {r} : run'[x] = run[x]
        /\ run'[r].at = "check" /\ run'[r].zip = "no" /\ run[r].zip = "no"
    BY <1>4, ReadMoves DEF Idle
  <2>3. Completers(s)' \subseteq Completers(s) /\ Same
    BY <1>2, <2>2 DEF Completers
  <2>4. Alone(s) /\ Whole(s)'
    BY <1>30, <1>31, <2>1, <2>3
  <2>5. QED BY <2>3, <2>4 DEF Alone
<1>5. ASSUME NEW r \in Requests, NEW t \in Shares, CompleteCheck(r, t) PROVE Alone(s)' /\ Whole(s)'
  <2>1. /\ UNCHANGED <<archive, files, ready, changed>> /\ run[r].at = "check" /\ run[r].share = t
        /\ run[r].zip = "no"
    BY <1>5 DEF CompleteCheck, server, Completing, Typed, SlotsWhole
  <2>2. CASE locked[t]
    <3>1. overtaken' = overtaken
      BY <1>5, <2>2 DEF CompleteCheck
    <3>2. Handles(r, "idle", run[r].zip, run[r].scan)
      BY <1>5, <2>2, HandlerMoves
    <3>3. Fewer /\ Same
      BY <1>3, <3>2 DEF Handles, Moves
    <3>4. Alone(s) /\ Whole(s)'
      BY <1>30, <1>31, <2>1, <3>1, <3>3
    <3>5. QED BY <1>1, <3>3, <3>4
  <2>3. CASE ~locked[t]
    <3>1. overtaken' = IF Completers(t) # {} THEN overtaken \cup {t} ELSE overtaken
      BY <1>5, <2>3 DEF CompleteCheck
    <3>2. PICK z \in {"no", "list"} : Handles(r, "notify", z, run[r].scan)
      BY <1>5, <2>3, HandlerMoves
    <3>3. Alone(s) /\ Whole(s)
      BY <1>0, <3>1
    <3>4. \A x \in Requests \ {r} : run'[x] = run[x]
      BY <3>2 DEF Handles, Moves
    <3>5. run'[r].share = t /\ run'[r].zip \in {"no", "list"}
      BY <2>1, <3>2 DEF Handles, Moves
    <3>6. CASE s = t
      <4>1. Completers(s) = {} /\ Zipping(s) = {}
        BY <3>1, <3>6 DEF Completers, Zipping
      <4>2. Completers(s)' \subseteq {r} /\ Zipping(s)' \subseteq {r}
        BY <3>4, <4>1 DEF Completers, Zipping
      <4>3. Alone(s)'
        BY <4>2 DEF Alone
      <4>4. s \notin changed => (ready[s] => archive[s] = files[s])
        BY <3>3 DEF Whole
      <4>5. \A x \in Zipping(s)' : run'[x].zip \in {"no", "list"}
        BY <3>5, <4>2
      <4>6. Whole(s)'
        BY <1>2, <2>1, <4>4, <4>5 DEF Whole
      <4>7. QED BY <4>3, <4>6
    <3>7. CASE s # t
      <4>1. Completers(s)' = Completers(s) /\ Same
        BY <1>2, <2>1, <3>4, <3>5, <3>7 DEF Completers
      <4>2. s \notin overtaken
        BY <3>1
      <4>3. Whole(s)'
        BY <1>30, <1>31, <2>1, <4>1, <4>2
      <4>4. QED BY <3>3, <4>1, <4>3 DEF Alone
    <3>8. QED BY <3>6, <3>7
  <2>4. QED BY <2>2, <2>3
<1>6. ASSUME NEW r \in Requests,
             CompleteCount(r) \/ \E t \in Shares : CompleteNotify(r, t) \/ CompleteLock(r, t)
      PROVE  Alone(s)' /\ Whole(s)'
  <2>1. overtaken' = overtaken /\ UNCHANGED <<archive, files, ready, changed>> /\ run[r].at \in Going
    BY <1>6 DEF CompleteCount, CompleteNotify, CompleteLock, Completing, server, history
  <2>2. PICK at \in {"idle", "lock", "count"}, scan \in {"list", run[r].scan} : Handles(r, at, run[r].zip, scan)
    BY <1>6, HandlerMoves
  <2>3. Fewer /\ Same
    BY <1>3, <2>1, <2>2 DEF Handles, Moves
  <2>4. Alone(s) /\ Whole(s)'
    BY <1>30, <1>31, <2>1, <2>3
  <2>5. QED BY <1>1, <2>3, <2>4
<1>7. ASSUME NEW r \in Requests, NEW t \in Shares, ZipList(r, t) \/ ZipWrite(r, t) \/ ZipReady(r, t)
      PROVE  Alone(s)' /\ Whole(s)'
  <2>1. overtaken' = overtaken /\ files' = files /\ run[r].share = t /\ run[r].zip # "no"
    BY <1>7 DEF ZipList, ZipWrite, ZipReady, history
  <2>2. Alone(s) /\ Closed(s) /\ Whole(s)
    BY <1>0, <2>1
  <2>3. PICK z : Moves(r, run[r].at, z, run[r].scan)
    BY <1>7, ZipMoves
  <2>4. Fewer
    BY <2>1, <2>3 DEF Moves
  <2>5. Alone(s)'
    BY <1>1, <2>2, <2>4
  <2>6. \A x \in Requests \ {r} : run'[x] = run[x]
    BY <2>3 DEF Moves
  <2>7. CASE s # t
    <3>1. Same
      BY <1>2, <2>1, <2>3, <2>6, <2>7, NullAssumption DEF Moves
    <3>2. /\ (s \in changed <=> s \in changed') /\ archive'[s] = archive[s]
          /\ ready'[s] => ready[s]
      <4>1. CASE ZipList(r, t)
        BY <2>7, <4>1 DEF ZipList, Typed
      <4>2. CASE ZipWrite(r, t)
        <5>1. changed' = changed /\ \A u \in Shares \ {t} : archive'[u] = archive[u]
          BY <4>2, ZipWrites
        <5>2. QED BY <2>7, <4>2, <5>1 DEF ZipWrite
      <4>3. CASE ZipReady(r, t)
        BY <2>7, <4>3 DEF ZipReady, Typed, history
      <4>4. QED BY <1>7, <4>1, <4>2, <4>3
    <3>3. QED BY <1>30, <2>1, <2>5, <3>1, <3>2
  <2>8. CASE s = t
    <3>1. \A x \in Zipping(s) : x = r
      BY <1>2, <2>1, <2>2, <2>8
    <3>2. Zipping(s)' \subseteq {r}
      BY <1>1, <2>2, <2>4, <3>1
    <3>20. r \in Zipping(s)
      BY <1>2, <2>1, <2>8
    <3>21. run'[r].zip = "no" => Zipping(s)' = {}
      BY <1>2, <3>2
    <3>22. run'[r].zip # "no" => Zipping(s)' = {r}
      BY <1>2, <2>1, <2>3, <2>8, <3>2 DEF Moves
    <3>3. CASE ZipList(r, t)
      <4>1. run[r].zip = "list" /\ ready' = ready
        BY <3>3 DEF ZipList
      <4>2. CASE run'[r].zip = "no" /\ UNCHANGED <<archive, changed>>
        <5>1. s \notin changed /\ ready[s] => archive[s] = files[s]
          BY <2>2 DEF Whole
        <5>2. QED BY <2>1, <2>5, <3>21, <4>1, <4>2, <5>1 DEF Whole
      <4>3. CASE run'[r].zip = "write" /\ run'[r].listed = files[s] /\ archive' = [archive EXCEPT ![s] = {}]
        <5>1. archive'[s] # NoArchive /\ ~ready[s]
          BY <2>2, <3>20, <4>3, NullAssumption DEF Typed, Closed
        <5>2. QED BY <2>1, <2>5, <3>22, <4>1, <4>3, <5>1 DEF Whole
      <4>4. QED BY <2>8, <3>3, <4>2, <4>3, ZipLists
    <3>4. CASE ZipWrite(r, t)
      <4>1. /\ run[r].zip = "write" /\ ready' = ready /\ changed' = changed
            /\ run'[r].zip \in {"no", "ready"}
            /\ run'[r].zip = "no" => ~(run[r].listed \subseteq disk[s])
            /\ run'[r].zip = "ready" => archive'[s] = IF archive[s] = NoArchive THEN NoArchive
                                                                         ELSE run[r].listed
        BY <2>8, <3>4, ZipWrites DEF ZipWrite
      <4>2. s \notin changed => run[r].listed = files[s] /\ archive[s] # NoArchive
        BY <2>2, <3>20, <4>1 DEF Whole
      <4>3. s \notin changed => files[s] \subseteq disk[s]
        BY DEF Placed
      <4>4. s \notin changed => run'[r].zip = "ready" /\ archive'[s] = files[s]
        BY <4>1, <4>2, <4>3
      <4>5. QED BY <2>1, <2>5, <3>22, <4>1, <4>4 DEF Whole
    <3>5. CASE ZipReady(r, t)
      <4>1. run[r].zip = "ready" /\ UNCHANGED <<archive, changed>>
        BY <3>5 DEF ZipReady, history
      <4>2. run'[r].zip = "no"
        BY <3>5, ZipReadies
      <4>3. s \notin changed => archive[s] = files[s]
        BY <2>2, <3>20, <4>1 DEF Whole
      <4>4. QED BY <2>1, <2>5, <3>21, <4>1, <4>2, <4>3 DEF Whole
    <3>6. QED BY <1>7, <3>3, <3>4, <3>5
  <2>9. QED BY <2>7, <2>8
<1>8. ASSUME NEW r \in Requests, NEW t \in Shares,
             ScanList(r, t) \/ ScanFiles(r, t) \/ ScanDelete(r, t) \/ ScanForget(r, t) \/ ScanReason(r, t)
      PROVE  Alone(s)' /\ Whole(s)'
  <2>1. PICK n : Moves(r, run[r].at, run[r].zip, n) /\ KeepsListed(r)
    BY <1>8, ScanMoves
  <2>2. Fewer /\ Same
    BY <1>3, <2>1 DEF Moves
  <2>3. /\ overtaken' = overtaken /\ ready' = ready
        /\ s \in changed => s \in changed'
        /\ s \notin changed' => archive'[s] = archive[s] /\ files'[s] = files[s]
    <3>1. CASE ScanList(r, t) \/ ScanFiles(r, t) \/ ScanReason(r, t)
      BY <3>1 DEF ScanList, ScanFiles, ScanReason, server, history
    <3>2. CASE ScanDelete(r, t) \/ ScanForget(r, t)
      BY <3>2 DEF ScanDelete, ScanForget, Typed
    <3>3. QED BY <1>8, <3>1, <3>2
  <2>4. Alone(s) /\ Whole(s)'
    BY <1>30, <2>2, <2>3
  <2>5. QED BY <1>1, <2>2, <2>4
<1>9. ASSUME NEW t \in Shares, \/ Revert(t)
                               \/ \E f \in Files : \/ UploadChunk(t, f) \/ UploadName(t, f)
                                                   \/ UploadRecord(t, f) \/ RemoveFile(t, f)
      PROVE  Alone(s)' /\ Whole(s)'
  <2>1. run' = run /\ s \notin overtaken
    BY <1>9 DEF Revert, UploadChunk, UploadName, UploadRecord, RemoveFile, history
  <2>2. Fewer /\ Same
    BY <2>1 DEF Zipping
  <2>3. /\ ready'[s] => ready[s]
        /\ s \in changed => s \in changed'
        /\ s \notin changed' => archive'[s] = archive[s] /\ files'[s] = files[s]
    BY <1>9 DEF Revert, UploadChunk, UploadName, UploadRecord, RemoveFile, Typed, history
  <2>4. Alone(s) /\ Whole(s)'
    BY <1>30, <2>1, <2>2, <2>3
  <2>5. QED BY <1>1, <2>2, <2>4
<1>10. CASE Crash
  <2>1. s \notin overtaken
    BY <1>10 DEF Crash
  <2>2. UNCHANGED <<ready, archive, files, changed>> /\ run' = [r \in Requests |-> Idle]
    BY <1>10 DEF Crash, server
  <2>3. Completers(s)' = {} /\ Zipping(s)' = {}
    BY <2>2, NullAssumption DEF Completers, Zipping, Idle
  <2>4. Whole(s)
    BY <1>0, <2>1
  <2>5. s \notin changed /\ ready[s] => archive[s] = files[s]
    BY <2>4 DEF Whole
  <2>6. QED BY <2>2, <2>3, <2>5 DEF Alone, Whole
<1>11. CASE UNCHANGED vars
  <2>1. UNCHANGED <<run, ready, archive, files, changed, overtaken>>
    BY <1>11 DEF vars, server, history
  <2>2. Fewer /\ Same
    BY <2>1 DEF Zipping
  <2>3. Alone(s) /\ Whole(s)'
    BY <1>30, <1>31, <2>1, <2>2
  <2>4. QED BY <1>1, <2>2, <2>3
<1>12. QED
  BY <1>4, <1>5, <1>6, <1>7, <1>8, <1>9, <1>10, <1>11 DEF Next, Continue

-----------------------------------------------------------------------------
(* Scans. *)

\* The slot a listing of the entries leaves.
LEMMA ScanLists ==
    ASSUME Typed, NEW r \in Requests, NEW s \in Shares, ScanList(r, s), s \in dirs
    PROVE  /\ run'[r].scan = "files" /\ run'[r].entries = disk[s] \cup partial[s] /\ run'[r].share = s
           /\ \A x \in Requests \ {r} : run'[x] = run[x]
<1>0. run[r] \in Slot /\ disk[s] \cup partial[s] \in SUBSET Files /\ run[r].share = s
  BY DEF Typed, ScanList
<1>1. Step(r, [run[r] EXCEPT !.scan = "files", !.entries = disk[s] \cup partial[s]])
  BY DEF ScanList
<1>2. \E q \in Slot : q.scan = "files" /\ q.entries = disk[s] \cup partial[s] /\ q.share = s /\ Step(r, q)
  BY <1>0, <1>1 DEF Slot
<1>3. QED BY <1>2, Turned DEF Turns, Typed

\* A scan that read the entries throws, misses the infected, has none of them, or goes on to
\* delete.
LEMMA ScanReads ==
    ASSUME Typed, NEW r \in Requests, NEW s \in Shares, ScanFiles(r, s)
    PROVE  \/ missed'[s] # {}
           \/ run[r].entries \cap Infected = {} /\ missed' = missed
           \/ run'[r].scan = "delete" /\ run'[r].share = s /\ missed' = missed
<1>0. run[r] \in Slot /\ run[r].share = s
  BY DEF Typed, ScanFiles
<1>1. CASE ~(run[r].entries \subseteq files[s])
  <2>1. missed' = [missed EXCEPT ![s] = missed[s] \cup {"entry"}]
    BY <1>1 DEF ScanFiles
  <2>2. QED BY <2>1 DEF Typed
<1>2. CASE Step(r, [run[r] EXCEPT !.scan = "delete", !.entries = {}]) /\ UNCHANGED missed
  <2>1. Step(r, [run[r] EXCEPT !.scan = "delete", !.entries = {}]) /\ missed' = missed
    BY <1>2
  <2>2. \E q \in Slot : q.scan = "delete" /\ q.share = s /\ Step(r, q)
    BY <1>0, <2>1 DEF Slot
  <2>3. QED BY <2>1, <2>2, Turned DEF Turns, Typed
<1>3. CASE missed' = IF run[r].entries \cap Infected = {} THEN missed
                     ELSE [missed EXCEPT ![s] = @ \cup {"unscanned"}]
  BY <1>3 DEF Typed
<1>4. QED BY <1>1, <1>2, <1>3 DEF ScanFiles

LEMMA FoundInit == Init => InfectedFound
BY DEF Init, InfectedFound

LEMMA FoundNext == Typed /\ Placed /\ InfectedFound /\ [Next]_vars => InfectedFound'
<1> SUFFICES ASSUME Typed, Placed, InfectedFound, [Next]_vars, NEW s \in Shares, missed'[s] = {},
                    NEW f \in files'[s] \cap Infected
             PROVE  \E x \in Requests : Finds(x, s, f)'
  BY DEF InfectedFound
<1>0. missed[s] = {} /\ f \in files[s] => \E x \in Requests : Finds(x, s, f)
  BY DEF InfectedFound
<1>1. ASSUME missed[s] = {}, f \in files[s], \A x \in Requests : Finds(x, s, f) => Finds(x, s, f)'
      PROVE  \E x \in Requests : Finds(x, s, f)'
  BY <1>0, <1>1
<1>2. ASSUME NEW r \in Requests, NEW at, NEW zip, Moves(r, at, zip, run[r].scan), KeepsEntries(r)
      PROVE  \A x \in Requests : Finds(x, s, f) => Finds(x, s, f)'
  <2>1. ASSUME NEW x \in Requests, Finds(x, s, f) PROVE Finds(x, s, f)'
    <3>1. CASE x # r
      BY <1>2, <2>1, <3>1 DEF Finds, Moves
    <3>2. CASE x = r
      <4>1. run[r].scan # "no" /\ run'[r].scan = run[r].scan /\ run'[r].share = run[r].share
        BY <1>2, <2>1, <3>2 DEF Finds, Moves
      <4>2. QED BY <1>2, <2>1, <3>2, <4>1 DEF Finds, KeepsEntries
    <3>3. QED BY <3>1, <3>2
  <2>2. QED BY <2>1
<1>3. ASSUME NEW r \in Requests, NEW t \in Shares, CompleteRead(r, t)
      PROVE  \E x \in Requests : Finds(x, s, f)'
  <2>1. \A x \in Requests : Finds(x, s, f) => Finds(x, s, f)'
    BY <1>3, ReadMoves DEF Finds, Idle
  <2>2. QED BY <1>1, <1>3, <2>1 DEF CompleteRead, server
<1>4. ASSUME NEW r \in Requests, CompleteCount(r) \/ \E t \in Shares : CompleteCheck(r, t) \/ CompleteLock(r, t)
      PROVE  \E x \in Requests : Finds(x, s, f)'
  <2>1. \A x \in Requests : Finds(x, s, f) => Finds(x, s, f)'
    BY <1>2, <1>4, HandlerMoves DEF Handles
  <2>2. QED BY <1>1, <1>4, <2>1 DEF CompleteCount, CompleteCheck, CompleteLock, server, history
<1>5. ASSUME NEW r \in Requests, NEW t \in Shares, CompleteNotify(r, t)
      PROVE  \E x \in Requests : Finds(x, s, f)'
  <2>1. /\ \A x \in Requests \ {r} : run'[x] = run[x]
        /\ run'[r].scan = "list" /\ run'[r].share = t /\ run[r].share = t
    BY <1>5, HandlerMoves DEF Handles, Moves, CompleteNotify
  <2>2. CASE s = t
    BY <2>1, <2>2 DEF Finds
  <2>3. CASE s # t
    <3>1. \A x \in Requests : Finds(x, s, f) => Finds(x, s, f)'
      BY <2>1, <2>3 DEF Finds
    <3>2. missed[s] = {} /\ files' = files
      BY <1>5, <2>3 DEF CompleteNotify, server, Typed
    <3>3. QED BY <1>1, <3>1, <3>2
  <2>4. QED BY <2>2, <2>3
<1>6. ASSUME NEW r \in Requests, NEW t \in Shares, ZipList(r, t) \/ ZipWrite(r, t) \/ ZipReady(r, t)
      PROVE  \E x \in Requests : Finds(x, s, f)'
  <2>1. \A x \in Requests : Finds(x, s, f) => Finds(x, s, f)'
    BY <1>2, <1>6, ZipMoves
  <2>2. QED BY <1>1, <1>6, <2>1 DEF ZipList, ZipWrite, ZipReady, history
<1>7. ASSUME NEW r \in Requests, NEW t \in Shares,
             ScanList(r, t) \/ ScanFiles(r, t) \/ ScanDelete(r, t) \/ ScanForget(r, t) \/ ScanReason(r, t)
      PROVE  \E x \in Requests : Finds(x, s, f)'
  <2>1. PICK n : Moves(r, run[r].at, run[r].zip, n)
    BY <1>7, ScanMoves
  <2>2. /\ \A x \in Requests \ {r} : run'[x] = run[x]
        /\ run[r].share = t
    BY <1>7, <2>1 DEF Moves, ScanList, ScanFiles, ScanDelete, ScanForget, ScanReason
  <2>3. f \in files[s] /\ (s # t => missed[s] = {})
    BY <1>7 DEF ScanList, ScanFiles, ScanDelete, ScanForget, ScanReason, server, history, Typed
  <2>4. ASSUME s # t PROVE \E x \in Requests : Finds(x, s, f)'
    <3>1. \A x \in Requests : Finds(x, s, f) => Finds(x, s, f)'
      BY <2>2, <2>4 DEF Finds
    <3>2. QED BY <1>1, <2>3, <2>4, <3>1
  <2>5. CASE s = t /\ ScanList(r, t)
    <3>1. s \in dirs
      BY <2>5 DEF ScanList, Typed
    <3>2. f \in disk[s]
      BY <2>3, <3>1 DEF Placed
    <3>3. QED BY <2>5, <3>1, <3>2, ScanLists DEF Finds
  <2>6. CASE s = t /\ ScanFiles(r, t)
    <3>1. CASE run'[r].scan = "delete" /\ run'[r].share = s
      BY <3>1 DEF Finds
    <3>2. CASE run[r].entries \cap Infected = {} /\ missed' = missed
      <4>1. run[r].scan = "files" /\ f \notin run[r].entries
        BY <2>6, <3>2 DEF ScanFiles
      <4>2. \A x \in Requests : Finds(x, s, f) => Finds(x, s, f)'
        BY <2>2, <4>1 DEF Finds
      <4>3. QED BY <1>1, <2>3, <3>2, <4>2
    <3>3. QED BY <2>6, <3>1, <3>2, ScanReads
  <2>7. CASE s = t /\ ScanDelete(r, t)
    <3>1. run'[r].scan = "forget" /\ run'[r].share = s
      BY <2>2, <2>7, ScanMoves DEF Moves
    <3>2. QED BY <3>1 DEF Finds
  <2>8. CASE s = t /\ ScanForget(r, t)
    BY <2>8 DEF ScanForget, Typed
  <2>9. CASE s = t /\ ScanReason(r, t)
    <3>1. run[r].scan = "reason" /\ missed' = missed
      BY <2>9 DEF ScanReason, history
    <3>2. \A x \in Requests : Finds(x, s, f) => Finds(x, s, f)'
      BY <2>2, <3>1 DEF Finds
    <3>3. QED BY <1>1, <2>3, <3>1, <3>2
  <2>10. QED BY <1>7, <2>4, <2>5, <2>6, <2>7, <2>8, <2>9
<1>8. ASSUME NEW t \in Shares, \/ Revert(t)
                               \/ \E g \in Files : \/ UploadChunk(t, g) \/ UploadName(t, g)
                                                   \/ UploadRecord(t, g) \/ RemoveFile(t, g)
      PROVE  \E x \in Requests : Finds(x, s, f)'
  <2>1. run' = run
    BY <1>8 DEF Revert, UploadChunk, UploadName, UploadRecord, RemoveFile
  <2>2. missed[s] = {} /\ f \in files[s]
    <3>1. CASE \E g \in Files : UploadRecord(t, g)
      BY <3>1 DEF UploadRecord, Typed
    <3>2. CASE \E g \in Files : RemoveFile(t, g)
      BY <3>2 DEF RemoveFile, Typed
    <3>3. QED BY <1>8, <3>1, <3>2 DEF Revert, UploadChunk, UploadName, history
  <2>3. QED BY <1>1, <2>1, <2>2 DEF Finds
<1>9. CASE Crash
  <2>1. missed[s] = {} /\ Scanning(s) = {} /\ f \in files[s]
    BY <1>9 DEF Crash, server, Typed
  <2>2. \A x \in Requests : ~Finds(x, s, f)
    BY <2>1 DEF Scanning, Finds
  <2>3. QED BY <1>0, <2>1, <2>2
<1>10. CASE UNCHANGED vars
  BY <1>1, <1>10 DEF vars, server, history, Finds
<1>11. QED
  BY <1>3, <1>4, <1>5, <1>6, <1>7, <1>8, <1>9, <1>10 DEF Next, Continue

-----------------------------------------------------------------------------
(* Theorems. *)

\* The state has its types, and remainingUses falls by one per call at most.
THEOREM TypeCorrect == Spec => []TypeOK
<1>1. Typed /\ Counted => TypeOK
  <2> SUFFICES ASSUME Typed, Counted PROVE TypeOK
    OBVIOUS
  <2>1. IsFiniteSet(Uncounted)
    BY FiniteAssumption, FS_Subset DEF Uncounted
  <2>2. Cardinality(Uncounted) \in Nat
    BY <2>1, FS_CardinalityType
  <2>3. uses \in (Uses - MaxCompletes) .. Uses
    BY <2>2, BoundAssumption DEF Typed, Counted
  <2>4. QED BY <2>3 DEF Typed, TypeOK
<1>2. QED BY TypedInit, TypedNext, CountedInit, CountedNext, <1>1, PTL DEF Spec

\* Every share completed with the link's cookie has been counted.
THEOREM UsesCorrect == Spec => []UsesCounted
<1>1. Typed /\ Counted => UsesCounted
  <2> SUFFICES ASSUME Typed, Counted PROVE UsesCounted
    OBVIOUS
  <2>1. IsFiniteSet(Closing) /\ IsFiniteSet(closed)
    BY FiniteAssumption, FS_Subset DEF Closing, Typed
  <2>2. Cardinality(Closing) \in Nat /\ Cardinality(closed) \in Nat
    BY <2>1, FS_CardinalityType
  <2>3. QED BY <2>2, BoundAssumption DEF Typed, Counted, UsesCounted
<1>2. QED BY TypedInit, TypedNext, CountedInit, CountedNext, <1>1, PTL DEF Spec

\* A ready archive holds the files of its share, but for the overlaps Archived names.
THEOREM ArchivesCorrect == Spec => []ReadyArchiveWhole
<1>1. Typed /\ Archived => ReadyArchiveWhole
  BY DEF Archived, Whole, ReadyArchiveWhole
<1>2. QED BY TypedInit, TypedNext, PlacedInit, PlacedNext, ArchivedInit, ArchivedNext, <1>1, PTL DEF Spec

\* An infected file that no scan missed is gone once no scan runs; a scan misses it when the
\* server stops, when it throws, when the scanner fails at it, or when the file comes later.
THEOREM ScansCorrect == Spec => []InfectedFilesGo
<1>1. InfectedFound => InfectedFilesGo
  BY DEF InfectedFound, InfectedFilesGo, Finds, Scanning
<1>2. QED BY TypedInit, TypedNext, PlacedInit, PlacedNext, FoundInit, FoundNext, <1>1, PTL DEF Spec

\* Nothing comes back into a share that was removed for its infected files.
THEOREM RemovalCorrect == Spec => []RemovedSharesStayEmpty
<1>1. Placed => RemovedSharesStayEmpty
  BY DEF Placed, RemovedSharesStayEmpty
<1>2. QED BY TypedInit, TypedNext, PlacedInit, PlacedNext, <1>1, PTL DEF Spec

===============================================================================
