----------------------------- MODULE Completion ------------------------------
(***************************************************************************)
(* What ShareService.complete starts.  Completing a share counts a use of  *)
(* the reverse share it came through and closes it, and by the time it has *)
(* answered an archive of the files and a virus scan may still be running: *)
(* complete does not wait for either, and nothing that happens to the      *)
(* share later stops them.  Meanwhile the owner may open the share again,  *)
(* change its files and complete it once more.                             *)
(*                                                                         *)
(* The shares came through one reverse share, are not end-to-end encrypted *)
(* (the server would neither archive nor scan them) and lie on a local     *)
(* disk; a scanner is installed.  ShareStore deals with their deletion.    *)
(***************************************************************************)
EXTENDS Integers, FiniteSets

CONSTANTS
    Shares,         \* the shares created through the link
    Files,          \* file ids
    Infected,       \* the files the scanner reports
    Requests,       \* slots for calls of complete and what they started
    NoShare,        \* the share of a free slot
    NoArchive,      \* a directory without archive.zip
    Uses,           \* remainingUses of the link at first
    MaxCompletes,   \* bound: calls of complete
    MaxUploads,     \* bound: uploads begun
    MaxReverts,     \* bound: calls of revertComplete
    MaxCrashes      \* bound: restarts of the server

ASSUME NullAssumption == NoShare \notin Shares /\ (\A F \in SUBSET Files : NoArchive # F)
ASSUME FiniteAssumption == IsFiniteSet(Shares) /\ IsFiniteSet(Requests)
ASSUME InfectedAssumption == Infected \subseteq Files
ASSUME BoundAssumption ==
    /\ Uses \in Nat /\ MaxCompletes \in Nat /\ MaxUploads \in Nat
    /\ MaxReverts \in Nat /\ MaxCrashes \in Nat

VARIABLES
    locked,     \* uploadLocked
    ready,      \* isZipReady
    removed,    \* whether removedReason is set
    files,      \* File rows
    dirs,       \* the shares that have a directory
    disk,       \* files under their final name
    partial,    \* files under their .tmp-chunk name
    archive,    \* the files in archive.zip
    uses,       \* remainingUses
    run,        \* the slots
    count,      \* history: calls and restarts so far
    closed,     \* history: shares completed by somebody with the link's cookie
    missed,     \* history: per share, why the last scan may have missed a file
    changed,    \* history: shares whose files or archive changed since they were listed
    overtaken   \* history: shares reverted while archived, completed by two calls at once, or
                \* not yet closed by a call that had their archive ready when the server stopped

server == <<locked, ready, removed, files, dirs, disk, partial, archive, uses>>
history == <<count, closed, missed, changed, overtaken>>
vars == <<server, run, history>>

Slot == [share : Shares \cup {NoShare}, cookie : BOOLEAN, several : BOOLEAN,
         at : {"idle", "check", "notify", "count", "lock"},
         zip : {"no", "list", "write", "ready"}, listed : SUBSET Files,
         scan : {"no", "list", "files", "delete", "forget", "reason"},
         entries : SUBSET Files]

Idle == [share |-> NoShare, cookie |-> FALSE, several |-> FALSE, at |-> "idle",
         zip |-> "no", listed |-> {}, scan |-> "no", entries |-> {}]

Reasons == {"crash", "entry", "unscanned", "late"}

Init ==
    /\ locked = [s \in Shares |-> FALSE]
    /\ ready = [s \in Shares |-> FALSE]
    /\ removed = [s \in Shares |-> FALSE]
    /\ files = [s \in Shares |-> {}]
    /\ dirs = Shares
    /\ disk = [s \in Shares |-> {}]
    /\ partial = [s \in Shares |-> {}]
    /\ archive = [s \in Shares |-> NoArchive]
    /\ uses = Uses
    /\ run = [r \in Requests |-> Idle]
    /\ count = [completes |-> 0, uploads |-> 0, reverts |-> 0, crashes |-> 0]
    /\ closed = {}
    /\ missed = [s \in Shares |-> {}]
    /\ changed = {}
    /\ overtaken = {}

\* What a slot still does: the handler itself, the archive, the scan.
Completing(r, step) == run[r].at = step
Completers(s) == {r \in Requests : run[r].share = s /\
                        (run[r].at \in {"notify", "count", "lock"} \/ run[r].zip # "no")}
Zipping(s) == {r \in Requests : run[r].share = s /\ run[r].zip # "no"}
Scanning(s) == {r \in Requests : run[r].share = s /\ run[r].scan # "no"}

\* The slot after a step; it is free once nothing is left to do.
Settle(slot) ==
    IF slot.at = "idle" /\ slot.zip = "no" /\ slot.scan = "no" THEN Idle ELSE slot
Step(r, slot) == run' = [run EXCEPT ![r] = Settle(slot)]

-----------------------------------------------------------------------------
(* ShareService.complete *)

\* The guard wants a signed-in user or a link with uses left; then the first read.
CompleteRead(r, s) ==
    /\ run[r] = Idle
    /\ count.completes < MaxCompletes
    /\ \E cookie, signedIn \in BOOLEAN :
        /\ signedIn \/ (cookie /\ uses > 0)
        /\ files[s] # {}
        /\ run' = [run EXCEPT ![r] = [Idle EXCEPT !.share = s, !.cookie = cookie, !.at = "check",
                                                  !.several = Cardinality(files[s]) > 1]]
    /\ count' = [count EXCEPT !.completes = @ + 1]
    /\ UNCHANGED <<server, closed, missed, changed, overtaken>>

\* isShareCompleted; several files are archived, and nobody waits for it.
CompleteCheck(r, s) ==
    /\ Completing(r, "check") /\ run[r].share = s
    /\ \/ /\ locked[s]
          /\ Step(r, [run[r] EXCEPT !.at = "idle"])
          /\ UNCHANGED overtaken
       \/ /\ ~locked[s]
          /\ Step(r, [run[r] EXCEPT !.at = "notify",
                                    !.zip = IF run[r].several THEN "list" ELSE "no"])
          /\ overtaken' = IF Completers(s) # {} THEN overtaken \cup {s} ELSE overtaken
    /\ UNCHANGED <<server, count, closed, missed, changed>>

\* Mutant: only what is archived is scanned.
CompleteNotifyArchived(r, s) ==
    /\ Completing(r, "notify") /\ run[r].share = s
    /\ Step(r, [run[r] EXCEPT !.at = "count", !.scan = IF run[r].several THEN "list" ELSE "no"])
    /\ missed' = [missed EXCEPT ![s] = {}]
    /\ UNCHANGED <<server, count, closed, changed, overtaken>>

\* The mails are sent, and the scan is started.
CompleteNotify(r, s) ==
    /\ Completing(r, "notify") /\ run[r].share = s
    /\ Step(r, [run[r] EXCEPT !.at = "count", !.scan = "list"])
    /\ missed' = [missed EXCEPT ![s] = {}]
    /\ UNCHANGED <<server, count, closed, changed, overtaken>>

\* Mutants: the counter does not go below zero; every file counts as a use.
CompleteCountToZero(r) ==
    /\ Completing(r, "count")
    /\ uses' = IF run[r].cookie /\ uses > 0 THEN uses - 1 ELSE uses
    /\ Step(r, [run[r] EXCEPT !.at = "lock"])
    /\ UNCHANGED <<locked, ready, removed, files, dirs, disk, partial, archive, history>>

CompleteCountFiles(r) ==
    /\ Completing(r, "count")
    /\ uses' = IF run[r].cookie THEN uses - Cardinality(files[run[r].share]) ELSE uses
    /\ Step(r, [run[r] EXCEPT !.at = "lock"])
    /\ UNCHANGED <<locked, ready, removed, files, dirs, disk, partial, archive, history>>

\* The update names the link by the cookie; without one it throws, which is caught.
CompleteCount(r) ==
    /\ Completing(r, "count")
    /\ uses' = IF run[r].cookie THEN uses - 1 ELSE uses
    /\ Step(r, [run[r] EXCEPT !.at = "lock"])
    /\ UNCHANGED <<locked, ready, removed, files, dirs, disk, partial, archive, history>>

CompleteLock(r, s) ==
    /\ Completing(r, "lock") /\ run[r].share = s
    /\ locked' = [locked EXCEPT ![s] = TRUE]
    /\ closed' = IF run[r].cookie THEN closed \cup {s} ELSE closed
    /\ Step(r, [run[r] EXCEPT !.at = "idle"])
    /\ UNCHANGED <<ready, removed, files, dirs, disk, partial, archive, uses,
                   count, missed, changed, overtaken>>

\* Mutant: an archive once ready stays so.
RevertKeepingArchive(s) ==
    /\ count.reverts < MaxReverts
    /\ locked' = [locked EXCEPT ![s] = FALSE]
    /\ count' = [count EXCEPT !.reverts = @ + 1]
    /\ overtaken' = IF Zipping(s) # {} THEN overtaken \cup {s} ELSE overtaken
    /\ UNCHANGED <<ready, removed, files, dirs, disk, partial, archive, uses, run,
                   closed, missed, changed>>

\* ShareService.revertComplete
Revert(s) ==
    /\ count.reverts < MaxReverts
    /\ locked' = [locked EXCEPT ![s] = FALSE]
    /\ ready' = [ready EXCEPT ![s] = FALSE]
    /\ count' = [count EXCEPT !.reverts = @ + 1]
    /\ overtaken' = IF Zipping(s) # {} THEN overtaken \cup {s} ELSE overtaken
    /\ UNCHANGED <<removed, files, dirs, disk, partial, archive, uses, run,
                   closed, missed, changed>>

-----------------------------------------------------------------------------
(* ShareService.createZip *)

\* The files are listed and archive.zip is opened, which empties it; without a
\* directory it fails.
ZipList(r, s) ==
    /\ run[r].zip = "list" /\ run[r].share = s
    /\ \/ /\ s \notin dirs
          /\ Step(r, [run[r] EXCEPT !.zip = "no"])
          /\ UNCHANGED <<archive, changed>>
       \/ /\ s \in dirs
          /\ archive' = [archive EXCEPT ![s] = {}]
          /\ Step(r, [run[r] EXCEPT !.zip = "write", !.listed = files[s]])
          /\ changed' = changed \ {s}
    /\ UNCHANGED <<locked, ready, removed, files, dirs, disk, partial, uses,
                   count, closed, missed, overtaken>>

\* Every file listed is read; one that is gone makes it fail.  An archive.zip that
\* was deleted meanwhile is written on, but has no name any more.
ZipWrite(r, s) ==
    /\ run[r].zip = "write" /\ run[r].share = s
    /\ \/ /\ ~(run[r].listed \subseteq disk[s])
          /\ Step(r, [run[r] EXCEPT !.zip = "no", !.listed = {}])
          /\ UNCHANGED archive
       \/ /\ archive' = [archive EXCEPT ![s] =
                            IF @ = NoArchive THEN NoArchive ELSE run[r].listed]
          /\ Step(r, [run[r] EXCEPT !.zip = "ready", !.listed = {}])
    /\ UNCHANGED <<locked, ready, removed, files, dirs, disk, partial, uses, history>>

ZipReady(r, s) ==
    /\ run[r].zip = "ready" /\ run[r].share = s
    /\ ready' = [ready EXCEPT ![s] = TRUE]
    /\ Step(r, [run[r] EXCEPT !.zip = "no"])
    /\ UNCHANGED <<locked, removed, files, dirs, disk, partial, archive, uses, history>>

-----------------------------------------------------------------------------
(* ClamScanService.checkAndRemove *)

\* readdir: every entry but archive.zip; it throws without a directory.
ScanList(r, s) ==
    /\ run[r].scan = "list" /\ run[r].share = s
    /\ \/ /\ s \notin dirs
          /\ Step(r, [run[r] EXCEPT !.scan = "no"])
          /\ missed' = [missed EXCEPT ![s] = @ \cup {"entry"}]
       \/ /\ s \in dirs
          /\ Step(r, [run[r] EXCEPT !.scan = "files", !.entries = disk[s] \cup partial[s]])
          /\ missed' = [missed EXCEPT ![s] = {}]
    /\ UNCHANGED <<server, count, closed, changed, overtaken>>

\* Each entry is scanned and its row's name read; an entry without a row makes the
\* scan throw, and nobody hears of it.  A file whose own scan throws counts as clean.
ScanFiles(r, s) ==
    LET entries == run[r].entries IN
    /\ run[r].scan = "files" /\ run[r].share = s
    /\ \/ /\ ~(entries \subseteq files[s])
          /\ Step(r, [run[r] EXCEPT !.scan = "no", !.entries = {}])
          /\ missed' = [missed EXCEPT ![s] = @ \cup {"entry"}]
       \/ /\ entries \subseteq files[s] /\ entries \cap Infected # {}
          /\ Step(r, [run[r] EXCEPT !.scan = "delete", !.entries = {}])
          /\ UNCHANGED missed
       \/ /\ entries \subseteq files[s]
          /\ Step(r, [run[r] EXCEPT !.scan = "no", !.entries = {}])
          /\ missed' = IF entries \cap Infected = {} THEN missed
                       ELSE [missed EXCEPT ![s] = @ \cup {"unscanned"}]
    /\ UNCHANGED <<server, count, closed, changed, overtaken>>

\* deleteAllFiles
ScanDelete(r, s) ==
    /\ run[r].scan = "delete" /\ run[r].share = s
    /\ dirs' = dirs \ {s}
    /\ disk' = [disk EXCEPT ![s] = {}]
    /\ partial' = [partial EXCEPT ![s] = {}]
    /\ archive' = [archive EXCEPT ![s] = NoArchive]
    /\ Step(r, [run[r] EXCEPT !.scan = "forget"])
    /\ changed' = changed \cup {s}
    /\ UNCHANGED <<locked, ready, removed, files, uses, count, closed, missed, overtaken>>

ScanForget(r, s) ==
    /\ run[r].scan = "forget" /\ run[r].share = s
    /\ files' = [files EXCEPT ![s] = {}]
    /\ changed' = changed \cup {s}
    /\ Step(r, [run[r] EXCEPT !.scan = "reason"])
    /\ UNCHANGED <<locked, ready, removed, dirs, disk, partial, archive, uses,
                   count, closed, missed, overtaken>>

ScanReason(r, s) ==
    /\ run[r].scan = "reason" /\ run[r].share = s
    /\ removed' = [removed EXCEPT ![s] = TRUE]
    /\ Step(r, [run[r] EXCEPT !.scan = "no"])
    /\ UNCHANGED <<locked, ready, files, dirs, disk, partial, archive, uses, history>>

-----------------------------------------------------------------------------
(* LocalFileService.create and remove, as far as they matter here *)

\* Mutant: an upload creates the directory it needs.
UploadChunkAnywhere(s, f) ==
    /\ ~locked[s] /\ \A x \in Shares : f \notin partial[x] \cup disk[x] \cup files[x]
    /\ dirs' = dirs \cup {s}
    /\ count.uploads < MaxUploads
    /\ count' = [count EXCEPT !.uploads = @ + 1]
    /\ partial' = [partial EXCEPT ![s] = @ \cup {f}]
    /\ UNCHANGED <<locked, ready, removed, files, disk, archive, uses, run,
                   closed, missed, changed, overtaken>>

\* A first chunk.  Its upload may never go on.
UploadChunk(s, f) ==
    /\ ~locked[s] /\ \A x \in Shares : f \notin partial[x] \cup disk[x] \cup files[x]
    /\ s \in dirs
    /\ count.uploads < MaxUploads
    /\ count' = [count EXCEPT !.uploads = @ + 1]
    /\ partial' = [partial EXCEPT ![s] = @ \cup {f}]
    /\ UNCHANGED <<locked, ready, removed, files, dirs, disk, archive, uses, run,
                   closed, missed, changed, overtaken>>

UploadName(s, f) ==
    /\ f \in partial[s]
    /\ partial' = [partial EXCEPT ![s] = @ \ {f}]
    /\ disk' = [disk EXCEPT ![s] = @ \cup {f}]
    /\ UNCHANGED <<locked, ready, removed, files, dirs, archive, uses, run, history>>

UploadRecord(s, f) ==
    /\ f \in disk[s] \ files[s]
    /\ files' = [files EXCEPT ![s] = @ \cup {f}]
    /\ missed' = [missed EXCEPT ![s] = @ \cup {"late"}]
    /\ changed' = changed \cup {s}
    /\ UNCHANGED <<locked, ready, removed, dirs, disk, partial, archive, uses, run,
                   count, closed, overtaken>>

\* Nothing keeps the owner from removing a file of a completed share.
RemoveFile(s, f) ==
    /\ f \in files[s] \cap disk[s]
    /\ disk' = [disk EXCEPT ![s] = @ \ {f}]
    /\ files' = [files EXCEPT ![s] = @ \ {f}]
    /\ changed' = changed \cup {s}
    /\ UNCHANGED <<locked, ready, removed, dirs, partial, archive, uses, run,
                   count, closed, missed, overtaken>>

Crash ==
    /\ count.crashes < MaxCrashes
    /\ \E r \in Requests : run[r] # Idle
    /\ run' = [r \in Requests |-> Idle]
    /\ count' = [count EXCEPT !.crashes = @ + 1]
    /\ missed' = [s \in Shares |->
            IF Scanning(s) # {} THEN missed[s] \cup {"crash"} ELSE missed[s]]
    /\ overtaken' = overtaken \cup {s \in Shares : ready[s] /\ ~locked[s]}
    /\ UNCHANGED <<server, closed, changed>>

-----------------------------------------------------------------------------
Continue(r, s) ==
    \/ CompleteCheck(r, s) \/ CompleteNotify(r, s) \/ CompleteLock(r, s)
    \/ ZipList(r, s) \/ ZipWrite(r, s) \/ ZipReady(r, s)
    \/ ScanList(r, s) \/ ScanFiles(r, s) \/ ScanDelete(r, s)
    \/ ScanForget(r, s) \/ ScanReason(r, s)

Next ==
    \/ \E r \in Requests :
        \/ CompleteCount(r)
        \/ \E s \in Shares : CompleteRead(r, s) \/ Continue(r, s)
    \/ \E s \in Shares :
        \/ Revert(s)
        \/ \E f \in Files :
            UploadChunk(s, f) \/ UploadName(s, f) \/ UploadRecord(s, f) \/ RemoveFile(s, f)
    \/ Crash

Spec == Init /\ [][Next]_vars

-----------------------------------------------------------------------------
(* What completing promises. *)

TypeOK ==
    /\ locked \in [Shares -> BOOLEAN]
    /\ ready \in [Shares -> BOOLEAN]
    /\ removed \in [Shares -> BOOLEAN]
    /\ files \in [Shares -> SUBSET Files]
    /\ dirs \in SUBSET Shares
    /\ disk \in [Shares -> SUBSET Files]
    /\ partial \in [Shares -> SUBSET Files]
    /\ archive \in [Shares -> {NoArchive} \cup SUBSET Files]
    /\ uses \in (Uses - MaxCompletes) .. Uses
    /\ run \in [Requests -> Slot]
    /\ count \in [completes : 0 .. MaxCompletes, uploads : 0 .. MaxUploads,
                  reverts : 0 .. MaxReverts, crashes : 0 .. MaxCrashes]
    /\ closed \in SUBSET Shares
    /\ missed \in [Shares -> SUBSET Reasons]
    /\ changed \in SUBSET Shares
    /\ overtaken \in SUBSET Shares

\* Every share completed with the link's cookie has been counted, though two calls may
\* pass the guard on the same last use and a call may die before it closes the share.
UsesCounted == Cardinality(closed) <= Uses - uses

\* A ready archive holds the files of the share, unless they changed after it was made,
\* or it is being made again, or a revert overtook an archive, or a second complete the
\* first, or the server stopped before the share was closed, so that it is completed again.
ReadyArchiveWhole ==
    \A s \in Shares :
        ready[s] /\ Zipping(s) = {} /\ s \notin changed \cup overtaken
            => archive[s] = files[s]

\* An infected file outlasts the scan of a completed share for four reasons only: the
\* server stopped, the scan threw (at an entry without a row, or for want of a
\* directory), the scanner failed at every infected file, or the file came after its list.
InfectedFilesGo ==
    \A s \in Shares :
        locked[s] /\ Scanning(s) = {} /\ missed[s] = {} => files[s] \cap Infected = {}

\* Nothing comes back into a share that was removed for its infected files.
RemovedSharesStayEmpty ==
    \A s \in Shares :
        removed[s] => disk[s] = {} /\ partial[s] = {} /\ archive[s] = NoArchive
===============================================================================
