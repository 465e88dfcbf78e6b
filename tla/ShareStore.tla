------------------------------ MODULE ShareStore ------------------------------
(***************************************************************************)
(* The shares of a server that stores files locally: the Share and File    *)
(* rows of the database, the directory of every share on disk, and the     *)
(* requests and cron jobs that create, fill, complete, edit and delete     *)
(* them.                                                                   *)
(*                                                                         *)
(* The backend is one Node.js process.  A handler runs without             *)
(* interruption from one await to the next, and each Prisma or file-system *)
(* call takes effect at once, so a handler is a task that takes one step   *)
(* per awaited call and every other task may run in between.  What a task  *)
(* read before an await it still holds after it.                           *)
(***************************************************************************)
EXTENDS Naturals, FiniteSets

CONSTANTS
    Shares,     \* share ids; an id may be chosen again once its share is gone
    Files,      \* file ids
    Requests,   \* slots for requests being served at the same time
    NoShare,    \* the share of a task that has none, and of a file not recorded
    NoFile,     \* the file of a task that has none
    NoRow,      \* a share id without a row in the database
    Lifetimes,  \* expirations a creator may ask for, in ticks; 0 is "never"
    Day,        \* ticks after which an unfinished share is abandoned
    Retention,  \* ticks after which any share is deleted (15 days)
    Accounts,   \* whether there may, and need, be the user at first ...
    Links,      \* ... and the user's reverse share
    MaxClock,   \* bound: the clock stops here
    MaxBirths,  \* bound: rows inserted in a behaviour
    MaxFaults   \* bound: failed deletions and crashes in a behaviour

\* The cron jobs; each has a task of its own, as a run ends long before the next.
Crons == {"expired", "unfinished", "links"}
Tasks == Requests \cup Crons

ASSUME TaskAssumption == Requests \cap Crons = {}
ASSUME NullAssumption ==
    /\ NoShare \notin Shares
    /\ NoFile \notin Files
ASSUME LinkAssumption == Accounts \subseteq BOOLEAN /\ Links \subseteq BOOLEAN
ASSUME TimeAssumption ==
    /\ Lifetimes \subseteq Nat
    /\ Day \in Nat /\ Retention \in Nat
    /\ MaxClock \in Nat /\ MaxBirths \in Nat /\ MaxFaults \in Nat

VARIABLES
    clock,      \* the wall clock
    row,        \* Share rows
    recorded,   \* File rows: the share each file id belongs to
    dirs,       \* the shares that have a directory
    disk,       \* files in each directory under their final name
    tmp,        \* files in each directory under their .tmp-chunk name
    account,    \* whether the User row exists
    link,       \* whether the user's reverse share exists
    task,       \* the requests and jobs in progress
    births,     \* history: rows inserted so far
    faults,     \* history: failed deletions and crashes so far
    scars       \* history: per share id, what went wrong with it so far

owners == <<account, link>>
db     == <<row, recorded, owners>>
fs     == <<dirs, disk, tmp>>
vars   == <<clock, db, fs, task, births, faults, scars>>

(***************************************************************************)
(* A row holds what the code reads (own: the user is its creator; viaLink: *)
(* it belongs to the reverse share), and a number it does not keep: born,  *)
(* which tells two rows under the same id apart.                           *)
(***************************************************************************)
Row == [locked : BOOLEAN, createdAt : Nat, expiresAt : Nat, own : BOOLEAN,
        viaLink : BOOLEAN, born : Nat \ {0}]

ASSUME RowAssumption == NoRow \notin Row

Ops == {"none", "create", "upload", "removeFile", "complete", "remove", "account"} \cup Crons
Steps == {"idle", "mkdir", "insert", "connect", "append", "rename", "record",
          "unlink", "forget", "check", "lock", "rm", "delete", "close",
          "purge", "drain", "erase"}

Task == [op : Ops, at : Steps, share : Shares \cup {NoShare}, file : Files \cup {NoFile},
         todo : SUBSET Shares, seen : [Shares -> Nat], own : BOOLEAN, link : BOOLEAN,
         expiresAt : Nat]

Unseen == [s \in Shares |-> 0]
Idle == [op |-> "none", at |-> "idle", share |-> NoShare, file |-> NoFile,
         todo |-> {}, seen |-> Unseen, own |-> FALSE, link |-> FALSE, expiresAt |-> 0]

\* What can go wrong with a share id; see Mark.
Causes == {"fault", "stale", "collision", "cascade", "account"}

Exists(s) == row[s] # NoRow
ShareRows == {s \in Shares : Exists(s)}

\* The database finds the rows in S: the incarnations a task has looked at.
Look(S) == [s \in Shares |-> IF s \in S /\ Exists(s) THEN row[s].born ELSE 0]

\* The row under the task's id is still, or no longer, the one it looked at.
Current(t, s) == Exists(s) /\ row[s].born = task[t].seen[s]
Stale(t, s) == Exists(s) /\ row[s].born # task[t].seen[s]

Mark(S, why) == scars' = [s \in Shares |-> IF s \in S THEN scars[s] \cup {why} ELSE scars[s]]
MarkIfStale(t, s) == Mark({x \in {s} : Stale(t, x)}, "stale")

Begin(t, tk) == task[t] = Idle /\ task' = [task EXCEPT ![t] = tk]
Advance(t, step) == task' = [task EXCEPT ![t].at = step]
Move(t, step, s, S) ==
    task' = [task EXCEPT ![t] = [@ EXCEPT !.at = step, !.share = s, !.todo = S]]
Finish(t) == task' = [task EXCEPT ![t] = Idle]
At(t, op, step) == task[t].op = op /\ task[t].at = step

\* A step that throws: the handler ends and the database and disk are as they were.
Fail(t) == Finish(t) /\ UNCHANGED <<clock, db, fs, births, faults, scars>>

\* ON DELETE CASCADE of File.share: the file rows of the deleted shares go with them.
DeleteRows(S) ==
    /\ row' = [s \in Shares |-> IF s \in S THEN NoRow ELSE row[s]]
    /\ recorded' = [f \in Files |-> IF recorded[f] \in S THEN NoShare ELSE recorded[f]]

Init ==
    /\ clock = 1
    /\ row = [s \in Shares |-> NoRow]
    /\ recorded = [f \in Files |-> NoShare]
    /\ dirs = {}
    /\ disk = [s \in Shares |-> {}]
    /\ tmp = [s \in Shares |-> {}]
    /\ account \in Accounts
    /\ link \in Links
    /\ link => account
    /\ task = [t \in Tasks |-> Idle]
    /\ births = 0
    /\ faults = 0
    /\ scars = [s \in Shares |-> {}]

-----------------------------------------------------------------------------
(* ShareService.create *)

\* isShareIdAvailable, then the reverse share and the expiration are worked out.  The
\* creator is the user or nobody (an anonymous share).
CreateCheck(t, s) ==
    /\ ~Exists(s)
    /\ births + Cardinality({u \in Requests : task[u].op = "create"}) < MaxBirths
    /\ \E own \in BOOLEAN, viaLink \in BOOLEAN, life \in Lifetimes :
        /\ own => account
        /\ viaLink => link
        /\ Begin(t, [Idle EXCEPT !.op = "create", !.at = "mkdir", !.share = s, !.own = own,
                     !.link = viaLink, !.expiresAt = IF life = 0 THEN 0 ELSE clock + life])
    /\ UNCHANGED <<clock, db, fs, births, faults, scars>>

\* mkdirSync with recursive: it does not mind a directory that is there.
CreateDirectory(t, s) ==
    /\ At(t, "create", "mkdir") /\ task[t].share = s
    /\ dirs' = dirs \cup {s}
    /\ Mark({x \in {s} : Exists(x)}, "collision")
    /\ Advance(t, "insert")
    /\ UNCHANGED <<clock, db, disk, tmp, births, faults>>

\* The insert fails on the primary key when another create took the id meanwhile, and
\* on the creator to connect when the user was deleted: the directory stays behind.
CreateInsert(t, s) ==
    /\ At(t, "create", "insert") /\ task[t].share = s
    /\ \/ Exists(s) /\ Fail(t)
       \/ /\ ~Exists(s) /\ task[t].own /\ ~account
          /\ Finish(t)
          /\ Mark({s}, "account")
          /\ UNCHANGED <<clock, db, fs, births, faults>>
       \/ /\ ~Exists(s) /\ (task[t].own => account)
          /\ births' = births + 1
          /\ row' = [row EXCEPT ![s] =
                [locked |-> FALSE, createdAt |-> clock, expiresAt |-> task[t].expiresAt,
                 own |-> task[t].own, viaLink |-> FALSE, born |-> births + 1]]
          /\ IF task[t].link
             THEN task' = [task EXCEPT ![t] =
                    [Idle EXCEPT !.op = "create", !.at = "connect", !.share = s,
                                 !.seen = [Unseen EXCEPT ![s] = births + 1]]]
             ELSE Finish(t)
          /\ UNCHANGED <<clock, recorded, owners, fs, faults, scars>>

\* A second update ties the share to the reverse share, if both are still there.
CreateConnect(t, s) ==
    /\ At(t, "create", "connect") /\ task[t].share = s
    /\ \/ ~(Exists(s) /\ link) /\ Fail(t)
       \/ /\ Exists(s) /\ link
          /\ row' = [row EXCEPT ![s].viaLink = TRUE]
          /\ MarkIfStale(t, s)
          /\ Finish(t)
          /\ UNCHANGED <<clock, recorded, owners, fs, births, faults>>

-----------------------------------------------------------------------------
(* LocalFileService.create, for a file that is one chunk *)

\* A file id is a fresh UUID.
Fresh(f) ==
    /\ recorded[f] = NoShare
    /\ \A s \in Shares : f \notin disk[s] \cup tmp[s]
    /\ \A t \in Tasks : task[t].file # f

UploadCheck(t, s, f) ==
    /\ Exists(s) /\ ~row[s].locked
    /\ Fresh(f)
    /\ Begin(t, [Idle EXCEPT !.op = "upload", !.at = "append", !.share = s, !.file = f,
                 !.seen = Look({s})])
    /\ UNCHANGED <<clock, db, fs, births, faults, scars>>

\* Mutant: the file row is created before the content has its final name.
UploadAppendUnrenamed(t, s, f) ==
    /\ At(t, "upload", "append") /\ task[t].share = s /\ task[t].file = f
    /\ s \in dirs
    /\ tmp' = [tmp EXCEPT ![s] = @ \cup {f}]
    /\ Advance(t, "record")
    /\ UNCHANGED <<clock, db, dirs, disk, births, faults, scars>>

\* appendFile creates the file but not its directory.
UploadAppend(t, s, f) ==
    /\ At(t, "upload", "append") /\ task[t].share = s /\ task[t].file = f
    /\ \/ s \notin dirs /\ Fail(t)
       \/ /\ s \in dirs
          /\ tmp' = [tmp EXCEPT ![s] = @ \cup {f}]
          /\ Advance(t, "rename")
          /\ UNCHANGED <<clock, db, dirs, disk, births, faults, scars>>

UploadRename(t, s, f) ==
    /\ At(t, "upload", "rename") /\ task[t].share = s /\ task[t].file = f
    /\ \/ f \notin tmp[s] /\ Fail(t)
       \/ /\ f \in tmp[s]
          /\ tmp' = [tmp EXCEPT ![s] = @ \ {f}]
          /\ disk' = [disk EXCEPT ![s] = @ \cup {f}]
          /\ Advance(t, "record")
          /\ UNCHANGED <<clock, db, dirs, births, faults, scars>>

\* Mutant: the file row is created without its share.
UploadRecordUnconnected(t, s, f) ==
    /\ At(t, "upload", "record") /\ task[t].share = s /\ task[t].file = f
    /\ recorded' = [recorded EXCEPT ![f] = NoFile]
    /\ Finish(t)
    /\ UNCHANGED <<clock, row, owners, fs, births, faults, scars>>

\* A stat for the size, which fails when the content went away before it, and
\* file.create, which connects the share by id and fails when no such row is left.
\* Content that goes between the two does not stop the create.
UploadRecord(t, s, f) ==
    /\ At(t, "upload", "record") /\ task[t].share = s /\ task[t].file = f
    /\ \/ (~Exists(s) \/ f \notin disk[s]) /\ Fail(t)
       \/ /\ Exists(s)
          /\ recorded' = [recorded EXCEPT ![f] = s]
          /\ MarkIfStale(t, s)
          /\ Finish(t)
          /\ UNCHANGED <<clock, row, owners, fs, births, faults>>

-----------------------------------------------------------------------------
(* LocalFileService.remove: one file of a share *)

RemoveFileFind(t, s, f) ==
    /\ recorded[f] = s
    /\ Begin(t, [Idle EXCEPT !.op = "removeFile", !.at = "unlink", !.share = s, !.file = f,
                 !.seen = Look({s})])
    /\ UNCHANGED <<clock, db, fs, births, faults, scars>>

RemoveFileUnlink(t, s, f) ==
    /\ At(t, "removeFile", "unlink") /\ task[t].share = s /\ task[t].file = f
    /\ \/ f \notin disk[s] /\ Fail(t)
       \/ /\ f \in disk[s]
          /\ disk' = [disk EXCEPT ![s] = @ \ {f}]
          /\ Advance(t, "forget")
          /\ UNCHANGED <<clock, db, dirs, tmp, births, faults, scars>>

\* file.delete by id; without the row it throws and the outcome is the same.
RemoveFileForget(t, s, f) ==
    /\ At(t, "removeFile", "forget") /\ task[t].share = s /\ task[t].file = f
    /\ recorded' = [recorded EXCEPT ![f] = NoShare]
    /\ Finish(t)
    /\ UNCHANGED <<clock, row, owners, fs, births, faults, scars>>

-----------------------------------------------------------------------------
(* ShareService.complete and revertComplete *)

\* The first read: the share and its files.
CompleteRead(t, s) ==
    /\ Exists(s)
    /\ \E f \in Files : recorded[f] = s
    /\ Begin(t, [Idle EXCEPT !.op = "complete", !.at = "check", !.share = s,
                 !.seen = Look({s})])
    /\ UNCHANGED <<clock, db, fs, births, faults, scars>>

\* isShareCompleted reads the row again.
CompleteCheck(t, s) ==
    /\ At(t, "complete", "check") /\ task[t].share = s
    /\ \/ ~Exists(s) /\ Fail(t)
       \/ Exists(s) /\ row[s].locked /\ Fail(t)
       \/ /\ Exists(s) /\ ~row[s].locked
          /\ Advance(t, "lock")
          /\ UNCHANGED <<clock, db, fs, births, faults, scars>>

\* Mails sent and uses counted, the last call closes the share.
CompleteLock(t, s) ==
    /\ At(t, "complete", "lock") /\ task[t].share = s
    /\ \/ ~Exists(s) /\ Fail(t)
       \/ /\ Exists(s)
          /\ row' = [row EXCEPT ![s].locked = TRUE]
          /\ MarkIfStale(t, s)
          /\ Finish(t)
          /\ UNCHANGED <<clock, recorded, owners, fs, births, faults>>

\* One update: the share opens again and its age starts over.
Revert(s) ==
    /\ Exists(s)
    /\ row' = [row EXCEPT ![s].locked = FALSE, ![s].createdAt = clock]
    /\ UNCHANGED <<clock, recorded, owners, fs, task, births, faults, scars>>

-----------------------------------------------------------------------------
(* The deletions.  todo holds the shares the task found and has yet to delete. *)

\* Mutant: the row is deleted first, and the files are left.
RemoveFindRowFirst(t, s) ==
    /\ Exists(s)
    /\ Begin(t, [Idle EXCEPT !.op = "remove", !.at = "delete", !.share = s, !.todo = {s},
                 !.seen = Look({s})])
    /\ UNCHANGED <<clock, db, fs, births, faults, scars>>

RemoveFind(t, s) ==
    /\ Exists(s)
    /\ Begin(t, [Idle EXCEPT !.op = "remove", !.at = "rm", !.todo = {s}, !.seen = Look({s})])
    /\ UNCHANGED <<clock, db, fs, births, faults, scars>>

Expired(s) == row[s].expiresAt # 0 /\ row[s].expiresAt < clock
Retained(s) == row[s].createdAt + Retention < clock
Abandoned(s) == ~row[s].locked /\ row[s].createdAt + Day < clock

Sweep(t, S) ==
    /\ S # {}
    /\ Begin(t, [Idle EXCEPT !.op = t, !.at = "rm", !.todo = S, !.seen = Look(S)])
    /\ UNCHANGED <<clock, db, fs, births, faults, scars>>

\* JobsService.deleteExpiredShares and deleteUnfinishedShares: the findMany.
ExpiredShares == {s \in ShareRows : Expired(s) \/ Retained(s)}
UnfinishedShares == {s \in ShareRows : Abandoned(s)}

SweepExpired == Sweep("expired", ExpiredShares)
SweepUnfinished == Sweep("unfinished", UnfinishedShares)

DeletesFilesFirst(t) == task[t].op \in {"remove", "expired", "unfinished"}

\* deleteAllFiles is fs.rm with recursive and force.
RmDirectory(t, s) ==
    /\ dirs' = dirs \ {s}
    /\ disk' = [disk EXCEPT ![s] = {}]
    /\ tmp' = [tmp EXCEPT ![s] = {}]
    /\ MarkIfStale(t, s)

\* It may fail, half done, and with it the deletion of the shares in S.
RmHalfway(s, S) ==
    /\ s \in dirs
    /\ faults < MaxFaults /\ faults' = faults + 1
    /\ \E D \in SUBSET disk[s], T \in SUBSET tmp[s] :
        /\ disk' = [disk EXCEPT ![s] = D]
        /\ tmp' = [tmp EXCEPT ![s] = T]
    /\ Mark(S \cup {s}, "fault")
    /\ UNCHANGED dirs

DeleteFiles(t, s) ==
    /\ DeletesFilesFirst(t) /\ task[t].at = "rm" /\ s \in task[t].todo
    /\ \/ /\ RmDirectory(t, s)
          /\ UNCHANGED faults
          /\ Move(t, "delete", s, task[t].todo)
       \/ /\ RmHalfway(s, {})
          /\ IF task[t].op = "remove"
             THEN Finish(t)      \* "Share has not been removed."
             ELSE Move(t, "delete", s, task[t].todo)
    /\ UNCHANGED <<clock, db, births>>

\* Mutant: the job goes on to try the row that is gone, for ever.
DeleteRowStuck(t, s) ==
    /\ DeletesFilesFirst(t) /\ task[t].at = "delete" /\ task[t].share = s
    /\ Exists(s)
    /\ DeleteRows({s})
    /\ MarkIfStale(t, s)
    /\ IF task[t].todo = {s}
       THEN Finish(t)
       ELSE Move(t, "rm", NoShare, task[t].todo \ {s})
    /\ UNCHANGED <<clock, owners, fs, births, faults>>

\* share.delete throws when the row is gone, which ends the whole job.
DeleteRow(t, s) ==
    /\ DeletesFilesFirst(t) /\ task[t].at = "delete" /\ task[t].share = s
    /\ \/ ~Exists(s) /\ Fail(t)
       \/ /\ Exists(s)
          /\ DeleteRows({s})
          /\ MarkIfStale(t, s)
          /\ IF task[t].todo = {s}
             THEN Finish(t)
             ELSE Move(t, "rm", NoShare, task[t].todo \ {s})
          /\ UNCHANGED <<clock, owners, fs, births, faults>>

(* ReverseShareService.remove, by the owner or by deleteExpiredReverseShares: *)
(* here the row goes first and the files second.                              *)

LinkFind(t) ==
    LET S == {s \in ShareRows : row[s].viaLink} IN
    /\ link
    /\ Begin(t, [Idle EXCEPT !.op = "links", !.at = IF S = {} THEN "close" ELSE "delete",
                 !.todo = S, !.seen = Look(S)])
    /\ UNCHANGED <<clock, db, fs, births, faults, scars>>

LinkDeleteRow(t, s) ==
    /\ At(t, "links", "delete") /\ s \in task[t].todo
    /\ \/ ~Exists(s) /\ Fail(t)
       \/ /\ Exists(s)
          /\ DeleteRows({s})
          /\ MarkIfStale(t, s)
          /\ Move(t, "rm", s, task[t].todo \ {s})
          /\ UNCHANGED <<clock, owners, fs, births, faults>>

LinkDeleteFiles(t, s) ==
    /\ At(t, "links", "rm") /\ task[t].share = s
    /\ \/ /\ RmDirectory(t, s)
          /\ UNCHANGED faults
          /\ Move(t, IF task[t].todo = {} THEN "close" ELSE "delete", NoShare, task[t].todo)
       \/ RmHalfway(s, {}) /\ Finish(t)
    /\ UNCHANGED <<clock, db, births>>

\* The reverse share's own row, and by cascade every share tied to it since.
LinkClose(t) ==
    /\ At(t, "links", "close")
    /\ \/ ~link /\ Fail(t)
       \/ /\ link
          /\ link' = FALSE
          /\ LET S == {s \in ShareRows : row[s].viaLink} IN DeleteRows(S) /\ Mark(S, "cascade")
          /\ Finish(t)
          /\ UNCHANGED <<clock, account, fs, births, faults>>

(* UserSevice.delete: the directories of the user's own shares, all at once, then *)
(* the user's row, and by cascade those of all shares the user's or the reverse   *)
(* share's, whether their directories were on the list or not.                    *)

AccountFind(t) ==
    LET S == {s \in ShareRows : row[s].own} IN
    /\ account
    /\ Begin(t, [Idle EXCEPT !.op = "account", !.at = IF S = {} THEN "erase" ELSE "purge",
                 !.todo = S, !.seen = Look(S)])
    /\ UNCHANGED <<clock, db, fs, births, faults, scars>>

\* Promise.all is over at the first rm that fails; the others go on all the same.
AccountFiles(t, s) ==
    LET rest == task[t].todo \ {s} IN
    /\ task[t].op = "account" /\ task[t].at \in {"purge", "drain"} /\ s \in task[t].todo
    /\ \/ /\ RmDirectory(t, s)
          /\ UNCHANGED faults
          /\ IF rest # {} THEN Move(t, task[t].at, NoShare, rest)
             ELSE IF task[t].at = "purge" THEN Move(t, "erase", NoShare, rest)
             ELSE Finish(t)
       \/ /\ RmHalfway(s, {x \in Shares : task[t].seen[x] # 0})
          /\ IF rest # {} THEN Move(t, "drain", NoShare, rest) ELSE Finish(t)
    /\ UNCHANGED <<clock, db, births>>

\* The incarnation of s that t looked at has lost its directory to t, and is about to
\* lose its row.
Emptied(t, s) ==
    /\ Current(t, s)
    /\ \/ DeletesFilesFirst(t) /\ task[t].at = "delete" /\ task[t].share = s
       \/ task[t].op = "account" /\ task[t].at \in {"purge", "erase"} /\ s \notin task[t].todo

AccountErase(t) ==
    /\ At(t, "account", "erase")
    /\ \/ ~account /\ Fail(t)
       \/ /\ account
          /\ account' = FALSE /\ link' = FALSE
          /\ LET S == {s \in ShareRows : row[s].own \/ row[s].viaLink}
             IN  DeleteRows(S) /\ Mark({s \in S : ~Emptied(t, s)}, "account")
          /\ Finish(t)
          /\ UNCHANGED <<clock, fs, births, faults>>

-----------------------------------------------------------------------------
Tick ==
    /\ clock < MaxClock
    /\ clock' = clock + 1
    /\ UNCHANGED <<db, fs, task, births, faults, scars>>

\* The process dies: every task is lost between two of its steps.
Crash ==
    /\ faults < MaxFaults /\ faults' = faults + 1
    /\ \E t \in Tasks : task[t] # Idle
    /\ task' = [t \in Tasks |-> Idle]
    /\ Mark({s \in Shares : \E t \in Tasks :
                \/ Emptied(t, s)
                \/ /\ task[t].share = s
                   /\ \/ At(t, "links", "rm")
                      \/ At(t, "create", "insert")
                      \/ At(t, "removeFile", "forget")}, "fault")
    /\ UNCHANGED <<clock, db, fs, births>>

StartRequest(t) ==
    \/ \E s \in Shares :
        \/ CreateCheck(t, s)
        \/ CompleteRead(t, s)
        \/ RemoveFind(t, s)
        \/ \E f \in Files : UploadCheck(t, s, f) \/ RemoveFileFind(t, s, f)
    \/ LinkFind(t)
    \/ AccountFind(t)

StartCron == SweepExpired \/ SweepUnfinished \/ LinkFind("links")

Continue(t) ==
    \/ \E s \in Shares :
        \/ CreateDirectory(t, s)
        \/ CreateInsert(t, s)
        \/ CreateConnect(t, s)
        \/ CompleteCheck(t, s)
        \/ CompleteLock(t, s)
        \/ DeleteFiles(t, s)
        \/ DeleteRow(t, s)
        \/ LinkDeleteRow(t, s)
        \/ LinkDeleteFiles(t, s)
        \/ AccountFiles(t, s)
        \/ \E f \in Files :
            \/ UploadAppend(t, s, f)
            \/ UploadRename(t, s, f)
            \/ UploadRecord(t, s, f)
            \/ RemoveFileUnlink(t, s, f)
            \/ RemoveFileForget(t, s, f)
    \/ LinkClose(t)
    \/ AccountErase(t)

Next ==
    \/ Tick
    \/ Crash
    \/ StartCron
    \/ \E t \in Requests : StartRequest(t)
    \/ \E t \in Tasks : Continue(t)
    \/ \E s \in Shares : Revert(s)

Spec == Init /\ [][Next]_vars

\* Awaited calls return, and the scheduler starts a job whose time has come.
Fairness ==
    /\ \A t \in Tasks : WF_vars(Continue(t))
    /\ WF_vars(SweepExpired)
    /\ WF_vars(SweepUnfinished)

FairSpec == Spec /\ Fairness

-----------------------------------------------------------------------------
(* What the store promises. *)

TypeOK ==
    /\ clock \in Nat
    /\ row \in [Shares -> Row \cup {NoRow}]
    /\ recorded \in [Files -> Shares \cup {NoShare}]
    /\ dirs \in SUBSET Shares
    /\ disk \in [Shares -> SUBSET Files]
    /\ tmp \in [Shares -> SUBSET Files]
    /\ account \in BOOLEAN
    /\ link \in BOOLEAN
    /\ task \in [Tasks -> Task]
    /\ births \in Nat
    /\ faults \in Nat
    /\ scars \in [Shares -> SUBSET Causes]

Deleting(s) == \E t \in Tasks : Emptied(t, s)

\* A task that has unlinked f and is about to delete its row.
Forgetting(f) == \E t \in Tasks : At(t, "removeFile", "forget") /\ task[t].file = f

\* A file the database lists can be downloaded: its content is in the share's
\* directory, unless a deletion of the file or the share is between its two steps,
\* or the id's history has a fault or a task that outlived the row it was about.
RecordedContentOnDisk ==
    \A f \in Files, s \in Shares :
        recorded[f] = s => \/ f \in disk[s]
                           \/ Deleting(s)
                           \/ Forgetting(f)
                           \/ scars[s] # {}

Creating(s) == \E t \in Tasks : At(t, "create", "insert") /\ task[t].share = s
LinkDeleting(s) == \E t \in Tasks : At(t, "links", "rm") /\ task[t].share = s

\* No directory outlives its share (nothing would ever delete it): one without a row
\* belongs to a create or a link removal in progress, or the id's history holds one of
\* the five causes, which are all there are.
DirectoriesOwned ==
    \A s \in dirs : \/ Exists(s)
                     \/ Creating(s)
                     \/ LinkDeleting(s)
                     \/ scars[s] # {}

(* What a step needs to keep the two invariants above: they and the facts below *)
(* are inductive.                                                               *)

\* births bounds every incarnation there is and was, so a new row is unlike all seen.
SeenBounded ==
    \A s \in Shares : /\ \A t \in Tasks : task[t].seen[s] <= births
                      /\ Exists(s) => row[s].born <= births

\* The foreign keys of File and Share.
OwnSharesHaveUser == \A s \in Shares : Exists(s) /\ row[s].own => account
FilesHaveShares == \A f \in Files : recorded[f] # NoShare => Exists(recorded[f])

\* What a deletion of the user listed and is still there, is the user's.
AccountListsOwn ==
    \A t \in Tasks, s \in Shares : task[t].op = "account" /\ Current(t, s) => row[s].own

\* Once an rm of it has failed, the shares it listed are named.
DrainsMarked ==
    \A t \in Tasks, s \in Shares :
        At(t, "account", "drain") /\ task[t].seen[s] # 0 => scars[s] # {}

\* The file of an upload is its own: not recorded yet, and in no other task's hands.
UploadsOwnFiles ==
    \A t \in Tasks : task[t].op = "upload" =>
        /\ task[t].file \in Files
        /\ recorded[task[t].file] = NoShare
        /\ \A u \in Tasks \ {t} : task[u].file # task[t].file

\* A file being removed belongs to the share the request named, or no longer to any.
RemovalsNameOwner ==
    \A t \in Tasks : task[t].op = "removeFile" =>
        /\ task[t].file \in Files
        /\ recorded[task[t].file] \in {task[t].share, NoShare}

\* Content under its final name and about to be recorded is still there, if the row is.
UploadedContentOnDisk ==
    \A t \in Tasks, s \in Shares, f \in Files :
        (/\ At(t, "upload", "record") /\ task[t].share = s /\ task[t].file = f
         /\ Current(t, s))
            => f \in disk[s] \/ Deleting(s) \/ scars[s] # {}

\* Between its two steps a deletion has no directory to come back to ...
DeletedDirectoriesGone ==
    \A t \in Tasks, s \in Shares : Emptied(t, s) /\ s \in dirs => scars[s] # {}

\* ... and a link removal no row.
LinkRowsGone ==
    \A t \in Tasks, s \in Shares :
        At(t, "links", "rm") /\ task[t].share = s => ~Current(t, s)

IInv ==
    /\ TypeOK
    /\ SeenBounded
    /\ OwnSharesHaveUser
    /\ FilesHaveShares
    /\ AccountListsOwn
    /\ DrainsMarked
    /\ UploadsOwnFiles
    /\ RemovalsNameOwner
    /\ UploadedContentOnDisk
    /\ DeletedDirectoriesGone
    /\ LinkRowsGone
    /\ RecordedContentOnDisk
    /\ DirectoriesOwned

\* An expired share, and an upload nobody finishes, is deleted in the end (or prolonged,
\* completed, edited), whatever the other tasks do, although a share that is gone when
\* its turn comes ends the job before the rest.
DoomedSharesGo == \A s \in Shares :
    /\ (Exists(s) /\ Expired(s)) ~> ~(Exists(s) /\ Expired(s))
    /\ (Exists(s) /\ Abandoned(s)) ~> ~(Exists(s) /\ Abandoned(s))
===============================================================================
