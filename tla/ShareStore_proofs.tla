-------------------------- MODULE ShareStore_proofs --------------------------
(* TypeOK, RecordedContentOnDisk and DirectoriesOwned hold in every state of *)
(* ShareStore, for any number of shares, files and concurrent requests.      *)
EXTENDS ShareStore, TLAPS

-----------------------------------------------------------------------------
(* Type correctness *)

\* What TypeOK needs of a step that replaces one task.
LEMMA IdleTask == Idle \in Task
BY DEF Idle, Task, Ops, Steps, Unseen

LEMMA LookType == ASSUME TypeOK, NEW S PROVE Look(S) \in [Shares -> Nat]
BY DEF TypeOK, Look, Exists, Row

LEMMA MarkType ==
    ASSUME TypeOK, NEW S, NEW why \in Causes, Mark(S, why)
    PROVE  scars' \in [Shares -> SUBSET Causes]
BY DEF TypeOK, Mark

LEMMA BeginType ==
    ASSUME TypeOK, NEW t \in Tasks, NEW tk \in Task, Begin(t, tk)
    PROVE  task' \in [Tasks -> Task]
BY DEF TypeOK, Begin

LEMMA AdvanceType ==
    ASSUME TypeOK, NEW t \in Tasks, NEW step \in Steps, Advance(t, step)
    PROVE  task' \in [Tasks -> Task]
<1> DEFINE tk == [task[t] EXCEPT !.at = step]
<1>1. tk \in Task
  BY DEF TypeOK, Task
<1>2. task' = [task EXCEPT ![t] = tk]
  BY DEF TypeOK, Advance
<1> HIDE DEF tk
<1>3. QED BY <1>1, <1>2 DEF TypeOK

LEMMA FinishType ==
    ASSUME TypeOK, NEW t \in Tasks, Finish(t)
    PROVE  task' \in [Tasks -> Task]
BY IdleTask DEF TypeOK, Finish

LEMMA FailType == ASSUME TypeOK, NEW t \in Tasks, Fail(t) PROVE TypeOK'
BY FinishType DEF TypeOK, Fail, db, fs, owners

LEMMA DeleteRowsType ==
    ASSUME TypeOK, NEW S, DeleteRows(S)
    PROVE  /\ row' \in [Shares -> Row \cup {NoRow}]
           /\ recorded' \in [Files -> Shares \cup {NoShare}]
BY DEF TypeOK, DeleteRows

\* The updates that keep a row: CreateConnect, CompleteLock, Revert.
LEMMA RowType ==
    ASSUME TypeOK, NEW s \in Shares, Exists(s)
    PROVE  /\ row[s] \in Row
           /\ [row EXCEPT ![s].viaLink = TRUE] \in [Shares -> Row \cup {NoRow}]
           /\ [row EXCEPT ![s].locked = TRUE] \in [Shares -> Row \cup {NoRow}]
           /\ [row EXCEPT ![s].locked = FALSE, ![s].createdAt = clock] \in [Shares -> Row \cup {NoRow}]
<1>1. row[s] \in Row
  BY DEF TypeOK, Exists
<1>2. /\ [row[s] EXCEPT !.viaLink = TRUE] \in Row
      /\ [row[s] EXCEPT !.locked = TRUE] \in Row
      /\ [row[s] EXCEPT !.locked = FALSE, !.createdAt = clock] \in Row
  BY <1>1 DEF TypeOK, Row
<1>3. /\ [row EXCEPT ![s].viaLink = TRUE] = [row EXCEPT ![s] = [row[s] EXCEPT !.viaLink = TRUE]]
      /\ [row EXCEPT ![s].locked = TRUE] = [row EXCEPT ![s] = [row[s] EXCEPT !.locked = TRUE]]
      /\ [row EXCEPT ![s].locked = FALSE, ![s].createdAt = clock]
           = [row EXCEPT ![s] = [row[s] EXCEPT !.locked = FALSE, !.createdAt = clock]]
  BY DEF TypeOK
<1>4. QED BY <1>1, <1>2, <1>3 DEF TypeOK

LEMMA TypeInit == Init => TypeOK
BY IdleTask, LinkAssumption DEF Init, TypeOK

LEMMA TypeCreate ==
    ASSUME TypeOK, NEW t \in Tasks, NEW s \in Shares,
           CreateCheck(t, s) \/ CreateDirectory(t, s) \/ CreateInsert(t, s) \/ CreateConnect(t, s)
    PROVE  TypeOK'
<1>1. CASE CreateCheck(t, s)
  <2>1. PICK o \in BOOLEAN, v \in BOOLEAN, l \in Lifetimes :
          Begin(t, [Idle EXCEPT !.op = "create", !.at = "mkdir", !.share = s, !.own = o,
                    !.link = v, !.expiresAt = IF l = 0 THEN 0 ELSE clock + l])
    BY <1>1 DEF CreateCheck
  <2>2. (IF l = 0 THEN 0 ELSE clock + l) \in Nat
    BY TimeAssumption DEF TypeOK
  <2>3. ASSUME NEW e \in Nat
        PROVE  [Idle EXCEPT !.op = "create", !.at = "mkdir", !.share = s, !.own = o,
                !.link = v, !.expiresAt = e] \in Task
    BY DEF Idle, Task, Ops, Steps, Unseen
  <2>4. task' \in [Tasks -> Task]
    BY <2>1, <2>2, <2>3, BeginType
  <2>5. QED BY <1>1, <2>4 DEF CreateCheck, TypeOK, db, fs, owners
<1>2. CASE CreateDirectory(t, s)
  <2>1. task' \in [Tasks -> Task]
    BY <1>2, AdvanceType DEF CreateDirectory, Steps
  <2>2. scars' \in [Shares -> SUBSET Causes]
    BY <1>2, MarkType DEF CreateDirectory, Causes
  <2>3. QED BY <1>2, <2>1, <2>2 DEF CreateDirectory, TypeOK, db, owners
<1>3a. CASE CreateInsert(t, s) /\ ~Fail(t) /\ births' # births + 1
  BY <1>3a, FinishType, MarkType DEF CreateInsert, Causes, TypeOK, db, fs, owners
<1>3. CASE CreateInsert(t, s) /\ births' = births + 1
  <2>0. ~Fail(t) /\ births' # births
    BY <1>3 DEF Fail, TypeOK
  <2>1. births' \in Nat
    BY <1>3 DEF CreateInsert, TypeOK
  <2>2. row' \in [Shares -> Row \cup {NoRow}]
    <3>1. task[t].expiresAt \in Nat /\ task[t].own \in BOOLEAN
      BY DEF TypeOK, Task
    <3> DEFINE r == [locked |-> FALSE, createdAt |-> clock, expiresAt |-> task[t].expiresAt,
                     own |-> task[t].own, viaLink |-> FALSE, born |-> births + 1]
    <3>2. r \in Row
      BY <3>1 DEF TypeOK, Row
    <3>3. row' = [row EXCEPT ![s] = r]
      BY <1>3, <2>0 DEF CreateInsert
    <3> HIDE DEF r
    <3>4. QED BY <3>2, <3>3 DEF TypeOK
  <2>3. task' \in [Tasks -> Task]
    <3> DEFINE tk == [Idle EXCEPT !.op = "create", !.at = "connect", !.share = s,
                                  !.seen = [Unseen EXCEPT ![s] = births + 1]]
    <3>1. tk \in Task
      <4>1. [Unseen EXCEPT ![s] = births + 1] \in [Shares -> Nat]
        <5>1. births + 1 \in Nat
          BY DEF TypeOK
        <5>2. QED BY <5>1 DEF Unseen
      <4>2. ASSUME NEW sn \in [Shares -> Nat]
            PROVE  [Idle EXCEPT !.op = "create", !.at = "connect", !.share = s, !.seen = sn] \in Task
        BY DEF Idle, Task, Ops, Steps, Unseen
      <4>3. QED BY <4>1, <4>2
    <3>2. task' = [task EXCEPT ![t] = tk] \/ Finish(t)
      BY <1>3, <2>0 DEF CreateInsert
    <3> HIDE DEF tk
    <3>3. QED BY <3>1, <3>2, FinishType DEF TypeOK
  <2>4. QED BY <1>3, <2>0, <2>1, <2>2, <2>3 DEF CreateInsert, TypeOK, fs, owners
<1>4. CASE CreateConnect(t, s) /\ ~Fail(t)
  <2>1. row' \in [Shares -> Row \cup {NoRow}]
    <3>1. Exists(s) /\ row' = [row EXCEPT ![s].viaLink = TRUE]
      BY <1>4 DEF CreateConnect
    <3>2. QED BY <3>1, RowType
  <2>2. scars' \in [Shares -> SUBSET Causes]
    BY <1>4, MarkType DEF CreateConnect, MarkIfStale, Causes
  <2>3. task' \in [Tasks -> Task]
    BY <1>4, FinishType DEF CreateConnect
  <2>4. QED BY <1>4, <2>1, <2>2, <2>3 DEF CreateConnect, TypeOK, fs, owners
<1>5. QED BY <1>1, <1>2, <1>3a, <1>3, <1>4, FailType

LEMMA TypeUpload ==
    ASSUME TypeOK, NEW t \in Tasks, NEW s \in Shares, NEW f \in Files,
           \/ UploadCheck(t, s, f) \/ UploadAppend(t, s, f)
           \/ UploadRename(t, s, f) \/ UploadRecord(t, s, f)
    PROVE  TypeOK'
<1>1. CASE UploadCheck(t, s, f)
  <2>1. Look({s}) \in [Shares -> Nat]
    BY LookType
  <2>2. ASSUME NEW sn \in [Shares -> Nat]
        PROVE  [Idle EXCEPT !.op = "upload", !.at = "append", !.share = s, !.file = f,
                            !.seen = sn] \in Task
    BY DEF Idle, Task, Ops, Steps, Unseen
  <2>3. task' \in [Tasks -> Task]
    BY <1>1, <2>1, <2>2, BeginType DEF UploadCheck
  <2>4. QED BY <1>1, <2>3 DEF UploadCheck, TypeOK, db, fs, owners
<1>2. CASE UploadAppend(t, s, f) /\ ~Fail(t)
  BY <1>2, AdvanceType DEF UploadAppend, TypeOK, Steps, db, owners
<1>3. CASE UploadRename(t, s, f) /\ ~Fail(t)
  BY <1>3, AdvanceType DEF UploadRename, TypeOK, Steps, db, owners
<1>4. CASE UploadRecord(t, s, f) /\ ~Fail(t)
  BY <1>4, FinishType, MarkType DEF UploadRecord, MarkIfStale, Causes, TypeOK, fs, owners
<1>5. QED BY <1>1, <1>2, <1>3, <1>4, FailType

LEMMA TypeRemoveFile ==
    ASSUME TypeOK, NEW t \in Tasks, NEW s \in Shares, NEW f \in Files,
           RemoveFileFind(t, s, f) \/ RemoveFileUnlink(t, s, f) \/ RemoveFileForget(t, s, f)
    PROVE  TypeOK'
<1>1. CASE RemoveFileFind(t, s, f)
  <2>1. Look({s}) \in [Shares -> Nat]
    BY LookType
  <2>2. ASSUME NEW sn \in [Shares -> Nat]
        PROVE  [Idle EXCEPT !.op = "removeFile", !.at = "unlink", !.share = s, !.file = f,
                            !.seen = sn] \in Task
    BY DEF Idle, Task, Ops, Steps, Unseen
  <2>3. task' \in [Tasks -> Task]
    BY <1>1, <2>1, <2>2, BeginType DEF RemoveFileFind
  <2>4. QED BY <1>1, <2>3 DEF RemoveFileFind, TypeOK, db, fs, owners
<1>2. CASE RemoveFileUnlink(t, s, f) /\ ~Fail(t)
  BY <1>2, AdvanceType DEF RemoveFileUnlink, TypeOK, Steps, db, owners
<1>3. CASE RemoveFileForget(t, s, f)
  BY <1>3, FinishType DEF RemoveFileForget, TypeOK, fs, owners
<1>4. QED BY <1>1, <1>2, <1>3, FailType

LEMMA TypeComplete ==
    ASSUME TypeOK, NEW t \in Tasks, NEW s \in Shares,
           CompleteRead(t, s) \/ CompleteCheck(t, s) \/ CompleteLock(t, s)
    PROVE  TypeOK'
<1>1. CASE CompleteRead(t, s)
  <2>1. Look({s}) \in [Shares -> Nat]
    BY LookType
  <2>2. ASSUME NEW sn \in [Shares -> Nat]
        PROVE  [Idle EXCEPT !.op = "complete", !.at = "check", !.share = s, !.seen = sn] \in Task
    BY DEF Idle, Task, Ops, Steps, Unseen
  <2>3. task' \in [Tasks -> Task]
    BY <1>1, <2>1, <2>2, BeginType DEF CompleteRead
  <2>4. QED BY <1>1, <2>3 DEF CompleteRead, TypeOK, db, fs, owners
<1>2. CASE CompleteCheck(t, s) /\ ~Fail(t)
  BY <1>2, AdvanceType DEF CompleteCheck, TypeOK, Steps, db, fs, owners
<1>3. CASE CompleteLock(t, s) /\ ~Fail(t)
  <2>1. row' \in [Shares -> Row \cup {NoRow}]
    <3>1. Exists(s) /\ row' = [row EXCEPT ![s].locked = TRUE]
      BY <1>3 DEF CompleteLock
    <3>2. QED BY <3>1, RowType
  <2>2. task' \in [Tasks -> Task] /\ scars' \in [Shares -> SUBSET Causes]
    BY <1>3, FinishType, MarkType DEF CompleteLock, MarkIfStale, Causes
  <2>3. QED BY <1>3, <2>1, <2>2 DEF CompleteLock, TypeOK, fs, owners
<1>4. QED BY <1>1, <1>2, <1>3, FailType

LEMMA TypeRevert == ASSUME TypeOK, NEW s \in Shares, Revert(s) PROVE TypeOK'
BY RowType DEF Revert, TypeOK, fs, owners

\* A task that goes through a list of shares.
LEMMA MoveType ==
    ASSUME TypeOK, NEW t \in Tasks, NEW step \in Steps, NEW x \in Shares \cup {NoShare},
           NEW S \in SUBSET Shares, Move(t, step, x, S)
    PROVE  task' \in [Tasks -> Task]
<1>1. task[t] \in Task
  BY DEF TypeOK
<1>2. [task[t] EXCEPT !.at = step, !.share = x, !.todo = S] \in Task
  BY <1>1 DEF Task
<1>3. QED BY <1>2 DEF Move, TypeOK

LEMMA RmDirectoryType ==
    ASSUME TypeOK, NEW t \in Tasks, NEW s \in Shares, RmDirectory(t, s)
    PROVE  /\ dirs' \in SUBSET Shares
           /\ disk' \in [Shares -> SUBSET Files]
           /\ tmp' \in [Shares -> SUBSET Files]
           /\ scars' \in [Shares -> SUBSET Causes]
BY MarkType DEF RmDirectory, MarkIfStale, Causes, TypeOK

LEMMA RmHalfwayType ==
    ASSUME TypeOK, NEW s \in Shares, NEW S, RmHalfway(s, S)
    PROVE  /\ dirs' \in SUBSET Shares
           /\ disk' \in [Shares -> SUBSET Files]
           /\ tmp' \in [Shares -> SUBSET Files]
           /\ faults' \in Nat
           /\ scars' \in [Shares -> SUBSET Causes]
<1>1. scars' \in [Shares -> SUBSET Causes]
  BY MarkType DEF RmHalfway, Causes
<1>2. PICK D \in SUBSET disk[s], T \in SUBSET tmp[s] :
        disk' = [disk EXCEPT ![s] = D] /\ tmp' = [tmp EXCEPT ![s] = T]
  BY DEF RmHalfway
<1>3. disk[s] \in SUBSET Files /\ tmp[s] \in SUBSET Files
  BY DEF TypeOK
<1>4. D \in SUBSET Files /\ T \in SUBSET Files
  BY <1>3
<1>5. faults' \in Nat /\ dirs' \in SUBSET Shares
  BY DEF RmHalfway, TypeOK
<1>6. QED BY <1>1, <1>2, <1>4, <1>5 DEF TypeOK

LEMMA TypeFind ==
    ASSUME TypeOK, NEW t \in Tasks,
           \/ \E s \in Shares : RemoveFind(t, s)
           \/ SweepExpired \/ SweepUnfinished \/ LinkFind(t) \/ AccountFind(t)
    PROVE  TypeOK'
<1>1. ASSUME NEW S \in SUBSET Shares, NEW op \in Ops, NEW step \in Steps
      PROVE  [Idle EXCEPT !.op = op, !.at = step, !.todo = S, !.seen = Look(S)] \in Task
  <2>1. Look(S) \in [Shares -> Nat]
    BY LookType
  <2>2. ASSUME NEW sn \in [Shares -> Nat]
        PROVE  [Idle EXCEPT !.op = op, !.at = step, !.todo = S, !.seen = sn] \in Task
    BY DEF Idle, Task, Unseen
  <2>3. QED BY <2>1, <2>2
<1>2. ASSUME NEW s \in Shares, RemoveFind(t, s)
      PROVE  TypeOK'
  <2>1. task' \in [Tasks -> Task]
    BY <1>1, <1>2, BeginType DEF RemoveFind, Ops, Steps
  <2>2. QED BY <1>2, <2>1 DEF RemoveFind, TypeOK, db, fs, owners
<1>3. ASSUME NEW c \in Crons, NEW S \in SUBSET Shares, Sweep(c, S)
      PROVE  TypeOK'
  <2>1. c \in Tasks /\ c \in Ops
    BY DEF Tasks, Ops
  <2>2. task' \in [Tasks -> Task]
    BY <1>1, <1>3, <2>1, BeginType DEF Sweep, Steps
  <2>3. QED BY <1>3, <2>2 DEF Sweep, TypeOK, db, fs, owners
<1>4. CASE SweepExpired
  BY <1>3, <1>4 DEF SweepExpired, ExpiredShares, ShareRows, Crons
<1>5. CASE SweepUnfinished
  BY <1>3, <1>5 DEF SweepUnfinished, UnfinishedShares, ShareRows, Crons
<1>6. CASE LinkFind(t)
  <2> DEFINE S == {x \in ShareRows : row[x].viaLink}
  <2>1. S \in SUBSET Shares
    BY DEF ShareRows
  <2>2. PICK step \in Steps :
          Begin(t, [Idle EXCEPT !.op = "links", !.at = step, !.todo = S, !.seen = Look(S)])
    BY <1>6 DEF LinkFind, Steps
  <2> HIDE DEF S
  <2>3. task' \in [Tasks -> Task]
    BY <1>1, <2>1, <2>2, BeginType DEF Ops, Crons
  <2>4. QED BY <1>6, <2>3 DEF LinkFind, TypeOK, db, fs, owners
<1>7. CASE AccountFind(t)
  <2> DEFINE S == {x \in ShareRows : row[x].own}
  <2>1. S \in SUBSET Shares
    BY DEF ShareRows
  <2>2. PICK step \in Steps :
          Begin(t, [Idle EXCEPT !.op = "account", !.at = step, !.todo = S, !.seen = Look(S)])
    BY <1>7 DEF AccountFind, Steps
  <2> HIDE DEF S
  <2>3. task' \in [Tasks -> Task]
    BY <1>1, <2>1, <2>2, BeginType DEF Ops
  <2>4. QED BY <1>7, <2>3 DEF AccountFind, TypeOK, db, fs, owners
<1>8. QED BY <1>2, <1>4, <1>5, <1>6, <1>7

LEMMA TypeDelete ==
    ASSUME TypeOK, NEW t \in Tasks, NEW s \in Shares,
           \/ DeleteFiles(t, s) \/ DeleteRow(t, s)
           \/ LinkDeleteRow(t, s) \/ LinkDeleteFiles(t, s) \/ AccountFiles(t, s)
    PROVE  TypeOK'
<1>0. task[t].todo \in SUBSET Shares /\ task[t].todo \ {s} \in SUBSET Shares
  BY DEF TypeOK, Task
<1>1. CASE DeleteFiles(t, s)
  <2>1. task' \in [Tasks -> Task]
    BY <1>0, <1>1, MoveType, FinishType DEF DeleteFiles, Steps
  <2>2. QED BY <1>1, <2>1, RmDirectoryType, RmHalfwayType DEF DeleteFiles, TypeOK, db, owners
<1>2. CASE DeleteRow(t, s) /\ ~Fail(t)
  <2>1. task' \in [Tasks -> Task]
    BY <1>0, <1>2, MoveType, FinishType DEF DeleteRow, Steps
  <2>2. scars' \in [Shares -> SUBSET Causes]
    BY <1>2, MarkType DEF DeleteRow, MarkIfStale, Causes
  <2>3. QED BY <1>2, <2>1, <2>2, DeleteRowsType DEF DeleteRow, TypeOK, fs, owners
<1>3. CASE LinkDeleteRow(t, s) /\ ~Fail(t)
  <2>1. task' \in [Tasks -> Task]
    BY <1>0, <1>3, MoveType DEF LinkDeleteRow, Steps
  <2>2. scars' \in [Shares -> SUBSET Causes]
    BY <1>3, MarkType DEF LinkDeleteRow, MarkIfStale, Causes
  <2>3. QED BY <1>3, <2>1, <2>2, DeleteRowsType DEF LinkDeleteRow, TypeOK, fs, owners
<1>4. CASE LinkDeleteFiles(t, s)
  <2>1. task' \in [Tasks -> Task]
    BY <1>0, <1>4, MoveType, FinishType DEF LinkDeleteFiles, Steps
  <2>2. QED BY <1>4, <2>1, RmDirectoryType, RmHalfwayType DEF LinkDeleteFiles, TypeOK, db, owners
<1>5. CASE AccountFiles(t, s)
  <2>1. task[t].at \in Steps
    BY DEF TypeOK, Task
  <2>2. task' \in [Tasks -> Task]
    BY <1>0, <1>5, <2>1, MoveType, FinishType DEF AccountFiles, Steps
  <2>3. QED BY <1>5, <2>2, RmDirectoryType, RmHalfwayType DEF AccountFiles, TypeOK, db, owners
<1>6. QED BY <1>1, <1>2, <1>3, <1>4, <1>5, FailType

LEMMA TypeClose ==
    ASSUME TypeOK, NEW t \in Tasks, LinkClose(t) \/ AccountErase(t)
    PROVE  TypeOK'
<1>1. CASE LinkClose(t) /\ ~Fail(t)
  <2>1. scars' \in [Shares -> SUBSET Causes]
    BY <1>1, MarkType DEF LinkClose, Causes
  <2>2. QED BY <1>1, <2>1, FinishType, DeleteRowsType DEF LinkClose, TypeOK, fs, owners
<1>2. CASE AccountErase(t) /\ ~Fail(t)
  <2>1. scars' \in [Shares -> SUBSET Causes]
    BY <1>2, MarkType DEF AccountErase, Causes
  <2>2. QED BY <1>2, <2>1, FinishType, DeleteRowsType DEF AccountErase, TypeOK, fs, owners
<1>3. QED BY <1>1, <1>2, FailType

LEMMA TypeCrash == ASSUME TypeOK, Crash PROVE TypeOK'
<1>1. scars' \in [Shares -> SUBSET Causes]
  BY MarkType DEF Crash, Causes
<1>2. task' \in [Tasks -> Task]
  BY IdleTask DEF Crash
<1>3. QED BY <1>1, <1>2 DEF Crash, TypeOK, db, fs, owners

LEMMA TypeNext == TypeOK /\ [Next]_vars => TypeOK'
<1> SUFFICES ASSUME TypeOK, [Next]_vars PROVE TypeOK'
  OBVIOUS
<1>1. CASE Tick
  BY <1>1 DEF Tick, TypeOK, db, fs, owners
<1>2. CASE Crash
  BY <1>2, TypeCrash
<1>3. CASE StartCron
  <2>1. "links" \in Tasks
    BY DEF Tasks, Crons
  <2>2. QED BY <1>3, <2>1, TypeFind DEF StartCron
<1>4. CASE \E t \in Requests : StartRequest(t)
  BY <1>4, TypeCreate, TypeComplete, TypeFind, TypeUpload, TypeRemoveFile DEF StartRequest, Tasks
<1>5. CASE \E t \in Tasks : Continue(t)
  BY <1>5, TypeCreate, TypeComplete, TypeDelete, TypeClose, TypeUpload, TypeRemoveFile DEF Continue
<1>6. CASE \E s \in Shares : Revert(s)
  BY <1>6, TypeRevert
<1>7. CASE UNCHANGED vars
  BY <1>7 DEF vars, TypeOK, db, fs, owners
<1>8. QED BY <1>1, <1>2, <1>3, <1>4, <1>5, <1>6, <1>7 DEF Next

\* Every variable keeps its type, whatever is going on at the same time.
THEOREM TypeCorrect == Spec => []TypeOK
BY TypeInit, TypeNext, PTL DEF Spec

-----------------------------------------------------------------------------
(* What the building blocks of a step do to the task that takes it. *)

LEMMA IdleFields ==
    /\ Idle.op = "none" /\ Idle.at = "idle" /\ Idle.share = NoShare /\ Idle.file = NoFile
    /\ \A s \in Shares : Idle.seen[s] = 0
BY DEF Idle, Unseen

LEMMA BeginTask ==
    ASSUME TypeOK, NEW t \in Tasks, NEW tk, Begin(t, tk)
    PROVE  /\ task[t] = Idle /\ task'[t] = tk
           /\ \A u \in Tasks \ {t} : task'[u] = task[u]
BY DEF TypeOK, Begin

LEMMA AdvanceTask ==
    ASSUME TypeOK, NEW t \in Tasks, NEW step, Advance(t, step)
    PROVE  /\ task'[t].at = step /\ task'[t].op = task[t].op
           /\ task'[t].share = task[t].share /\ task'[t].file = task[t].file
           /\ task'[t].seen = task[t].seen
           /\ \A u \in Tasks \ {t} : task'[u] = task[u]
<1>1. task[t] \in Task
  BY DEF TypeOK
<1>2. task' = [task EXCEPT ![t] = [task[t] EXCEPT !.at = step]]
  BY DEF Advance, TypeOK
<1>3. task'[t] = [task[t] EXCEPT !.at = step] /\ \A u \in Tasks \ {t} : task'[u] = task[u]
  BY <1>2 DEF TypeOK
<1>4. QED BY <1>1, <1>3 DEF Task

LEMMA MoveTask ==
    ASSUME TypeOK, NEW t \in Tasks, NEW step, NEW x, NEW S, Move(t, step, x, S)
    PROVE  /\ task'[t].at = step /\ task'[t].op = task[t].op
           /\ task'[t].share = x /\ task'[t].file = task[t].file
           /\ task'[t].seen = task[t].seen
           /\ \A u \in Tasks \ {t} : task'[u] = task[u]
<1>1. task[t] \in Task
  BY DEF TypeOK
<1>2. /\ task'[t] = [task[t] EXCEPT !.at = step, !.share = x, !.todo = S]
      /\ \A u \in Tasks \ {t} : task'[u] = task[u]
  BY DEF Move, TypeOK
<1>3. QED BY <1>1, <1>2 DEF Task

LEMMA FinishTask ==
    ASSUME TypeOK, NEW t \in Tasks, Finish(t)
    PROVE  task'[t] = Idle /\ \A u \in Tasks \ {t} : task'[u] = task[u]
BY DEF TypeOK, Finish

\* A mark is never taken off.
LEMMA MarkScars ==
    ASSUME TypeOK, NEW S, NEW why \in Causes, Mark(S, why)
    PROVE  \A s \in Shares : scars[s] \subseteq scars'[s] /\ (s \in S => scars'[s] # {})
BY DEF TypeOK, Mark

LEMMA StaleScars ==
    ASSUME TypeOK, NEW t \in Tasks, NEW s \in Shares, MarkIfStale(t, s)
    PROVE  /\ \A x \in Shares : scars[x] \subseteq scars'[x]
           /\ Stale(t, s) => scars'[s] # {}
BY MarkScars DEF MarkIfStale, Causes

LEMMA DeletedRows ==
    ASSUME TypeOK, NEW S \in SUBSET Shares, DeleteRows(S)
    PROVE  /\ \A s \in S : ~Exists(s)' /\ \A f \in Files : recorded'[f] # s
           /\ \A s \in Shares \ S : row'[s] = row[s]
           /\ \A f \in Files : recorded'[f] = recorded[f] \/ recorded'[f] = NoShare
           /\ \A f \in Files : recorded[f] \notin S => recorded'[f] = recorded[f]
BY NullAssumption DEF TypeOK, DeleteRows, Exists

\* A task that did not look at a share is not current with it.
LEMMA CurrentSeen ==
    ASSUME TypeOK, NEW t \in Tasks, NEW s \in Shares, Current(t, s)
    PROVE  task[t].seen[s] # 0 /\ task[t].seen[s] = row[s].born
BY RowType DEF Current, Row

LEMMA LookBounded ==
    ASSUME TypeOK, SeenBounded, NEW S
    PROVE  \A s \in Shares : Look(S)[s] <= births
BY DEF TypeOK, SeenBounded, Look

-----------------------------------------------------------------------------
(* What a step may do to the data, and to the tasks in M that take it, without *)
(* breaking the invariants.  Every action is then shown to keep to it.         *)

\* A row is the one it was, or new and unlike any a task has seen.
RowsSound ==
    /\ births <= births'
    /\ \A s \in Shares :
          /\ scars[s] \subseteq scars'[s]
          /\ Exists(s)' => \/ Exists(s) /\ row'[s].born = row[s].born /\ row'[s].own = row[s].own
                           \/ ~Exists(s) /\ births < row'[s].born /\ row'[s].born <= births'
    /\ OwnSharesHaveUser'

\* A file row is the one it was, or gone, or new with its content in place.
FilesSound ==
    \A f \in Files :
        /\ (recorded[f] # NoShare => Exists(recorded[f]))'
        /\ recorded'[f] \notin {recorded[f], NoShare} =>
              /\ \A u \in Tasks : task'[u].op \in {"upload", "removeFile"} => task'[u].file # f
              /\ \A s \in Shares : recorded'[f] = s =>
                    f \in disk'[s] \/ Deleting(s)' \/ scars'[s] # {}

\* Content goes away only with its share or for its own removal.
ContentSound ==
    \A s \in Shares : \A f \in disk[s] :
        \/ f \in disk'[s] \/ ~Exists(s)' \/ Deleting(s)' \/ Forgetting(f)' \/ scars'[s] # {}

\* A directory that appears, or loses its row, has a task to account for it.
DirectoriesSound ==
    \A s \in Shares : s \in dirs' =>
        /\ s \notin dirs /\ Exists(s)' /\ Exists(s) => scars'[s] # {}
        /\ ~Exists(s)' /\ (s \notin dirs \/ Exists(s)) =>
              Creating(s)' \/ LinkDeleting(s)' \/ scars'[s] # {}

DataSound == RowsSound /\ FilesSound /\ ContentSound /\ DirectoriesSound

\* What a task that moves must see to afterwards ...
SoundAfter(t) ==
    /\ \A s \in Shares : task'[t].seen[s] <= births'
    /\ \A s \in Shares :
          /\ Emptied(t, s)' => s \notin dirs' \/ scars'[s] # {}
          /\ task'[t].op = "account" /\ Current(t, s)' => row'[s].own
          /\ At(t, "account", "drain")' /\ task'[t].seen[s] # 0 => scars'[s] # {}
          /\ At(t, "links", "rm")' /\ task'[t].share = s => ~Exists(s)' \/ ~Current(t, s)'
    /\ \A u \in Tasks \ {t} : task'[t].op = "upload" \/ task'[u].op = "upload"
                              => task'[t].file # task'[u].file
    /\ task'[t].op = "upload" =>
          /\ task'[t].file \in Files /\ recorded'[task'[t].file] = NoShare
          /\ task'[t].at = "record" => /\ task'[t].share \in Shares
                                       /\ task'[t].file \in disk'[task'[t].share]
    /\ task'[t].op = "removeFile" =>
          /\ task'[t].file \in Files
          /\ recorded'[task'[t].file] \in {task'[t].share, NoShare}

\* ... and must have seen to, if it was in the middle of something.
SoundBefore(t) ==
    \A s \in Shares :
        /\ Emptied(t, s) => ~Exists(s)' \/ scars'[s] # {} \/ Emptied(t, s)'
        /\ At(t, "removeFile", "forget") /\ task[t].share = s
             => recorded'[task[t].file] = NoShare \/ scars'[s] # {}
        /\ At(t, "create", "insert") /\ task[t].share = s => Exists(s)' \/ scars'[s] # {}
        /\ At(t, "links", "rm") /\ task[t].share = s => s \notin dirs' \/ scars'[s] # {}

LEMMA SoundStep ==
    ASSUME IInv, TypeOK', DataSound, NEW M \in SUBSET Tasks,
           \A t \in Tasks \ M : task'[t] = task[t],
           \A t \in M : SoundBefore(t) /\ SoundAfter(t)
    PROVE  IInv'
<1>0. births \in Nat /\ births' \in Nat /\ \A s \in Shares : scars[s] \subseteq scars'[s]
  BY DEF IInv, TypeOK, DataSound, RowsSound
<1>1. SeenBounded'
  <2>1. ASSUME NEW s \in Shares, NEW t \in Tasks PROVE task'[t].seen[s] <= births'
    <3>1. task[t].seen[s] \in Nat /\ task'[t].seen[s] \in Nat
      BY DEF IInv, TypeOK, Task
    <3>2. QED BY <1>0, <3>1 DEF IInv, SeenBounded, DataSound, RowsSound, SoundAfter
  <2>2. ASSUME NEW s \in Shares, Exists(s)' PROVE row'[s].born <= births'
    <3>1. Exists(s) => row[s] \in Row /\ row[s].born \in Nat /\ row[s].born <= births
      BY RowType DEF IInv, SeenBounded, Row
    <3>2. QED BY <1>0, <2>2, <3>1 DEF DataSound, RowsSound
  <2>3. QED BY <2>1, <2>2 DEF SeenBounded
\* A task that has not moved is as current as it was.
<1>2. ASSUME NEW t \in Tasks \ M, NEW s \in Shares, Current(t, s)'
      PROVE  Current(t, s)
  <2>1. task[t].seen[s] \in Nat /\ task[t].seen[s] <= births
    BY DEF IInv, TypeOK, Task, SeenBounded
  <2>2. QED BY <1>0, <1>2, <2>1 DEF Current, DataSound, RowsSound
\* ... and the row it looked at is the user's if it was.
<1>2a. ASSUME NEW t \in Tasks \ M, NEW s \in Shares, Current(t, s)'
       PROVE  row'[s].own = row[s].own
  BY <1>2, <1>2a DEF Current, DataSound, RowsSound
<1>3. FilesHaveShares' /\ OwnSharesHaveUser'
  BY DEF FilesHaveShares, DataSound, FilesSound, RowsSound
<1>3a. AccountListsOwn'
  BY <1>2, <1>2a DEF AccountListsOwn, IInv, SoundAfter
<1>3b. DrainsMarked'
  BY <1>0 DEF DrainsMarked, IInv, SoundAfter, At
<1>4. UploadsOwnFiles'
  BY DEF IInv, UploadsOwnFiles, DataSound, FilesSound, SoundAfter
<1>5. RemovalsNameOwner'
  BY DEF IInv, RemovalsNameOwner, DataSound, FilesSound, SoundAfter
<1>6. ASSUME NEW s \in Shares, Deleting(s), Exists(s)'
      PROVE  Deleting(s)' \/ scars'[s] # {}
  <2>1. PICK t \in Tasks : Emptied(t, s)
    BY <1>6 DEF Deleting
  <2>2. CASE t \in M
    BY <1>6, <2>1, <2>2 DEF SoundBefore, Deleting
  <2>3. CASE t \notin M
    <3>1. Current(t, s)'
      BY <1>6, <2>1, <2>3 DEF Emptied, Current, DataSound, RowsSound
    <3>2. Emptied(t, s)'
      BY <2>1, <2>3, <3>1 DEF Emptied, DeletesFilesFirst
    <3>3. QED BY <3>2 DEF Deleting
  <2>4. QED BY <2>2, <2>3
<1>7. UploadedContentOnDisk'
  <2> SUFFICES ASSUME NEW t \in Tasks, NEW s \in Shares, NEW f \in Files,
                      At(t, "upload", "record")', (task[t].share = s)', (task[t].file = f)',
                      Current(t, s)'
               PROVE  (f \in disk[s])' \/ Deleting(s)' \/ (scars[s] # {})'
    BY DEF UploadedContentOnDisk
  <2>1. CASE t \in M
    BY <2>1 DEF SoundAfter, At
  <2>2. CASE t \notin M
    <3>1. f \in disk[s] \/ Deleting(s) \/ scars[s] # {}
      BY <1>2, <2>2 DEF IInv, UploadedContentOnDisk, At
    <3>2. Exists(s)'
      BY DEF Current
    <3>3. ~Forgetting(f)'
      BY <1>4 DEF Forgetting, UploadsOwnFiles, At
    <3>4. QED BY <1>0, <1>6, <3>1, <3>2, <3>3 DEF DataSound, ContentSound
  <2>3. QED BY <2>1, <2>2
<1>8. DeletedDirectoriesGone'
  <2> SUFFICES ASSUME NEW t \in Tasks, NEW s \in Shares,
                      Emptied(t, s)', s \in dirs'
               PROVE  (scars[s] # {})'
    BY DEF DeletedDirectoriesGone
  <2>1. CASE t \in M
    BY <2>1 DEF SoundAfter
  <2>2. CASE t \notin M
    <3>1. Current(t, s) /\ Exists(s) /\ Exists(s)'
      BY <1>2, <2>2 DEF Current, Emptied
    <3>2. s \in dirs => scars[s] # {}
      BY <2>2, <3>1 DEF IInv, DeletedDirectoriesGone, DeletesFilesFirst, Emptied
    <3>3. QED BY <1>0, <3>1, <3>2 DEF DataSound, DirectoriesSound
  <2>3. QED BY <2>1, <2>2
<1>9. LinkRowsGone'
  BY <1>2 DEF IInv, LinkRowsGone, At, SoundAfter, Current
<1>10. RecordedContentOnDisk'
  <2> SUFFICES ASSUME NEW f \in Files, NEW s \in Shares, recorded'[f] = s
               PROVE  \/ f \in disk'[s] \/ Deleting(s)' \/ Forgetting(f)' \/ scars'[s] # {}
    BY DEF RecordedContentOnDisk
  <2>1. Exists(s)'
    BY NullAssumption DEF DataSound, FilesSound
  <2>2. CASE recorded[f] # s
    BY <2>2, NullAssumption DEF DataSound, FilesSound
  <2>3. CASE recorded[f] = s
    <3>1. CASE f \in disk[s] \/ scars[s] # {}
      BY <1>0, <2>1, <3>1 DEF DataSound, ContentSound
    <3>2. CASE Deleting(s)
      BY <1>6, <2>1, <3>2
    <3>3. CASE Forgetting(f)
      <4>1. PICK t \in Tasks : At(t, "removeFile", "forget") /\ task[t].file = f
        BY <3>3 DEF Forgetting
      <4>2. task[t].share = s
        BY <2>3, <4>1, NullAssumption DEF IInv, RemovalsNameOwner, At
      <4>3. CASE t \in M
        BY <4>1, <4>2, <4>3, NullAssumption DEF SoundBefore
      <4>4. CASE t \notin M
        BY <4>1, <4>4 DEF Forgetting, At
      <4>5. QED BY <4>3, <4>4
    <3>4. QED BY <2>3, <3>1, <3>2, <3>3 DEF IInv, RecordedContentOnDisk
  <2>4. QED BY <2>2, <2>3
<1>11. DirectoriesOwned'
  <2> SUFFICES ASSUME NEW s \in dirs', ~Exists(s)', scars'[s] = {}
               PROVE  Creating(s)' \/ LinkDeleting(s)'
    BY DEF DirectoriesOwned
  <2>0. s \in Shares
    BY DEF TypeOK
  <2>1. CASE s \notin dirs \/ Exists(s)
    BY <2>0, <2>1 DEF DataSound, DirectoriesSound
  <2>2. CASE Creating(s)
    BY <2>0, <2>2 DEF Creating, At, SoundBefore
  <2>3. CASE LinkDeleting(s)
    BY <2>0, <2>3 DEF LinkDeleting, At, SoundBefore
  <2>4. QED BY <1>0, <2>0, <2>1, <2>2, <2>3 DEF IInv, DirectoriesOwned
<1>12. QED
  BY <1>1, <1>3, <1>3a, <1>3b, <1>4, <1>5, <1>7, <1>8, <1>9, <1>10, <1>11 DEF IInv

\* Most steps are quiet: no row, file row, directory or content goes away.
RowsKept ==
    /\ births' = births /\ dirs' = dirs /\ recorded' = recorded /\ account' = account
    /\ \A s \in Shares : /\ Exists(s)' <=> Exists(s)
                         /\ Exists(s) => row'[s].born = row[s].born /\ row'[s].own = row[s].own
                         /\ scars[s] \subseteq scars'[s]
                         /\ disk[s] \subseteq disk'[s]

LEMMA QuietData == ASSUME IInv, TypeOK', RowsKept PROVE DataSound
<1>1. RowsSound
  BY DEF RowsKept, RowsSound, IInv, TypeOK, OwnSharesHaveUser
<1>2. FilesSound
  BY NullAssumption DEF RowsKept, FilesSound, IInv, TypeOK, FilesHaveShares
<1>3. ContentSound /\ DirectoriesSound
  BY DEF RowsKept, ContentSound, DirectoriesSound
<1>4. QED BY <1>1, <1>2, <1>3 DEF DataSound

LEMMA SoundTask ==
    ASSUME IInv, TypeOK', DataSound, NEW t \in Tasks,
           \A u \in Tasks \ {t} : task'[u] = task[u], SoundBefore(t), SoundAfter(t)
    PROVE  IInv'
<1>1. {t} \in SUBSET Tasks /\ \A u \in {t} : SoundBefore(u) /\ SoundAfter(u)
  OBVIOUS
<1>2. QED BY <1>1, SoundStep

LEMMA QuietTask ==
    ASSUME IInv, TypeOK', RowsKept, NEW t \in Tasks,
           \A u \in Tasks \ {t} : task'[u] = task[u], SoundBefore(t), SoundAfter(t)
    PROVE  IInv'
BY QuietData, SoundTask

-----------------------------------------------------------------------------
(* The quiet steps. *)

LEMMA FailStep ==
    ASSUME IInv, NEW t \in Tasks, Fail(t), SoundBefore(t)
    PROVE  IInv'
<1>1. TypeOK' /\ RowsKept
  BY FailType DEF IInv, Fail, RowsKept, Exists, db, fs, owners
<1>2. task'[t] = Idle /\ \A u \in Tasks \ {t} : task'[u] = task[u]
  BY FinishTask DEF IInv, Fail
<1>3. SoundAfter(t)
  BY <1>1, <1>2, IdleFields, NullAssumption
  DEF RowsKept, SoundAfter, At, DeletesFilesFirst, IInv, TypeOK, UploadsOwnFiles, Emptied
<1>4. QED BY <1>1, <1>2, <1>3, QuietTask

\* A new request or job only reads.
LEMMA BeginStep ==
    ASSUME IInv, TypeOK', NEW t \in Tasks, NEW tk, Begin(t, tk),
           UNCHANGED <<row, recorded, account, dirs, disk, births, scars>>,
           \A s \in Shares : tk.seen[s] <= births,
           tk.at \notin {"delete", "record"} \/ tk.op = "links",
           tk.at # "rm" \/ tk.op # "links",
           tk.op = "upload" => tk.file \in Files /\ Fresh(tk.file),
           tk.op = "removeFile" => /\ tk.file \in Files /\ tk.share \in Shares
                                   /\ recorded[tk.file] = tk.share,
           tk.op \notin {"upload", "removeFile"} => tk.file = NoFile,
           tk.op # "account"
    PROVE  IInv'
<1>1. task[t] = Idle /\ task'[t] = tk /\ \A u \in Tasks \ {t} : task'[u] = task[u]
  BY BeginTask DEF IInv
<1>2. RowsKept
  BY DEF RowsKept, Exists
<1>3. SoundBefore(t)
  BY <1>1, IdleFields DEF SoundBefore, At, DeletesFilesFirst, Emptied
<1>4. SoundAfter(t)
  <2>1. ASSUME NEW u \in Tasks \ {t}, tk.op = "upload" \/ task[u].op = "upload"
        PROVE  tk.file # task[u].file
    <3>1. CASE tk.op = "upload"
      BY <3>1 DEF Fresh
    <3>2. CASE task[u].op = "upload"
      BY <2>1, <3>2, NullAssumption DEF IInv, UploadsOwnFiles, Fresh
    <3>3. QED BY <2>1, <3>1, <3>2
  <2>2. QED BY <1>1, <2>1 DEF SoundAfter, At, DeletesFilesFirst, Fresh, Emptied
<1>5. QED BY <1>1, <1>2, <1>3, <1>4, QuietTask

LEMMA BeginSteps ==
    ASSUME IInv, TypeOK', NEW t \in Tasks
    PROVE  /\ \A s \in Shares : CreateCheck(t, s) => IInv'
           /\ \A s \in Shares : CompleteRead(t, s) => IInv'
           /\ \A s \in Shares : RemoveFind(t, s) => IInv'
           /\ \A s \in Shares, f \in Files : UploadCheck(t, s, f) => IInv'
           /\ \A s \in Shares, f \in Files : RemoveFileFind(t, s, f) => IInv'
           /\ LinkFind(t) => IInv'
           /\ \A S : Sweep(t, S) /\ t \in {"expired", "unfinished"} => IInv'
<1>0. TypeOK /\ SeenBounded /\ births \in Nat
  BY DEF IInv, TypeOK
<1>1. ASSUME NEW s \in Shares, CreateCheck(t, s) PROVE IInv'
  <2>1. PICK o \in BOOLEAN, v \in BOOLEAN, l \in Lifetimes :
          Begin(t, [Idle EXCEPT !.op = "create", !.at = "mkdir", !.share = s, !.own = o,
                    !.link = v, !.expiresAt = IF l = 0 THEN 0 ELSE clock + l])
    BY <1>1 DEF CreateCheck
  <2> DEFINE tk == [Idle EXCEPT !.op = "create", !.at = "mkdir", !.share = s, !.own = o,
                    !.link = v, !.expiresAt = IF l = 0 THEN 0 ELSE clock + l]
  <2>2. tk.op = "create" /\ tk.at = "mkdir" /\ tk.file = NoFile /\ tk.seen = Unseen
    BY DEF Idle
  <2>3. UNCHANGED <<row, recorded, account, dirs, disk, births, scars>>
    BY <1>1 DEF CreateCheck, db, fs, owners
  <2>4. \A x \in Shares : Unseen[x] <= births
    BY <1>0 DEF Unseen
  <2> HIDE DEF tk
  <2>5. QED BY <2>1, <2>2, <2>3, <2>4, BeginStep DEF tk
<1>2. ASSUME NEW s \in Shares, CompleteRead(t, s) PROVE IInv'
  <2> DEFINE tk == [Idle EXCEPT !.op = "complete", !.at = "check", !.share = s,
                    !.seen = Look({s})]
  <2>1. tk.op = "complete" /\ tk.at = "check" /\ tk.file = NoFile /\ tk.seen = Look({s})
    BY DEF Idle
  <2>2. Begin(t, tk) /\ UNCHANGED <<row, recorded, account, dirs, disk, births, scars>>
    BY <1>2 DEF CompleteRead, db, fs, owners
  <2> HIDE DEF tk
  <2>3. QED BY <1>0, <2>1, <2>2, LookBounded, BeginStep
<1>3. ASSUME NEW s \in Shares, RemoveFind(t, s) PROVE IInv'
  <2> DEFINE tk == [Idle EXCEPT !.op = "remove", !.at = "rm", !.todo = {s}, !.seen = Look({s})]
  <2>1. tk.op = "remove" /\ tk.at = "rm" /\ tk.file = NoFile /\ tk.seen = Look({s})
    BY DEF Idle
  <2>2. Begin(t, tk) /\ UNCHANGED <<row, recorded, account, dirs, disk, births, scars>>
    BY <1>3 DEF RemoveFind, db, fs, owners
  <2> HIDE DEF tk
  <2>3. QED BY <1>0, <2>1, <2>2, LookBounded, BeginStep
<1>4. ASSUME NEW s \in Shares, NEW f \in Files, UploadCheck(t, s, f) PROVE IInv'
  <2> DEFINE tk == [Idle EXCEPT !.op = "upload", !.at = "append", !.share = s, !.file = f,
                    !.seen = Look({s})]
  <2>1. tk.op = "upload" /\ tk.at = "append" /\ tk.file = f /\ tk.seen = Look({s})
    BY DEF Idle
  <2>2. Begin(t, tk) /\ UNCHANGED <<row, recorded, account, dirs, disk, births, scars>> /\ Fresh(f)
    BY <1>4 DEF UploadCheck, db, fs, owners
  <2> HIDE DEF tk
  <2>3. QED BY <1>0, <2>1, <2>2, LookBounded, BeginStep
<1>5. ASSUME NEW s \in Shares, NEW f \in Files, RemoveFileFind(t, s, f) PROVE IInv'
  <2> DEFINE tk == [Idle EXCEPT !.op = "removeFile", !.at = "unlink", !.share = s, !.file = f,
                    !.seen = Look({s})]
  <2>1. tk.op = "removeFile" /\ tk.at = "unlink" /\ tk.share = s /\ tk.file = f
        /\ tk.seen = Look({s})
    BY DEF Idle
  <2>2. Begin(t, tk) /\ UNCHANGED <<row, recorded, account, dirs, disk, births, scars>> /\ recorded[f] = s
    BY <1>5 DEF RemoveFileFind, db, fs, owners
  <2> HIDE DEF tk
  <2>3. QED BY <1>0, <2>1, <2>2, LookBounded, BeginStep
<1>6. ASSUME LinkFind(t) PROVE IInv'
  <2> DEFINE S == {s \in ShareRows : row[s].viaLink}
  <2>1. PICK step \in {"close", "delete"} :
          Begin(t, [Idle EXCEPT !.op = "links", !.at = step, !.todo = S, !.seen = Look(S)])
    BY <1>6 DEF LinkFind
  <2> DEFINE tk == [Idle EXCEPT !.op = "links", !.at = step, !.todo = S, !.seen = Look(S)]
  <2>2. tk.op = "links" /\ tk.at = step /\ tk.file = NoFile /\ tk.seen = Look(S)
    BY DEF Idle
  <2>3. UNCHANGED <<row, recorded, account, dirs, disk, births, scars>>
    BY <1>6 DEF LinkFind, db, fs, owners
  <2>4. Begin(t, tk)
    BY <2>1
  <2> HIDE DEF tk, S
  <2>5. QED BY <1>0, <2>2, <2>3, <2>4, LookBounded, BeginStep
<1>7. ASSUME NEW S, Sweep(t, S), t \in {"expired", "unfinished"} PROVE IInv'
  <2> DEFINE tk == [Idle EXCEPT !.op = t, !.at = "rm", !.todo = S, !.seen = Look(S)]
  <2>1. tk.op = t /\ tk.at = "rm" /\ tk.file = NoFile /\ tk.seen = Look(S)
    BY DEF Idle
  <2>2. Begin(t, tk) /\ UNCHANGED <<row, recorded, account, dirs, disk, births, scars>>
    BY <1>7 DEF Sweep, db, fs, owners
  <2> HIDE DEF tk
  <2>3. QED BY <1>0, <1>7, <2>1, <2>2, LookBounded, BeginStep
<1>8. QED BY <1>1, <1>2, <1>3, <1>4, <1>5, <1>6, <1>7

LEMMA UploadAppendStep ==
    ASSUME IInv, TypeOK', NEW t \in Tasks, NEW s \in Shares, NEW f \in Files,
           UploadAppend(t, s, f)
    PROVE  IInv'
<1>1. SoundBefore(t)
  BY DEF UploadAppend, SoundBefore, At, DeletesFilesFirst, Emptied
<1>2. CASE Fail(t)
  BY <1>1, <1>2, FailStep
<1>3. CASE ~Fail(t)
  <2>1. Advance(t, "rename") /\ RowsKept
    BY <1>3 DEF UploadAppend, RowsKept, Exists, db, owners
  <2>2. SoundAfter(t)
    BY <2>1, AdvanceTask DEF UploadAppend, At, DeletesFilesFirst, SoundAfter, RowsKept, IInv, TypeOK,
        SeenBounded, UploadsOwnFiles, Emptied
  <2>3. QED BY <1>1, <2>1, <2>2, AdvanceTask, QuietTask DEF IInv
<1>4. QED BY <1>2, <1>3

LEMMA UploadRenameStep ==
    ASSUME IInv, TypeOK', NEW t \in Tasks, NEW s \in Shares, NEW f \in Files,
           UploadRename(t, s, f)
    PROVE  IInv'
<1>1. SoundBefore(t)
  BY DEF UploadRename, SoundBefore, At, DeletesFilesFirst, Emptied
<1>2. CASE Fail(t)
  BY <1>1, <1>2, FailStep
<1>3. CASE ~Fail(t)
  <2>1. Advance(t, "record") /\ RowsKept
    BY <1>3 DEF UploadRename, RowsKept, Exists, db, IInv, TypeOK, owners
  <2>2. f \in disk'[s]
    BY <1>3 DEF UploadRename, IInv, TypeOK
  <2>3. SoundAfter(t)
    BY <2>1, <2>2, AdvanceTask
    DEF UploadRename, At, DeletesFilesFirst, SoundAfter, RowsKept, IInv, TypeOK,
        SeenBounded, UploadsOwnFiles, Emptied
  <2>4. QED BY <1>1, <2>1, <2>3, AdvanceTask, QuietTask DEF IInv
<1>4. QED BY <1>2, <1>3

LEMMA CompleteCheckStep ==
    ASSUME IInv, TypeOK', NEW t \in Tasks, NEW s \in Shares, CompleteCheck(t, s)
    PROVE  IInv'
<1>1. SoundBefore(t)
  BY DEF CompleteCheck, SoundBefore, At, DeletesFilesFirst, Emptied
<1>2. CASE Fail(t)
  BY <1>1, <1>2, FailStep
<1>3. CASE ~Fail(t)
  <2>1. Advance(t, "lock") /\ RowsKept
    BY <1>3 DEF CompleteCheck, RowsKept, Exists, db, fs, owners
  <2>2. SoundAfter(t)
    BY <2>1, AdvanceTask DEF CompleteCheck, At, DeletesFilesFirst, SoundAfter, RowsKept, IInv, TypeOK,
        SeenBounded, UploadsOwnFiles, Emptied
  <2>3. QED BY <1>1, <2>1, <2>2, AdvanceTask, QuietTask DEF IInv
<1>4. QED BY <1>2, <1>3

\* A row that is changed in place keeps its incarnation.
LEMMA RowInPlace ==
    ASSUME TypeOK, NEW s \in Shares, Exists(s),
           \/ row' = [row EXCEPT ![s].viaLink = TRUE]
           \/ row' = [row EXCEPT ![s].locked = TRUE]
           \/ row' = [row EXCEPT ![s].locked = FALSE, ![s].createdAt = clock]
    PROVE  \A x \in Shares : /\ Exists(x)' <=> Exists(x)
                             /\ Exists(x) => row'[x].born = row[x].born /\ row'[x].own = row[x].own
<1>1. row[s] \in Row /\ row[s] # NoRow
  BY RowType DEF Exists
<1>2. row'[s] # NoRow
  <2>1. row' \in [Shares -> Row \cup {NoRow}] /\ row'[s] \in Row
    <3>1. /\ [row[s] EXCEPT !.viaLink = TRUE] \in Row
          /\ [row[s] EXCEPT !.locked = TRUE] \in Row
          /\ [row[s] EXCEPT !.locked = FALSE, !.createdAt = clock] \in Row
      BY <1>1 DEF TypeOK, Row
    <3>2. \/ row'[s] = [row[s] EXCEPT !.viaLink = TRUE]
          \/ row'[s] = [row[s] EXCEPT !.locked = TRUE]
          \/ row'[s] = [row[s] EXCEPT !.locked = FALSE, !.createdAt = clock]
      BY DEF TypeOK
    <3>3. QED BY <3>1, <3>2, RowType
  <2>2. QED BY <2>1, RowAssumption
<1>3. row'[s].born = row[s].born /\ row'[s].own = row[s].own /\ \A x \in Shares \ {s} : row'[x] = row[x]
  BY <1>1 DEF TypeOK, Row
<1>4. QED BY <1>2, <1>3 DEF Exists

LEMMA ChangeRowStep ==
    ASSUME IInv, TypeOK', NEW t \in Tasks, NEW s \in Shares,
           CreateConnect(t, s) \/ CompleteLock(t, s)
    PROVE  IInv'
<1>1. SoundBefore(t)
  BY DEF CreateConnect, CompleteLock, SoundBefore, At, DeletesFilesFirst, Emptied
<1>2. CASE Fail(t)
  BY <1>1, <1>2, FailStep
<1>3. CASE ~Fail(t)
  <2>1. Finish(t) /\ MarkIfStale(t, s) /\ UNCHANGED <<recorded, account, dirs, disk, births>>
    BY <1>3 DEF CreateConnect, CompleteLock, fs, owners
  <2>2. RowsKept
    BY <1>3, <2>1, RowInPlace, StaleScars DEF CreateConnect, CompleteLock, IInv, RowsKept
  <2>3. task'[t] = Idle /\ \A u \in Tasks \ {t} : task'[u] = task[u]
    BY <2>1, FinishTask DEF IInv
  <2>4. SoundAfter(t)
    BY <2>3, IdleFields, NullAssumption
    DEF SoundAfter, At, DeletesFilesFirst, IInv, TypeOK, UploadsOwnFiles, Emptied
  <2>5. QED BY <1>1, <2>2, <2>3, <2>4, QuietTask
<1>4. QED BY <1>2, <1>3

\* Steps that move no task.
LEMMA UnmovedStep ==
    ASSUME IInv, TypeOK', Tick \/ (\E s \in Shares : Revert(s)) \/ UNCHANGED vars
    PROVE  IInv'
<1>1. task' = task /\ {} \in SUBSET Tasks
  BY DEF Tick, Revert, vars
<1>2. RowsKept
  <2>1. CASE Tick
    BY <2>1 DEF Tick, RowsKept, Exists, db, fs, owners
  <2>2. ASSUME NEW s \in Shares, Revert(s) PROVE RowsKept
    BY <2>2, RowInPlace DEF Revert, RowsKept, fs, IInv, owners
  <2>3. CASE UNCHANGED vars
    BY <2>3 DEF vars, RowsKept, Exists, db, fs, owners
  <2>4. QED BY <2>1, <2>2, <2>3
<1>3. QED BY <1>1, <1>2, QuietData, SoundStep

\* A crash moves every task, and scars the ids of those it cuts in two.
LEMMA CrashStep == ASSUME IInv, TypeOK', Crash PROVE IInv'
<1> DEFINE S == {s \in Shares : \E t \in Tasks :
                  \/ Emptied(t, s)
                  \/ /\ task[t].share = s
                     /\ \/ At(t, "links", "rm")
                        \/ At(t, "create", "insert")
                        \/ At(t, "removeFile", "forget")}
<1>1. Mark(S, "fault") /\ UNCHANGED <<row, recorded, account, dirs, disk, births>>
      /\ task' = [t \in Tasks |-> Idle]
  BY DEF Crash, db, fs, owners
<1>2. \A s \in Shares : scars[s] \subseteq scars'[s] /\ (s \in S => scars'[s] # {})
  <2> HIDE DEF S
  <2>1. QED BY <1>1, MarkScars DEF IInv, Causes
<1>3. RowsKept
  BY <1>1, <1>2 DEF RowsKept, Exists
<1>4. ASSUME NEW t \in Tasks
      PROVE  SoundBefore(t) /\ SoundAfter(t)
  <2>1. SoundBefore(t)
    BY <1>2 DEF SoundBefore
  <2>2. \A u \in Tasks : task'[u] = Idle
    BY <1>1
  <2>3. SoundAfter(t)
    BY <2>2, IdleFields DEF SoundAfter, At, DeletesFilesFirst, IInv, TypeOK, Emptied
  <2>4. QED BY <2>1, <2>3
<1>5. QED BY <1>3, <1>4, QuietData, SoundStep

-----------------------------------------------------------------------------
(* The loud steps: directories, rows and content that appear and go away. *)

LEMMA IdleAfter ==
    ASSUME IInv, TypeOK', NEW t \in Tasks, task'[t] = Idle,
           \A u \in Tasks \ {t} : task'[u] = task[u]
    PROVE  SoundAfter(t)
BY IdleFields, NullAssumption
DEF SoundAfter, At, DeletesFilesFirst, IInv, TypeOK, UploadsOwnFiles, Emptied

LEMMA MoveAfter ==
    ASSUME IInv, TypeOK', births' = births, NEW t \in Tasks, NEW step, NEW x, NEW S,
           Move(t, step, x, S), task[t].op \notin {"upload", "removeFile", "account"},
           DeletesFilesFirst(t) /\ step = "delete" /\ x \in Shares
              => x \notin dirs' \/ scars'[x] # {},
           task[t].op = "links" /\ step = "rm" /\ x \in Shares => ~Exists(x)'
    PROVE  SoundAfter(t)
<1>1. /\ task'[t].at = step /\ task'[t].op = task[t].op /\ task'[t].share = x
      /\ task'[t].file = task[t].file /\ task'[t].seen = task[t].seen
      /\ \A u \in Tasks \ {t} : task'[u] = task[u]
  BY MoveTask DEF IInv
<1>2. \A u \in Tasks \ {t} : task[u].op = "upload" => task[t].file # task[u].file
  BY DEF IInv, UploadsOwnFiles
<1>3. \A s \in Shares : task[t].seen[s] <= births
  BY DEF IInv, SeenBounded
<1>4. QED BY <1>1, <1>2, <1>3 DEF SoundAfter, At, DeletesFilesFirst, Emptied

\* Steps that leave the rows, or the file rows, alone.
LEMMA SameRows ==
    ASSUME IInv, row' = row, births' = births, account' = account,
           \A s \in Shares : scars[s] \subseteq scars'[s]
    PROVE  RowsSound
BY DEF RowsSound, Exists, IInv, TypeOK, OwnSharesHaveUser

LEMMA FewerFiles ==
    ASSUME IInv, TypeOK',
           \A f \in Files : recorded'[f] = NoShare \/ recorded'[f] = recorded[f],
           \A f \in Files : recorded'[f] # NoShare /\ Exists(recorded[f])
                            => Exists(recorded[f])'
    PROVE  FilesSound
BY NullAssumption DEF FilesSound, IInv, TypeOK, FilesHaveShares, Exists

LEMMA CreateDirectoryStep ==
    ASSUME IInv, TypeOK', NEW t \in Tasks, NEW s \in Shares, CreateDirectory(t, s)
    PROVE  IInv'
<1>1. /\ At(t, "create", "mkdir") /\ task[t].share = s /\ dirs' = dirs \cup {s}
      /\ Advance(t, "insert") /\ UNCHANGED <<row, recorded, account, disk, births>>
  BY DEF CreateDirectory, db, owners
<1>2. /\ \A x \in Shares : scars[x] \subseteq scars'[x]
      /\ Exists(s) => scars'[s] # {}
  BY MarkScars DEF CreateDirectory, IInv, Causes
<1>3. /\ task'[t].at = "insert" /\ task'[t].op = "create" /\ task'[t].share = s
      /\ task'[t].seen = task[t].seen /\ task'[t].file = task[t].file
      /\ \A u \in Tasks \ {t} : task'[u] = task[u]
  BY <1>1, AdvanceTask DEF IInv, At
<1>4. RowsSound
  BY <1>1, <1>2, SameRows
<1>5. FilesSound
  BY <1>1, FewerFiles DEF Exists
<1>6. ContentSound
  BY <1>1 DEF ContentSound
<1>7. DirectoriesSound
  BY <1>1, <1>2, <1>3 DEF DirectoriesSound, Creating, At, Exists
<1>8. SoundBefore(t)
  BY <1>1 DEF SoundBefore, At, DeletesFilesFirst, Emptied
<1>9. SoundAfter(t)
  BY <1>1, <1>3
  DEF SoundAfter, At, DeletesFilesFirst, IInv, SeenBounded, UploadsOwnFiles, Emptied
<1>10. QED
  BY <1>3, <1>4, <1>5, <1>6, <1>7, <1>8, <1>9, SoundTask DEF DataSound

LEMMA CreateInsertStep ==
    ASSUME IInv, TypeOK', NEW t \in Tasks, NEW s \in Shares, CreateInsert(t, s)
    PROVE  IInv'
<1>1. CASE Exists(s) /\ Fail(t)
  <2>1. SoundBefore(t)
    BY <1>1 DEF CreateInsert, SoundBefore, At, DeletesFilesFirst, Fail, db, Exists, owners, Emptied
  <2>2. QED BY <1>1, <2>1, FailStep
<1>1a. CASE ~Exists(s) /\ Finish(t) /\ Mark({s}, "account") /\ UNCHANGED <<db, fs, births>>
  <2>1. \A x \in Shares : scars[x] \subseteq scars'[x] /\ (x = s => scars'[x] # {})
    BY <1>1a, MarkScars DEF IInv, Causes
  <2>2. RowsKept
    BY <1>1a, <2>1 DEF RowsKept, Exists, db, fs, owners
  <2>3. SoundBefore(t)
    BY <2>1 DEF CreateInsert, SoundBefore, At, DeletesFilesFirst, Emptied
  <2>4. QED BY <1>1a, <2>2, <2>3, FinishTask, IdleAfter, QuietTask DEF IInv
<1>2. CASE ~Exists(s) /\ (task[t].own => account) /\ births' = births + 1
  <2> DEFINE new == [locked |-> FALSE, createdAt |-> clock, expiresAt |-> task[t].expiresAt,
                     own |-> task[t].own, viaLink |-> FALSE, born |-> births + 1]
  <2> DEFINE tk == [Idle EXCEPT !.op = "create", !.at = "connect", !.share = s,
                                !.seen = [Unseen EXCEPT ![s] = births + 1]]
  <2>1. /\ At(t, "create", "insert") /\ task[t].share = s /\ ~Exists(s)
        /\ births' = births + 1 /\ row' = [row EXCEPT ![s] = new]
        /\ task' = [task EXCEPT ![t] = tk] \/ Finish(t)
        /\ UNCHANGED <<recorded, account, dirs, disk, scars>>
    <3>1. births' # births
      BY <1>2 DEF IInv, TypeOK
    <3>2. QED BY <1>2, <3>1 DEF CreateInsert, fs, owners, Fail
  <2>2. new \in Row /\ new.born = births + 1 /\ new.own = task[t].own
    BY DEF IInv, TypeOK, Task, Row
  <2>3. tk.op = "create" /\ tk.at = "connect" /\ tk.file = NoFile
        /\ tk.seen = [Unseen EXCEPT ![s] = births + 1]
    BY DEF Idle
  <2> HIDE DEF new, tk
  <2>4. Exists(s)' /\ row'[s].born = births + 1 /\ row'[s].own = task[t].own /\ \A x \in Shares \ {s} : row'[x] = row[x]
    BY <2>1, <2>2, RowAssumption DEF IInv, TypeOK, Exists
  <2>5. births \in Nat
    BY DEF IInv, TypeOK
  <2>6. RowsSound
    <3>1. ASSUME NEW x \in Shares \ {s}, Exists(x)
          PROVE  row[x].born \in Nat /\ row[x].born <= births
      BY <3>1, RowType DEF IInv, SeenBounded, Exists, Row
    <3>2. OwnSharesHaveUser'
      BY <1>2, <2>1, <2>4 DEF OwnSharesHaveUser, IInv, Exists
    <3>3. QED BY <2>1, <2>4, <2>5, <3>1, <3>2 DEF RowsSound, Exists
  <2>7. FilesSound
    BY <2>1, <2>4, FewerFiles, NullAssumption DEF Exists, IInv, TypeOK
  <2>8. ContentSound /\ DirectoriesSound
    BY <2>1, <2>4 DEF ContentSound, DirectoriesSound, Exists
  <2>9. SoundBefore(t)
    BY <2>1, <2>4 DEF SoundBefore, At, DeletesFilesFirst, Emptied
  <2>10. /\ task'[t] \in {tk, Idle}
         /\ \A u \in Tasks \ {t} : task'[u] = task[u]
    BY <2>1, FinishTask DEF IInv, TypeOK
  <2>11. SoundAfter(t)
    <3>1. CASE task'[t] = Idle
      BY <2>10, <3>1, IdleAfter
    <3>2. CASE task'[t] = tk
      <4>1. \A x \in Shares : tk.seen[x] <= births'
        BY <2>1, <2>3, <2>5 DEF Unseen
      <4>2. \A u \in Tasks \ {t} : task[u].op = "upload" => task[u].file # NoFile
        BY NullAssumption DEF IInv, UploadsOwnFiles
      <4>3. QED BY <2>3, <2>10, <3>2, <4>1, <4>2 DEF SoundAfter, At, DeletesFilesFirst, Emptied
    <3>3. QED BY <2>10, <3>1, <3>2
  <2>12. QED
    BY <2>6, <2>7, <2>8, <2>9, <2>10, <2>11, SoundTask DEF DataSound
<1>3. QED BY <1>1, <1>1a, <1>2 DEF CreateInsert, db, fs

LEMMA UploadRecordStep ==
    ASSUME IInv, TypeOK', NEW t \in Tasks, NEW s \in Shares, NEW f \in Files,
           UploadRecord(t, s, f)
    PROVE  IInv'
<1>1. SoundBefore(t)
  BY DEF UploadRecord, SoundBefore, At, DeletesFilesFirst, Emptied
<1>2. CASE Fail(t)
  BY <1>1, <1>2, FailStep
<1>3. CASE ~Fail(t)
  <2>1. /\ At(t, "upload", "record") /\ task[t].share = s /\ task[t].file = f
        /\ Exists(s) /\ recorded' = [recorded EXCEPT ![f] = s] /\ MarkIfStale(t, s)
        /\ Finish(t) /\ UNCHANGED <<row, account, dirs, disk, births>>
    BY <1>3 DEF UploadRecord, fs, owners
  <2>2. /\ \A x \in Shares : scars[x] \subseteq scars'[x]
        /\ Stale(t, s) => scars'[s] # {}
    BY <2>1, StaleScars DEF IInv
  <2>3. task'[t] = Idle /\ \A u \in Tasks \ {t} : task'[u] = task[u]
    BY <2>1, FinishTask DEF IInv
  <2>4. RowsSound /\ ContentSound /\ DirectoriesSound
    BY <2>1, <2>2, SameRows DEF ContentSound, DirectoriesSound, Exists
  <2>5. f \in disk'[s] \/ Deleting(s)' \/ scars'[s] # {}
    <3>1. Current(t, s) \/ Stale(t, s)
      BY <2>1 DEF Current, Stale
    <3>2. Current(t, s) => f \in disk[s] \/ Deleting(s) \/ scars[s] # {}
      BY <2>1 DEF IInv, UploadedContentOnDisk
    <3>3. Deleting(s) => Deleting(s)'
      <4>1. ASSUME NEW u \in Tasks, Emptied(u, s) PROVE Emptied(u, s)'
        <5>1. u # t
          BY <2>1, <4>1 DEF Emptied, At, DeletesFilesFirst
        <5>2. task'[u] = task[u]
          BY <2>3, <5>1
        <5>3. QED BY <2>1, <4>1, <5>2 DEF Emptied, Current, Exists, DeletesFilesFirst
      <4>2. QED BY <4>1 DEF Deleting
    <3>4. QED BY <2>1, <2>2, <3>1, <3>2, <3>3
  <2>6. FilesSound
    <3>1. \A u \in Tasks : task'[u].op \in {"upload", "removeFile"} => task'[u].file # f
      BY <2>1, <2>3, IdleFields DEF IInv, UploadsOwnFiles, At
    <3>2. recorded'[f] = s /\ \A g \in Files \ {f} : recorded'[g] = recorded[g]
      BY <2>1 DEF IInv, TypeOK
    <3>3. QED
      BY <2>1, <2>5, <3>1, <3>2 DEF FilesSound, IInv, FilesHaveShares, Exists
  <2>7. QED BY <1>1, <2>3, <2>4, <2>6, IdleAfter, SoundTask DEF DataSound
<1>4. QED BY <1>2, <1>3

LEMMA RemoveFileUnlinkStep ==
    ASSUME IInv, TypeOK', NEW t \in Tasks, NEW s \in Shares, NEW f \in Files,
           RemoveFileUnlink(t, s, f)
    PROVE  IInv'
<1>1. SoundBefore(t)
  BY DEF RemoveFileUnlink, SoundBefore, At, DeletesFilesFirst, Emptied
<1>2. CASE Fail(t)
  BY <1>1, <1>2, FailStep
<1>3. CASE ~Fail(t)
  <2>1. /\ At(t, "removeFile", "unlink") /\ task[t].share = s /\ task[t].file = f
        /\ disk' = [disk EXCEPT ![s] = @ \ {f}] /\ Advance(t, "forget")
        /\ UNCHANGED <<row, recorded, account, dirs, births, scars>>
    BY <1>3 DEF RemoveFileUnlink, db, owners
  <2>2. /\ task'[t].at = "forget" /\ task'[t].op = "removeFile" /\ task'[t].share = s
        /\ task'[t].seen = task[t].seen /\ task'[t].file = f
        /\ \A u \in Tasks \ {t} : task'[u] = task[u]
    BY <2>1, AdvanceTask DEF IInv, At
  <2>3. RowsSound /\ FilesSound
    BY <2>1, SameRows, FewerFiles DEF Exists
  <2>4. ContentSound
    <3>1. Forgetting(f)'
      BY <2>2 DEF Forgetting, At
    <3>2. \A x \in Shares : \A g \in disk[x] : g \in disk'[x] \/ g = f
      BY <2>1 DEF IInv, TypeOK
    <3>3. QED BY <3>1, <3>2 DEF ContentSound
  <2>5. DirectoriesSound
    BY <2>1 DEF DirectoriesSound, Exists
  <2>6. SoundAfter(t)
    BY <2>1, <2>2
    DEF SoundAfter, At, DeletesFilesFirst, IInv, SeenBounded, UploadsOwnFiles,
        RemovalsNameOwner, Emptied
  <2>7. QED BY <1>1, <2>2, <2>3, <2>4, <2>5, <2>6, SoundTask DEF DataSound
<1>4. QED BY <1>2, <1>3

LEMMA RemoveFileForgetStep ==
    ASSUME IInv, TypeOK', NEW t \in Tasks, NEW s \in Shares, NEW f \in Files,
           RemoveFileForget(t, s, f)
    PROVE  IInv'
<1>1. /\ At(t, "removeFile", "forget") /\ task[t].share = s /\ task[t].file = f
      /\ recorded' = [recorded EXCEPT ![f] = NoShare] /\ Finish(t)
      /\ UNCHANGED <<row, account, dirs, disk, births, scars>>
  BY DEF RemoveFileForget, fs, owners
<1>2. recorded'[f] = NoShare /\ \A g \in Files \ {f} : recorded'[g] = recorded[g]
  BY <1>1 DEF IInv, TypeOK
<1>3. RowsSound /\ FilesSound
  BY <1>1, <1>2, SameRows, FewerFiles DEF Exists
<1>4. ContentSound /\ DirectoriesSound
  BY <1>1 DEF ContentSound, DirectoriesSound, Exists
<1>5. SoundBefore(t)
  BY <1>1, <1>2 DEF SoundBefore, At, DeletesFilesFirst, Emptied
<1>6. QED
  BY <1>1, <1>3, <1>4, <1>5, FinishTask, IdleAfter, SoundTask DEF DataSound, IInv

\* What a finished rm leaves, and what one that stops halfway leaves.
LEMMA RmDirectoryData ==
    ASSUME IInv, TypeOK', NEW t \in Tasks, NEW s \in Shares, RmDirectory(t, s),
           UNCHANGED <<row, recorded, account, births>>,
           Deleting(s)' \/ ~Current(t, s) \/ scars[s] # {}
    PROVE  DataSound /\ s \notin dirs'
<1>1. /\ \A x \in Shares : scars[x] \subseteq scars'[x]
      /\ Stale(t, s) => scars'[s] # {}
  BY StaleScars DEF RmDirectory, IInv
<1>2. RowsSound /\ FilesSound
  BY <1>1, SameRows, FewerFiles DEF Exists
<1>3. dirs' = dirs \ {s} /\ \A x \in Shares \ {s} : disk'[x] = disk[x]
  BY DEF RmDirectory, IInv, TypeOK
<1>4. ContentSound
  BY <1>1, <1>3 DEF ContentSound, Current, Stale, Exists
<1>5. DirectoriesSound
  BY <1>3 DEF DirectoriesSound, Exists
<1>6. QED BY <1>2, <1>3, <1>4, <1>5 DEF DataSound

LEMMA RmHalfwayData ==
    ASSUME IInv, TypeOK', NEW s \in Shares, NEW S, RmHalfway(s, S),
           UNCHANGED <<row, recorded, account, births>>
    PROVE  DataSound /\ \A x \in Shares : x \in S \cup {s} => scars'[x] # {}
<1>1. \A x \in Shares : scars[x] \subseteq scars'[x] /\ (x \in S \cup {s} => scars'[x] # {})
  <2>1. "fault" \in Causes /\ Mark(S \cup {s}, "fault") /\ TypeOK
    BY DEF RmHalfway, IInv, Causes
  <2>2. QED BY <2>1, MarkScars
<1>2. RowsSound /\ FilesSound
  BY <1>1, SameRows, FewerFiles DEF Exists
<1>3. PICK D \in SUBSET disk[s] : disk' = [disk EXCEPT ![s] = D]
  BY DEF RmHalfway
<1>4. dirs' = dirs /\ \A x \in Shares \ {s} : disk'[x] = disk[x]
  BY <1>3 DEF RmHalfway, IInv, TypeOK
<1>5. ContentSound /\ DirectoriesSound
  BY <1>1, <1>4 DEF ContentSound, DirectoriesSound, Exists
<1>6. QED BY <1>1, <1>2, <1>5 DEF DataSound

LEMMA DeleteFilesStep ==
    ASSUME IInv, TypeOK', NEW t \in Tasks, NEW s \in Shares, DeleteFiles(t, s)
    PROVE  IInv'
<1>1. /\ DeletesFilesFirst(t) /\ task[t].at = "rm" /\ UNCHANGED <<row, recorded, account, births>>
  BY DEF DeleteFiles, db, owners
<1>2. SoundBefore(t)
  BY <1>1 DEF SoundBefore, At, DeletesFilesFirst, Emptied
<1>3. CASE RmDirectory(t, s) /\ Move(t, "delete", s, task[t].todo)
  <2>1. /\ task'[t].at = "delete" /\ task'[t].op = task[t].op /\ task'[t].share = s
        /\ \A u \in Tasks \ {t} : task'[u] = task[u]
    BY <1>3, MoveTask DEF IInv
  <2>2. Current(t, s) => Deleting(s)'
    BY <1>1, <1>3, <2>1, MoveTask DEF Deleting, DeletesFilesFirst, Emptied, Current, Exists, IInv
  <2>3. DataSound /\ s \notin dirs'
    BY <1>1, <1>3, <2>2, RmDirectoryData
  <2>4. SoundAfter(t)
    BY <1>1, <1>3, <2>3, MoveAfter DEF DeletesFilesFirst, Emptied
  <2>5. QED BY <1>2, <2>1, <2>3, <2>4, SoundTask
<1>4. CASE RmHalfway(s, {}) /\ Move(t, "delete", s, task[t].todo)
  <2>1. DataSound /\ scars'[s] # {}
    BY <1>1, <1>4, RmHalfwayData
  <2>2. SoundAfter(t)
    BY <1>1, <1>4, <2>1, MoveAfter DEF DeletesFilesFirst, Emptied
  <2>3. \A u \in Tasks \ {t} : task'[u] = task[u]
    BY <1>4, MoveTask DEF IInv
  <2>4. QED BY <1>2, <2>1, <2>2, <2>3, SoundTask
<1>5. CASE RmHalfway(s, {}) /\ Finish(t)
  BY <1>1, <1>2, <1>5, RmHalfwayData, FinishTask, IdleAfter, SoundTask DEF IInv
<1>6. QED BY <1>3, <1>4, <1>5 DEF DeleteFiles

\* The data after rows are deleted whose directories are accounted for.
LEMMA DeleteRowsData ==
    ASSUME IInv, TypeOK', NEW S \in SUBSET Shares, DeleteRows(S), UNCHANGED <<dirs, disk, births>>,
           account' = account \/ \A x \in Shares \ S : Exists(x) => ~row[x].own,
           \A x \in Shares : scars[x] \subseteq scars'[x],
           \A x \in S : x \in dirs => LinkDeleting(x)' \/ scars'[x] # {}
    PROVE  DataSound /\ \A x \in S : ~Exists(x)'
<1>1. /\ \A x \in S : ~Exists(x)' /\ \A f \in Files : recorded'[f] # x
      /\ \A x \in Shares \ S : row'[x] = row[x]
      /\ \A f \in Files : recorded'[f] = recorded[f] \/ recorded'[f] = NoShare
  BY DeletedRows DEF IInv
<1>2. RowsSound
  <2>1. births \in Nat
    BY DEF IInv, TypeOK
  <2>2. OwnSharesHaveUser'
    BY <1>1 DEF OwnSharesHaveUser, IInv, Exists
  <2>3. QED BY <1>1, <2>1, <2>2 DEF RowsSound, Exists
<1>3. FilesSound
  <2>1. \A f \in Files : recorded'[f] # NoShare => recorded'[f] \in Shares \ S
    BY <1>1 DEF IInv, TypeOK
  <2>2. QED BY <1>1, <2>1, FewerFiles DEF Exists
<1>4. ContentSound
  BY DEF ContentSound
<1>5. DirectoriesSound
  BY <1>1 DEF DirectoriesSound, Exists
<1>6. QED BY <1>1, <1>2, <1>3, <1>4, <1>5 DEF DataSound

LEMMA DeleteRowStep ==
    ASSUME IInv, TypeOK', NEW t \in Tasks, NEW s \in Shares, DeleteRow(t, s)
    PROVE  IInv'
<1>1. DeletesFilesFirst(t) /\ task[t].at = "delete" /\ task[t].share = s
  BY DEF DeleteRow
<1>2. CASE ~Exists(s) /\ Fail(t)
  <2>1. SoundBefore(t)
    BY <1>1, <1>2 DEF SoundBefore, At, DeletesFilesFirst, Fail, db, Exists, owners, Emptied
  <2>2. QED BY <1>2, <2>1, FailStep
<1>3. CASE ~(~Exists(s) /\ Fail(t))
  <2>1. /\ Exists(s) /\ DeleteRows({s}) /\ MarkIfStale(t, s)
        /\ Finish(t) \/ Move(t, "rm", NoShare, task[t].todo \ {s})
        /\ UNCHANGED <<account, dirs, disk, births>>
    BY <1>3 DEF DeleteRow, fs, owners
  <2>2. /\ \A x \in Shares : scars[x] \subseteq scars'[x]
        /\ Stale(t, s) => scars'[s] # {}
    BY <2>1, StaleScars DEF IInv
  <2>3. s \in dirs => scars'[s] # {}
    <3>1. Current(t, s) \/ Stale(t, s)
      BY <2>1 DEF Current, Stale
    <3>2. QED BY <1>1, <2>2, <3>1 DEF IInv, DeletedDirectoriesGone, Emptied
  <2>4. DataSound /\ ~Exists(s)'
    BY <2>1, <2>2, <2>3, DeleteRowsData
  <2>5. SoundBefore(t)
    BY <1>1, <2>4 DEF SoundBefore, At, DeletesFilesFirst, Emptied
  <2>6. SoundAfter(t) /\ \A u \in Tasks \ {t} : task'[u] = task[u]
    <3>1. CASE Finish(t)
      BY <3>1, FinishTask, IdleAfter DEF IInv
    <3>2. CASE Move(t, "rm", NoShare, task[t].todo \ {s})
      BY <1>1, <2>1, <3>2, MoveTask, MoveAfter DEF IInv, DeletesFilesFirst, Emptied
    <3>3. QED BY <2>1, <3>1, <3>2
  <2>7. QED BY <2>4, <2>5, <2>6, SoundTask
<1>4. QED BY <1>2, <1>3

LEMMA LinkDeleteRowStep ==
    ASSUME IInv, TypeOK', NEW t \in Tasks, NEW s \in Shares, LinkDeleteRow(t, s)
    PROVE  IInv'
<1>1. At(t, "links", "delete") /\ SoundBefore(t)
  BY DEF LinkDeleteRow, SoundBefore, At, DeletesFilesFirst, Emptied
<1>2. CASE Fail(t)
  BY <1>1, <1>2, FailStep
<1>3. CASE ~Fail(t)
  <2>1. /\ DeleteRows({s}) /\ MarkIfStale(t, s) /\ Move(t, "rm", s, task[t].todo \ {s})
        /\ UNCHANGED <<account, dirs, disk, births>>
    BY <1>3 DEF LinkDeleteRow, fs, owners
  <2>2. /\ task'[t].at = "rm" /\ task'[t].op = "links" /\ task'[t].share = s
        /\ \A u \in Tasks \ {t} : task'[u] = task[u]
    BY <1>1, <2>1, MoveTask DEF IInv, At
  <2>3. LinkDeleting(s)'
    BY <2>2 DEF LinkDeleting, At
  <2>4. DataSound /\ ~Exists(s)'
    BY <2>1, <2>3, StaleScars, DeleteRowsData DEF IInv
  <2>5. SoundAfter(t)
    BY <1>1, <2>1, <2>4, MoveAfter DEF At, DeletesFilesFirst, Emptied
  <2>6. QED BY <1>1, <2>2, <2>4, <2>5, SoundTask
<1>4. QED BY <1>2, <1>3

LEMMA LinkDeleteFilesStep ==
    ASSUME IInv, TypeOK', NEW t \in Tasks, NEW s \in Shares, LinkDeleteFiles(t, s)
    PROVE  IInv'
<1>1. At(t, "links", "rm") /\ task[t].share = s /\ UNCHANGED <<row, recorded, account, births>>
  BY DEF LinkDeleteFiles, db, owners
<1>2. CASE RmHalfway(s, {}) /\ Finish(t)
  <2>1. DataSound /\ scars'[s] # {}
    BY <1>1, <1>2, RmHalfwayData
  <2>2. SoundBefore(t)
    BY <1>1, <2>1 DEF SoundBefore, At, DeletesFilesFirst, Emptied
  <2>3. QED BY <1>2, <2>1, <2>2, FinishTask, IdleAfter, SoundTask DEF IInv
<1>3. CASE RmDirectory(t, s) /\ ~(RmHalfway(s, {}) /\ Finish(t))
  <2>1. PICK step \in {"close", "delete"} : Move(t, step, NoShare, task[t].todo)
    BY <1>3 DEF LinkDeleteFiles
  <2>2. DataSound /\ s \notin dirs'
    BY <1>1, <1>3, RmDirectoryData DEF IInv, LinkRowsGone
  <2>3. SoundBefore(t)
    BY <1>1, <2>2 DEF SoundBefore, At, DeletesFilesFirst, Emptied
  <2>4. SoundAfter(t)
    BY <1>1, <2>1, MoveAfter, NullAssumption DEF At, DeletesFilesFirst, Emptied
  <2>5. QED BY <2>1, <2>2, <2>3, <2>4, MoveTask, SoundTask DEF IInv
<1>4. QED BY <1>2, <1>3 DEF LinkDeleteFiles

LEMMA LinkCloseStep ==
    ASSUME IInv, TypeOK', NEW t \in Tasks, LinkClose(t)
    PROVE  IInv'
<1>1. SoundBefore(t)
  BY DEF LinkClose, SoundBefore, At, DeletesFilesFirst, Emptied
<1>2. CASE Fail(t)
  BY <1>1, <1>2, FailStep
<1>3. CASE ~Fail(t)
  <2> DEFINE S == {s \in ShareRows : row[s].viaLink}
  <2>1. DeleteRows(S) /\ Mark(S, "cascade") /\ Finish(t) /\ UNCHANGED <<account, dirs, disk, births>>
    BY <1>3 DEF LinkClose, fs, owners
  <2>2. S \in SUBSET Shares
    BY DEF ShareRows
  <2> HIDE DEF S
  <2>3. \A s \in Shares : scars[s] \subseteq scars'[s] /\ (s \in S => scars'[s] # {})
    BY <2>1, MarkScars DEF IInv, Causes
  <2>4. DataSound
    BY <2>1, <2>2, <2>3, DeleteRowsData
  <2>5. QED BY <1>1, <2>1, <2>4, FinishTask, IdleAfter, SoundTask DEF IInv
<1>4. QED BY <1>2, <1>3

LEMMA AccountFindStep ==
    ASSUME IInv, TypeOK', NEW t \in Tasks, AccountFind(t)
    PROVE  IInv'
<1> DEFINE S == {s \in ShareRows : row[s].own}
<1>1. PICK step \in {"erase", "purge"} :
        Begin(t, [Idle EXCEPT !.op = "account", !.at = step, !.todo = S, !.seen = Look(S)])
  BY DEF AccountFind
<1> DEFINE tk == [Idle EXCEPT !.op = "account", !.at = step, !.todo = S, !.seen = Look(S)]
<1>2. /\ tk.op = "account" /\ tk.at = step /\ tk.file = NoFile /\ tk.todo = S
      /\ tk.share = NoShare /\ tk.seen = Look(S)
  BY DEF Idle
<1>3. RowsKept /\ row' = row
  BY DEF AccountFind, RowsKept, Exists, db, fs, owners
<1>4. \A s \in Shares : s \notin S => Look(S)[s] = 0
  BY DEF Look
<1>5. \A s \in S : row[s].own
  OBVIOUS
<1>6. Begin(t, tk)
  BY <1>1
<1> HIDE DEF S, tk
<1>7. task[t] = Idle /\ task'[t] = tk /\ \A u \in Tasks \ {t} : task'[u] = task[u]
  BY <1>6, BeginTask DEF IInv
<1>8. SoundBefore(t)
  BY <1>7, IdleFields DEF SoundBefore, At, DeletesFilesFirst, Emptied
<1>9. ASSUME NEW s \in Shares, Current(t, s)' PROVE s \in S
  <2>1. Exists(s) /\ row[s].born # 0
    BY <1>3, <1>9, RowType DEF Current, Exists, IInv, Row
  <2>2. QED BY <1>2, <1>3, <1>4, <1>7, <1>9, <2>1 DEF Current
<1>10. SoundAfter(t)
  <2>1. \A s \in Shares : task'[t].seen[s] <= births'
    BY <1>2, <1>3, <1>7, LookBounded DEF IInv, RowsKept
  <2>2. \A s \in Shares : ~Emptied(t, s)'
    BY <1>2, <1>7, <1>9 DEF Emptied, DeletesFilesFirst
  <2>3. \A u \in Tasks \ {t} : task'[u].op = "upload" => task'[u].file # NoFile
    BY <1>7, NullAssumption DEF IInv, UploadsOwnFiles
  <2>4. QED BY <1>2, <1>3, <1>5, <1>7, <1>9, <2>1, <2>2, <2>3 DEF SoundAfter, At
<1>11. QED BY <1>3, <1>7, <1>8, <1>10, QuietTask

LEMMA AccountFilesStep ==
    ASSUME IInv, TypeOK', NEW t \in Tasks, NEW s \in Shares, AccountFiles(t, s)
    PROVE  IInv'
<1> DEFINE rest == task[t].todo \ {s}
<1> DEFINE listed == {x \in Shares : task[t].seen[x] # 0}
<1>1. /\ task[t].op = "account" /\ task[t].at \in {"purge", "drain"} /\ s \in task[t].todo
      /\ UNCHANGED <<row, recorded, account, births>>
  BY DEF AccountFiles, db, owners
<1>2. \A x \in Shares : Current(t, x) => x \in listed
  BY CurrentSeen DEF IInv
\* What is the same of the task, if it goes on.
<1>3. ASSUME NEW step, Move(t, step, NoShare, rest)
      PROVE  /\ task'[t].at = step /\ task'[t].op = "account" /\ task'[t].share = NoShare
             /\ task'[t].todo = rest /\ task'[t].seen = task[t].seen
             /\ task'[t].file = task[t].file
             /\ \A u \in Tasks \ {t} : task'[u] = task[u]
             /\ \A x \in Shares : Current(t, x)' <=> Current(t, x)
  <2>1. task[t] \in Task
    BY DEF IInv, TypeOK
  <2>2. task'[t].todo = rest
    BY <1>3, <2>1 DEF Move, IInv, TypeOK, Task
  <2>3. QED BY <1>1, <1>3, <2>2, MoveTask DEF IInv, Current, Exists
<1>4. ASSUME NEW step, Move(t, step, NoShare, rest),
             \A x \in Shares : scars[x] \subseteq scars'[x],
             (s \notin dirs' /\ dirs' \subseteq dirs) \/ step = "drain",
             step = "drain" => \A x \in listed : scars'[x] # {},
             step \in {"purge", "erase"} => task[t].at = "purge"
      PROVE  SoundAfter(t)
  <2>1. \A x \in Shares : task'[t].seen[x] <= births'
    BY <1>1, <1>3, <1>4 DEF IInv, SeenBounded
  <2>2. ASSUME NEW x \in Shares, Emptied(t, x)' PROVE x \notin dirs' \/ scars'[x] # {}
    <3>1. step \in {"purge", "erase"} /\ x \notin rest /\ Current(t, x)
      BY <1>3, <1>4, <2>2 DEF Emptied, DeletesFilesFirst
    <3>2. CASE x # s
      <4>1. Emptied(t, x)
        BY <1>1, <1>4, <3>1, <3>2 DEF Emptied
      <4>2. QED BY <1>4, <3>1, <4>1 DEF IInv, DeletedDirectoriesGone
    <3>3. QED BY <1>4, <3>1, <3>2
  <2>3. \A x \in Shares : Current(t, x)' => row'[x].own
    BY <1>1, <1>3, <1>4 DEF IInv, AccountListsOwn
  <2>4. \A u \in Tasks \ {t} : task'[u].op = "upload" => task'[u].file # task'[t].file
    BY <1>3, <1>4 DEF IInv, UploadsOwnFiles
  <2>5. QED BY <1>3, <1>4, <2>1, <2>2, <2>3, <2>4 DEF SoundAfter, At
<1>5. CASE RmDirectory(t, s) /\ task[t].at = "purge"
  <2>1. PICK step \in {"purge", "erase"} : Move(t, step, NoShare, rest)
    BY <1>1, <1>5 DEF AccountFiles, RmDirectory, RmHalfway
  <2>2. \A x \in Shares : Current(t, x) /\ x \notin rest => Emptied(t, x)'
    BY <1>3, <2>1 DEF Emptied
  <2>3. DataSound /\ s \notin dirs' /\ dirs' \subseteq dirs
    BY <1>1, <1>5, <2>2, RmDirectoryData DEF Deleting, RmDirectory
  <2>4. \A x \in Shares : scars[x] \subseteq scars'[x]
    BY <2>3 DEF DataSound, RowsSound
  <2>5. SoundBefore(t)
    BY <1>1, <2>2 DEF SoundBefore, Emptied, At, DeletesFilesFirst
  <2>6. SoundAfter(t)
    BY <1>4, <1>5, <2>1, <2>3, <2>4
  <2>7. QED BY <1>3, <2>1, <2>3, <2>5, <2>6, SoundTask
<1>6. CASE RmDirectory(t, s) /\ task[t].at = "drain"
  <2>1. Finish(t) \/ Move(t, "drain", NoShare, rest)
    BY <1>1, <1>6 DEF AccountFiles, RmDirectory, RmHalfway
  <2>2. \A x \in listed : scars[x] # {}
    BY <1>1, <1>6 DEF IInv, DrainsMarked, At
  <2>3. DataSound
    BY <1>1, <1>2, <1>6, <2>2, RmDirectoryData
  <2>4. \A x \in Shares : scars[x] \subseteq scars'[x]
    BY <2>3 DEF DataSound, RowsSound
  <2>5. SoundBefore(t)
    BY <1>1, <1>6 DEF SoundBefore, Emptied, At, DeletesFilesFirst
  <2>6. CASE Finish(t)
    BY <2>3, <2>5, <2>6, FinishTask, IdleAfter, SoundTask DEF IInv
  <2>7. CASE Move(t, "drain", NoShare, rest)
    <3>1. SoundAfter(t)
      BY <1>4, <2>2, <2>4, <2>7
    <3>2. QED BY <1>3, <2>3, <2>5, <2>7, <3>1, SoundTask
  <2>8. QED BY <2>1, <2>6, <2>7
<1>7. CASE RmHalfway(s, listed) /\ (Finish(t) \/ Move(t, "drain", NoShare, rest))
  <2>2. DataSound /\ \A x \in listed : scars'[x] # {}
    BY <1>1, <1>7, RmHalfwayData
  <2>3. \A x \in Shares : scars[x] \subseteq scars'[x]
    BY <2>2 DEF DataSound, RowsSound
  <2>4. SoundBefore(t)
    BY <1>1, <1>2, <2>2 DEF SoundBefore, Emptied, At, DeletesFilesFirst
  <2>5. CASE Finish(t)
    BY <2>2, <2>4, <2>5, FinishTask, IdleAfter, SoundTask DEF IInv
  <2>6. CASE Move(t, "drain", NoShare, rest)
    <3>1. SoundAfter(t)
      BY <1>4, <2>2, <2>3, <2>6
    <3>2. QED BY <1>3, <2>2, <2>4, <2>6, <3>1, SoundTask
  <2>7. QED BY <1>7, <2>5, <2>6
<1>8. QED BY <1>1, <1>5, <1>6, <1>7 DEF AccountFiles

LEMMA AccountEraseStep ==
    ASSUME IInv, TypeOK', NEW t \in Tasks, AccountErase(t)
    PROVE  IInv'
<1> DEFINE S == {s \in ShareRows : row[s].own \/ row[s].viaLink}
<1>1. ASSUME NEW s \in Shares, Emptied(t, s) PROVE s \in S /\ account
  <2>1. Exists(s) /\ row[s].own
    BY <1>1 DEF AccountErase, At, Emptied, Current, IInv, AccountListsOwn
  <2>2. QED BY <2>1 DEF ShareRows, IInv, OwnSharesHaveUser
<1>2. CASE ~account /\ Fail(t)
  <2>1. SoundBefore(t)
    BY <1>1, <1>2 DEF AccountErase, SoundBefore, At
  <2>2. QED BY <1>2, <2>1, FailStep
<1>3. CASE ~(~account /\ Fail(t))
  <2> DEFINE left == {s \in S : ~Emptied(t, s)}
  <2>1. DeleteRows(S) /\ Mark(left, "account") /\ Finish(t) /\ UNCHANGED <<dirs, disk, births>>
    BY <1>3 DEF AccountErase, fs
  <2>2. S \in SUBSET Shares /\ \A x \in Shares \ S : Exists(x) => ~row[x].own
    BY DEF ShareRows
  <2>3. \A s \in Shares : scars[s] \subseteq scars'[s] /\ (s \in left => scars'[s] # {})
    <3> HIDE DEF left
    <3>1. QED BY <2>1, MarkScars DEF IInv, Causes
  <2>4. \A s \in S : s \in dirs => scars'[s] # {}
    BY <2>2, <2>3 DEF IInv, DeletedDirectoriesGone
  <2> HIDE DEF S, left
  <2>5. DataSound /\ \A s \in S : ~Exists(s)'
    BY <2>1, <2>2, <2>3, <2>4, DeleteRowsData
  <2>6. SoundBefore(t)
    BY <1>1, <2>5 DEF AccountErase, SoundBefore, At
  <2>7. QED BY <2>1, <2>5, <2>6, FinishTask, IdleAfter, SoundTask DEF IInv
<1>4. QED BY <1>2, <1>3

-----------------------------------------------------------------------------
(* The invariant is inductive. *)

LEMMA InitIInv == Init => IInv
<1> SUFFICES ASSUME Init PROVE IInv
  OBVIOUS
<1>1. TypeOK
  BY TypeInit
<1>2. \A t \in Tasks : task[t].op = "none" /\ task[t].at = "idle" /\ \A s \in Shares : task[t].seen[s] = 0
  BY IdleFields DEF Init
<1>3. \A s \in Shares : ~Exists(s)
  BY DEF Init, Exists
<1>4. dirs = {} /\ births = 0 /\ \A f \in Files : recorded[f] = NoShare
  BY DEF Init
<1>5. /\ SeenBounded /\ OwnSharesHaveUser /\ FilesHaveShares /\ AccountListsOwn
      /\ DrainsMarked /\ UploadsOwnFiles /\ RemovalsNameOwner
  BY <1>2, <1>3, <1>4
  DEF SeenBounded, OwnSharesHaveUser, FilesHaveShares, AccountListsOwn, DrainsMarked,
      UploadsOwnFiles, RemovalsNameOwner, At
<1>6. UploadedContentOnDisk /\ DeletedDirectoriesGone /\ LinkRowsGone
  BY <1>2, <1>3
  DEF UploadedContentOnDisk, DeletedDirectoriesGone, LinkRowsGone, Emptied, Current, At
<1>7. RecordedContentOnDisk /\ DirectoriesOwned
  BY <1>4, NullAssumption DEF RecordedContentOnDisk, DirectoriesOwned
<1>8. QED BY <1>1, <1>5, <1>6, <1>7 DEF IInv

LEMMA NextIInv == IInv /\ [Next]_vars => IInv'
<1> SUFFICES ASSUME IInv, [Next]_vars PROVE IInv'
  OBVIOUS
<1>0. TypeOK'
  BY TypeNext DEF IInv
<1>1. CASE Tick \/ (\E s \in Shares : Revert(s)) \/ UNCHANGED vars
  BY <1>0, <1>1, UnmovedStep
<1>2. CASE Crash
  BY <1>0, <1>2, CrashStep
<1>3. CASE StartCron
  <2>1. {"expired", "unfinished", "links"} \subseteq Tasks
    BY DEF Tasks, Crons
  <2>2. QED BY <1>0, <1>3, <2>1, BeginSteps DEF StartCron, SweepExpired, SweepUnfinished
<1>4. ASSUME NEW t \in Requests, StartRequest(t) PROVE IInv'
  <2>1. t \in Tasks
    BY DEF Tasks
  <2>2. QED BY <1>0, <1>4, <2>1, BeginSteps, AccountFindStep DEF StartRequest
<1>5. ASSUME NEW t \in Tasks, Continue(t) PROVE IInv'
  <2>1. CASE LinkClose(t) \/ AccountErase(t)
    BY <1>0, <2>1, LinkCloseStep, AccountEraseStep
  <2>2. ASSUME NEW s \in Shares,
               \/ CreateDirectory(t, s) \/ CreateInsert(t, s) \/ CreateConnect(t, s)
               \/ CompleteCheck(t, s) \/ CompleteLock(t, s)
        PROVE  IInv'
    BY <1>0, <2>2, CreateDirectoryStep, CreateInsertStep, ChangeRowStep, CompleteCheckStep
  <2>3. ASSUME NEW s \in Shares,
               \/ DeleteFiles(t, s) \/ DeleteRow(t, s)
               \/ LinkDeleteRow(t, s) \/ LinkDeleteFiles(t, s) \/ AccountFiles(t, s)
        PROVE  IInv'
    BY <1>0, <2>3, DeleteFilesStep, DeleteRowStep, LinkDeleteRowStep, LinkDeleteFilesStep,
       AccountFilesStep
  <2>4. ASSUME NEW s \in Shares, NEW f \in Files,
               \/ UploadAppend(t, s, f) \/ UploadRename(t, s, f) \/ UploadRecord(t, s, f)
               \/ RemoveFileUnlink(t, s, f) \/ RemoveFileForget(t, s, f)
        PROVE  IInv'
    BY <1>0, <2>4, UploadAppendStep, UploadRenameStep, UploadRecordStep,
       RemoveFileUnlinkStep, RemoveFileForgetStep
  <2>5. QED BY <1>5, <2>1, <2>2, <2>3, <2>4 DEF Continue
<1>6. QED BY <1>1, <1>2, <1>3, <1>4, <1>5 DEF Next

\* The strengthened invariant of share.service.ts, local.service.ts and jobs.service.ts
\* taken together: the initial state has it and every step of a task keeps it.
THEOREM StoreInvariant == Spec => []IInv
BY InitIInv, NextIInv, PTL DEF Spec

\* Whatever the interleaving of requests, jobs and crashes, the content of every file
\* the database lists is on disk, but for the deletions in progress and the five causes.
THEOREM RecordedContentOnDiskAlways == Spec => []RecordedContentOnDisk
<1>1. IInv => RecordedContentOnDisk
  BY DEF IInv
<1>2. QED BY <1>1, StoreInvariant, PTL

\* Every directory has a row or a task about to give it one or delete it, or its id's
\* history holds one of the five causes.
THEOREM DirectoriesOwnedAlways == Spec => []DirectoriesOwned
<1>1. IInv => DirectoriesOwned
  BY DEF IInv
<1>2. QED BY <1>1, StoreInvariant, PTL

=============================================================================
