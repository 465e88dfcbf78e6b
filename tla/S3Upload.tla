------------------------------- MODULE S3Upload -------------------------------
(***************************************************************************)
(* Files of one share in an S3 bucket (S3FileService).  A chunk becomes a  *)
(* part of a multipart upload; the last chunk completes it, which makes    *)
(* the object.  The bucket keeps what it was sent until it is told to      *)
(* complete or to abort; the server keeps the upload of a file in a map in *)
(* memory.  Uploads that nobody goes on with are cleaned up twice: a timer *)
(* ends the sessions of the map that were idle too long, and a job aborts  *)
(* the uploads the bucket began too long ago.                              *)
(*                                                                         *)
(* Creators are upload workers with a new file; a rekeyer replaces the     *)
(* content of a recorded file (re-encryption).  S3 applies a call when its *)
(* answer arrives, or does not apply it; completing is the exception.      *)
(***************************************************************************)
EXTENDS Integers, Sequences, FiniteSets

CONSTANTS
    Creators,   \* workers that upload a new file
    Rekeyers,   \* tabs that re-encrypt the recorded file
    Ids,        \* file ids (UUIDs)
    Recorded,   \* the id of the file that is there at first
    Uploads,    \* upload ids S3 may give
    Requests,   \* slots for requests on their way or being served
    Old,        \* who wrote the recorded file
    Nobody,     \* the sender of a free slot
    NoId,       \* the id of a file whose first chunk is not answered
    NoUpload,   \* a file without a session
    Total,      \* chunks of a file
    MaxRetries, \* attempts at one chunk (5 of a worker, 4 of a tab)
    MaxFileRetries, \* a tab starts a file over this often
    Ttl,        \* MULTIPART_TTL_MS, in ticks
    StaleAge,   \* the age at which the job aborts an upload, in ticks
    AtOnce,     \* bound: workers in a behaviour
    Faults,     \* which faults occur
    MaxFaults   \* bound: faults in a behaviour

Workers == Creators \cup Rekeyers

ASSUME NullAssumption ==
    /\ Nobody \notin Workers \cup {Old} /\ Old \notin Workers
    /\ NoId \notin Ids /\ NoUpload \notin Uploads
    /\ Recorded \in Ids /\ Creators \cap Rekeyers = {}
ASSUME SizeAssumption ==
    /\ Total \in Nat \ {0} /\ MaxRetries \in Nat \ {0}
    /\ MaxFileRetries \in Nat
    /\ Ttl \in Nat /\ StaleAge \in Nat /\ MaxFaults \in Nat /\ AtOnce \in Nat
ASSUME FaultAssumption == Faults \subseteq {"loss", "timeout", "crash", "error", "remove"}

Chunks == 0 .. Total - 1
LastChunk == Total - 1
Piece == [by : Workers \cup {Old}, chunk : Chunks]
Object(w) == [i \in 1 .. Total |-> [by |-> w, chunk |-> i - 1]]
Absent == <<>>

VARIABLES
    client,     \* the workers
    req,        \* their requests
    session,    \* multipartUploads: the upload of a key, and how long it was idle
    multi,      \* the uploads S3 has open, and the server's list of their parts
    bucket,     \* the objects
    rows,       \* File rows: the recorded size, 0 without a row
    share,      \* whether the share has its row
    lock,       \* reencryptingFiles: who put the recorded file there, or Nobody
    timer,      \* cleanupAbandonedUploads
    remover,    \* a deletion of the share or of the recorded file
    scars,      \* history: what may have gone wrong
    faults      \* history: the number of faults

memory == <<session, lock>>
storage == <<multi, bucket>>
database == <<rows, share>>
jobs == <<timer, remover>>
history == <<scars, faults>>
vars == <<client, req, memory, storage, database, jobs, history>>

\* create uses the file's id as the key of a session, replace another key.
Keys == {<<"create", id>> : id \in Ids \ {Recorded}} \cup {<<"reencrypt", Recorded>>}
Key(w, id) == <<IF w \in Creators THEN "create" ELSE "reencrypt", id>>

Client == [phase : {"absent", "download", "sending", "waiting", "done", "failed"},
           chunk : 0 .. Total, id : Ids \cup {NoId},
           retries : 0 .. MaxRetries, attempt : 0 .. MaxFileRetries]
Request == [by : Workers \cup {Nobody}, chunk : Chunks, id : Ids \cup {NoId},
            upload : Uploads \cup {NoUpload},
            at : {"free", "sent", "init", "part", "complete", "record", "catch", "reply"},
            heard : BOOLEAN, ok : BOOLEAN]
Free == [by |-> Nobody, chunk |-> 0, id |-> NoId, upload |-> NoUpload, at |-> "free",
         heard |-> FALSE, ok |-> FALSE]
Multi == [id : Ids \cup {NoId}, parts : Seq(Piece), age : 0 .. StaleAge + 1,
          quiet : 0 .. Ttl + 1, paused : BOOLEAN]
NoMulti == [id |-> NoId, parts |-> <<>>, age |-> 0, quiet |-> 0, paused |-> FALSE]
Session == [upload : Uploads \cup {NoUpload}, idle : 0 .. Ttl + 1]
NoSession == [upload |-> NoUpload, idle |-> 0]

TimerOff == [at |-> "off", todo |-> {}, key |-> <<"reencrypt", Recorded>>, upload |-> NoUpload]
RemoverOff == [at |-> "off", todo |-> {}]

Init ==
    /\ \E W \in SUBSET Workers :
        /\ Cardinality(W) = AtOnce
        /\ client = [w \in Workers |->
                [phase |-> IF w \notin W THEN "absent" ELSE IF w \in Creators THEN "sending" ELSE "download",
                 chunk |-> 0, id |-> IF w \in Creators THEN NoId ELSE Recorded,
                 retries |-> 0, attempt |-> 0]]
    /\ req = [r \in Requests |-> Free]
    /\ session = [k \in Keys |-> NoSession]
    /\ multi = [u \in Uploads |-> NoMulti]
    /\ bucket = [id \in Ids |-> IF id = Recorded THEN Object(Old) ELSE Absent]
    /\ rows = [id \in Ids |-> IF id = Recorded THEN Total ELSE 0]
    /\ share = TRUE
    /\ lock = Nobody
    /\ timer = TimerOff
    /\ remover = RemoverOff
    /\ scars = {} /\ faults = 0

Fault(kind) ==
    /\ kind \in Faults
    /\ faults < MaxFaults /\ faults' = faults + 1
    /\ scars' = scars \cup {kind}
NoFault == UNCHANGED <<scars, faults>>

Open(u) == u \in Uploads /\ multi[u].id # NoId
\* S3 completes or aborts an upload: it, its parts and its id are no more.
Closed(u) == [multi EXCEPT ![u] = NoMulti]

\* Ids and upload ids are never given twice: one that nothing refers to stands for a
\* new one.
FreshIds == {id \in Ids \ {Recorded} :
    /\ bucket[id] = Absent /\ rows[id] = 0
    /\ \A u \in Uploads : Open(u) => multi[u].id # id
    /\ \A r \in Requests : req[r].id # id
    /\ \A w \in Workers : client[w].id # id
    /\ \A k \in Keys : session[k] # NoSession => k[2] # id
    /\ \A e \in timer.todo : e[1][2] # id
    /\ timer.key[2] # id}
FreshUploads == {u \in Uploads :
    /\ ~Open(u)
    /\ \A r \in Requests : req[r].upload # u
    /\ \A k \in Keys : session[k].upload # u
    /\ \A e \in timer.todo : e[2] # u
    /\ timer.upload # u /\ u \notin remover.todo}

-----------------------------------------------------------------------------
(* The server: create and replace, one step per awaited call. *)

\* The handler ends.  replaceFileContent takes the file out of its set after the
\* last chunk; nobody reads the answer to a request its worker gave up.
Finish(r, ok) ==
    LET q == req[r] IN
    /\ req' = [req EXCEPT ![r] = IF q.heard THEN [q EXCEPT !.at = "reply", !.ok = ok] ELSE Free]
    /\ lock' = IF q.by \in Rekeyers /\ q.chunk = LastChunk THEN Nobody ELSE lock

\* A refusal before the try of replaceFileContent leaves the set as it is.
Refuse(r) ==
    /\ req' = [req EXCEPT ![r] = IF @.heard THEN [@ EXCEPT !.at = "reply", !.ok = FALSE] ELSE Free]
    /\ UNCHANGED lock

Step(r, at) == req' = [req EXCEPT ![r].at = at]

\* Mutant: a chunk does not count as activity.
TouchLost(k) == session
\* Any chunk of a session is activity.
Touch(k) == [session EXCEPT ![k].idle = 0]

\* Every chunk but the first needs the session, and notes its upload.  (quiet and
\* paused are history: the time since the last chunk, whatever the code makes of it.)
FindSession(r, id) ==
    LET k == Key(req[r].by, id)  u == session[k].upload IN
    IF u = NoUpload THEN Step(r, "catch") /\ UNCHANGED <<session, multi>>
    ELSE /\ req' = [req EXCEPT ![r].at = "part", ![r].upload = u]
         /\ session' = Touch(k)
         /\ multi' = IF Open(u) THEN [multi EXCEPT ![u].quiet = 0] ELSE multi

\* FileService.create and .replaceFileContent up to the storage service.
Check(r) ==
    LET q == req[r] IN
    /\ q.at = "sent"
    /\ \/ /\ q.by \in Creators /\ ~share
          /\ Refuse(r) /\ UNCHANGED <<session, multi, scars>>
       \/ /\ q.by \in Rekeyers
          /\ \/ ~share \/ rows[q.id] = 0 \/ (q.chunk = 0) = (lock # Nobody)
          /\ Refuse(r) /\ UNCHANGED <<session, multi, scars>>
       \/ /\ q.by \in Creators /\ share
          /\ IF q.chunk = 0
             THEN /\ FreshIds # {}
                  /\ req' = [req EXCEPT ![r].at = "init", ![r].id = CHOOSE id \in FreshIds : TRUE]
                  /\ UNCHANGED <<session, multi>>
             ELSE FindSession(r, q.id)
          /\ UNCHANGED <<lock, scars>>
       \/ /\ q.by \in Rekeyers /\ share /\ rows[q.id] # 0 /\ (q.chunk = 0) = (lock = Nobody)
          /\ lock' = IF lock = Nobody THEN q.by ELSE lock
          /\ scars' = IF lock \in {Nobody, q.by} THEN scars ELSE scars \cup {"intruder"}
          /\ IF q.chunk = 0 THEN Step(r, "init") /\ UNCHANGED <<session, multi>> ELSE FindSession(r, q.id)
    /\ UNCHANGED <<client, bucket, database, jobs, faults>>

\* CreateMultipartUpload; the new upload becomes the session of its key.
InitUpload(r) ==
    LET q == req[r] IN
    /\ q.at = "init"
    /\ \/ Fault("error") /\ Step(r, "catch") /\ UNCHANGED <<session, multi>>
       \/ LET u == CHOOSE u \in FreshUploads : TRUE IN
            /\ FreshUploads # {}
            /\ multi' = [multi EXCEPT ![u] = [NoMulti EXCEPT !.id = q.id]]
            /\ session' = [session EXCEPT ![Key(q.by, q.id)] = [upload |-> u, idle |-> 0]]
            /\ req' = [req EXCEPT ![r].at = "part", ![r].upload = u]
            /\ NoFault
    /\ UNCHANGED <<client, lock, bucket, database, jobs>>

\* UploadPart, with the upload the handler has noted, and the part list it belongs to.
UploadPart(r) ==
    LET q == req[r]  u == q.upload IN
    /\ q.at = "part"
    /\ \/ /\ ~Open(u) /\ Step(r, "catch")
          /\ NoFault /\ UNCHANGED <<multi, lock>>
       \/ /\ Fault("error") /\ Step(r, "catch")
          /\ UNCHANGED <<multi, lock>>
       \/ /\ Open(u)
          /\ multi' = [multi EXCEPT ![u].parts = Append(@, [by |-> q.by, chunk |-> q.chunk])]
          /\ IF q.chunk = LastChunk THEN Step(r, "complete") /\ UNCHANGED lock ELSE Finish(r, TRUE)
          /\ NoFault
    /\ UNCHANGED <<client, session, bucket, database, jobs>>

\* S3 takes a list of parts that ascends, so that a chunk that came twice spoils it.
Ascending(s) == \A i \in 1 .. Len(s) - 1 : s[i].chunk < s[i + 1].chunk
Completable(u) == Open(u) /\ Ascending(multi[u].parts)

\* CompleteMultipartUpload makes the object and forgets the session.  When its answer
\* is lost the object is there all the same.
CompleteUpload(r) ==
    LET q == req[r]  u == q.upload
        made == [bucket EXCEPT ![q.id] = multi[u].parts]
    IN
    /\ q.at = "complete"
    /\ \/ /\ ~Completable(u) /\ Step(r, "catch")
          /\ NoFault /\ UNCHANGED <<session, storage>>
       \/ /\ Fault("error") /\ Step(r, "catch")
          /\ \/ UNCHANGED <<session, storage>>
             \/ /\ Completable(u) /\ bucket' = made /\ multi' = Closed(u)
                /\ UNCHANGED session
       \/ /\ Completable(u) /\ bucket' = made /\ multi' = Closed(u)
          /\ session' = [session EXCEPT ![Key(q.by, q.id)] = NoSession]
          /\ Step(r, "record") /\ NoFault
    /\ UNCHANGED <<client, lock, database, jobs>>

\* Mutant: the row is written before the object is known to be there.
RecordBlind(r) ==
    LET q == req[r] IN
    /\ q.at \in {"complete", "record"}
    /\ rows' = [rows EXCEPT ![q.id] = Total]
    /\ Finish(r, TRUE)
    /\ UNCHANGED <<client, session, storage, share, jobs, history>>

\* HeadObject and the row: create inserts one, which needs the share's, and replace
\* updates it, which needs the file's, within its try.
Record(r) ==
    LET q == req[r]
        possible == /\ bucket[q.id] # Absent
                    /\ IF q.by \in Creators THEN share /\ rows[q.id] = 0 ELSE rows[q.id] # 0
    IN
    /\ q.at = "record"
    /\ \/ /\ possible
          /\ rows' = [rows EXCEPT ![q.id] = Len(bucket[q.id])]
          /\ Finish(r, TRUE) /\ NoFault
       \/ /\ IF possible THEN Fault("error") ELSE NoFault
          /\ IF q.by \in Creators THEN Finish(r, FALSE) ELSE Step(r, "catch") /\ UNCHANGED lock
          /\ UNCHANGED rows
    /\ UNCHANGED <<client, session, storage, share, jobs>>

\* Mutant: the session goes, the upload at S3 stays.
CatchForgetful(r) ==
    LET q == req[r]  k == Key(q.by, q.id) IN
    /\ q.at = "catch"
    /\ session' = [session EXCEPT ![k] = NoSession]
    /\ Finish(r, FALSE)
    /\ UNCHANGED <<client, storage, database, jobs, history>>

\* The catch aborts whatever upload the key has by now, and forgets the session
\* whether or not S3 did abort it.
Catch(r) ==
    LET q == req[r]  k == Key(q.by, q.id) IN
    /\ q.at = "catch"
    /\ session' = [session EXCEPT ![k] = NoSession]
    /\ Finish(r, FALSE)
    /\ \/ Fault("error") /\ session[k] # NoSession /\ UNCHANGED multi
       \/ /\ multi' = IF session[k] = NoSession THEN multi ELSE Closed(session[k].upload)
          /\ NoFault
    /\ UNCHANGED <<client, bucket, database, jobs>>

Serve(r) == Check(r) \/ InitUpload(r) \/ UploadPart(r) \/ CompleteUpload(r) \/ Record(r) \/ Catch(r)

-----------------------------------------------------------------------------
(* The server: what runs besides the requests. *)

\* cleanupAbandonedUploads goes over the entries the map has now.
TimerStart ==
    /\ timer.at = "off" /\ \E k \in Keys : session[k] # NoSession
    /\ timer' = [timer EXCEPT !.at = "look",
                             !.todo = {<<k, session[k].upload>> : k \in {x \in Keys : session[x] # NoSession}}]
    /\ UNCHANGED <<client, req, memory, storage, database, remover, history>>

\* (One that left the map meanwhile may have been idle or not.)
Idle(e) == session[e[1]].upload = e[2] => session[e[1]].idle > Ttl

\* It lists the uploads of the bucket for the sessions that were idle too long.
TimerLook ==
    /\ timer.at = "look"
    /\ \/ timer.todo = {} /\ timer' = TimerOff
       \/ \E e \in timer.todo :
            \/ /\ Idle(e)
               /\ timer' = [at |-> "abort", todo |-> timer.todo \ {e}, key |-> e[1], upload |-> e[2]]
            \/ /\ ~Idle(e) \/ session[e[1]].upload # e[2]
               /\ timer' = [timer EXCEPT !.todo = @ \ {e}]
    /\ UNCHANGED <<client, req, memory, storage, database, remover, history>>

\* The abort may fail; only an upload that really paused gives a worker a reason to fail.
TimerAbort ==
    /\ timer.at = "abort"
    /\ timer' = [timer EXCEPT !.at = "drop"]
    /\ \/ Fault("error") /\ UNCHANGED multi
       \/ /\ multi' = Closed(timer.upload)
          /\ scars' = IF multi[timer.upload].paused THEN scars \cup {"idle"} ELSE scars
          /\ UNCHANGED faults
    /\ UNCHANGED <<client, req, memory, bucket, database, remover>>

\* Mutant: the session of an aborted upload stays in the map.
TimerKeeps ==
    /\ timer.at = "drop"
    /\ timer' = [timer EXCEPT !.at = "look", !.key = TimerOff.key, !.upload = NoUpload]
    /\ UNCHANGED <<client, req, memory, storage, database, remover, history>>

\* The entry is deleted by its key, whatever the key has by now.
TimerDrop ==
    /\ timer.at = "drop"
    /\ session' = [session EXCEPT ![timer.key] = NoSession]
    /\ scars' = IF session[timer.key].upload \in {NoUpload, timer.upload} THEN scars
                ELSE scars \cup {"dropped"}
    /\ timer' = [timer EXCEPT !.at = "look", !.key = TimerOff.key, !.upload = NoUpload]
    /\ UNCHANGED <<client, req, lock, storage, database, remover, faults>>

Timer == TimerStart \/ TimerLook \/ TimerAbort \/ TimerDrop

\* cleanupStaleS3Multiparts, at one of the uploads the bucket lists: the age counts
\* from the first chunk, and the map is not asked.
StaleAbort(u) ==
    /\ Open(u) /\ multi[u].age > StaleAge
    /\ multi' = Closed(u) /\ scars' = scars \cup {"stale"}
    /\ UNCHANGED <<client, req, memory, bucket, database, jobs, faults>>

\* A deletion of the recorded file (remove), or of the share (deleteAllFiles).
RemoveStart ==
    /\ remover.at = "off" /\ share /\ Fault("remove")
    /\ \/ rows[Recorded] # 0 /\ remover' = [remover EXCEPT !.at = "object"]
       \/ remover' = [at |-> "uploads", todo |-> {u \in Uploads : Open(u)}]
    /\ UNCHANGED <<client, req, memory, storage, database, timer>>

RemoveObject ==
    /\ remover.at = "object"
    /\ \/ Fault("error") /\ remover' = RemoverOff /\ UNCHANGED bucket
       \/ /\ bucket' = [bucket EXCEPT ![Recorded] = Absent]
          /\ remover' = [remover EXCEPT !.at = "row"] /\ NoFault
    /\ UNCHANGED <<client, req, memory, multi, database, timer>>

RemoveRow ==
    /\ remover.at = "row"
    /\ rows' = [rows EXCEPT ![Recorded] = 0]
    /\ remover' = RemoverOff
    /\ UNCHANGED <<client, req, memory, storage, share, timer, history>>

\* An upload that is gone by now, or an error, ends the aborting, not the deletion.
RemoveUploads ==
    /\ remover.at = "uploads"
    /\ \/ /\ remover.todo = {} /\ remover' = [remover EXCEPT !.at = "objects"]
          /\ NoFault /\ UNCHANGED multi
       \/ \E u \in remover.todo :
            /\ remover' = IF Open(u) THEN [remover EXCEPT !.todo = @ \ {u}]
                                    ELSE [at |-> "objects", todo |-> {}]
            /\ multi' = Closed(u) /\ NoFault
       \/ /\ remover.todo # {} /\ Fault("error")
          /\ remover' = [at |-> "objects", todo |-> {}] /\ UNCHANGED multi
    /\ UNCHANGED <<client, req, memory, bucket, database, timer>>

\* When the objects cannot be deleted the owner's request fails and the share stays.
RemoveObjects ==
    /\ remover.at = "objects"
    /\ \/ Fault("error") /\ remover' = RemoverOff /\ UNCHANGED bucket
       \/ /\ bucket' = [id \in Ids |-> Absent]
          /\ remover' = [remover EXCEPT !.at = "share"] /\ NoFault
    /\ UNCHANGED <<client, req, memory, multi, database, timer>>

RemoveShare ==
    /\ remover.at = "share"
    /\ share' = FALSE /\ rows' = [id \in Ids |-> 0]
    /\ remover' = RemoverOff
    /\ UNCHANGED <<client, req, memory, storage, timer, history>>

Remover == RemoveStart \/ RemoveObject \/ RemoveRow \/ RemoveUploads \/ RemoveObjects \/ RemoveShare

-----------------------------------------------------------------------------
(* The workers, the network, the clock. *)

Send(w, r) ==
    /\ client[w].phase = "sending" /\ req[r] = Free
    /\ req' = [req EXCEPT ![r] = [Free EXCEPT !.by = w, !.chunk = client[w].chunk,
                                             !.id = client[w].id, !.at = "sent", !.heard = TRUE]]
    /\ client' = [client EXCEPT ![w].phase = "waiting"]
    /\ UNCHANGED <<memory, storage, database, jobs, history>>

\* Mutant: the worker never gives up.
SendForever(c) == [c EXCEPT !.retries = @ + 1, !.phase = "sending"]

\* An upload worker sends the chunk again, and fails after its last attempt.  (It means to
\* end at once when the session is gone; the catch answers every error alike.)
SendAgain(c) == [c EXCEPT !.retries = @ + 1,
                          !.phase = IF c.retries + 1 >= MaxRetries THEN "failed" ELSE "sending"]

\* A tab that re-encrypts goes back to the first chunk, and to the download before it.
StartOver(c) ==
    IF c.attempt < MaxFileRetries
    THEN [c EXCEPT !.phase = "download", !.chunk = 0, !.retries = 0, !.attempt = @ + 1]
    ELSE [c EXCEPT !.phase = "failed"]
RekeyAgain(c) ==
    IF c.retries + 1 < MaxRetries THEN [c EXCEPT !.retries = @ + 1, !.phase = "sending"] ELSE StartOver(c)

Retry(w) == IF w \in Creators THEN SendAgain(client[w]) ELSE RekeyAgain(client[w])

Progress(c, id) == [c EXCEPT !.id = id, !.retries = 0, !.chunk = @ + 1,
                             !.phase = IF c.chunk = LastChunk THEN "done" ELSE "sending"]

\* reencryptAll downloads the file, which must still be there and under the old key; the
\* stream is of one object.
Readable(id) == bucket[id] # Absent /\ \A i \in DOMAIN bucket[id] : bucket[id][i].by = Old
Download(w) ==
    /\ client[w].phase = "download"
    /\ \/ /\ client' = [client EXCEPT ![w] =
                IF share /\ rows[@.id] # 0 /\ Readable(@.id) THEN [@ EXCEPT !.phase = "sending"]
                                                          ELSE StartOver(@)]
          /\ NoFault
       \/ /\ \E kind \in {"loss", "error"} : Fault(kind)
          /\ client' = [client EXCEPT ![w] = StartOver(@)]
    /\ UNCHANGED <<req, memory, storage, database, jobs>>

Hear(r) ==
    /\ req[r].at = "reply"
    /\ client' = [client EXCEPT ![req[r].by] =
            IF req[r].ok THEN Progress(@, req[r].id) ELSE Retry(req[r].by)]
    /\ req' = [req EXCEPT ![r] = Free]
    /\ UNCHANGED <<memory, storage, database, jobs, history>>

\* The connection breaks before the request arrives, or before its answer does.
Lose(r) ==
    /\ req[r].heard /\ req[r].at \in {"sent", "reply"} /\ Fault("loss")
    /\ req' = [req EXCEPT ![r] = Free]
    /\ client' = [client EXCEPT ![req[r].by] = Retry(req[r].by)]
    /\ UNCHANGED <<memory, storage, database, jobs>>

\* The worker gives a request up that the server goes on with.
Timeout(r) ==
    /\ req[r].heard /\ req[r].at # "reply" /\ Fault("timeout")
    /\ req' = [req EXCEPT ![r].heard = FALSE]
    /\ client' = [client EXCEPT ![req[r].by] = Retry(req[r].by)]
    /\ UNCHANGED <<memory, storage, database, jobs>>

\* A restart ends the requests and the deletion, and empties the map and the set.
Crash ==
    /\ Fault("crash")
    /\ req' = [r \in Requests |-> Free]
    /\ client' = [w \in Workers |->
            IF client[w].phase = "waiting" THEN Retry(w) ELSE client[w]]
    /\ session' = [k \in Keys |-> NoSession] /\ lock' = Nobody
    /\ timer' = TimerOff /\ remover' = RemoverOff
    /\ UNCHANGED <<storage, database>>

\* Time passes, for the sessions and for the uploads of the bucket.
Tick ==
    /\ session' = [k \in Keys |-> IF session[k] = NoSession THEN NoSession ELSE
            [session[k] EXCEPT !.idle = IF @ > Ttl THEN @ ELSE @ + 1]]
    /\ multi' = [u \in Uploads |-> IF ~Open(u) THEN multi[u] ELSE
            [multi[u] EXCEPT !.age = IF @ > StaleAge THEN @ ELSE @ + 1,
                             !.quiet = IF @ > Ttl THEN @ ELSE @ + 1,
                             !.paused = @ \/ multi[u].quiet >= Ttl]]
    /\ UNCHANGED <<client, req, lock, bucket, database, jobs, history>>

-----------------------------------------------------------------------------

Next ==
    \/ \E w \in Workers : Download(w) \/ \E r \in Requests : Send(w, r)
    \/ \E r \in Requests : Serve(r) \/ Hear(r) \/ Lose(r) \/ Timeout(r)
    \/ Timer \/ Remover \/ Crash \/ Tick
    \/ \E u \in Uploads : StaleAbort(u)

Spec == Init /\ [][Next]_vars

\* The timer and the job run on and time passes.  Nothing is assumed of the faults, of
\* the workers, or of handlers: S3 may never answer one.
Fairness ==
    /\ WF_vars(TimerStart) /\ WF_vars(TimerLook \/ TimerAbort \/ TimerDrop)
    /\ \A u \in Uploads : WF_vars(StaleAbort(u))
    /\ WF_vars(Tick)

FairSpec == Spec /\ Fairness

-----------------------------------------------------------------------------
(* Properties. *)

\* The types of the state; what a worker counts stays within what it may.
TypeOK ==
    /\ client \in [Workers -> Client]
    /\ req \in [Requests -> Request]
    /\ session \in [Keys -> Session]
    /\ multi \in [Uploads -> Multi]
    /\ bucket \in [Ids -> Seq(Piece)]
    /\ rows \in [Ids -> Nat]
    /\ share \in BOOLEAN /\ lock \in Rekeyers \cup {Nobody}

Removing == remover.at \in {"row", "share"} \/ {"remove", "crash"} \subseteq scars
Scarred(kinds) == scars \cap kinds # {}
Late(id) == id = Recorded /\ Scarred({"timeout", "intruder"})

\* A file with a row has an object of every chunk of one worker, in order, and of the
\* recorded size, however often chunks were sent and however handlers overlapped.  Two
\* exceptions: a deletion between the object and the row, and a first chunk of a
\* re-encryption that its tab gave up and that the server checks only when the last
\* chunk has failed (nothing asks whether the list of parts is complete).
\* And an object that has no row (only a deletion of the share would find it) is about
\* to get one, unless the server stopped, S3 failed or the file was deleted: lost
\* answers, given up requests and both clean-ups leave none behind.
ObjectsMatchRows == \A id \in Ids :
    /\ rows[id] # 0 /\ ~Removing /\ ~Late(id) =>
            /\ \E w \in Workers \cup {Old} : bucket[id] = Object(w)
            /\ rows[id] = Total
    /\ bucket[id] # Absent /\ rows[id] = 0 =>
            \/ \E r \in Requests : req[r].at = "record" /\ req[r].id = id
            \/ Scarred({"crash", "error", "remove"})

\* A worker tells the truth.  A file it shows as uploaded is stored and listed, unless
\* it was deleted since; and it fails only when something went wrong, a fault, an upload
\* that really paused, or the job (stale).  The timer alone never ends an upload whose
\* chunks keep coming; the job does, an hour after its first chunk, contrary to the
\* comment at MULTIPART_TTL_MS.
Crowd == {w \in Rekeyers : \E v \in Rekeyers \ {w} : client[v].phase # "absent"}
WorkersTellTrue == \A w \in Workers :
    /\ client[w].phase = "done" /\ ~Scarred({"remove"}) /\ ~Late(client[w].id) =>
            rows[client[w].id] = Total /\ \E v \in Workers : bucket[client[w].id] = Object(v)
    /\ client[w].phase = "failed" => scars # {} \/ w \in Crowd

\* While no call to S3 fails, no restart and no pause: an upload S3 still holds parts
\* of is one the map knows, so that the 30 minutes' timer will free it.
OpenUploadsKnown == \A u \in Uploads : Open(u) =>
    \/ \E k \in Keys : session[k].upload = u
    \/ Scarred({"crash", "error", "dropped"}) \/ Late(multi[u].id)

\* Whatever fails, S3 does not hold the parts of an upload for ever and the map does
\* not hold a session for ever.
UploadsEnd ==
    /\ \A u \in Uploads : Open(u) ~> ~Open(u)
    /\ \A k \in Keys : session[k] # NoSession ~> session[k] = NoSession
===============================================================================
