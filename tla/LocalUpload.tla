----------------------------- MODULE LocalUpload -----------------------------
(***************************************************************************)
(* The chunked upload of files to a local share: the upload worker of the  *)
(* browser, the requests on their way, and LocalFileService.create on the  *)
(* server.  The worker sends one chunk at a time and sends it again when   *)
(* the answer is an error or does not come.  The server appends a chunk to *)
(* the file's .tmp-chunk when the size of that file asks for this chunk;   *)
(* after the last one it gives the file its name and creates its row.      *)
(*                                                                         *)
(* The share has a signed-in owner and the server takes no anonymous       *)
(* shares: the guards look at the browser's access token, whose cookie     *)
(* lapses and which the worker renews.  The firewall before the server may *)
(* answer with a challenge.                                                *)
(*                                                                         *)
(* A file is a sequence of chunk numbers; only its last chunk is short.    *)
(***************************************************************************)
EXTENDS Integers, Sequences, FiniteSets, SequencesExt

CONSTANTS
    Uploads,        \* the files being uploaded to one share, each by its own worker
    Ids,            \* file ids (UUIDs) the server may generate
    Requests,       \* slots for requests on their way or being served
    NoUpload,       \* the upload of an id nobody has
    NoId,           \* the id of a file whose first chunk is not answered
    Absent,         \* a file that is not on disk
    NoRow,          \* a file without a row
    ChunkSize,      \* bytes of a full chunk
    Size,           \* bytes of every file
    MaxShareSize,   \* share.maxSize
    MaxRetries,     \* attempts at one chunk (MAX_RETRIES, 5)
    MaxRefreshes,   \* renewals of the token after a 403 (3)
    Faults,         \* which faults occur
    MaxFaults       \* bound: faults in a behaviour

ASSUME NullAssumption == NoUpload \notin Uploads /\ NoId \notin Ids
ASSUME SizeAssumption ==
    /\ ChunkSize \in Nat \ {0} /\ Size \in Nat /\ MaxShareSize \in Nat
    /\ MaxRetries \in Nat \ {0} /\ MaxRefreshes \in Nat /\ MaxFaults \in Nat
ASSUME FaultAssumption ==
    Faults \subseteq {"loss", "timeout", "crash", "purge", "session", "challenge"}

\* Math.ceil(file.size / chunkSize), and one chunk for an empty file.
CeilDiv(a, b) == (a + b - 1) \div b
Total == IF Size = 0 THEN 1 ELSE CeilDiv(Size, ChunkSize)
Chunks == 0 .. Total - 1
LastChunk == Total - 1
LastSize == Size - LastChunk * ChunkSize

Content == Seq(Chunks)
Whole == [i \in 1 .. Total |-> i - 1]

ASSUME AbsentAssumption == Absent \notin Content /\ NoRow \notin Nat

\* What stat says of a file; it does not find an absent one and the code takes 0.
Bytes(content) ==
    IF content = Absent THEN 0
    ELSE LET short == Cardinality({i \in DOMAIN content : content[i] = LastChunk})
         IN  (Len(content) - short) * ChunkSize + short * LastSize

BytesOf(chunk) == Bytes(<<chunk>>)

VARIABLES
    client,     \* per upload, the state of its worker
    req,        \* the requests
    tmp,        \* the .tmp-chunk file of every id
    disk,       \* the file under its final name
    rows,       \* File rows: the recorded size
    locked,     \* uploadLocked of the share
    cookie,     \* whether the browser has the cookie of the access token
    session,    \* the owner's session on the server
    owner,      \* history: the upload an id was generated for
    raced,      \* history: uploads given up, or cleaned up, while the server was at them
    faults      \* history: number of faults

files == <<tmp, disk, rows>>
login == <<cookie, session>>
vars == <<client, req, files, locked, login, owner, raced, faults>>

Phases == {"sending", "waiting", "done", "failed"}
Client == [phase : Phases, chunk : 0 .. Total, id : Ids \cup {NoId}, retries : 0 .. MaxRetries,
           refreshes : 0 .. MaxRefreshes]

\* The token can be renewed; or cannot, being still taken; or its user is deleted.
Sessions == {"live", "ended", "deleted"}

Replies == {"none", "ok", "unauthorized", "forbidden", "locked", "unexpected", "tooLarge", "error"}
Request == [upload : Uploads \cup {NoUpload}, chunk : Chunks, id : Ids \cup {NoId},
            at : {"free", "sent", "append", "rename", "record", "reply"},
            heard : BOOLEAN, cookie : BOOLEAN, reply : Replies, expected : Nat]
Free == [upload |-> NoUpload, chunk |-> 0, id |-> NoId, at |-> "free", heard |-> FALSE,
         cookie |-> FALSE, reply |-> "none", expected |-> 0]

Init ==
    /\ client = [u \in Uploads |-> [phase |-> "sending", chunk |-> 0, id |-> NoId, retries |-> 0,
                                   refreshes |-> 0]]
    /\ req = [r \in Requests |-> Free]
    /\ tmp = [id \in Ids |-> Absent]
    /\ disk = [id \in Ids |-> Absent]
    /\ rows = [id \in Ids |-> NoRow]
    /\ locked = FALSE
    /\ cookie = TRUE
    /\ session = "live"
    /\ owner = [id \in Ids |-> NoUpload]
    /\ raced = {}
    /\ faults = 0

-----------------------------------------------------------------------------
(* The server: the guards and LocalFileService.create, one step per awaited change. *)

Served == {r \in Requests : req[r].at \in {"append", "rename", "record"}}

\* The handler ends; nobody reads the answer to a request the worker gave up.
Answer(r, reply, n) ==
    req' = [req EXCEPT ![r] = IF @.heard THEN [@ EXCEPT !.at = "reply", !.reply = reply,
                                                        !.expected = n]
                                         ELSE Free]

\* The chunk the size of the partial file asks for.
Expected(content) == CeilDiv(Bytes(content), ChunkSize)

\* The files of the share that have a row; and with this file so far and this chunk.
FilesSize == MapThenSumSet(LAMBDA i : IF rows[i] = NoRow THEN 0 ELSE rows[i], Ids)
ShareSize(id, chunk) == FilesSize + Bytes(tmp[id]) + BytesOf(chunk)

\* CreateShareGuard: a request without the cookie is forbidden, and one whose token does
\* not tell the user is to renew it.
Admitted(q) == q.cookie /\ session # "deleted"
Refusal(q) == IF q.cookie THEN "unauthorized" ELSE "forbidden"

\* Mutant: a chunk is taken whatever the size of the partial file.
CheckUnordered(r) ==
    /\ req[r].at = "sent" /\ ~locked /\ Admitted(req[r])
    /\ \E id \in IF req[r].id = NoId THEN {i \in Ids : owner[i] = NoUpload} ELSE {req[r].id} :
        /\ req' = [req EXCEPT ![r].at = "append", ![r].id = id]
        /\ owner' = [owner EXCEPT ![id] = req[r].upload]
    /\ UNCHANGED <<client, files, locked, login, raced, faults>>

\* The guard, and everything the handler reads before it appends.
Check(r) ==
    LET c == req[r].chunk IN
    /\ req[r].at = "sent"
    /\ \/ ~Admitted(req[r]) /\ Answer(r, Refusal(req[r]), 0) /\ UNCHANGED owner
       \/ /\ Admitted(req[r])
          /\ \E id \in IF req[r].id = NoId THEN {i \in Ids : owner[i] = NoUpload} ELSE {req[r].id} :
                \/ locked /\ Answer(r, "locked", 0) /\ UNCHANGED owner
                \/ /\ ~locked /\ Expected(tmp[id]) # c
                   /\ Answer(r, "unexpected", Expected(tmp[id])) /\ UNCHANGED owner
                \/ /\ ~locked /\ Expected(tmp[id]) = c /\ ShareSize(id, c) > MaxShareSize
                   /\ Answer(r, "tooLarge", 0) /\ UNCHANGED owner
                \/ /\ ~locked /\ Expected(tmp[id]) = c /\ ShareSize(id, c) <= MaxShareSize
                   /\ req' = [req EXCEPT ![r].at = "append", ![r].id = id]
                   /\ owner' = [owner EXCEPT ![id] = req[r].upload]
    /\ UNCHANGED <<client, files, locked, login, raced, faults>>

AppendChunk(r) ==
    LET id == req[r].id IN
    /\ req[r].at = "append"
    /\ tmp' = [tmp EXCEPT ![id] =
            IF @ = Absent THEN <<req[r].chunk>> ELSE Append(@, req[r].chunk)]
    /\ IF req[r].chunk = LastChunk
       THEN req' = [req EXCEPT ![r].at = "rename"]
       ELSE Answer(r, "ok", 0)
    /\ UNCHANGED <<client, disk, rows, locked, login, owner, raced, faults>>

\* Mutant: the answer does not wait for the row.
RenameAnswered(r) ==
    LET id == req[r].id IN
    /\ req[r].at = "rename" /\ tmp[id] # Absent
    /\ disk' = [disk EXCEPT ![id] = tmp[id]]
    /\ tmp' = [tmp EXCEPT ![id] = Absent]
    /\ Answer(r, "ok", 0)
    /\ UNCHANGED <<client, rows, locked, login, owner, raced, faults>>

\* rename fails when the partial file is gone.
Rename(r) ==
    LET id == req[r].id IN
    /\ req[r].at = "rename"
    /\ \/ tmp[id] = Absent /\ Answer(r, "error", 0) /\ UNCHANGED <<tmp, disk>>
       \/ /\ tmp[id] # Absent
          /\ disk' = [disk EXCEPT ![id] = tmp[id]]
          /\ tmp' = [tmp EXCEPT ![id] = Absent]
          /\ req' = [req EXCEPT ![r].at = "record"]
    /\ UNCHANGED <<client, rows, locked, login, owner, raced, faults>>

\* stat and file.create, which fails on the primary key if the file has a row.
Record(r) ==
    LET id == req[r].id IN
    /\ req[r].at = "record"
    /\ \/ rows[id] # NoRow /\ Answer(r, "error", 0) /\ UNCHANGED rows
       \/ /\ rows[id] = NoRow
          /\ rows' = [rows EXCEPT ![id] = Bytes(disk[id])]
          /\ Answer(r, "ok", 0)
    /\ UNCHANGED <<client, tmp, disk, locked, login, owner, raced, faults>>

-----------------------------------------------------------------------------
(* The worker. *)

Send(u, r) ==
    /\ client[u].phase = "sending" /\ req[r] = Free
    /\ req' = [req EXCEPT ![r] = [Free EXCEPT !.upload = u, !.chunk = client[u].chunk,
                                              !.id = client[u].id, !.at = "sent", !.heard = TRUE,
                                              !.cookie = cookie]]
    /\ client' = [client EXCEPT ![u].phase = "waiting"]
    /\ UNCHANGED <<files, locked, login, owner, raced, faults>>

\* The statuses of the exceptions the server throws.
Status(reply) ==
    CASE reply = "ok" -> 201
      [] reply = "unauthorized" -> 401
      [] reply = "forbidden" -> 403
      [] reply \in {"locked", "unexpected"} -> 400
      [] reply = "tooLarge" -> 413
      [] OTHER -> 500

\* Mutants: one attempt too many; the file from its start; success before the last chunk;
\* a token is renewed for ever.
RetryOnceMore(c) == [c EXCEPT !.retries = @ + 1,
                              !.phase = IF c.retries >= MaxRetries THEN "failed" ELSE "sending"]
RetryFromStart(c) == [c EXCEPT !.retries = @ + 1, !.chunk = 0, !.id = NoId,
                               !.phase = IF c.retries + 1 >= MaxRetries THEN "failed" ELSE "sending"]
ProgressEarly(c, id) == [c EXCEPT !.id = id, !.retries = 0, !.refreshes = 0, !.chunk = @ + 1,
                                  !.phase = IF c.chunk + 1 >= LastChunk THEN "done" ELSE "sending"]

RefreshedForever(c) == [c EXCEPT !.phase = "sending"]

\* The worker tries a chunk MaxRetries times.
Retry(c) == [c EXCEPT !.retries = @ + 1,
                      !.phase = IF c.retries + 1 >= MaxRetries THEN "failed" ELSE "sending"]
Progress(c, id) == [c EXCEPT !.id = id, !.retries = 0, !.refreshes = 0, !.chunk = @ + 1,
                             !.phase = IF c.chunk = LastChunk THEN "done" ELSE "sending"]

\* It sends a forbidden chunk again after each of MaxRefreshes renewals.
Refreshed(c) == IF c.refreshes < MaxRefreshes
                THEN [c EXCEPT !.refreshes = @ + 1, !.phase = "sending"]
                ELSE [c EXCEPT !.phase = "failed"]

\* A chunk whose token is not accepted it sends again, uncounted.
AfterReply(c, q) ==
    CASE q.reply = "ok" -> Progress(c, q.id)
      [] Status(q.reply) = 401 -> [c EXCEPT !.phase = "sending"]
      [] Status(q.reply) = 403 -> Refreshed(c)
      [] q.reply = "unexpected" /\ Status(q.reply) = 422 ->
            [c EXCEPT !.chunk = q.expected, !.phase = "sending"]
      [] Status(q.reply) = 413 -> [c EXCEPT !.phase = "failed"]
      [] OTHER -> Retry(c)

\* POST /auth/token, which the worker calls before it sends a refused chunk again: it gives
\* the cookie anew unless the session is over.
Refreshes(c, q) == \/ Status(q.reply) = 401
                   \/ Status(q.reply) = 403 /\ c.refreshes < MaxRefreshes

Hear(r) ==
    LET u == req[r].upload IN
    /\ req[r].at = "reply"
    /\ client' = [client EXCEPT ![u] = AfterReply(@, req[r])]
    /\ cookie' = (cookie \/ (Refreshes(client[u], req[r]) /\ session = "live"))
    /\ req' = [req EXCEPT ![r] = Free]
    /\ UNCHANGED <<files, locked, session, owner, raced, faults>>

\* The cookie outlives its maxAge, which is shorter than the life of the token in it.
Lapse ==
    /\ "session" \in Faults
    /\ cookie /\ cookie' = FALSE
    /\ UNCHANGED <<client, req, files, locked, session, owner, raced, faults>>

\* The upload page completes the share when every file has arrived.
Complete ==
    /\ ~locked
    /\ \A u \in Uploads : client[u].phase = "done"
    /\ locked' = TRUE
    /\ UNCHANGED <<client, req, files, login, owner, raced, faults>>

-----------------------------------------------------------------------------
(* Faults. *)

Fault(kind) ==
    /\ kind \in Faults
    /\ faults < MaxFaults /\ faults' = faults + 1

\* The connection breaks before the request arrives, or before the answer does.
Lose(r) ==
    /\ Fault("loss")
    /\ req[r].heard /\ req[r].at \in {"sent", "reply"}
    /\ req' = [req EXCEPT ![r] = Free]
    /\ client' = [client EXCEPT ![req[r].upload] = Retry(@)]
    /\ UNCHANGED <<files, locked, login, owner, raced>>

\* The connection breaks in a renewal: after a 401 the worker goes on, after a 403 it ends.
LoseRefresh(r) ==
    LET u == req[r].upload IN
    /\ Fault("loss")
    /\ req[r].at = "reply" /\ Refreshes(client[u], req[r])
    /\ client' = [client EXCEPT ![u].phase =
                        IF Status(req[r].reply) = 401 THEN "sending" ELSE "failed"]
    /\ req' = [req EXCEPT ![r] = Free]
    /\ UNCHANGED <<files, locked, login, owner, raced>>

\* The firewall answers in the server's place, with 468 or a 403 of its own.  The worker
\* sends the chunk again, or gives up at the sixtieth challenge.
Challenge(r) ==
    /\ Fault("challenge")
    /\ req[r].heard /\ req[r].at = "sent"
    /\ \E phase \in {"sending", "failed"} : client' = [client EXCEPT ![req[r].upload].phase = phase]
    /\ req' = [req EXCEPT ![r] = Free]
    /\ UNCHANGED <<files, locked, login, owner, raced>>

\* The owner's sessions are ended, or the owner is deleted.
EndSession ==
    /\ Fault("session")
    /\ session = "live" /\ session' \in {"ended", "deleted"}
    /\ UNCHANGED <<client, req, files, locked, cookie, owner, raced>>

\* The worker gives a request up (after five minutes) and the server does not.
Timeout(r) ==
    /\ Fault("timeout")
    /\ req[r].heard /\ req[r].at # "reply"
    /\ req' = [req EXCEPT ![r].heard = FALSE]
    /\ client' = [client EXCEPT ![req[r].upload] = Retry(@)]
    /\ raced' = raced \cup {req[r].upload}
    /\ UNCHANGED <<files, locked, login, owner>>

Crash ==
    /\ Fault("crash")
    /\ \E r \in Requests : req[r] # Free
    /\ req' = [r \in Requests |-> Free]
    /\ client' = [u \in Uploads |->
            IF client[u].phase = "waiting" THEN Retry(client[u]) ELSE client[u]]
    /\ UNCHANGED <<files, locked, login, owner, raced>>

\* JobsService.deleteTemporaryFiles: a partial file a day old goes.
Purge(id) ==
    /\ Fault("purge")
    /\ tmp[id] # Absent
    /\ tmp' = [tmp EXCEPT ![id] = Absent]
    /\ raced' = raced \cup {req[r].upload : r \in {x \in Served : req[x].id = id}}
    /\ UNCHANGED <<client, req, disk, rows, locked, login, owner>>

-----------------------------------------------------------------------------
Serve(r) == Check(r) \/ AppendChunk(r) \/ Rename(r) \/ Record(r)

Next ==
    \/ \E r \in Requests : Serve(r) \/ Hear(r) \/ Lose(r) \/ LoseRefresh(r) \/ Challenge(r) \/ Timeout(r)
    \/ \E u \in Uploads, r \in Requests : Send(u, r)
    \/ Complete
    \/ Lapse
    \/ EndSession
    \/ Crash
    \/ \E id \in Ids : Purge(id)

Spec == Init /\ [][Next]_vars

\* Awaited calls return, answers arrive or are lost, a worker goes on, and a cookie lapses
\* that is not given anew.
Fairness ==
    /\ \A r \in Requests : WF_vars(Serve(r)) /\ WF_vars(Hear(r))
    /\ \A u \in Uploads : WF_vars(\E r \in Requests : Send(u, r))
    /\ WF_vars(Lapse)

FairSpec == Spec /\ Fairness

-----------------------------------------------------------------------------
(* What uploading promises. *)

TypeOK ==
    /\ client \in [Uploads -> Client]
    /\ req \in [Requests -> Request]
    /\ tmp \in [Ids -> Content \cup {Absent}]
    /\ disk \in [Ids -> Content \cup {Absent}]
    /\ rows \in [Ids -> Nat \cup {NoRow}]
    /\ locked \in BOOLEAN
    /\ cookie \in BOOLEAN /\ session \in Sessions
    /\ owner \in [Ids -> Uploads \cup {NoUpload}]
    /\ raced \in SUBSET Uploads
    /\ faults \in Nat

\* A recorded file has all its chunks, in order and once each, and its true size,
\* however often a chunk was sent: unless the server was still at a chunk the worker
\* had given up.
RecordedFilesWhole ==
    \A id \in Ids : rows[id] # NoRow /\ owner[id] \notin raced
                        => disk[id] = Whole /\ rows[id] = Size

\* A file of several chunks is recorded once, although the id of a first chunk whose
\* answer is lost is lost with it and the chunk is stored again under a new id.
RecordedOnce ==
    LastChunk > 0 =>
        \A i, j \in Ids :
            i # j /\ rows[i] # NoRow /\ rows[j] # NoRow => owner[i] # owner[j]

\* A worker that reports success has a file with a row, which the share keeps.
DoneFilesRecorded ==
    \A u \in Uploads : client[u].phase = "done" =>
        /\ client[u].id \in Ids
        /\ rows[client[u].id] # NoRow /\ owner[client[u].id] = u

\* The worker ends: it succeeds or gives up, though answers that are errors send it back
\* to the chunk it was at: even without a count, when the token is not accepted, since the
\* cookie of the token lapses.
UploadsEnd == \A u \in Uploads : <>(client[u].phase \in {"done", "failed"})

\* Uploading implements Delivery, for uploads whose requests do not overlap.
Delivered == INSTANCE Delivery WITH
    stored <- {u \in Uploads : \E id \in Ids :
                    owner[id] = u /\ rows[id] # NoRow /\ disk[id] = Whole},
    told <- {u \in Uploads : client[u].phase = "done"},
    closed <- locked

DeliversFiles == Delivered!Spec
===============================================================================
