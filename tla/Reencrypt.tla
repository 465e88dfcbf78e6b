------------------------------ MODULE Reencrypt ------------------------------
(***************************************************************************)
(* Re-encrypting one file on a local disk.  When its owner changes the     *)
(* key, the browser downloads the file, decrypts it, and sends it back     *)
(* chunk by chunk under the new key (reencryptAll); the server appends the *)
(* chunks to a temporary file and renames that over the old one            *)
(* (replaceFileContent and replace).  A set in the server's memory lists   *)
(* the files being replaced: the first chunk enters the file, the last one *)
(* takes it out, and nothing in it says whose replacement it is.           *)
(*                                                                         *)
(* A client is one browser tab that changes the key; its name stands for   *)
(* the key it has chosen.  Nobody deletes the file or its share.           *)
(***************************************************************************)
EXTENDS Integers, FiniteSets, Sequences

CONSTANTS
    Clients,        \* tabs in which the key is changed
    Requests,       \* slots for requests on their way or being served
    OldKey,         \* the key the file is encrypted with at first
    NoClient,       \* the client of a free slot, and the holder of no lock
    Total,          \* chunks of the file
    MaxRetries,     \* a chunk is sent again this often
    MaxFileRetries, \* a file is started over this often
    MaxRuns,        \* bound: runs of reencryptAll in a tab
    MaxFaults       \* bound: lost messages, failed appends and restarts

ASSUME NullAssumption == NoClient \notin Clients /\ OldKey \notin Clients
ASSUME SizeAssumption ==
    /\ Total \in Nat \ {0}
    /\ MaxRetries \in Nat /\ MaxFileRetries \in Nat
    /\ MaxRuns \in Nat /\ MaxFaults \in Nat

Chunks == 0 .. Total - 1
LastChunk == Total - 1
Torn == Total       \* what a failed append leaves of a chunk

Keys == Clients \cup {OldKey}
Piece == [key : Keys, chunk : Chunks \cup {Torn}]
Whole(k) == [i \in 1 .. Total |-> [key |-> k, chunk |-> i - 1]]
ReadableWith(content, k) == \A i \in DOMAIN content : content[i].key = k

VARIABLES
    client,     \* the tabs
    req,        \* the requests
    lock,       \* whether reencryptingFiles has the file
    tmp,        \* the .tmp-reencrypt file; empty when there is none
    content,    \* the file
    holder,     \* history: the client whose first chunk took the lock
    faults,     \* history: the faults so far
    scars       \* history: how the temporary file may have gone wrong

files == <<lock, tmp, content>>
vars == <<client, req, files, holder, faults, scars>>

Client == [phase : {"idle", "download", "sending", "waiting", "done", "failed", "cancelled"},
           chunk : Chunks, retries : 0 .. MaxRetries, attempt : 0 .. MaxFileRetries,
           runs : 0 .. MaxRuns]
Request == [client : Clients \cup {NoClient}, chunk : Chunks,
            at : {"free", "sent", "unlink", "append", "rename", "size", "reply"},
            heard : BOOLEAN, ok : BOOLEAN]
Free == [client |-> NoClient, chunk |-> 0, at |-> "free", heard |-> FALSE, ok |-> FALSE]

Init ==
    /\ client = [c \in Clients |->
            [phase |-> "idle", chunk |-> 0, retries |-> 0, attempt |-> 0, runs |-> 0]]
    /\ req = [r \in Requests |-> Free]
    /\ lock = FALSE
    /\ tmp = <<>>
    /\ content = Whole(OldKey)
    /\ holder = NoClient
    /\ faults = [loss |-> 0, error |-> 0, crash |-> 0]
    /\ scars = {}

-----------------------------------------------------------------------------
(* The server *)

PieceOf(q, chunk) == [key |-> q.client, chunk |-> chunk]

\* The slot after the handler's answer; nobody reads it when the connection broke.
Answered(q, ok) == IF q.heard THEN [q EXCEPT !.at = "reply", !.ok = ok] ELSE Free

\* The handler ends.  Its finally takes the file out of the set after the last chunk.
Finish(r, ok) ==
    /\ req' = [req EXCEPT ![r] = Answered(@, ok)]
    /\ lock' = (lock /\ req[r].chunk # LastChunk)

\* replaceFileContent up to the try: a refusal leaves the set as it is.
Check(r) ==
    LET q == req[r] IN
    /\ q.at = "sent"
    /\ \/ /\ lock = (q.chunk = 0)
          /\ req' = [req EXCEPT ![r] = Answered(@, FALSE)]
          /\ UNCHANGED <<lock, holder, scars>>
       \/ /\ q.chunk = 0 /\ ~lock
          /\ lock' = TRUE /\ holder' = q.client
          /\ req' = [req EXCEPT ![r].at = "unlink"]
          /\ UNCHANGED scars
       \/ /\ q.chunk # 0 /\ lock
          /\ scars' = IF q.client # holder THEN scars \cup {"intruder"} ELSE scars
          /\ req' = [req EXCEPT ![r].at = "append"]
          /\ UNCHANGED <<lock, holder>>
    /\ UNCHANGED <<client, tmp, content, faults>>

\* Mutant: the temporary file of an earlier attempt is appended to.
KeepStale(r) ==
    /\ req[r].at = "unlink"
    /\ req' = [req EXCEPT ![r].at = "append"]
    /\ UNCHANGED <<client, files, holder, faults, scars>>

\* The first chunk removes what an earlier attempt left.
RemoveStale(r) ==
    /\ req[r].at = "unlink"
    /\ tmp' = <<>>
    /\ req' = [req EXCEPT ![r].at = "append"]
    /\ UNCHANGED <<client, lock, content, holder, faults, scars>>

AppendChunk(r) ==
    /\ req[r].at = "append"
    /\ tmp' = Append(tmp, PieceOf(req[r], req[r].chunk))
    /\ IF req[r].chunk = LastChunk
       THEN req' = [req EXCEPT ![r].at = "rename"] /\ UNCHANGED lock
       ELSE Finish(r, TRUE)
    /\ UNCHANGED <<client, content, holder, faults, scars>>

\* rename throws when there is no temporary file.
Rename(r) ==
    /\ req[r].at = "rename"
    /\ \/ tmp = <<>> /\ Finish(r, FALSE) /\ UNCHANGED <<tmp, content>>
       \/ /\ tmp # <<>>
          /\ content' = tmp
          /\ tmp' = <<>>
          /\ req' = [req EXCEPT ![r].at = "size"]
          /\ UNCHANGED lock
    /\ UNCHANGED <<client, holder, faults, scars>>

\* stat, and the size in the row.
RecordSize(r) ==
    /\ req[r].at = "size"
    /\ Finish(r, TRUE)
    /\ UNCHANGED <<client, tmp, content, holder, faults, scars>>

-----------------------------------------------------------------------------
(* The client: one file in reencryptAll. *)

\* "Retry" is offered after a cancelled run.
Start(c) ==
    /\ client[c].phase \in {"idle", "cancelled"} /\ client[c].runs < MaxRuns
    /\ client' = [client EXCEPT ![c] = [phase |-> "download", chunk |-> 0, retries |-> 0,
                                        attempt |-> 0, runs |-> @.runs + 1]]
    /\ UNCHANGED <<req, files, holder, faults, scars>>

StartOver(k) ==
    IF k.attempt < MaxFileRetries
    THEN [k EXCEPT !.phase = "download", !.chunk = 0, !.retries = 0, !.attempt = @ + 1]
    ELSE [k EXCEPT !.phase = "failed"]

\* Mutant: one attempt too many.
RetryOnceMore(k) ==
    IF k.retries <= MaxRetries
    THEN [k EXCEPT !.phase = "sending", !.retries = @ + 1]
    ELSE StartOver(k)

Retry(k) ==
    IF k.retries < MaxRetries
    THEN [k EXCEPT !.phase = "sending", !.retries = @ + 1]
    ELSE StartOver(k)

\* Mutant: success one chunk early.
ProgressEarly(k) ==
    IF k.chunk + 1 >= LastChunk
    THEN [k EXCEPT !.phase = "done"]
    ELSE [k EXCEPT !.phase = "sending", !.chunk = @ + 1, !.retries = 0]

Progress(k) ==
    IF k.chunk = LastChunk
    THEN [k EXCEPT !.phase = "done"]
    ELSE [k EXCEPT !.phase = "sending", !.chunk = @ + 1, !.retries = 0]

\* The file is downloaded at once, the stream being of one open file.
Download(c) ==
    /\ client[c].phase = "download"
    /\ client' = [client EXCEPT ![c] =
            IF ReadableWith(content, OldKey) THEN [@ EXCEPT !.phase = "sending"]
                                             ELSE StartOver(@)]
    /\ UNCHANGED <<req, files, holder, faults, scars>>

Send(c, r) ==
    /\ client[c].phase = "sending" /\ req[r] = Free
    /\ req' = [req EXCEPT ![r] = [Free EXCEPT !.client = c, !.chunk = client[c].chunk,
                                              !.at = "sent", !.heard = TRUE]]
    /\ client' = [client EXCEPT ![c].phase = "waiting"]
    /\ UNCHANGED <<files, holder, faults, scars>>

Hear(r) ==
    /\ req[r].at = "reply"
    /\ client' = [client EXCEPT ![req[r].client] = IF req[r].ok THEN Progress(@) ELSE Retry(@)]
    /\ req' = [req EXCEPT ![r] = Free]
    /\ UNCHANGED <<files, holder, faults, scars>>

\* The signal is looked at before a file and before a chunk, not before a retry.
Cancel(c) ==
    /\ \/ client[c].phase = "download" /\ client[c].attempt = 0
       \/ client[c].phase = "sending" /\ client[c].retries = 0
    /\ client' = [client EXCEPT ![c].phase = "cancelled"]
    /\ UNCHANGED <<req, files, holder, faults, scars>>

-----------------------------------------------------------------------------
(* Faults *)

Fault(kind) ==
    /\ faults.loss + faults.error + faults.crash < MaxFaults
    /\ faults' = [faults EXCEPT ![kind] = @ + 1]

Serving == {r \in Requests : req[r].at \in {"unlink", "append", "rename", "size"}}

\* The connection breaks.  A handler that is running goes on, and so does what its
\* chunk has changed.
Lose(r) ==
    LET q == req[r] IN
    /\ Fault("loss")
    /\ q.heard
    /\ req' = [req EXCEPT ![r] = IF r \in Serving THEN [@ EXCEPT !.heard = FALSE] ELSE Free]
    /\ client' = [client EXCEPT ![q.client] = Retry(@)]
    /\ scars' = IF q.chunk # 0 /\ (r \in Serving \/ (q.ok /\ q.chunk # LastChunk))
                THEN scars \cup {"unheard"} ELSE scars
    /\ UNCHANGED <<files, holder>>

\* appendFile throws, having written a part of the chunk or nothing.
AppendFails(r) ==
    LET q == req[r] IN
    /\ Fault("error")
    /\ q.at = "append"
    /\ tmp' \in {tmp, Append(tmp, PieceOf(q, Torn))}
    /\ Finish(r, FALSE)
    /\ scars' = IF q.chunk \notin {0, LastChunk} /\ tmp' # tmp THEN scars \cup {"torn"} ELSE scars
    /\ UNCHANGED <<client, content, holder>>

\* Mutant: the set outlives the server.
CrashKeepingLock ==
    /\ Fault("crash")
    /\ \E c \in Clients : client[c].phase \in {"download", "sending", "waiting"}
    /\ req' = [r \in Requests |-> Free]
    /\ client' = [c \in Clients |->
            IF client[c].phase = "waiting" THEN Retry(client[c]) ELSE client[c]]
    /\ UNCHANGED <<files, holder, scars>>

Crash ==
    /\ Fault("crash")
    /\ \E c \in Clients : client[c].phase \in {"download", "sending", "waiting"}
    /\ req' = [r \in Requests |-> Free]
    /\ client' = [c \in Clients |->
            IF client[c].phase = "waiting" THEN Retry(client[c]) ELSE client[c]]
    /\ lock' = FALSE
    /\ UNCHANGED <<tmp, content, holder, scars>>

-----------------------------------------------------------------------------
Serve(r) ==
    Check(r) \/ RemoveStale(r) \/ AppendChunk(r) \/ Rename(r) \/ RecordSize(r)

Next ==
    \/ \E r \in Requests : Serve(r) \/ Hear(r) \/ Lose(r) \/ AppendFails(r)
    \/ \E c \in Clients :
        \/ Start(c) \/ Download(c) \/ Cancel(c)
        \/ \E r \in Requests : Send(c, r)
    \/ Crash

Spec == Init /\ [][Next]_vars

-----------------------------------------------------------------------------
(* What re-encrypting promises. *)

TypeOK ==
    /\ client \in [Clients -> Client]
    /\ req \in [Requests -> Request]
    /\ lock \in BOOLEAN
    /\ tmp \in Seq(Piece)
    /\ content \in Seq(Piece)
    /\ holder \in Clients \cup {NoClient}
    /\ faults \in [loss : 0 .. MaxFaults, error : 0 .. MaxFaults, crash : 0 .. MaxFaults]
    /\ scars \subseteq {"intruder", "unheard", "torn"}

\* The file is whole and under one key, whatever was refused, retried, started over or
\* cut short, unless a chunk after the first was stored without the client's knowledge,
\* or in part, or by a client that did not hold the lock.
ContentWhole == scars = {} => \E k \in Keys : content = Whole(k)

\* A client that reports success has left nothing under the old key, and if no other
\* tab took part the file is under the new one.
DoneReencrypted ==
    \A c \in Clients : client[c].phase = "done" =>
        /\ ~ReadableWith(content, OldKey)
        /\ scars = {} /\ (\A d \in Clients \ {c} : client[d].runs = 0) => content = Whole(c)

\* A client gives a file up only after a lost message or a failed append, after more
\* restarts than it has attempts, because it was at the file before or another tab was,
\* or because a restart kept from it that the file is done.
FailsForReason ==
    \A c \in Clients : client[c].phase = "failed" =>
        \/ faults.loss + faults.error > 0
        \/ faults.crash > MaxFileRetries
        \/ client[c].runs > 1
        \/ faults.crash > 0 /\ content = Whole(c)
        \/ \E d \in Clients \ {c} : client[d].runs > 0
===============================================================================
