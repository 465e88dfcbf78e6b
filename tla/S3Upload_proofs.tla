---------------------------- MODULE S3Upload_proofs ----------------------------
(***************************************************************************)
(* Theorems about S3Upload, for any number of workers, ids, uploads,       *)
(* requests, chunks, retries and faults.                                   *)
(***************************************************************************)
EXTENDS S3Upload, SequenceTheorems, TLAPS

-----------------------------------------------------------------------------
(* Inductive invariants. *)

\* TypeOK, the jobs, and what a request, a worker and a session are at each of their steps.
Timing == [at : {"off", "look", "abort", "drop"}, todo : SUBSET (Keys \X Uploads),
           key : Keys, upload : Uploads \cup {NoUpload}]
Removal == [at : {"off", "object", "row", "uploads", "objects", "share"}, todo : SUBSET Uploads]
RequestWhole(q) ==
    /\ q.at = "free" => q = Free
    /\ q.at # "free" => q.by \in Workers
    /\ q.at = "reply" => q.heard
    /\ q.by \in Rekeyers => q.id = Recorded
    /\ q.by \in Creators => q.id # Recorded /\ (q.at = "sent" /\ q.chunk = 0 => q.id = NoId)
    /\ q.id = NoId => q.chunk = 0 /\ q.at \in {"free", "sent", "reply"} /\ ~q.ok
    /\ q.at \in {"free", "sent", "init"} => q.upload = NoUpload
    /\ q.at \in {"part", "complete"} => q.upload \in Uploads
    /\ q.at = "init" => q.chunk = 0
    /\ q.at \in {"complete", "record"} => q.chunk = LastChunk
ClientWhole(w) ==
    /\ w \in Rekeyers => client[w].id = Recorded
    /\ w \in Creators => client[w].id # Recorded /\ (client[w].id = NoId <=> client[w].chunk = 0)
    /\ client[w].phase \in {"sending", "waiting"} => client[w].chunk # Total /\ client[w].retries < MaxRetries
    /\ client[w].phase = "download" => w \in Rekeyers /\ client[w].chunk = 0 /\ client[w].retries = 0
Typed ==
    /\ TypeOK /\ timer \in Timing /\ remover \in Removal /\ faults \in Nat
    /\ \A r \in Requests : RequestWhole(req[r])
    /\ \A w \in Workers : ClientWhole(w)
    /\ \A k \in Keys : session[k].upload = NoUpload => session[k] = NoSession

\* A worker waits for the one request it still hears, for the chunk and the file it is at;
\* one that was not among the first sends nothing.
Waiting(q) == q.heard =>
    /\ client[q.by].phase = "waiting" /\ client[q.by].chunk = q.chunk
    /\ q.chunk # 0 => client[q.by].id = q.id
Single == \A q, r \in Requests : req[q].heard /\ req[r].heard /\ req[q].by = req[r].by => q = r
Waits ==
    /\ \A r \in Requests : Waiting(req[r])
    /\ \A r \in Requests : req[r].at # "free" => client[req[r].by].phase # "absent"
    /\ Single

\* What an upload id stands for: the requests, the sessions and the timer that know it mean
\* the same file, and no two sessions have the same.
Linked ==
    /\ \A r \in Requests : Open(req[r].upload) => multi[req[r].upload].id = req[r].id
    /\ \A k \in Keys : Open(session[k].upload) => multi[session[k].upload].id = k[2]
    /\ \A k, l \in Keys : session[k].upload = session[l].upload /\ session[k].upload # NoUpload => k = l
    /\ \A e \in timer.todo : Open(e[2]) => multi[e[2]].id = e[1][2]
    /\ Open(timer.upload) => multi[timer.upload].id = timer.key[2]

\* A new file has one worker and at most one upload; until its upload begins nothing but
\* the request that made its id has the id.
Names(w, id) == client[w].id = id \/ \E r \in Requests : req[r].by = w /\ req[r].id = id
Owned == \A id \in Ids \ {Recorded} :
    /\ \A v, w \in Workers : Names(v, id) /\ Names(w, id) => v = w
    /\ \A u, v \in Uploads : multi[u].id = id /\ multi[v].id = id => u = v
    /\ \A u \in Uploads : multi[u].id = id => \A i \in DOMAIN multi[u].parts :
            \A w \in Workers : Names(w, id) => multi[u].parts[i].by = w
    /\ \A r \in Requests : req[r].at = "init" /\ req[r].id = id =>
            /\ \A x \in Requests \ {r} : req[x].id # id
            /\ \A w \in Workers : client[w].id # id
            /\ \A u \in Uploads : multi[u].id # id
            /\ session[<<"create", id>>] = NoSession
    /\ \A r \in Requests : req[r].at = "record" /\ req[r].id = id => \A u \in Uploads : multi[u].id # id

\* The chunks before the n-th are among the parts.
Holds(s, n) == \A j \in 0 .. n - 1 : \E i \in DOMAIN s : s[i].chunk = j
Has(u, n) == Holds(multi[u].parts, n)
\* What was stored of a new file is there while its upload is open.
Stored == \A u \in Uploads : \A id \in Ids \ {Recorded} : multi[u].id = id =>
    /\ \A w \in Workers : client[w].id = id => Has(u, client[w].chunk)
    /\ \A r \in Requests : req[r].id = id =>
        /\ req[r].at \in {"sent", "part"} => Has(u, req[r].chunk)
        /\ req[r].at = "complete" => Has(u, Total)
        /\ req[r].at = "reply" /\ req[r].ok => Has(u, req[r].chunk + 1)

\* The tab that has the lock has the file to itself, unless a request was given up or a tab
\* intruded.
KeyR == <<"reencrypt", Recorded>>
Busy(q) == q.by \in Rekeyers /\ q.at \in {"init", "part", "complete", "record", "catch"}
ByAll(u, w) == \A i \in DOMAIN multi[u].parts : multi[u].parts[i].by = w
Attended(q) ==
    /\ q.at \in {"init", "record"} => session[KeyR].upload = NoUpload
    /\ q.at \in {"part", "complete"} => session[KeyR].upload \in {NoUpload, q.upload}
    /\ q.at \in {"part", "complete"} /\ Open(q.upload) =>
            ByAll(q.upload, q.by) /\ Has(q.upload, IF q.at = "part" THEN q.chunk ELSE Total)
Kept == Open(session[KeyR].upload) =>
    /\ ByAll(session[KeyR].upload, lock)
    /\ client[lock].phase \in {"sending", "waiting"} => Has(session[KeyR].upload, client[lock].chunk)
    /\ \A r \in Requests : req[r].by = lock /\ req[r].at = "reply" /\ req[r].ok =>
            Has(session[KeyR].upload, req[r].chunk + 1)
Alone ==
    /\ \A r \in Requests : req[r].at # "free" /\ req[r].by \in Rekeyers => req[r].heard
    /\ \A r \in Requests : Busy(req[r]) => lock = req[r].by
    /\ lock = Nobody => session[KeyR].upload = NoUpload
    /\ \A r \in Requests : req[r].by \in Rekeyers => Attended(req[r])
    /\ Kept
Alones == ~Late(Recorded) => Alone

\* A list of parts that ascends has no gaps.
Lined(u) == Ascending(multi[u].parts) => \A i \in DOMAIN multi[u].parts : multi[u].parts[i].chunk = i - 1
Lines == \A u \in Uploads : Open(u) /\ ~Late(multi[u].id) => Lined(u)

\* Objects are whole, and rows follow them.
Whole(id) == \E w \in Workers \cup {Old} : bucket[id] = Object(w)
Removed == (~share \/ rows[Recorded] = 0 \/ remover.at # "off") => Scarred({"remove"})
Gone(id) ==
    \/ remover.at = "share" \/ (remover.at = "row" /\ id = Recorded)
    \/ {"remove", "crash"} \subseteq scars
Stocked == \A id \in Ids :
    /\ ~Late(id) => (bucket[id] # Absent => Whole(id)) /\ (rows[id] # 0 => rows[id] = Total)
    /\ ~Late(id) => (rows[id] # 0 /\ bucket[id] = Absent => Gone(id))
    /\ bucket[id] # Absent /\ rows[id] = 0 =>
        \/ \E r \in Requests : req[r].at = "record" /\ req[r].id = id
        \/ Scarred({"crash", "error", "remove"})

\* What a worker was told was done is done.
Renewed(id) == \E w \in Workers : bucket[id] = Object(w)
Told == ~Scarred({"remove"}) =>
    /\ \A r \in Requests : ~Late(req[r].id) =>
        /\ req[r].at = "record" => Renewed(req[r].id)
        /\ req[r].at = "reply" /\ req[r].ok /\ req[r].chunk = LastChunk =>
                Renewed(req[r].id) /\ rows[req[r].id] = Total
    /\ \A w \in Workers : client[w].phase = "done" /\ ~Late(client[w].id) =>
                client[w].id \in Ids /\ Renewed(client[w].id) /\ rows[client[w].id] = Total

\* The timer forgets a session when S3 has forgotten its upload.
Dropping == timer.at = "drop" /\ Open(timer.upload) => Scarred({"error"})
Known == \A u \in Uploads : Open(u) /\ ~Scarred({"crash", "error", "dropped"}) /\ ~Late(multi[u].id) =>
    \E k \in Keys : session[k].upload = u

\* The time since the last chunk, as the map has it and as it was.
Timed == \A k \in Keys : Open(session[k].upload) =>
    LET u == session[k].upload IN
    multi[u].quiet = session[k].idle /\ (session[k].idle > Ttl => multi[u].paused)

\* Nothing went wrong: then a worker has exactly the parts it sent, and is never refused.
Prefix(w, n) == [i \in 1 .. n |-> [by |-> w, chunk |-> i - 1]]
KeyOf(w, id) == session[Key(w, id)].upload
At(w, id, n) ==   \* n chunks are stored
    IF n = 0 \/ n = Total THEN KeyOf(w, id) = NoUpload
    ELSE Open(KeyOf(w, id)) /\ multi[KeyOf(w, id)].parts = Prefix(w, n)
Unwritten(w, id) == w \in Creators => id = NoId \/ rows[id] = 0
Unlocked(w, n) == w \in Rekeyers => (n \in {0, Total} <=> lock = Nobody)
Ready(w, id, n) == (id # NoId => At(w, id, n)) /\ Unlocked(w, n) /\ Unwritten(w, id)
Stage(w, q) ==
    /\ q.at # "catch" /\ (q.at = "reply" => q.ok)
    /\ q.at = "sent" =>
        ((q.chunk = 0 /\ w \in Creators) \/ At(w, q.id, q.chunk)) /\ Unlocked(w, q.chunk) /\ Unwritten(w, q.id)
    /\ q.at = "init" => At(w, q.id, 0) /\ Unwritten(w, q.id)
    /\ q.at \in {"part", "complete"} =>
        /\ KeyOf(w, q.id) = q.upload /\ Open(q.upload) /\ Unwritten(w, q.id)
        /\ multi[q.upload].parts = Prefix(w, IF q.at = "part" THEN q.chunk ELSE Total)
    /\ q.at = "record" => KeyOf(w, q.id) = NoUpload /\ Unwritten(w, q.id)
    /\ q.at = "reply" =>
        At(w, q.id, q.chunk + 1) /\ Unlocked(w, q.chunk + 1) /\ (q.chunk # LastChunk => Unwritten(w, q.id))
OnCourse(w) ==
    /\ client[w].phase # "failed"
    /\ client[w].phase \in {"download", "sending"} => Ready(w, client[w].id, client[w].chunk)
    /\ client[w].phase = "download" => bucket[Recorded] = Object(Old)
    /\ \A r \in Requests : req[r].by = w => Stage(w, req[r])
AllOpen == \A k \in Keys : session[k].upload # NoUpload => Open(session[k].upload)
AbortPaused == timer.at = "abort" /\ Open(timer.upload) => multi[timer.upload].paused
AllHeard == \A r \in Requests : req[r].at # "free" => req[r].heard
Calm == scars = {} => AllOpen /\ AbortPaused /\ AllHeard /\ \A w \in Workers \ Crowd : OnCourse(w)
-----------------------------------------------------------------------------
(* Numbers, records and keys. *)

LEMMA Span ==
    /\ 0 \in Chunks /\ LastChunk \in Chunks /\ LastChunk + 1 = Total /\ Total \in Nat /\ Total > 0
    /\ Chunks \subseteq Nat /\ \A k \in Chunks : k <= LastChunk /\ k # Total /\ k + 1 \in 0 .. Total
    /\ Chunks \subseteq 0 .. Total /\ 0 \in 0 .. MaxRetries /\ MaxRetries > 0 /\ MaxRetries \in Nat
    /\ 0 \in 0 .. StaleAge + 1 /\ 0 \in 0 .. Ttl + 1
BY SizeAssumption DEF Chunks, LastChunk

LEMMA FreeFields ==
    /\ Free \in Request
    /\ Free.by = Nobody /\ Free.chunk = 0 /\ Free.id = NoId /\ Free.upload = NoUpload
    /\ Free.at = "free" /\ Free.heard = FALSE /\ Free.ok = FALSE
BY Span DEF Free, Request

LEMMA NoMultiFields ==
    /\ NoMulti \in Multi /\ NoMulti.id = NoId /\ NoMulti.parts = <<>>
    /\ NoMulti.quiet = 0 /\ NoMulti.age = 0 /\ NoMulti.paused = FALSE
BY Span DEF NoMulti, Multi

LEMMA NoSessionFields == NoSession \in Session /\ NoSession.upload = NoUpload /\ NoSession.idle = 0
BY Span DEF NoSession, Session

LEMMA Roles ==
    /\ \A w \in Workers : w \in Creators \/ w \in Rekeyers
    /\ \A w \in Workers : ~(w \in Creators /\ w \in Rekeyers)
    /\ Creators \subseteq Workers /\ Rekeyers \subseteq Workers /\ Nobody \notin Workers
BY NullAssumption DEF Workers

\* The key of a worker's file.
LEMMA KeyFacts ==
    ASSUME NEW w \in Workers, NEW id \in Ids, w \in Rekeyers <=> id = Recorded
    PROVE  /\ Key(w, id) \in Keys /\ Key(w, id)[2] = id
           /\ w \in Rekeyers => Key(w, id) = KeyR
           /\ w \in Creators => Key(w, id) = <<"create", id>>
<1>1. CASE w \in Rekeyers
  BY <1>1, Roles, NullAssumption DEF Key, Keys, KeyR
<1>2. CASE w \in Creators
  BY <1>2, Roles, NullAssumption DEF Key, Keys
<1>3. QED BY <1>1, <1>2, Roles

LEMMA KeysApart ==
    /\ KeyR \in Keys /\ KeyR[2] = Recorded
    /\ \A id \in Ids \ {Recorded} : <<"create", id>> \in Keys
    /\ \A k \in Keys : k[2] \in Ids /\ (k[2] = Recorded <=> k = KeyR)
    /\ \A k, l \in Keys : k[2] = l[2] => k = l
BY NullAssumption DEF Keys, KeyR

-----------------------------------------------------------------------------
(* What the steps do to the requests, the uploads and the workers. *)

Others(r) == \A x \in Requests : x # r => req'[x] = req[x]
Same(r) == req'[r].by = req[r].by /\ req'[r].chunk = req[r].chunk /\ req'[r].heard = req[r].heard
Goes(r, at) ==
    /\ Others(r) /\ Same(r)
    /\ req'[r].at = at /\ req'[r].id = req[r].id /\ req'[r].upload = req[r].upload /\ req'[r].ok = req[r].ok
Vanishes(r) == Others(r) /\ req'[r] = Free
\* A handler that answers.
Ends(r, ok) ==
    \/ /\ req[r].heard /\ Others(r) /\ Same(r)
       /\ req'[r].at = "reply" /\ req'[r].id = req[r].id /\ req'[r].upload = req[r].upload /\ req'[r].ok = ok
    \/ ~req[r].heard /\ Vanishes(r)

LEMMA Moved ==
    ASSUME TypeOK, NEW r \in Requests, NEW at \in {"init", "part", "complete", "record", "catch"}, Step(r, at)
    PROVE  req' \in [Requests -> Request] /\ Goes(r, at)
<1> DEFINE q == [req[r] EXCEPT !.at = at]
<1>1. /\ q \in Request /\ q.at = at /\ q.by = req[r].by /\ q.chunk = req[r].chunk /\ q.heard = req[r].heard
      /\ q.id = req[r].id /\ q.upload = req[r].upload /\ q.ok = req[r].ok
  BY DEF TypeOK, Request
<1>2. req' = [req EXCEPT ![r] = q] /\ req \in [Requests -> Request]
  BY DEF TypeOK, Step
<1> HIDE DEF q
<1>3. QED BY <1>1, <1>2 DEF Goes, Others, Same

LEMMA Freed ==
    ASSUME TypeOK, NEW r \in Requests, req' = [req EXCEPT ![r] = Free]
    PROVE  req' \in [Requests -> Request] /\ Vanishes(r)
<1>1. req \in [Requests -> Request]
  BY DEF TypeOK
<1>2. QED BY <1>1, FreeFields DEF Vanishes, Others

LEMMA Answers ==
    ASSUME TypeOK, NEW r \in Requests, NEW ok \in BOOLEAN,
           req' = [req EXCEPT ![r] = IF req[r].heard THEN [req[r] EXCEPT !.at = "reply", !.ok = ok] ELSE Free]
    PROVE  req' \in [Requests -> Request] /\ Ends(r, ok)
<1>1. CASE req[r].heard
  <2> DEFINE q == [req[r] EXCEPT !.at = "reply", !.ok = ok]
  <2>1. /\ q \in Request /\ q.at = "reply" /\ q.ok = ok /\ q.by = req[r].by /\ q.chunk = req[r].chunk
        /\ q.heard = req[r].heard /\ q.id = req[r].id /\ q.upload = req[r].upload
    BY DEF TypeOK, Request
  <2>2. req' = [req EXCEPT ![r] = q] /\ req \in [Requests -> Request]
    BY <1>1 DEF TypeOK
  <2> HIDE DEF q
  <2>3. QED BY <1>1, <2>1, <2>2 DEF Ends, Others, Same
<1>2. CASE ~req[r].heard
  BY <1>2, Freed DEF Ends
<1>3. QED BY <1>1, <1>2

LEMMA Answered ==
    ASSUME TypeOK, NEW r \in Requests, NEW ok \in BOOLEAN, Finish(r, ok)
    PROVE  /\ req' \in [Requests -> Request] /\ Ends(r, ok)
           /\ lock' = IF req[r].by \in Rekeyers /\ req[r].chunk = LastChunk THEN Nobody ELSE lock
BY Answers DEF Finish

\* S3's uploads.
SameUploads == \A u \in Uploads : multi'[u].id = multi[u].id /\ multi'[u].parts = multi[u].parts
OtherUploads(u) == \A v \in Uploads : v # u => multi'[v] = multi[v]
Shut(u) == OtherUploads(u) /\ (u \in Uploads => multi'[u] = NoMulti)
LEMMA Shutting ==
    ASSUME TypeOK, NEW u, multi' = Closed(u)
    PROVE  multi' \in [Uploads -> Multi] /\ Shut(u)
<1>1. multi \in [Uploads -> Multi]
  BY DEF TypeOK
<1>2. QED BY <1>1, NoMultiFields DEF Closed, Shut, OtherUploads

\* Sessions.
OtherSessions(k) == \A l \in Keys : l # k => session'[l] = session[l]
SameSessions == \A k \in Keys : session'[k].upload = session[k].upload
Forgets(k) == OtherSessions(k) /\ session'[k] = NoSession
LEMMA Forgotten ==
    ASSUME TypeOK, NEW k \in Keys, session' = [session EXCEPT ![k] = NoSession]
    PROVE  session' \in [Keys -> Session] /\ Forgets(k)
<1>1. session \in [Keys -> Session]
  BY DEF TypeOK
<1>2. QED BY <1>1, NoSessionFields DEF Forgets, OtherSessions

\* A worker after a chunk that failed, and after one that is stored.
OtherWorkers(w) == \A v \in Workers : v # w => client'[v] = client[v]
Again(c, d, w) ==
    /\ d.id = c.id
    /\ \/ d.phase = "sending" /\ d.retries < MaxRetries /\ d.chunk = c.chunk
       \/ d.phase = "failed" /\ d.chunk = c.chunk
       \/ w \in Rekeyers /\ d.phase = "download" /\ d.chunk = 0 /\ d.retries = 0
BackTo(w) == Again(client[w], client'[w], w)
Back(w) == OtherWorkers(w) /\ BackTo(w)
Forth(w, id) ==
    /\ OtherWorkers(w) /\ client'[w].id = id /\ client'[w].chunk = client[w].chunk + 1
    /\ client'[w].retries < MaxRetries
    /\ client'[w].phase = IF client[w].chunk = LastChunk THEN "done" ELSE "sending"

LEMMA SendAgainFacts ==
    ASSUME NEW c \in Client, c.retries < MaxRetries, NEW w
    PROVE  SendAgain(c) \in Client /\ Again(c, SendAgain(c), w)
<1> DEFINE p == IF c.retries + 1 >= MaxRetries THEN "failed" ELSE "sending"
           n == c.retries + 1
           d == [c EXCEPT !.retries = n, !.phase = p]
<1>1. p \in {"failed", "sending"} /\ n \in 0 .. MaxRetries /\ (p = "sending" => n < MaxRetries)
  BY Span DEF Client
<1> HIDE DEF p, n
<1>2. d \in Client /\ d.id = c.id /\ d.chunk = c.chunk /\ d.phase = p /\ d.retries = n
  BY <1>1 DEF Client
<1>3. SendAgain(c) = d
  BY DEF SendAgain, p, n
<1> HIDE DEF d
<1>4. QED BY <1>1, <1>2, <1>3 DEF Again

LEMMA StartOverFacts ==
    ASSUME NEW c \in Client, NEW w \in Rekeyers
    PROVE  /\ StartOver(c) \in Client /\ Again(c, StartOver(c), w)
           /\ StartOver(c).phase \in {"download", "failed"}
<1>1. CASE c.attempt < MaxFileRetries
  <2> DEFINE n == c.attempt + 1
             d == [c EXCEPT !.phase = "download", !.chunk = 0, !.retries = 0, !.attempt = n]
  <2>1. n \in 0 .. MaxFileRetries /\ 0 \in 0 .. Total
    BY <1>1, Span, SizeAssumption DEF Client
  <2> HIDE DEF n
  <2>2. d \in Client /\ d.id = c.id /\ d.chunk = 0 /\ d.phase = "download" /\ d.retries = 0
    BY <2>1, Span DEF Client
  <2>3. StartOver(c) = d
    BY <1>1 DEF StartOver, n
  <2> HIDE DEF d
  <2>4. QED BY <2>2, <2>3 DEF Again
<1>2. CASE ~(c.attempt < MaxFileRetries)
  <2> DEFINE d == [c EXCEPT !.phase = "failed"]
  <2>1. d \in Client /\ d.id = c.id /\ d.chunk = c.chunk /\ d.phase = "failed"
    BY DEF Client
  <2>2. StartOver(c) = d
    BY <1>2 DEF StartOver
  <2> HIDE DEF d
  <2>3. QED BY <2>1, <2>2 DEF Again
<1>3. QED BY <1>1, <1>2

LEMMA RetryFacts ==
    ASSUME NEW w \in Workers, client[w] \in Client, client[w].retries < MaxRetries
    PROVE  Retry(w) \in Client /\ Again(client[w], Retry(w), w)
<1> DEFINE c == client[w]
<1>1. CASE w \in Creators
  BY <1>1, SendAgainFacts DEF Retry
<1>2. CASE w \notin Creators
  <2>1. w \in Rekeyers /\ Retry(w) = RekeyAgain(c)
    BY <1>2, Roles DEF Retry
  <2>2. CASE c.retries + 1 < MaxRetries
    <3> DEFINE n == c.retries + 1
               d == [c EXCEPT !.retries = n, !.phase = "sending"]
    <3>1. n \in 0 .. MaxRetries /\ n < MaxRetries
      BY <2>2, Span DEF Client
    <3> HIDE DEF n
    <3>2. d \in Client /\ d.id = c.id /\ d.chunk = c.chunk /\ d.phase = "sending" /\ d.retries = n
      BY <3>1 DEF Client
    <3>3. Retry(w) = d
      BY <2>1, <2>2 DEF RekeyAgain, n
    <3> HIDE DEF d
    <3>4. QED BY <3>1, <3>2, <3>3 DEF Again
  <2>3. CASE ~(c.retries + 1 < MaxRetries)
    <3>1. Retry(w) = StartOver(c)
      BY <2>1, <2>3 DEF RekeyAgain
    <3>2. QED BY <2>1, <3>1, StartOverFacts
  <2>4. QED BY <2>2, <2>3
<1>3. QED BY <1>1, <1>2

LEMMA ProgressFacts ==
    ASSUME NEW c \in Client, c.chunk \in Chunks, NEW id \in Ids \cup {NoId}
    PROVE  /\ Progress(c, id) \in Client /\ Progress(c, id).id = id /\ Progress(c, id).chunk = c.chunk + 1
           /\ Progress(c, id).retries = 0
           /\ Progress(c, id).phase = IF c.chunk = LastChunk THEN "done" ELSE "sending"
<1> DEFINE p == IF c.chunk = LastChunk THEN "done" ELSE "sending"
           d == [c EXCEPT !.id = id, !.retries = 0, !.chunk = c.chunk + 1, !.phase = p]
<1>1. p \in {"done", "sending"} /\ c.chunk + 1 \in 0 .. Total /\ 0 \in 0 .. MaxRetries
  BY Span
<1> HIDE DEF p
<1>2. d \in Client /\ d.id = id /\ d.chunk = c.chunk + 1 /\ d.phase = p /\ d.retries = 0
  BY <1>1 DEF Client
<1>3. Progress(c, id) = d
  BY DEF Progress, p
<1> HIDE DEF d
<1>4. QED BY <1>2, <1>3 DEF p

-----------------------------------------------------------------------------
(* What each step of a handler does. *)

KeyAt(r) == Key(req[r].by, req[r].id)
Rest == UNCHANGED <<client, bucket, rows, share, timer, remover>>
Marks(kind) == kind \in Faults /\ scars' = scars \cup {kind}

\* Check: a refusal, a new id, the lock taken, a session not found, a session found.
Refusing(r) ==
    /\ req[r].at = "sent" /\ Ends(r, FALSE)
    /\ req[r].by \in Creators => ~share
    /\ req[r].by \in Rekeyers => ~share \/ rows[req[r].id] = 0 \/ (req[r].chunk = 0) = (lock # Nobody)
    /\ Rest /\ UNCHANGED <<session, multi, lock, scars>>
Naming(r) ==
    /\ req[r].at = "sent" /\ req[r].by \in Creators /\ req[r].chunk = 0
    /\ Others(r) /\ Same(r) /\ req'[r].ok = req[r].ok /\ req'[r].upload = req[r].upload
    /\ req'[r].at = "init" /\ req'[r].id \in FreshIds
    /\ Rest /\ UNCHANGED <<session, multi, lock, scars>>
Locking(r) ==
    /\ req[r].at = "sent" /\ req[r].by \in Rekeyers /\ req[r].chunk = 0 /\ rows[req[r].id] # 0
    /\ lock = Nobody /\ lock' = req[r].by /\ Goes(r, "init")
    /\ Rest /\ UNCHANGED <<session, multi, scars>>
Admitted(r) ==
    /\ req[r].at = "sent" /\ req[r].chunk # 0 /\ req[r].id \in Ids
    /\ req[r].by \in Rekeyers => lock # Nobody
    /\ scars' = IF req[r].by \in Creators \/ lock = req[r].by THEN scars ELSE scars \cup {"intruder"}
    /\ Rest /\ UNCHANGED lock
Missing(r) ==
    /\ Admitted(r) /\ session[KeyAt(r)].upload = NoUpload
    /\ Goes(r, "catch") /\ UNCHANGED <<session, multi>>
Finding(r) == LET u == session[KeyAt(r)].upload IN
    /\ Admitted(r) /\ u \in Uploads
    /\ Others(r) /\ Same(r) /\ req'[r].ok = req[r].ok /\ req'[r].id = req[r].id
    /\ req'[r].at = "part" /\ req'[r].upload = u
    /\ OtherSessions(KeyAt(r)) /\ session'[KeyAt(r)].upload = u /\ session'[KeyAt(r)].idle = 0
    /\ OtherUploads(u) /\ SameUploads
    /\ Open(u) => multi'[u].quiet = 0 /\ multi'[u].paused = multi[u].paused

LEMMA Found ==
    ASSUME Typed, NEW r \in Requests, req[r].at = "sent", req[r].id \in Ids, req[r].by \in Workers,
           req[r].by \in Rekeyers <=> req[r].id = Recorded, FindSession(r, req[r].id)
    PROVE  /\ req' \in [Requests -> Request] /\ session' \in [Keys -> Session] /\ multi' \in [Uploads -> Multi]
           /\ \/ /\ session[KeyAt(r)].upload = NoUpload
                 /\ Goes(r, "catch") /\ UNCHANGED <<session, multi>>
              \/ LET u == session[KeyAt(r)].upload IN
                 /\ u \in Uploads
                 /\ Others(r) /\ Same(r) /\ req'[r].ok = req[r].ok /\ req'[r].id = req[r].id
                 /\ req'[r].at = "part" /\ req'[r].upload = u
                 /\ OtherSessions(KeyAt(r)) /\ session'[KeyAt(r)].upload = u /\ session'[KeyAt(r)].idle = 0
                 /\ OtherUploads(u) /\ SameUploads
                 /\ Open(u) => multi'[u].quiet = 0 /\ multi'[u].paused = multi[u].paused
<1> DEFINE k == Key(req[r].by, req[r].id)
           u == session[k].upload
<1>0. TypeOK /\ k \in Keys /\ session[k] \in Session /\ u \in Uploads \cup {NoUpload}
  BY KeyFacts DEF Typed, TypeOK, Session
<1>1. CASE u = NoUpload
  <2>1. Step(r, "catch") /\ UNCHANGED <<session, multi>>
    BY <1>1 DEF FindSession
  <2>2. session' \in [Keys -> Session] /\ multi' \in [Uploads -> Multi]
    BY <1>0, <2>1 DEF TypeOK
  <2>3. QED BY <1>0, <1>1, <2>1, <2>2, Moved DEF KeyAt
<1>2. CASE u # NoUpload
  <2>1. u \in Uploads
    BY <1>0, <1>2
  <2>2. /\ req' = [req EXCEPT ![r].at = "part", ![r].upload = u]
        /\ session' = [session EXCEPT ![k].idle = 0]
        /\ multi' = IF Open(u) THEN [multi EXCEPT ![u].quiet = 0] ELSE multi
    BY <1>2 DEF FindSession, Touch
  <2> DEFINE q == [req[r] EXCEPT !.at = "part", !.upload = u]
             s == [session[k] EXCEPT !.idle = 0]
             m == [multi[u] EXCEPT !.quiet = 0]
  <2>3. /\ q \in Request /\ q.at = "part" /\ q.upload = u /\ q.by = req[r].by /\ q.chunk = req[r].chunk
        /\ q.heard = req[r].heard /\ q.ok = req[r].ok /\ q.id = req[r].id
    BY <1>0, <2>1 DEF TypeOK, Request
  <2>4. s \in Session /\ s.upload = u /\ s.idle = 0
    BY <1>0, Span DEF Session
  <2>5. m \in Multi /\ m.id = multi[u].id /\ m.parts = multi[u].parts /\ m.quiet = 0 /\ m.paused = multi[u].paused
    <3>1. multi[u] \in Multi /\ 0 \in 0 .. Ttl + 1
      BY <1>0, <2>1, Span DEF TypeOK
    <3>2. QED BY <3>1 DEF Multi
  <2>6. /\ req' = [req EXCEPT ![r] = q] /\ session' = [session EXCEPT ![k] = s]
        /\ multi' = IF Open(u) THEN [multi EXCEPT ![u] = m] ELSE multi
    BY <2>2
  <2>7. req \in [Requests -> Request] /\ session \in [Keys -> Session] /\ multi \in [Uploads -> Multi]
    BY <1>0 DEF TypeOK
  <2> HIDE DEF q, s, m
  <2>8. /\ req' \in [Requests -> Request] /\ Others(r) /\ Same(r) /\ req'[r].ok = req[r].ok /\ req'[r].id = req[r].id
        /\ req'[r].at = "part" /\ req'[r].upload = u
    BY <2>3, <2>6, <2>7 DEF Others, Same
  <2>9. /\ session' \in [Keys -> Session] /\ OtherSessions(k)
        /\ session'[k].upload = u /\ session'[k].idle = 0
    BY <1>0, <2>4, <2>6, <2>7 DEF OtherSessions
  <2>10. /\ multi' \in [Uploads -> Multi] /\ OtherUploads(u) /\ SameUploads
         /\ Open(u) => multi'[u].quiet = 0 /\ multi'[u].paused = multi[u].paused
    BY <2>1, <2>5, <2>6, <2>7 DEF OtherUploads, SameUploads
  <2>11. KeyAt(r) = k
    BY DEF KeyAt
  <2> HIDE DEF u, k
  <2>12. QED BY <2>1, <2>8, <2>9, <2>10, <2>11 DEF u
<1>3. QED BY <1>1, <1>2

\* What the types say of a request that is served.
LEMMA Served ==
    ASSUME Typed, NEW r \in Requests, req[r].at # "free"
    PROVE  /\ req[r] \in Request /\ req[r].by \in Workers /\ req[r].chunk \in Chunks
           /\ req[r].id # NoId => req[r].id \in Ids /\ (req[r].by \in Rekeyers <=> req[r].id = Recorded)
           /\ req[r].at \notin {"sent", "reply"} \/ req[r].chunk # 0 \/ req[r].by \in Rekeyers =>
                req[r].id \in Ids
<1>1. req[r] \in Request /\ RequestWhole(req[r])
  BY DEF Typed, TypeOK
<1>2. req[r].by \in Workers /\ req[r].chunk \in Chunks /\ req[r].id \in Ids \cup {NoId}
  BY <1>1 DEF RequestWhole, Request
<1>3. req[r].by \in Rekeyers => req[r].id = Recorded
  BY <1>1 DEF RequestWhole
<1>4. req[r].by \in Creators => req[r].id # Recorded
  BY <1>1 DEF RequestWhole
<1>5. req[r].id = NoId => req[r].chunk = 0 /\ req[r].at \in {"sent", "reply"}
  BY <1>1 DEF RequestWhole
<1>6. QED BY <1>1, <1>2, <1>3, <1>4, <1>5, Roles, NullAssumption

Checking(r) == Refusing(r) \/ Naming(r) \/ Locking(r) \/ Missing(r) \/ Finding(r)
LEMMA Checked ==
    ASSUME Typed, NEW r \in Requests, Check(r)
    PROVE  /\ req' \in [Requests -> Request] /\ session' \in [Keys -> Session] /\ multi' \in [Uploads -> Multi]
           /\ lock' \in Rekeyers \cup {Nobody} /\ Checking(r)
<1>0. /\ TypeOK /\ req[r].at = "sent" /\ req[r].by \in Workers /\ Rest
      /\ lock \in Rekeyers \cup {Nobody} /\ req \in [Requests -> Request] /\ req[r] \in Request
      /\ session \in [Keys -> Session] /\ multi \in [Uploads -> Multi]
  BY Served DEF Typed, TypeOK, Check, Rest, database, jobs
<1>1. ASSUME Refuse(r), UNCHANGED <<session, multi, scars>>,
             req[r].by \in Creators => ~share,
             req[r].by \in Rekeyers => ~share \/ rows[req[r].id] = 0 \/ (req[r].chunk = 0) = (lock # Nobody)
      PROVE  /\ req' \in [Requests -> Request] /\ session' \in [Keys -> Session] /\ multi' \in [Uploads -> Multi]
             /\ lock' \in Rekeyers \cup {Nobody} /\ Refusing(r)
  <2>1. req' \in [Requests -> Request] /\ Ends(r, FALSE) /\ lock' = lock
    BY <1>0, <1>1, Answers DEF Refuse
  <2>2. QED BY <1>0, <1>1, <2>1 DEF Refusing
<1>2. ASSUME req[r].by \in Creators, req[r].chunk = 0, FreshIds # {}, UNCHANGED <<session, multi, lock, scars>>,
             req' = [req EXCEPT ![r].at = "init", ![r].id = CHOOSE id \in FreshIds : TRUE]
      PROVE  /\ req' \in [Requests -> Request] /\ session' \in [Keys -> Session] /\ multi' \in [Uploads -> Multi]
             /\ lock' \in Rekeyers \cup {Nobody} /\ Naming(r)
  <2> DEFINE n == CHOOSE id \in FreshIds : TRUE
             q == [req[r] EXCEPT !.at = "init", !.id = n]
  <2>1. n \in FreshIds
    BY <1>2
  <2>2. n \in Ids
    BY <2>1 DEF FreshIds
  <2> HIDE DEF n
  <2>3. /\ q \in Request /\ q.at = "init" /\ q.id = n /\ q.by = req[r].by /\ q.chunk = req[r].chunk
        /\ q.heard = req[r].heard /\ q.ok = req[r].ok /\ q.upload = req[r].upload
    BY <1>0, <2>2 DEF Request
  <2>4. req' = [req EXCEPT ![r] = q]
    BY <1>2 DEF n
  <2> HIDE DEF q
  <2>5. /\ req' \in [Requests -> Request] /\ Others(r) /\ Same(r) /\ req'[r].ok = req[r].ok
        /\ req'[r].upload = req[r].upload /\ req'[r].at = "init" /\ req'[r].id \in FreshIds
    BY <1>0, <2>1, <2>3, <2>4 DEF Others, Same
  <2>6. QED BY <1>0, <1>2, <2>5 DEF Naming
<1>3. ASSUME req[r].chunk # 0, FindSession(r, req[r].id), lock' = lock,
             req[r].by \in Rekeyers => lock # Nobody,
             scars' = IF req[r].by \in Creators \/ lock = req[r].by THEN scars ELSE scars \cup {"intruder"}
      PROVE  /\ req' \in [Requests -> Request] /\ session' \in [Keys -> Session] /\ multi' \in [Uploads -> Multi]
             /\ lock' \in Rekeyers \cup {Nobody} /\ (Missing(r) \/ Finding(r))
  <2>1. req[r].id \in Ids /\ (req[r].by \in Rekeyers <=> req[r].id = Recorded)
    BY <1>0, <1>3, Served, NullAssumption
  <2>2. Admitted(r)
    BY <1>0, <1>3, <2>1 DEF Admitted
  <2>3. QED BY <1>0, <1>3, <2>1, <2>2, Found DEF Missing, Finding
<1>4. ASSUME req[r].by \in Rekeyers, rows[req[r].id] # 0, req[r].chunk = 0, lock = Nobody, lock' = req[r].by, scars' = scars,
             Step(r, "init"), UNCHANGED <<session, multi>>
      PROVE  /\ req' \in [Requests -> Request] /\ session' \in [Keys -> Session] /\ multi' \in [Uploads -> Multi]
             /\ lock' \in Rekeyers \cup {Nobody} /\ Locking(r)
  <2>1. req' \in [Requests -> Request] /\ Goes(r, "init")
    BY <1>0, <1>4, Moved
  <2>2. QED BY <1>0, <1>4, <2>1 DEF Locking
<1>5. CASE req[r].by \in Creators /\ ~share /\ Refuse(r) /\ UNCHANGED <<session, multi, scars>>
  <2>1. req[r].by \notin Rekeyers
    BY <1>0, <1>5, Roles
  <2>2. QED BY <1>1, <1>5, <2>1 DEF Checking
<1>6. CASE /\ req[r].by \in Rekeyers /\ Refuse(r) /\ UNCHANGED <<session, multi, scars>>
           /\ ~share \/ rows[req[r].id] = 0 \/ (req[r].chunk = 0) = (lock # Nobody)
  <2>1. req[r].by \notin Creators
    BY <1>0, <1>6, Roles
  <2>2. QED BY <1>1, <1>6, <2>1 DEF Checking
<1>7. CASE /\ req[r].by \in Creators /\ UNCHANGED <<lock, scars>>
           /\ IF req[r].chunk = 0
              THEN /\ FreshIds # {}
                   /\ req' = [req EXCEPT ![r].at = "init", ![r].id = CHOOSE id \in FreshIds : TRUE]
                   /\ UNCHANGED <<session, multi>>
              ELSE FindSession(r, req[r].id)
  <2>1. req[r].by \notin Rekeyers
    BY <1>0, <1>7, Roles
  <2>2. CASE req[r].chunk = 0
    BY <1>2, <1>7, <2>2 DEF Checking
  <2>3. CASE req[r].chunk # 0
    BY <1>3, <1>7, <2>1, <2>3 DEF Checking
  <2>4. QED BY <2>2, <2>3
<1>8. CASE /\ req[r].by \in Rekeyers /\ rows[req[r].id] # 0 /\ (req[r].chunk = 0) = (lock = Nobody)
           /\ lock' = IF lock = Nobody THEN req[r].by ELSE lock
           /\ scars' = IF lock \in {Nobody, req[r].by} THEN scars ELSE scars \cup {"intruder"}
           /\ IF req[r].chunk = 0 THEN Step(r, "init") /\ UNCHANGED <<session, multi>> ELSE FindSession(r, req[r].id)
  <2>1. req[r].by \notin Creators
    BY <1>0, <1>8, Roles
  <2>2. CASE req[r].chunk = 0
    BY <1>4, <1>8, <2>2 DEF Checking
  <2>3. CASE req[r].chunk # 0
    BY <1>3, <1>8, <2>1, <2>3 DEF Checking
  <2>4. QED BY <2>2, <2>3
<1>9. QED BY <1>5, <1>6, <1>7, <1>8 DEF Check

\* A call that fails, or that the code or S3 refuses; the beginning of an upload; a part.
Failing(r) ==
    /\ req[r].at \in {"init", "part", "complete", "record"} /\ Goes(r, "catch")
    /\ \/ Marks("error")
       \/ /\ scars' = scars
          /\ \/ req[r].at = "part" /\ ~Open(req[r].upload)
             \/ req[r].at = "complete" /\ ~Completable(req[r].upload)
             \/ req[r].at = "record" /\ req[r].by \in Rekeyers
                /\ (bucket[req[r].id] = Absent \/ rows[req[r].id] = 0)
    /\ Rest /\ UNCHANGED <<session, multi, lock>>
Beginning(r, u) ==
    /\ req[r].at = "init" /\ u \in FreshUploads
    /\ Others(r) /\ Same(r) /\ req'[r].ok = req[r].ok /\ req'[r].id = req[r].id
    /\ req'[r].at = "part" /\ req'[r].upload = u
    /\ OtherSessions(KeyAt(r)) /\ session'[KeyAt(r)] = [upload |-> u, idle |-> 0]
    /\ OtherUploads(u) /\ multi'[u].id = req[r].id /\ multi'[u].parts = <<>>
    /\ multi'[u].quiet = 0 /\ multi'[u].paused = FALSE
    /\ Rest /\ UNCHANGED <<lock, scars>>
Adding(r) == LET u == req[r].upload IN
    /\ req[r].at = "part" /\ Open(u)
    /\ OtherUploads(u) /\ multi'[u].id = multi[u].id
    /\ multi'[u].parts = Append(multi[u].parts, [by |-> req[r].by, chunk |-> req[r].chunk])
    /\ multi'[u].quiet = multi[u].quiet /\ multi'[u].paused = multi[u].paused
    /\ IF req[r].chunk = LastChunk THEN Goes(r, "complete") ELSE Ends(r, TRUE)
    /\ Rest /\ UNCHANGED <<session, lock, scars>>
\* The object, with and without its answer; the row; a row that is not written; the catch.
Making(r) == LET u == req[r].upload IN
    /\ req[r].at = "complete" /\ Completable(u) /\ u \in Uploads /\ Shut(u)
    /\ (\A id \in Ids : id # req[r].id => bucket'[id] = bucket[id]) /\ bucket'[req[r].id] = multi[u].parts
    /\ \/ Marks("error") /\ Goes(r, "catch") /\ session' = session
       \/ scars' = scars /\ Goes(r, "record") /\ Forgets(KeyAt(r))
    /\ UNCHANGED <<client, lock, rows, share, timer, remover>>
Possible(q) ==
    /\ bucket[q.id] # Absent /\ (q.by \in Rekeyers => rows[q.id] # 0)
    /\ q.by \in Creators => share /\ rows[q.id] = 0
Unlocks(r) == lock' = IF req[r].by \in Rekeyers /\ req[r].chunk = LastChunk THEN Nobody ELSE lock
Recording(r) ==
    /\ req[r].at = "record" /\ Possible(req[r]) /\ Ends(r, TRUE) /\ Unlocks(r)
    /\ (\A id \in Ids : id # req[r].id => rows'[id] = rows[id]) /\ rows'[req[r].id] = Len(bucket[req[r].id])
    /\ UNCHANGED <<client, session, multi, bucket, share, timer, remover, scars>>
Denying(r) ==
    /\ req[r].at = "record" /\ req[r].by \in Creators /\ Ends(r, FALSE)
    /\ \/ Marks("error")
       \/ scars' = scars /\ ~Possible(req[r])
    /\ Rest /\ UNCHANGED <<session, multi, lock>>
Catching(r) ==
    /\ req[r].at = "catch" /\ Ends(r, FALSE) /\ Unlocks(r) /\ Forgets(KeyAt(r))
    /\ \/ Marks("error") /\ multi' = multi
       \/ scars' = scars /\ Shut(session[KeyAt(r)].upload)
    /\ Rest

LEMMA Faulted ==
    ASSUME Typed, NEW kind, Fault(kind)
    PROVE  Marks(kind) /\ faults' \in Nat
BY DEF Fault, Marks, Typed

LEMMA InMemory ==
    ASSUME Typed, NEW r \in Requests, req[r].at \in {"init", "part", "complete", "record", "catch"}
    PROVE  /\ req[r].id \in Ids /\ req[r].by \in Workers /\ KeyAt(r) \in Keys /\ KeyAt(r)[2] = req[r].id
           /\ req[r].by \in Rekeyers <=> req[r].id = Recorded
           /\ req[r].by \in Rekeyers => KeyAt(r) = KeyR
           /\ req[r].by \in Creators => KeyAt(r) = <<"create", req[r].id>> /\ req[r].id # Recorded
           /\ RequestWhole(req[r]) /\ req[r] \in Request /\ req[r].chunk \in Chunks
<1>1. req[r].id \in Ids /\ req[r].by \in Workers /\ (req[r].by \in Rekeyers <=> req[r].id = Recorded)
      /\ req[r].chunk \in Chunks /\ req[r] \in Request
  BY Served, NullAssumption
<1>2. RequestWhole(req[r])
  BY DEF Typed
<1>3. QED BY <1>1, <1>2, KeyFacts, Roles DEF KeyAt

LEMMA Began ==
    ASSUME Typed, NEW r \in Requests, InitUpload(r)
    PROVE  /\ req' \in [Requests -> Request] /\ session' \in [Keys -> Session] /\ multi' \in [Uploads -> Multi]
           /\ faults' \in Nat
           /\ \/ Failing(r) \/ \E u \in FreshUploads : Beginning(r, u)
<1>0. /\ TypeOK /\ req[r].at = "init" /\ req[r].by \in Workers /\ req[r].id \in Ids /\ KeyAt(r) \in Keys
      /\ req \in [Requests -> Request] /\ req[r] \in Request /\ Rest /\ lock' = lock
      /\ session \in [Keys -> Session] /\ multi \in [Uploads -> Multi] /\ faults \in Nat
  BY InMemory DEF Typed, TypeOK, InitUpload, Rest, database, jobs
<1>1. CASE Fault("error") /\ Step(r, "catch") /\ UNCHANGED <<session, multi>>
  BY <1>0, <1>1, Faulted, Moved DEF Failing
<1>2. CASE /\ FreshUploads # {} /\ NoFault
           /\ multi' = [multi EXCEPT ![CHOOSE u \in FreshUploads : TRUE] = [NoMulti EXCEPT !.id = req[r].id]]
           /\ session' = [session EXCEPT ![Key(req[r].by, req[r].id)] = [upload |-> CHOOSE u \in FreshUploads : TRUE, idle |-> 0]]
           /\ req' = [req EXCEPT ![r].at = "part", ![r].upload = CHOOSE u \in FreshUploads : TRUE]
  <2> DEFINE u == CHOOSE u \in FreshUploads : TRUE
             m == [NoMulti EXCEPT !.id = req[r].id]
             s == [upload |-> u, idle |-> 0]
             q == [req[r] EXCEPT !.at = "part", !.upload = u]
             k == Key(req[r].by, req[r].id)
  <2>1. u \in FreshUploads
    BY <1>2
  <2>2. u \in Uploads
    BY <2>1 DEF FreshUploads
  <2>3. multi' = [multi EXCEPT ![u] = m] /\ session' = [session EXCEPT ![k] = s] /\ req' = [req EXCEPT ![r] = q]
    BY <1>2
  <2> HIDE DEF u
  <2>4. m \in Multi /\ m.id = req[r].id /\ m.parts = <<>> /\ m.quiet = 0 /\ m.paused = FALSE
    BY <1>0, NoMultiFields DEF Multi
  <2>5. s \in Session
    BY <2>2, Span DEF Session
  <2>6. /\ q \in Request /\ q.at = "part" /\ q.upload = u /\ q.by = req[r].by /\ q.chunk = req[r].chunk
        /\ q.heard = req[r].heard /\ q.ok = req[r].ok /\ q.id = req[r].id
    BY <1>0, <2>2 DEF Request
  <2> HIDE DEF m, s, q
  <2>7. /\ req' \in [Requests -> Request] /\ Others(r) /\ Same(r) /\ req'[r].ok = req[r].ok /\ req'[r].id = req[r].id
        /\ req'[r].at = "part" /\ req'[r].upload = u
    BY <1>0, <2>3, <2>6 DEF Others, Same
  <2>8. session' \in [Keys -> Session] /\ OtherSessions(k) /\ session'[k] = s
    BY <1>0, <2>3, <2>5 DEF OtherSessions, KeyAt
  <2>9. /\ multi' \in [Uploads -> Multi] /\ OtherUploads(u) /\ multi'[u].id = req[r].id /\ multi'[u].parts = <<>>
        /\ multi'[u].quiet = 0 /\ multi'[u].paused = FALSE
    BY <1>0, <2>2, <2>3, <2>4 DEF OtherUploads
  <2>10. k = KeyAt(r) /\ scars' = scars /\ faults' = faults
    BY <1>2 DEF KeyAt, NoFault
  <2> HIDE DEF k
  <2>11. Beginning(r, u)
    BY <1>0, <2>1, <2>7, <2>8, <2>9, <2>10 DEF Beginning, s
  <2>12. QED BY <1>0, <2>1, <2>7, <2>8, <2>9, <2>10, <2>11
<1>3. QED BY <1>1, <1>2 DEF InitUpload

LEMMA Parted ==
    ASSUME Typed, NEW r \in Requests, UploadPart(r)
    PROVE  /\ req' \in [Requests -> Request] /\ multi' \in [Uploads -> Multi] /\ faults' \in Nat
           /\ Failing(r) \/ Adding(r)
<1>0. /\ TypeOK /\ req[r].at = "part" /\ req[r].by \in Workers /\ req[r].chunk \in Chunks
      /\ req \in [Requests -> Request] /\ req[r] \in Request /\ Rest /\ session' = session
      /\ multi \in [Uploads -> Multi] /\ faults \in Nat
  BY InMemory DEF Typed, TypeOK, UploadPart, Rest, database, jobs
<1>1. CASE ~Open(req[r].upload) /\ Step(r, "catch") /\ NoFault /\ UNCHANGED <<multi, lock>>
  BY <1>0, <1>1, Moved DEF Failing, NoFault
<1>2. CASE Fault("error") /\ Step(r, "catch") /\ UNCHANGED <<multi, lock>>
  BY <1>0, <1>2, Faulted, Moved DEF Failing
<1>3. CASE /\ Open(req[r].upload) /\ NoFault
           /\ multi' = [multi EXCEPT ![req[r].upload].parts = Append(@, [by |-> req[r].by, chunk |-> req[r].chunk])]
           /\ IF req[r].chunk = LastChunk THEN Step(r, "complete") /\ UNCHANGED lock ELSE Finish(r, TRUE)
  <2> DEFINE u == req[r].upload
             p == Append(multi[u].parts, [by |-> req[r].by, chunk |-> req[r].chunk])
             m == [multi[u] EXCEPT !.parts = p]
  <2>1. u \in Uploads
    BY <1>3 DEF Open
  <2>2. p \in Seq(Piece)
    <3>1. [by |-> req[r].by, chunk |-> req[r].chunk] \in Piece
      BY <1>0 DEF Piece
    <3>2. multi[u].parts \in Seq(Piece)
      BY <1>0, <2>1 DEF Multi
    <3>3. QED BY <3>1, <3>2, AppendProperties
  <2> HIDE DEF p
  <2>3. m \in Multi /\ m.id = multi[u].id /\ m.parts = p /\ m.quiet = multi[u].quiet /\ m.paused = multi[u].paused
    BY <1>0, <2>1, <2>2 DEF Multi
  <2>4. multi' = [multi EXCEPT ![u] = m]
    BY <1>3 DEF p
  <2> HIDE DEF m
  <2>5. /\ multi' \in [Uploads -> Multi] /\ OtherUploads(u) /\ multi'[u].id = multi[u].id /\ multi'[u].parts = p
        /\ multi'[u].quiet = multi[u].quiet /\ multi'[u].paused = multi[u].paused
    BY <1>0, <2>1, <2>3, <2>4 DEF OtherUploads
  <2>6. /\ req' \in [Requests -> Request] /\ lock' = lock
        /\ IF req[r].chunk = LastChunk THEN Goes(r, "complete") ELSE Ends(r, TRUE)
    BY <1>0, <1>3, Moved, Answered
  <2>7. scars' = scars /\ faults' = faults
    BY <1>3 DEF NoFault
  <2>8. Adding(r)
    BY <1>0, <1>3, <2>5, <2>6, <2>7 DEF Adding, p
  <2>9. QED BY <1>0, <2>5, <2>6, <2>7, <2>8
<1>4. QED BY <1>1, <1>2, <1>3 DEF UploadPart

LEMMA Completed ==
    ASSUME Typed, NEW r \in Requests, CompleteUpload(r)
    PROVE  /\ req' \in [Requests -> Request] /\ session' \in [Keys -> Session] /\ multi' \in [Uploads -> Multi]
           /\ bucket' \in [Ids -> Seq(Piece)] /\ faults' \in Nat
           /\ Failing(r) \/ Making(r)
<1>0. /\ TypeOK /\ req[r].at = "complete" /\ req[r].by \in Workers /\ req[r].id \in Ids /\ KeyAt(r) \in Keys
      /\ req \in [Requests -> Request] /\ req[r] \in Request /\ UNCHANGED <<client, lock, rows, share, timer, remover>>
      /\ session \in [Keys -> Session] /\ multi \in [Uploads -> Multi] /\ bucket \in [Ids -> Seq(Piece)] /\ faults \in Nat
  BY InMemory DEF Typed, TypeOK, CompleteUpload, database, jobs
<1>1. ASSUME Step(r, "catch"), UNCHANGED <<session, storage>>,
             Fault("error") \/ (NoFault /\ ~Completable(req[r].upload))
      PROVE  /\ req' \in [Requests -> Request] /\ session' \in [Keys -> Session] /\ multi' \in [Uploads -> Multi]
             /\ bucket' \in [Ids -> Seq(Piece)] /\ faults' \in Nat /\ Failing(r)
  <2>1. req' \in [Requests -> Request] /\ Goes(r, "catch") /\ Rest /\ multi' = multi /\ bucket' = bucket
    BY <1>0, <1>1, Moved DEF Rest, storage
  <2>2. \/ Marks("error") /\ faults' \in Nat
        \/ scars' = scars /\ faults' \in Nat /\ ~Completable(req[r].upload)
    BY <1>0, <1>1, Faulted DEF NoFault
  <2>3. QED BY <1>0, <1>1, <2>1, <2>2 DEF Failing
<1>2. ASSUME Completable(req[r].upload), multi' = Closed(req[r].upload),
             bucket' = [bucket EXCEPT ![req[r].id] = multi[req[r].upload].parts],
             \/ Fault("error") /\ Step(r, "catch") /\ session' = session
             \/ NoFault /\ Step(r, "record") /\ session' = [session EXCEPT ![Key(req[r].by, req[r].id)] = NoSession]
      PROVE  /\ req' \in [Requests -> Request] /\ session' \in [Keys -> Session] /\ multi' \in [Uploads -> Multi]
             /\ bucket' \in [Ids -> Seq(Piece)] /\ faults' \in Nat /\ Making(r)
  <2>1. req[r].upload \in Uploads /\ multi[req[r].upload].parts \in Seq(Piece)
    BY <1>0, <1>2 DEF Completable, Open, Multi
  <2>2. multi' \in [Uploads -> Multi] /\ Shut(req[r].upload)
    BY <1>0, <1>2, Shutting
  <2>3. /\ bucket' \in [Ids -> Seq(Piece)] /\ (\A id \in Ids : id # req[r].id => bucket'[id] = bucket[id])
        /\ bucket'[req[r].id] = multi[req[r].upload].parts
    BY <1>0, <1>2, <2>1
  <2>4. CASE Fault("error") /\ Step(r, "catch") /\ session' = session
    BY <1>0, <1>2, <2>1, <2>2, <2>3, <2>4, Faulted, Moved DEF Making
  <2>5. CASE NoFault /\ Step(r, "record") /\ session' = [session EXCEPT ![Key(req[r].by, req[r].id)] = NoSession]
    <3>1. session' \in [Keys -> Session] /\ Forgets(KeyAt(r))
      BY <1>0, <2>5, Forgotten DEF KeyAt
    <3>2. req' \in [Requests -> Request] /\ Goes(r, "record") /\ scars' = scars /\ faults' = faults
      BY <1>0, <2>5, Moved DEF NoFault
    <3>3. QED BY <1>0, <1>2, <2>1, <2>2, <2>3, <3>1, <3>2 DEF Making
  <2>6. QED BY <1>2, <2>4, <2>5
<1>3. QED BY <1>1, <1>2 DEF CompleteUpload

LEMMA Rowed ==
    ASSUME Typed, NEW r \in Requests, Record(r)
    PROVE  /\ req' \in [Requests -> Request] /\ rows' \in [Ids -> Nat] /\ faults' \in Nat
           /\ lock' \in Rekeyers \cup {Nobody}
           /\ Recording(r) \/ Denying(r) \/ Failing(r)
<1>0. /\ TypeOK /\ req[r].at = "record" /\ req[r].by \in Workers /\ req[r].id \in Ids /\ lock \in Rekeyers \cup {Nobody}
      /\ req \in [Requests -> Request] /\ req[r] \in Request
      /\ UNCHANGED <<client, session, multi, bucket, share, timer, remover>>
      /\ rows \in [Ids -> Nat] /\ bucket \in [Ids -> Seq(Piece)] /\ faults \in Nat
  BY InMemory DEF Typed, TypeOK, Record, storage, jobs
<1> DEFINE possible == /\ bucket[req[r].id] # Absent
                       /\ IF req[r].by \in Creators THEN share /\ rows[req[r].id] = 0 ELSE rows[req[r].id] # 0
<1>1. possible = Possible(req[r])
  BY <1>0, Roles DEF Possible
<1>2. CASE possible /\ rows' = [rows EXCEPT ![req[r].id] = Len(bucket[req[r].id])] /\ Finish(r, TRUE) /\ NoFault
  <2>1. Len(bucket[req[r].id]) \in Nat
    BY <1>0, LenProperties
  <2>2. rows' \in [Ids -> Nat] /\ (\A id \in Ids : id # req[r].id => rows'[id] = rows[id]) /\ rows'[req[r].id] = Len(bucket[req[r].id])
    BY <1>0, <1>2, <2>1
  <2>3. /\ req' \in [Requests -> Request] /\ Ends(r, TRUE) /\ Unlocks(r)
    BY <1>0, <1>2, Answered DEF Unlocks
  <2>4. lock' \in Rekeyers \cup {Nobody} /\ scars' = scars /\ faults' = faults
    BY <1>0, <1>2, <2>3 DEF Unlocks, NoFault
  <2> HIDE DEF possible
  <2>5. QED BY <1>0, <1>1, <1>2, <2>2, <2>3, <2>4 DEF Recording
<1>3. CASE /\ IF possible THEN Fault("error") ELSE NoFault
           /\ IF req[r].by \in Creators THEN Finish(r, FALSE) ELSE Step(r, "catch") /\ UNCHANGED lock
           /\ UNCHANGED rows
  <2>1. \/ Marks("error") /\ faults' \in Nat
        \/ scars' = scars /\ faults' \in Nat /\ ~Possible(req[r])
    <3> HIDE DEF possible
    <3>1. QED BY <1>0, <1>1, <1>3, Faulted DEF NoFault
  <2>2. Rest
    BY <1>0, <1>3 DEF Rest
  <2>3. CASE req[r].by \in Creators
    <3>1. req[r].by \notin Rekeyers
      BY <1>0, <2>3, Roles
    <3>2. req' \in [Requests -> Request] /\ Ends(r, FALSE) /\ lock' = lock
      BY <1>0, <1>3, <2>3, <3>1, Answered
    <3>3. Denying(r)
      BY <1>0, <2>1, <2>2, <2>3, <3>2 DEF Denying
    <3>4. QED BY <1>0, <1>3, <2>1, <3>2, <3>3
  <2>4. CASE req[r].by \notin Creators
    <3>1. req[r].by \in Rekeyers
      BY <1>0, <2>4, Roles
    <3>2. req' \in [Requests -> Request] /\ Goes(r, "catch") /\ lock' = lock
      BY <1>0, <1>3, <2>4, Moved
    <3>3. ~Possible(req[r]) => bucket[req[r].id] = Absent \/ rows[req[r].id] = 0
      BY <2>4 DEF Possible
    <3>4. Failing(r)
      BY <1>0, <2>1, <2>2, <3>1, <3>2, <3>3 DEF Failing
    <3>5. QED BY <1>0, <1>3, <2>1, <3>2, <3>4
  <2>5. QED BY <2>3, <2>4
<1>4. QED BY <1>2, <1>3 DEF Record

LEMMA Caught ==
    ASSUME Typed, NEW r \in Requests, Catch(r)
    PROVE  /\ req' \in [Requests -> Request] /\ session' \in [Keys -> Session] /\ multi' \in [Uploads -> Multi]
           /\ faults' \in Nat /\ lock' \in Rekeyers \cup {Nobody}
           /\ Catching(r)
<1>0. /\ TypeOK /\ req[r].at = "catch" /\ KeyAt(r) \in Keys /\ lock \in Rekeyers \cup {Nobody}
      /\ Rest /\ multi \in [Uploads -> Multi] /\ faults \in Nat /\ Finish(r, FALSE)
      /\ session' = [session EXCEPT ![KeyAt(r)] = NoSession]
  BY InMemory DEF Typed, TypeOK, Catch, database, jobs, Rest, KeyAt
<1>1. session' \in [Keys -> Session] /\ Forgets(KeyAt(r))
  BY <1>0, Forgotten
<1>2. req' \in [Requests -> Request] /\ Ends(r, FALSE) /\ Unlocks(r)
  BY <1>0, Answered DEF Unlocks
<1>3. lock' \in Rekeyers \cup {Nobody}
  BY <1>0, <1>2 DEF Unlocks
<1>4. \/ Marks("error") /\ multi' = multi /\ faults' \in Nat
      \/ scars' = scars /\ faults' \in Nat /\ multi' \in [Uploads -> Multi] /\ Shut(session[KeyAt(r)].upload)
  <2>1. CASE Fault("error") /\ UNCHANGED multi
    BY <2>1, Faulted
  <2>2. CASE NoFault /\ multi' = IF session[KeyAt(r)] = NoSession THEN multi ELSE Closed(session[KeyAt(r)].upload)
    <3>1. scars' = scars /\ faults' \in Nat
      BY <1>0, <2>2 DEF NoFault
    <3>2. CASE session[KeyAt(r)] = NoSession
      <4>1. multi' = multi /\ session[KeyAt(r)].upload \notin Uploads
        BY <2>2, <3>2, NoSessionFields, NullAssumption
      <4>2. QED BY <1>0, <3>1, <4>1 DEF Shut, OtherUploads
    <3>3. CASE session[KeyAt(r)] # NoSession
      BY <1>0, <2>2, <3>1, <3>3, Shutting
    <3>4. QED BY <3>2, <3>3
  <2>3. QED BY <2>1, <2>2 DEF Catch, KeyAt
<1>5. QED BY <1>0, <1>1, <1>2, <1>3, <1>4 DEF Catching

-----------------------------------------------------------------------------
(* What the workers, the network, the jobs and the clock do. *)

World == UNCHANGED <<session, multi, bucket, rows, share, lock, timer, remover>>
Sending(w, r) ==
    /\ client[w].phase = "sending" /\ req[r] = Free /\ Others(r)
    /\ req'[r].by = w /\ req'[r].chunk = client[w].chunk /\ req'[r].id = client[w].id /\ req'[r].at = "sent"
    /\ req'[r].heard = TRUE /\ req'[r].ok = FALSE /\ req'[r].upload = NoUpload
    /\ OtherWorkers(w) /\ client'[w].phase = "waiting" /\ client'[w].chunk = client[w].chunk
    /\ client'[w].id = client[w].id /\ client'[w].retries = client[w].retries
    /\ World /\ UNCHANGED scars
Hearing(r) ==
    /\ req[r].at = "reply" /\ req[r].by \in Workers /\ Vanishes(r)
    /\ IF req[r].ok THEN Forth(req[r].by, req[r].id) ELSE Back(req[r].by)
    /\ World /\ UNCHANGED scars
Losing(r) ==
    /\ req[r].heard /\ req[r].at \in {"sent", "reply"} /\ req[r].by \in Workers
    /\ Vanishes(r) /\ Back(req[r].by) /\ Marks("loss") /\ World
Expiring(r) ==
    /\ req[r].heard /\ req[r].at \notin {"free", "reply"} /\ req[r].by \in Workers /\ Others(r)
    /\ req'[r].by = req[r].by /\ req'[r].chunk = req[r].chunk /\ req'[r].id = req[r].id
    /\ req'[r].upload = req[r].upload /\ req'[r].at = req[r].at /\ req'[r].ok = req[r].ok /\ req'[r].heard = FALSE
    /\ Back(req[r].by) /\ Marks("timeout") /\ World

\* A tab that downloads: it has the file, or the file is not there or not as it was, or
\* the download fails.
Fetchable == share /\ rows[Recorded] # 0 /\ Readable(Recorded)
Fetching(w) ==
    /\ w \in Rekeyers /\ client[w].phase = "download" /\ client[w].id = Recorded /\ client[w].chunk = 0
    /\ OtherWorkers(w) /\ client'[w].id = Recorded /\ client'[w].chunk = 0
    /\ \/ Fetchable /\ scars' = scars /\ client'[w].phase = "sending" /\ client'[w].retries = 0
       \/ /\ (~Fetchable /\ scars' = scars) \/ Marks("loss") \/ Marks("error")
          /\ client'[w].phase \in {"download", "failed"} /\ (client'[w].phase = "download" => client'[w].retries = 0)
    /\ req' = req /\ World

LEMMA Heedful ==
    ASSUME Typed, Waits, NEW r \in Requests, req[r].heard
    PROVE  /\ req[r].at # "free" /\ req[r].by \in Workers /\ client[req[r].by] \in Client
           /\ client[req[r].by].phase = "waiting" /\ client[req[r].by].chunk = req[r].chunk
           /\ client[req[r].by].retries < MaxRetries /\ req[r].chunk \in Chunks
<1>1. RequestWhole(req[r]) /\ Waiting(req[r]) /\ client \in [Workers -> Client] /\ req[r] \in Request
  BY DEF Typed, TypeOK, Waits
<1>2. req[r].at # "free"
  BY <1>1, FreeFields DEF RequestWhole
<1>3. req[r].by \in Workers
  BY <1>1, <1>2 DEF RequestWhole
<1>4. ClientWhole(req[r].by)
  BY <1>3 DEF Typed
<1>5. client[req[r].by].phase = "waiting" /\ client[req[r].by].chunk = req[r].chunk
  BY <1>1 DEF Waiting
<1>6. client[req[r].by].retries < MaxRetries
  BY <1>4, <1>5 DEF ClientWhole
<1>7. QED BY <1>1, <1>2, <1>3, <1>5, <1>6 DEF Request

LEMMA Retried ==
    ASSUME Typed, Waits, NEW r \in Requests, req[r].heard,
           client' = [client EXCEPT ![req[r].by] = Retry(req[r].by)]
    PROVE  client' \in [Workers -> Client] /\ Back(req[r].by)
<1> DEFINE w == req[r].by
           d == Retry(w)
<1>1. w \in Workers /\ client[w] \in Client /\ client[w].retries < MaxRetries /\ client \in [Workers -> Client]
  BY Heedful DEF Typed, TypeOK
<1>2. d \in Client /\ Again(client[w], d, w)
  BY <1>1, RetryFacts
<1>3. client' = [client EXCEPT ![w] = d]
  OBVIOUS
<1> HIDE DEF d
<1>4. client' \in [Workers -> Client] /\ client'[w] = d /\ OtherWorkers(w)
  BY <1>1, <1>2, <1>3 DEF OtherWorkers
<1>5. QED BY <1>2, <1>4 DEF Back, BackTo

LEMMA Sent ==
    ASSUME Typed, NEW w \in Workers, NEW r \in Requests, Send(w, r)
    PROVE  req' \in [Requests -> Request] /\ client' \in [Workers -> Client] /\ faults' = faults /\ Sending(w, r)
<1> DEFINE c == [client[w] EXCEPT !.phase = "waiting"]
           q == [Free EXCEPT !.by = w, !.chunk = client[w].chunk, !.id = client[w].id, !.at = "sent", !.heard = TRUE]
<1>1. /\ client[w] \in Client /\ ClientWhole(w) /\ client[w].phase = "sending" /\ req[r] = Free
      /\ client \in [Workers -> Client] /\ req \in [Requests -> Request]
      /\ World /\ scars' = scars /\ faults' = faults
  BY DEF Typed, TypeOK, Send, World, memory, storage, database, jobs, history
<1>2. client[w].chunk \in Chunks /\ client[w].id \in Ids \cup {NoId}
  <2>1. client[w].chunk # Total /\ client[w].chunk \in 0 .. Total /\ client[w].id \in Ids \cup {NoId}
    BY <1>1 DEF ClientWhole, Client
  <2>2. QED BY <2>1, SizeAssumption DEF Chunks
<1>3. /\ c \in Client /\ c.phase = "waiting" /\ c.chunk = client[w].chunk
      /\ c.id = client[w].id /\ c.retries = client[w].retries
  BY <1>1 DEF Client
<1>4. /\ q \in Request /\ q.by = w /\ q.chunk = client[w].chunk /\ q.id = client[w].id /\ q.at = "sent"
      /\ q.heard = TRUE /\ q.ok = FALSE /\ q.upload = NoUpload
  BY <1>2, Span DEF Free, Request
<1>5. client' = [client EXCEPT ![w] = c] /\ req' = [req EXCEPT ![r] = q]
  BY DEF Send
<1> HIDE DEF c, q
<1>6. req' \in [Requests -> Request] /\ client' \in [Workers -> Client] /\ req'[r] = q /\ client'[w] = c
      /\ Others(r) /\ OtherWorkers(w)
  BY <1>1, <1>3, <1>4, <1>5 DEF Others, OtherWorkers
<1>7. QED BY <1>1, <1>3, <1>4, <1>6 DEF Sending

LEMMA Fetched ==
    ASSUME Typed, NEW w \in Workers, Download(w)
    PROVE  client' \in [Workers -> Client] /\ faults' \in Nat /\ Fetching(w)
<1>1. /\ client[w] \in Client /\ client[w].phase = "download" /\ w \in Rekeyers /\ client[w].chunk = 0
      /\ client[w].id = Recorded /\ client[w].retries = 0 /\ client \in [Workers -> Client]
      /\ req' = req /\ World /\ faults \in Nat
  BY DEF Typed, TypeOK, ClientWhole, Download, World, memory, storage, database, jobs
<1>2. ASSUME client' = [client EXCEPT ![w] = StartOver(client[w])]
      PROVE  /\ client' \in [Workers -> Client] /\ OtherWorkers(w)
             /\ client'[w].id = Recorded /\ client'[w].chunk = 0
             /\ client'[w].phase \in {"download", "failed"} /\ (client'[w].phase = "download" => client'[w].retries = 0)
  <2> DEFINE d == StartOver(client[w])
  <2>1. d \in Client /\ Again(client[w], d, w) /\ d.phase \in {"download", "failed"}
    BY <1>1, StartOverFacts
  <2>2. client' = [client EXCEPT ![w] = d]
    BY <1>2
  <2> HIDE DEF d
  <2>3. client' \in [Workers -> Client] /\ client'[w] = d /\ OtherWorkers(w)
    BY <1>1, <2>1, <2>2 DEF OtherWorkers
  <2>4. QED BY <1>1, <2>1, <2>3 DEF Again
<1>3. CASE Fetchable /\ NoFault /\ client' = [client EXCEPT ![w] = [client[w] EXCEPT !.phase = "sending"]]
  <2> DEFINE d == [client[w] EXCEPT !.phase = "sending"]
  <2>1. d \in Client /\ d.id = Recorded /\ d.chunk = 0 /\ d.retries = 0 /\ d.phase = "sending"
    BY <1>1 DEF Client
  <2>2. client' = [client EXCEPT ![w] = d]
    BY <1>3
  <2> HIDE DEF d
  <2>3. client' \in [Workers -> Client] /\ client'[w] = d /\ OtherWorkers(w)
    BY <1>1, <2>1, <2>2 DEF OtherWorkers
  <2>4. QED BY <1>1, <1>3, <2>1, <2>3 DEF Fetching, NoFault
<1>4. CASE ~Fetchable /\ NoFault /\ client' = [client EXCEPT ![w] = StartOver(client[w])]
  BY <1>1, <1>2, <1>4 DEF Fetching, NoFault
<1>5. CASE /\ \E kind \in {"loss", "error"} : Fault(kind)
           /\ client' = [client EXCEPT ![w] = StartOver(client[w])]
  <2>1. faults' \in Nat /\ (Marks("loss") \/ Marks("error"))
    BY <1>1, <1>5, Faulted
  <2>2. QED BY <1>1, <1>2, <1>5, <2>1 DEF Fetching
<1>6. QED BY <1>1, <1>3, <1>4, <1>5 DEF Download, Fetchable

LEMMA Heard ==
    ASSUME Typed, Waits, NEW r \in Requests, Hear(r)
    PROVE  req' \in [Requests -> Request] /\ client' \in [Workers -> Client] /\ faults' = faults /\ Hearing(r)
<1>1. /\ req[r].at = "reply" /\ req' = [req EXCEPT ![r] = Free] /\ World /\ scars' = scars /\ faults' = faults
      /\ client' = [client EXCEPT ![req[r].by] = IF req[r].ok THEN Progress(@, req[r].id) ELSE Retry(req[r].by)]
  BY DEF Hear, World, memory, storage, database, jobs, history
<1>2. req[r].heard
  BY <1>1 DEF Typed, RequestWhole
<1>3. req' \in [Requests -> Request] /\ Vanishes(r)
  BY <1>1, Freed DEF Typed
<1>4. /\ req[r].by \in Workers /\ client[req[r].by] \in Client /\ client[req[r].by].chunk \in Chunks
      /\ client \in [Workers -> Client] /\ req[r].id \in Ids \cup {NoId}
  BY <1>2, Heedful DEF Typed, TypeOK, Request
<1>5. CASE req[r].ok
  <2> DEFINE w == req[r].by
             c == client[w]
             d == Progress(c, req[r].id)
  <2>1. /\ d \in Client /\ d.id = req[r].id /\ d.chunk = c.chunk + 1 /\ d.retries = 0
        /\ d.phase = IF c.chunk = LastChunk THEN "done" ELSE "sending"
    BY <1>4, ProgressFacts
  <2>2. client' = [client EXCEPT ![w] = d]
    BY <1>1, <1>5
  <2> HIDE DEF d
  <2>3. client' \in [Workers -> Client] /\ client'[w] = d /\ OtherWorkers(w)
    BY <1>4, <2>1, <2>2 DEF OtherWorkers
  <2>4. Forth(w, req[r].id)
    BY <2>1, <2>3, Span DEF Forth
  <2>5. QED BY <1>1, <1>3, <1>4, <1>5, <2>3, <2>4 DEF Hearing
<1>6. CASE ~req[r].ok
  <2>1. client' = [client EXCEPT ![req[r].by] = Retry(req[r].by)]
    BY <1>1, <1>6
  <2>2. client' \in [Workers -> Client] /\ Back(req[r].by)
    BY <1>2, <2>1, Retried
  <2>3. QED BY <1>1, <1>3, <1>4, <1>6, <2>2 DEF Hearing
<1>7. QED BY <1>5, <1>6

LEMMA Lost ==
    ASSUME Typed, Waits, NEW r \in Requests, Lose(r)
    PROVE  req' \in [Requests -> Request] /\ client' \in [Workers -> Client] /\ faults' \in Nat /\ Losing(r)
<1>1. /\ req[r].heard /\ req[r].at \in {"sent", "reply"} /\ Marks("loss") /\ faults' \in Nat /\ World
      /\ req' = [req EXCEPT ![r] = Free] /\ client' = [client EXCEPT ![req[r].by] = Retry(req[r].by)]
  BY Faulted DEF Lose, World, memory, storage, database, jobs
<1>2. req' \in [Requests -> Request] /\ Vanishes(r)
  BY <1>1, Freed DEF Typed
<1>3. client' \in [Workers -> Client] /\ Back(req[r].by) /\ req[r].by \in Workers
  BY <1>1, Retried, Heedful
<1>4. QED BY <1>1, <1>2, <1>3 DEF Losing

LEMMA Expired ==
    ASSUME Typed, Waits, NEW r \in Requests, Timeout(r)
    PROVE  req' \in [Requests -> Request] /\ client' \in [Workers -> Client] /\ faults' \in Nat /\ Expiring(r)
<1>1. /\ req[r].heard /\ req[r].at # "reply" /\ Marks("timeout") /\ faults' \in Nat /\ World
      /\ req' = [req EXCEPT ![r].heard = FALSE] /\ client' = [client EXCEPT ![req[r].by] = Retry(req[r].by)]
  BY Faulted DEF Timeout, World, memory, storage, database, jobs
<1> DEFINE q == [req[r] EXCEPT !.heard = FALSE]
<1>2. /\ q \in Request /\ q.by = req[r].by /\ q.chunk = req[r].chunk /\ q.id = req[r].id
      /\ q.upload = req[r].upload /\ q.at = req[r].at /\ q.ok = req[r].ok /\ q.heard = FALSE
  BY DEF Typed, TypeOK, Request
<1>3. req' = [req EXCEPT ![r] = q] /\ req \in [Requests -> Request]
  BY <1>1 DEF Typed, TypeOK
<1> HIDE DEF q
<1>4. req' \in [Requests -> Request] /\ req'[r] = q /\ Others(r)
  BY <1>2, <1>3 DEF Others
<1>5. client' \in [Workers -> Client] /\ Back(req[r].by) /\ req[r].by \in Workers /\ req[r].at # "free"
  BY <1>1, Retried, Heedful
<1>6. QED BY <1>1, <1>2, <1>4, <1>5 DEF Expiring

\* The timer.
Cleans == UNCHANGED <<client, req, lock, bucket, rows, share, remover>>
Listing ==
    /\ timer.at = "off" /\ timer'.at = "look" /\ timer'.key = timer.key /\ timer'.upload = timer.upload
    /\ \A e \in timer'.todo : \E k \in Keys : session[k].upload \in Uploads /\ e = <<k, session[k].upload>>
    /\ Cleans /\ UNCHANGED <<session, multi, scars>>
Choosing(e) ==
    /\ timer.at = "look" /\ e \in timer.todo /\ Idle(e)
    /\ timer'.at = "abort" /\ timer'.todo \subseteq timer.todo /\ timer'.key = e[1] /\ timer'.upload = e[2]
    /\ Cleans /\ UNCHANGED <<session, multi, scars>>
Skipping ==
    /\ timer.at = "look" /\ timer'.at \in {"look", "off"} /\ timer'.todo \subseteq timer.todo
    /\ timer'.upload = NoUpload \/ (timer'.upload = timer.upload /\ timer'.key = timer.key)
    /\ Cleans /\ UNCHANGED <<session, multi, scars>>
Aborting ==
    /\ timer.at = "abort" /\ timer'.at = "drop" /\ timer'.todo = timer.todo
    /\ timer'.key = timer.key /\ timer'.upload = timer.upload
    /\ \/ Marks("error") /\ multi' = multi
       \/ Shut(timer.upload) /\ scars' = IF multi[timer.upload].paused THEN scars \cup {"idle"} ELSE scars
    /\ Cleans /\ UNCHANGED session
Dismissing ==
    /\ timer.at = "drop" /\ timer'.at = "look" /\ timer'.todo = timer.todo /\ timer'.upload = NoUpload
    /\ Forgets(timer.key)
    /\ scars' = IF session[timer.key].upload \in {NoUpload, timer.upload} THEN scars ELSE scars \cup {"dropped"}
    /\ Cleans /\ UNCHANGED multi

LEMMA TimerOffType == TimerOff \in Timing /\ TimerOff.at = "off" /\ TimerOff.todo = {} /\ TimerOff.upload = NoUpload
BY KeysApart DEF TimerOff, Timing, KeyR

LEMMA Listed ==
    ASSUME Typed, TimerStart
    PROVE  timer' \in Timing /\ faults' = faults /\ Listing
<1> DEFINE t == {<<k, session[k].upload>> : k \in {x \in Keys : session[x] # NoSession}}
           n == [timer EXCEPT !.at = "look", !.todo = t]
<1>1. /\ timer.at = "off" /\ timer' = n /\ timer \in Timing /\ faults' = faults /\ scars' = scars
      /\ Cleans /\ UNCHANGED <<session, multi>>
  BY DEF TimerStart, Typed, Cleans, memory, storage, database, history
<1>2. \A k \in Keys : session[k] # NoSession => session[k].upload \in Uploads
  BY DEF Typed, TypeOK, Session
<1>3. \A e \in t : \E k \in Keys : session[k].upload \in Uploads /\ e = <<k, session[k].upload>>
  BY <1>2
<1>4. t \in SUBSET (Keys \X Uploads)
  BY <1>3
<1> HIDE DEF t
<1>5. n \in Timing /\ n.at = "look" /\ n.todo = t /\ n.key = timer.key /\ n.upload = timer.upload
  BY <1>1, <1>4 DEF Timing
<1> HIDE DEF n
<1>6. QED BY <1>1, <1>3, <1>5 DEF Listing

LEMMA Looked ==
    ASSUME Typed, TimerLook
    PROVE  timer' \in Timing /\ faults' = faults /\ (Skipping \/ \E e \in timer.todo : Choosing(e))
<1>1. /\ timer.at = "look" /\ timer \in Timing /\ faults' = faults /\ scars' = scars
      /\ Cleans /\ UNCHANGED <<session, multi>>
  BY DEF TimerLook, Typed, Cleans, memory, storage, database, history
<1>2. CASE timer' = TimerOff
  BY <1>1, <1>2, TimerOffType DEF Skipping
<1>3. ASSUME NEW e \in timer.todo, Idle(e),
             timer' = [at |-> "abort", todo |-> timer.todo \ {e}, key |-> e[1], upload |-> e[2]]
      PROVE  timer' \in Timing /\ Choosing(e)
  <2>1. timer.todo \in SUBSET (Keys \X Uploads)
    BY <1>1 DEF Timing
  <2>2. e[1] \in Keys /\ e[2] \in Uploads /\ timer.todo \ {e} \in SUBSET (Keys \X Uploads)
    BY <2>1
  <2>3. timer' \in Timing
    BY <1>3, <2>2 DEF Timing
  <2>4. QED BY <1>1, <1>3, <2>3 DEF Choosing
<1>4. ASSUME NEW e \in timer.todo, timer' = [timer EXCEPT !.todo = @ \ {e}]
      PROVE  timer' \in Timing /\ Skipping
  BY <1>1, <1>4 DEF Timing, Skipping
<1>5. QED BY <1>1, <1>2, <1>3, <1>4 DEF TimerLook

LEMMA Aborted ==
    ASSUME Typed, TimerAbort
    PROVE  timer' \in Timing /\ faults' \in Nat /\ multi' \in [Uploads -> Multi] /\ Aborting
<1>1. /\ timer.at = "abort" /\ timer \in Timing /\ faults \in Nat /\ timer' = [timer EXCEPT !.at = "drop"]
      /\ Cleans /\ UNCHANGED session /\ multi \in [Uploads -> Multi]
  BY DEF TimerAbort, Typed, TypeOK, Cleans, memory, database
<1>2. /\ timer' \in Timing /\ timer'.at = "drop" /\ timer'.todo = timer.todo
      /\ timer'.key = timer.key /\ timer'.upload = timer.upload
  BY <1>1 DEF Timing
<1>3. CASE Fault("error") /\ UNCHANGED multi
  BY <1>1, <1>2, <1>3, Faulted DEF Aborting
<1>4. CASE /\ multi' = Closed(timer.upload) /\ faults' = faults
           /\ scars' = IF multi[timer.upload].paused THEN scars \cup {"idle"} ELSE scars
  <2>1. multi' \in [Uploads -> Multi] /\ Shut(timer.upload)
    BY <1>4, Shutting DEF Typed
  <2>2. QED BY <1>1, <1>2, <1>4, <2>1 DEF Aborting
<1>5. QED BY <1>3, <1>4 DEF TimerAbort

LEMMA Dismissed ==
    ASSUME Typed, TimerDrop
    PROVE  timer' \in Timing /\ faults' = faults /\ session' \in [Keys -> Session] /\ timer.key \in Keys /\ Dismissing
<1>1. /\ timer.at = "drop" /\ timer \in Timing /\ faults' = faults
      /\ timer' = [timer EXCEPT !.at = "look", !.key = TimerOff.key, !.upload = NoUpload]
      /\ Cleans /\ UNCHANGED multi /\ TimerOff.key \in Keys
      /\ session' = [session EXCEPT ![timer.key] = NoSession]
      /\ scars' = IF session[timer.key].upload \in {NoUpload, timer.upload} THEN scars ELSE scars \cup {"dropped"}
  BY KeysApart DEF TimerDrop, Typed, Cleans, storage, database, TimerOff, KeyR
<1>2. timer' \in Timing /\ timer'.at = "look" /\ timer'.todo = timer.todo /\ timer'.upload = NoUpload /\ timer.key \in Keys
  BY <1>1 DEF Timing
<1>3. session' \in [Keys -> Session] /\ Forgets(timer.key)
  BY <1>1, <1>2, Forgotten DEF Typed
<1>4. QED BY <1>1, <1>2, <1>3 DEF Dismissing

\* A deletion: each of its steps is one of these.
Deletes == UNCHANGED <<client, req, session, lock, timer>>
Starting ==
    /\ remover.at = "off" /\ remover'.at \in {"object", "uploads"} /\ Marks("remove")
    /\ Deletes /\ UNCHANGED <<multi, bucket, rows, share>>
Clearing ==   \* objects
    /\ \/ /\ remover.at = "object" /\ remover'.at = "row" /\ bucket'[Recorded] = Absent
          /\ \A id \in Ids : id # Recorded => bucket'[id] = bucket[id]
       \/ /\ remover.at = "objects" /\ remover'.at = "share"
          /\ \A id \in Ids : bucket'[id] = Absent
    /\ Deletes /\ UNCHANGED <<multi, rows, share, scars>>
Erasing ==   \* rows
    /\ \/ /\ remover.at = "row" /\ rows'[Recorded] = 0 /\ share' = share
          /\ \A id \in Ids : id # Recorded => rows'[id] = rows[id]
       \/ remover.at = "share" /\ ~share' /\ \A id \in Ids : rows'[id] = 0
    /\ remover'.at = "off"
    /\ Deletes /\ UNCHANGED <<multi, bucket, scars>>
Freeing ==   \* uploads, and what fails
    /\ remover.at \in {"object", "uploads", "objects"}
    /\ remover'.at \in {"off", "uploads", "objects"}
    /\ multi' = multi \/ \E u \in Uploads : Shut(u)
    /\ scars' = scars \/ Marks("error")
    /\ Deletes /\ UNCHANGED <<bucket, rows, share>>
Deleting == Starting \/ Clearing \/ Erasing \/ Freeing

LEMMA RemoverOffType == RemoverOff \in Removal /\ RemoverOff.at = "off"
BY DEF RemoverOff, Removal

LEMMA Deleted ==
    ASSUME Typed, Remover
    PROVE  /\ remover' \in Removal /\ faults' \in Nat /\ multi' \in [Uploads -> Multi]
           /\ bucket' \in [Ids -> Seq(Piece)] /\ rows' \in [Ids -> Nat] /\ share' \in BOOLEAN
           /\ Deleting
<1>0. /\ TypeOK /\ remover \in Removal /\ faults \in Nat /\ multi \in [Uploads -> Multi]
      /\ bucket \in [Ids -> Seq(Piece)] /\ rows \in [Ids -> Nat] /\ share \in BOOLEAN
      /\ Recorded \in Ids
  BY NullAssumption DEF Typed, TypeOK
<1>1. Absent \in Seq(Piece)
  BY EmptySeq DEF Absent
<1>2. CASE RemoveStart
  <2>1. /\ remover.at = "off" /\ Marks("remove") /\ faults' \in Nat /\ Deletes
        /\ UNCHANGED <<multi, bucket, rows, share>>
    BY <1>2, Faulted DEF RemoveStart, Deletes, memory, storage, database
  <2>2. CASE remover' = [remover EXCEPT !.at = "object"]
    <3>1. remover' \in Removal /\ remover'.at = "object"
      BY <1>0, <2>2 DEF Removal
    <3>2. QED BY <1>0, <2>1, <3>1 DEF Starting, Deleting
  <2>3. CASE remover' = [at |-> "uploads", todo |-> {u \in Uploads : Open(u)}]
    <3>1. remover' \in Removal /\ remover'.at = "uploads"
      BY <2>3 DEF Removal
    <3>2. QED BY <1>0, <2>1, <3>1 DEF Starting, Deleting
  <2>4. QED BY <1>2, <2>2, <2>3 DEF RemoveStart
<1>3. CASE RemoveObject
  <2>1. remover.at = "object" /\ Deletes /\ UNCHANGED <<multi, rows, share>>
    BY <1>3 DEF RemoveObject, Deletes, memory, database
  <2>2. CASE Fault("error") /\ remover' = RemoverOff /\ UNCHANGED bucket
    BY <1>0, <2>1, <2>2, Faulted, RemoverOffType DEF Freeing, Deleting
  <2>3. CASE /\ bucket' = [bucket EXCEPT ![Recorded] = Absent]
             /\ remover' = [remover EXCEPT !.at = "row"] /\ NoFault
    <3>1. remover' \in Removal /\ remover'.at = "row"
      BY <1>0, <2>3 DEF Removal
    <3>2. /\ bucket' \in [Ids -> Seq(Piece)] /\ bucket'[Recorded] = Absent
          /\ \A id \in Ids : id # Recorded => bucket'[id] = bucket[id]
      BY <1>0, <1>1, <2>3
    <3>3. faults' = faults /\ scars' = scars
      BY <2>3 DEF NoFault
    <3>4. QED BY <1>0, <2>1, <3>1, <3>2, <3>3 DEF Clearing, Deleting
  <2>4. QED BY <1>3, <2>2, <2>3 DEF RemoveObject
<1>4. CASE RemoveRow
  <2>1. /\ remover.at = "row" /\ Deletes /\ remover' = RemoverOff /\ UNCHANGED <<multi, bucket, share, scars, faults>>
        /\ rows' = [rows EXCEPT ![Recorded] = 0]
    BY <1>4 DEF RemoveRow, Deletes, memory, storage, history
  <2>2. rows' \in [Ids -> Nat] /\ rows'[Recorded] = 0 /\ \A id \in Ids : id # Recorded => rows'[id] = rows[id]
    BY <1>0, <2>1
  <2>3. QED BY <1>0, <2>1, <2>2, RemoverOffType DEF Erasing, Deleting
<1>5. CASE RemoveUploads
  <2>1. remover.at = "uploads" /\ Deletes /\ UNCHANGED <<bucket, rows, share>>
    BY <1>5 DEF RemoveUploads, Deletes, memory, database
  <2>2. CASE remover.todo = {} /\ remover' = [remover EXCEPT !.at = "objects"] /\ NoFault /\ UNCHANGED multi
    <3>1. remover' \in Removal /\ remover'.at = "objects"
      BY <1>0, <2>2 DEF Removal
    <3>2. faults' = faults /\ scars' = scars
      BY <2>2 DEF NoFault
    <3>3. QED BY <1>0, <2>1, <2>2, <3>1, <3>2 DEF Freeing, Deleting
  <2>3. ASSUME NEW u \in remover.todo, multi' = Closed(u), NoFault,
               remover' = IF Open(u) THEN [remover EXCEPT !.todo = @ \ {u}] ELSE [at |-> "objects", todo |-> {}]
        PROVE  remover' \in Removal /\ faults' \in Nat /\ multi' \in [Uploads -> Multi] /\ Freeing
    <3>1. u \in Uploads
      BY <1>0 DEF Removal
    <3>2. remover' \in Removal /\ remover'.at \in {"uploads", "objects"}
      BY <1>0, <2>1, <2>3 DEF Removal
    <3>3. multi' \in [Uploads -> Multi] /\ Shut(u)
      BY <1>0, <2>3, Shutting
    <3>4. faults' = faults /\ scars' = scars
      BY <2>3 DEF NoFault
    <3>5. QED BY <1>0, <2>1, <3>1, <3>2, <3>3, <3>4 DEF Freeing
  <2>4. CASE Fault("error") /\ remover' = [at |-> "objects", todo |-> {}] /\ UNCHANGED multi
    <3>1. remover' \in Removal /\ remover'.at = "objects"
      BY <2>4 DEF Removal
    <3>2. QED BY <1>0, <2>1, <2>4, <3>1, Faulted DEF Freeing, Deleting
  <2>5. CASE \E u \in remover.todo :
            /\ remover' = IF Open(u) THEN [remover EXCEPT !.todo = @ \ {u}] ELSE [at |-> "objects", todo |-> {}]
            /\ multi' = Closed(u) /\ NoFault
    BY <1>0, <2>1, <2>3, <2>5 DEF Deleting
  <2>6. QED BY <1>5, <2>2, <2>4, <2>5 DEF RemoveUploads
<1>6. CASE RemoveObjects
  <2>1. remover.at = "objects" /\ Deletes /\ UNCHANGED <<multi, rows, share>>
    BY <1>6 DEF RemoveObjects, Deletes, memory, database
  <2>2. CASE Fault("error") /\ remover' = RemoverOff /\ UNCHANGED bucket
    BY <1>0, <2>1, <2>2, Faulted, RemoverOffType DEF Freeing, Deleting
  <2>3. CASE bucket' = [id \in Ids |-> Absent] /\ remover' = [remover EXCEPT !.at = "share"] /\ NoFault
    <3>1. remover' \in Removal /\ remover'.at = "share"
      BY <1>0, <2>3 DEF Removal
    <3>2. bucket' \in [Ids -> Seq(Piece)] /\ \A id \in Ids : bucket'[id] = Absent
      BY <1>1, <2>3
    <3>3. faults' = faults /\ scars' = scars
      BY <2>3 DEF NoFault
    <3>4. QED BY <1>0, <2>1, <3>1, <3>2, <3>3 DEF Clearing, Deleting
  <2>4. QED BY <1>6, <2>2, <2>3 DEF RemoveObjects
<1>7. CASE RemoveShare
  <2>1. /\ remover.at = "share" /\ Deletes /\ remover' = RemoverOff /\ UNCHANGED <<multi, bucket, scars, faults>>
        /\ share' = FALSE /\ rows' = [id \in Ids |-> 0]
    BY <1>7 DEF RemoveShare, Deletes, memory, storage, history
  <2>2. rows' \in [Ids -> Nat] /\ \A id \in Ids : rows'[id] = 0
    BY <2>1
  <2>3. QED BY <1>0, <2>1, <2>2, RemoverOffType DEF Erasing, Deleting
<1>8. QED BY <1>2, <1>3, <1>4, <1>5, <1>6, <1>7 DEF Remover

\* The job, a restart, the clock.
Sweeping(u) ==
    /\ Shut(u) /\ scars' = scars \cup {"stale"}
    /\ UNCHANGED <<client, req, session, lock, bucket, rows, share, timer, remover>>
LEMMA Swept ==
    ASSUME Typed, NEW u \in Uploads, StaleAbort(u)
    PROVE  faults' = faults /\ multi' \in [Uploads -> Multi] /\ Sweeping(u)
<1>1. multi' = Closed(u)
  BY DEF StaleAbort
<1>2. multi' \in [Uploads -> Multi] /\ Shut(u)
  BY <1>1, Shutting DEF Typed
<1>3. QED BY <1>2 DEF StaleAbort, Sweeping, memory, database, jobs

Crashing ==
    /\ Marks("crash") /\ \A r \in Requests : req'[r] = Free
    /\ \A w \in Workers :
        \/ client'[w] = client[w] /\ client[w].phase # "waiting"
        \/ client[w].phase = "waiting" /\ BackTo(w)
    /\ \A k \in Keys : session'[k] = NoSession
    /\ lock' = Nobody /\ timer' = TimerOff /\ remover' = RemoverOff
    /\ UNCHANGED <<multi, bucket, rows, share>>
LEMMA Crashed ==
    ASSUME Typed, Crash
    PROVE  /\ req' \in [Requests -> Request] /\ client' \in [Workers -> Client] /\ session' \in [Keys -> Session]
           /\ faults' \in Nat /\ Crashing
<1>1. /\ Marks("crash") /\ faults' \in Nat /\ req' = [r \in Requests |-> Free]
      /\ client' = [w \in Workers |-> IF client[w].phase = "waiting" THEN Retry(w) ELSE client[w]]
      /\ session' = [k \in Keys |-> NoSession] /\ lock' = Nobody /\ timer' = TimerOff /\ remover' = RemoverOff
      /\ UNCHANGED <<multi, bucket, rows, share>>
  BY Faulted DEF Crash, storage, database
<1>2. req' \in [Requests -> Request] /\ \A r \in Requests : req'[r] = Free
  BY <1>1, FreeFields
<1>3. session' \in [Keys -> Session] /\ \A k \in Keys : session'[k] = NoSession
  BY <1>1, NoSessionFields
<1>4. ASSUME NEW w \in Workers
      PROVE  /\ client'[w] \in Client
             /\ \/ client'[w] = client[w] /\ client[w].phase # "waiting"
                \/ client[w].phase = "waiting" /\ BackTo(w)
  <2>1. client[w] \in Client /\ ClientWhole(w)
    BY DEF Typed, TypeOK
  <2>2. CASE client[w].phase = "waiting"
    <3>1. client'[w] = Retry(w) /\ client[w].retries < MaxRetries
      BY <1>1, <2>1, <2>2 DEF ClientWhole
    <3>2. Retry(w) \in Client /\ Again(client[w], Retry(w), w)
      BY <2>1, <3>1, RetryFacts
    <3>3. QED BY <2>2, <3>1, <3>2 DEF BackTo
  <2>3. CASE client[w].phase # "waiting"
    BY <1>1, <2>1, <2>3
  <2>4. QED BY <2>2, <2>3
<1>5. client' \in [Workers -> Client]
  BY <1>1, <1>4
<1>6. QED BY <1>1, <1>2, <1>3, <1>4, <1>5 DEF Crashing

Ticking ==
    /\ SameUploads /\ SameSessions
    /\ \A k \in Keys : session[k] = NoSession => session'[k] = NoSession
    /\ \A k \in Keys : session[k] # NoSession =>
            session'[k].idle = IF session[k].idle > Ttl THEN session[k].idle ELSE session[k].idle + 1
    /\ \A u \in Uploads : Open(u) =>
        /\ multi'[u].quiet = IF multi[u].quiet > Ttl THEN multi[u].quiet ELSE multi[u].quiet + 1
        /\ multi'[u].paused <=> multi[u].paused \/ multi[u].quiet >= Ttl
    /\ UNCHANGED <<client, req, lock, bucket, rows, share, timer, remover, scars>>
LEMMA Ticked ==
    ASSUME Typed, Tick
    PROVE  /\ session' \in [Keys -> Session] /\ multi' \in [Uploads -> Multi] /\ faults' = faults /\ Ticking
<1>0. TypeOK /\ session \in [Keys -> Session] /\ multi \in [Uploads -> Multi]
  BY DEF Typed, TypeOK
<1>1. /\ session' = [k \in Keys |-> IF session[k] = NoSession THEN NoSession ELSE
            [session[k] EXCEPT !.idle = IF session[k].idle > Ttl THEN session[k].idle ELSE session[k].idle + 1]]
      /\ multi' = [u \in Uploads |-> IF ~Open(u) THEN multi[u] ELSE
            [multi[u] EXCEPT !.age = IF multi[u].age > StaleAge THEN multi[u].age ELSE multi[u].age + 1,
                             !.quiet = IF multi[u].quiet > Ttl THEN multi[u].quiet ELSE multi[u].quiet + 1,
                             !.paused = multi[u].paused \/ multi[u].quiet >= Ttl]]
      /\ UNCHANGED <<client, req, lock, bucket, rows, share, timer, remover, scars, faults>>
  BY DEF Tick, database, jobs, history
<1>2. ASSUME NEW k \in Keys
      PROVE  /\ session'[k] \in Session /\ session'[k].upload = session[k].upload
             /\ session[k] = NoSession => session'[k] = NoSession
             /\ session[k] # NoSession =>
                    session'[k].idle = IF session[k].idle > Ttl THEN session[k].idle ELSE session[k].idle + 1
  <2>1. CASE session[k] = NoSession
    BY <1>1, <2>1, NoSessionFields
  <2>2. CASE session[k] # NoSession
    <3> DEFINE i == IF session[k].idle > Ttl THEN session[k].idle ELSE session[k].idle + 1
               s == [session[k] EXCEPT !.idle = i]
    <3>1. session[k] \in Session
      BY <1>0
    <3>2. session[k].idle \in 0 .. Ttl + 1
      BY <3>1 DEF Session
    <3>3. i \in 0 .. Ttl + 1
      BY <3>2, SizeAssumption
    <3> HIDE DEF i
    <3>4. s \in Session /\ s.upload = session[k].upload /\ s.idle = i
      BY <3>1, <3>3 DEF Session
    <3>5. session'[k] = s
      BY <1>1, <2>2 DEF i
    <3> HIDE DEF s
    <3>6. QED BY <2>2, <3>4, <3>5 DEF i
  <2>3. QED BY <2>1, <2>2
<1>3. ASSUME NEW u \in Uploads
      PROVE  /\ multi'[u] \in Multi /\ multi'[u].id = multi[u].id /\ multi'[u].parts = multi[u].parts
             /\ Open(u) =>
                /\ multi'[u].quiet = IF multi[u].quiet > Ttl THEN multi[u].quiet ELSE multi[u].quiet + 1
                /\ multi'[u].paused <=> multi[u].paused \/ multi[u].quiet >= Ttl
  <2>1. CASE ~Open(u)
    BY <1>0, <1>1, <2>1
  <2>2. CASE Open(u)
    <3> DEFINE a == IF multi[u].age > StaleAge THEN multi[u].age ELSE multi[u].age + 1
               n == IF multi[u].quiet > Ttl THEN multi[u].quiet ELSE multi[u].quiet + 1
               b == (multi[u].paused \/ multi[u].quiet >= Ttl)
               m == [multi[u] EXCEPT !.age = a, !.quiet = n, !.paused = b]
    <3>1. multi[u] \in Multi
      BY <1>0
    <3>2. multi[u].age \in 0 .. StaleAge + 1 /\ multi[u].quiet \in 0 .. Ttl + 1
      BY <3>1 DEF Multi
    <3>3. a \in 0 .. StaleAge + 1 /\ n \in 0 .. Ttl + 1
      BY <3>2, SizeAssumption
    <3>4. b \in BOOLEAN
      OBVIOUS
    <3>5. multi'[u] = m
      BY <1>1, <2>2, Zenon
    <3> HIDE DEF a, n, b
    <3>6. m \in Multi /\ m.id = multi[u].id /\ m.parts = multi[u].parts /\ m.quiet = n /\ m.paused = b
      BY <3>1, <3>3, <3>4 DEF Multi
    <3> HIDE DEF m
    <3>7. QED BY <2>2, <3>5, <3>6 DEF n, b
  <2>3. QED BY <2>1, <2>2
<1>4. session' \in [Keys -> Session] /\ multi' \in [Uploads -> Multi]
  BY <1>1, <1>2, <1>3
<1>5. QED BY <1>1, <1>2, <1>3, <1>4 DEF Ticking, SameUploads, SameSessions

-----------------------------------------------------------------------------
(* Every step is of one of these kinds, and keeps the types. *)

Handling(r) ==
    Checking(r) \/ Failing(r) \/ (\E u \in FreshUploads : Beginning(r, u)) \/ Adding(r) \/ Making(r)
        \/ Recording(r) \/ Denying(r) \/ Catching(r)
Timeful == Listing \/ Skipping \/ (\E e \in timer.todo : Choosing(e)) \/ Aborting \/ Dismissing
Kinds ==
    \/ UNCHANGED vars
    \/ \E w \in Workers, r \in Requests : Sending(w, r)
    \/ \E w \in Workers : Fetching(w)
    \/ \E r \in Requests : Handling(r) \/ Hearing(r) \/ Losing(r) \/ Expiring(r)
    \/ Timeful \/ Deleting \/ (\E u \in Uploads : Sweeping(u)) \/ Crashing \/ Ticking
TimeTypes == timer' \in Timing /\ remover' \in Removal /\ faults' \in Nat

LEMMA HandlingTyped ==
    ASSUME Typed, NEW r \in Requests, Serve(r)
    PROVE  TypeOK' /\ TimeTypes /\ Handling(r)
<1>0. TypeOK /\ timer \in Timing /\ remover \in Removal /\ faults \in Nat
  BY DEF Typed
<1>1. CASE Check(r)
  <2>1. /\ req' \in [Requests -> Request] /\ session' \in [Keys -> Session] /\ multi' \in [Uploads -> Multi]
        /\ lock' \in Rekeyers \cup {Nobody} /\ Checking(r)
    BY <1>1, Checked
  <2>2. UNCHANGED <<client, bucket, rows, share, timer, remover, faults>>
    BY <1>1 DEF Check, database, jobs
  <2>3. QED BY <1>0, <2>1, <2>2 DEF TypeOK, TimeTypes, Handling
<1>2. CASE InitUpload(r)
  <2>1. /\ req' \in [Requests -> Request] /\ session' \in [Keys -> Session] /\ multi' \in [Uploads -> Multi]
        /\ faults' \in Nat /\ (Failing(r) \/ \E u \in FreshUploads : Beginning(r, u))
    BY <1>2, Began
  <2>2. UNCHANGED <<client, bucket, rows, share, timer, remover, lock>>
    BY <1>2 DEF InitUpload, database, jobs
  <2>3. QED BY <1>0, <2>1, <2>2 DEF TypeOK, TimeTypes, Handling
<1>3. CASE UploadPart(r)
  <2>1. req' \in [Requests -> Request] /\ multi' \in [Uploads -> Multi] /\ faults' \in Nat /\ (Failing(r) \/ Adding(r))
    BY <1>3, Parted
  <2>2. UNCHANGED <<client, session, bucket, rows, share, timer, remover, lock>>
    BY <1>3, <2>1 DEF UploadPart, database, jobs, Failing, Adding
  <2>3. QED BY <1>0, <2>1, <2>2 DEF TypeOK, TimeTypes, Handling
<1>4. CASE CompleteUpload(r)
  <2>1. /\ req' \in [Requests -> Request] /\ session' \in [Keys -> Session] /\ multi' \in [Uploads -> Multi]
        /\ bucket' \in [Ids -> Seq(Piece)] /\ faults' \in Nat /\ (Failing(r) \/ Making(r))
    BY <1>4, Completed
  <2>2. UNCHANGED <<client, rows, share, timer, remover, lock>>
    BY <1>4 DEF CompleteUpload, database, jobs
  <2>3. QED BY <1>0, <2>1, <2>2 DEF TypeOK, TimeTypes, Handling
<1>5. CASE Record(r)
  <2>1. /\ req' \in [Requests -> Request] /\ rows' \in [Ids -> Nat] /\ faults' \in Nat /\ lock' \in Rekeyers \cup {Nobody}
        /\ (Recording(r) \/ Denying(r) \/ Failing(r))
    BY <1>5, Rowed
  <2>2. UNCHANGED <<client, session, multi, bucket, share, timer, remover>>
    BY <1>5 DEF Record, storage, jobs
  <2>3. QED BY <1>0, <2>1, <2>2 DEF TypeOK, TimeTypes, Handling
<1>6. CASE Catch(r)
  <2>1. /\ req' \in [Requests -> Request] /\ session' \in [Keys -> Session] /\ multi' \in [Uploads -> Multi]
        /\ faults' \in Nat /\ lock' \in Rekeyers \cup {Nobody} /\ Catching(r)
    BY <1>6, Caught
  <2>2. UNCHANGED <<client, bucket, rows, share, timer, remover>>
    BY <1>6 DEF Catch, database, jobs
  <2>3. QED BY <1>0, <2>1, <2>2 DEF TypeOK, TimeTypes, Handling
<1>7. QED BY <1>1, <1>2, <1>3, <1>4, <1>5, <1>6 DEF Serve

LEMMA StepsTyped ==
    ASSUME Typed, Waits, [Next]_vars
    PROVE  TypeOK' /\ TimeTypes /\ Kinds
<1>0. TypeOK /\ timer \in Timing /\ remover \in Removal /\ faults \in Nat
  BY DEF Typed
<1>1. ASSUME NEW w \in Workers, NEW r \in Requests, Send(w, r) PROVE TypeOK' /\ TimeTypes /\ Kinds
  <2>1. req' \in [Requests -> Request] /\ client' \in [Workers -> Client] /\ faults' = faults /\ Sending(w, r)
    BY <1>1, Sent
  <2>2. World
    BY <2>1 DEF Sending
  <2>3. QED BY <1>0, <2>1, <2>2 DEF TypeOK, TimeTypes, Kinds, World
<1>2. ASSUME NEW r \in Requests, Serve(r) PROVE TypeOK' /\ TimeTypes /\ Kinds
  BY <1>2, HandlingTyped DEF Kinds
<1>3. ASSUME NEW r \in Requests, Hear(r) \/ Lose(r) \/ Timeout(r) PROVE TypeOK' /\ TimeTypes /\ Kinds
  <2>1. /\ req' \in [Requests -> Request] /\ client' \in [Workers -> Client] /\ faults' \in Nat
        /\ Hearing(r) \/ Losing(r) \/ Expiring(r)
    BY <1>0, <1>3, Heard, Lost, Expired
  <2>2. World
    BY <2>1 DEF Hearing, Losing, Expiring
  <2>3. QED BY <1>0, <2>1, <2>2 DEF TypeOK, TimeTypes, Kinds, World
<1>4. CASE Timer
  <2>1. CASE TimerStart \/ TimerLook
    <3>1. /\ timer' \in Timing /\ faults' = faults
          /\ Listing \/ Skipping \/ \E e \in timer.todo : Choosing(e)
      BY <2>1, Listed, Looked
    <3>2. Cleans /\ UNCHANGED <<session, multi>>
      BY <3>1 DEF Listing, Skipping, Choosing
    <3>3. Kinds
      BY <3>1 DEF Kinds, Timeful
    <3>4. QED BY <1>0, <3>1, <3>2, <3>3 DEF TypeOK, TimeTypes, Cleans
  <2>2. CASE TimerAbort
    <3>1. timer' \in Timing /\ faults' \in Nat /\ multi' \in [Uploads -> Multi] /\ Aborting
      BY <2>2, Aborted
    <3>2. Cleans /\ UNCHANGED session
      BY <3>1 DEF Aborting
    <3>3. QED BY <1>0, <3>1, <3>2 DEF TypeOK, TimeTypes, Cleans, Kinds, Timeful
  <2>3. CASE TimerDrop
    <3>1. timer' \in Timing /\ faults' = faults /\ session' \in [Keys -> Session] /\ Dismissing
      BY <2>3, Dismissed
    <3>2. Cleans /\ UNCHANGED multi
      BY <3>1 DEF Dismissing
    <3>3. QED BY <1>0, <3>1, <3>2 DEF TypeOK, TimeTypes, Cleans, Kinds, Timeful
  <2>4. QED BY <1>4, <2>1, <2>2, <2>3 DEF Timer
<1>5. CASE Remover
  <2>1. /\ remover' \in Removal /\ faults' \in Nat /\ multi' \in [Uploads -> Multi]
        /\ bucket' \in [Ids -> Seq(Piece)] /\ rows' \in [Ids -> Nat] /\ share' \in BOOLEAN
        /\ Deleting
    BY <1>5, Deleted
  <2>2. Deletes
    BY <2>1 DEF Deleting, Starting, Clearing, Erasing, Freeing
  <2>3. QED BY <1>0, <2>1, <2>2 DEF TypeOK, TimeTypes, Deletes, Kinds
<1>6. ASSUME NEW u \in Uploads, StaleAbort(u) PROVE TypeOK' /\ TimeTypes /\ Kinds
  <2>1. faults' = faults /\ multi' \in [Uploads -> Multi] /\ Sweeping(u)
    BY <1>6, Swept
  <2>2. UNCHANGED <<client, req, session, lock, bucket, rows, share, timer, remover>>
    BY <2>1 DEF Sweeping
  <2>3. QED BY <1>0, <2>1, <2>2 DEF TypeOK, TimeTypes, Kinds
<1>7. CASE Crash
  <2>1. /\ req' \in [Requests -> Request] /\ client' \in [Workers -> Client] /\ session' \in [Keys -> Session]
        /\ faults' \in Nat /\ Crashing
    BY <1>7, Crashed
  <2>2. /\ timer' = TimerOff /\ remover' = RemoverOff /\ lock' = Nobody /\ UNCHANGED <<multi, bucket, rows, share>>
    BY <2>1 DEF Crashing
  <2>3. QED BY <1>0, <2>1, <2>2, TimerOffType, RemoverOffType DEF TypeOK, TimeTypes, Kinds
<1>8. CASE Tick
  <2>1. session' \in [Keys -> Session] /\ multi' \in [Uploads -> Multi] /\ faults' = faults /\ Ticking
    BY <1>8, Ticked
  <2>2. UNCHANGED <<client, req, lock, bucket, rows, share, timer, remover, scars>>
    BY <2>1 DEF Ticking
  <2>3. QED BY <1>0, <2>1, <2>2 DEF TypeOK, TimeTypes, Kinds
<1>9. CASE UNCHANGED vars
  BY <1>0, <1>9 DEF vars, memory, storage, database, jobs, history, TypeOK, TimeTypes, Kinds
<1>10. ASSUME NEW w \in Workers, Download(w) PROVE TypeOK' /\ TimeTypes /\ Kinds
  <2>1. client' \in [Workers -> Client] /\ faults' \in Nat /\ Fetching(w)
    BY <1>10, Fetched
  <2>2. World /\ req' = req
    BY <2>1 DEF Fetching
  <2>3. QED BY <1>0, <2>1, <2>2 DEF TypeOK, TimeTypes, Kinds, World
<1>11. QED BY <1>1, <1>2, <1>3, <1>4, <1>5, <1>6, <1>7, <1>8, <1>9, <1>10 DEF Next

LEMMA TypedInit == Init => Typed
<1> SUFFICES ASSUME Init PROVE Typed
  OBVIOUS
<1>1. PICK W \in SUBSET Workers : client = [w \in Workers |->
            [phase |-> IF w \notin W THEN "absent" ELSE IF w \in Creators THEN "sending" ELSE "download",
             chunk |-> 0, id |-> IF w \in Creators THEN NoId ELSE Recorded,
             retries |-> 0, attempt |-> 0]]
  BY DEF Init
<1>2. /\ req = [r \in Requests |-> Free] /\ session = [k \in Keys |-> NoSession] /\ multi = [u \in Uploads |-> NoMulti]
      /\ bucket = [id \in Ids |-> IF id = Recorded THEN Object(Old) ELSE Absent]
      /\ rows = [id \in Ids |-> IF id = Recorded THEN Total ELSE 0]
      /\ share = TRUE /\ lock = Nobody /\ timer = TimerOff /\ remover = RemoverOff /\ faults = 0
  BY DEF Init
<1>3. client \in [Workers -> Client]
  <2>1. ASSUME NEW w \in Workers PROVE client[w] \in Client
    BY <1>1, Span, NullAssumption, SizeAssumption DEF Client
  <2>2. QED BY <1>1, <2>1
<1>4. Object(Old) \in Seq(Piece) /\ Absent \in Seq(Piece)
  <2>1. \A i \in 1 .. Total : [by |-> Old, chunk |-> i - 1] \in Piece
    BY Span DEF Piece, Chunks
  <2>2. Absent \in Seq(Piece)
    BY EmptySeq DEF Absent
  <2>3. QED BY <2>1, <2>2, Span DEF Object
<1>5. bucket \in [Ids -> Seq(Piece)]
  BY <1>2, <1>4
<1>6. rows \in [Ids -> Nat]
  BY <1>2, Span
<1>7. TypeOK
  BY <1>2, <1>3, <1>5, <1>6, FreeFields, NoMultiFields, NoSessionFields DEF TypeOK
<1>8. \A w \in Workers : ClientWhole(w)
  <2>1. ASSUME NEW w \in Workers PROVE ClientWhole(w)
    <3>1. /\ client[w].chunk = 0 /\ client[w].retries = 0 /\ client[w].id = IF w \in Creators THEN NoId ELSE Recorded
          /\ client[w].phase = "download" => w \notin Creators
      BY <1>1
    <3>2. QED BY <3>1, Roles, Span, NullAssumption DEF ClientWhole
  <2>2. QED BY <2>1
<1>9. \A r \in Requests : RequestWhole(req[r])
  BY <1>2, FreeFields, Roles DEF RequestWhole
<1>10. QED BY <1>2, <1>7, <1>8, <1>9, TimerOffType, RemoverOffType DEF Typed

\* What a handler leaves of its request.
Serving(r) ==
    /\ client' = client /\ Others(r) /\ req[r].at \notin {"free", "reply"}
    /\ \/ ~req[r].heard /\ req'[r] = Free
       \/ /\ Same(r) /\ req'[r].at \notin {"free", "sent"}
          /\ req'[r].id = req[r].id \/ (req[r].chunk = 0 /\ req'[r].at = "init")
LEMMA HandlingServes ==
    ASSUME NEW r \in Requests, Handling(r)
    PROVE  Serving(r)
<1>1. ASSUME NEW ok, Ends(r, ok), client' = client, req[r].at \notin {"free", "reply"} PROVE Serving(r)
  BY <1>1 DEF Ends, Vanishes, Serving
<1>2. ASSUME NEW at, at \notin {"free", "sent"}, Goes(r, at), client' = client, req[r].at \notin {"free", "reply"} PROVE Serving(r)
  BY <1>2 DEF Goes, Serving
<1>3. CASE Checking(r)
  <2>1. CASE Refusing(r)
    BY <1>1, <2>1 DEF Refusing, Rest
  <2>2. CASE Naming(r)
    BY <2>2 DEF Naming, Rest, Serving
  <2>3. CASE Locking(r)
    BY <1>2, <2>3 DEF Locking, Rest
  <2>4. CASE Missing(r)
    BY <1>2, <2>4 DEF Missing, Admitted, Rest
  <2>5. CASE Finding(r)
    BY <2>5 DEF Finding, Admitted, Rest, Serving
  <2>6. QED BY <1>3, <2>1, <2>2, <2>3, <2>4, <2>5 DEF Checking
<1>4. CASE Failing(r)
  BY <1>2, <1>4 DEF Failing, Rest
<1>5. ASSUME NEW u \in FreshUploads, Beginning(r, u) PROVE Serving(r)
  BY <1>5 DEF Beginning, Rest, Serving
<1>6. CASE Adding(r)
  BY <1>1, <1>2, <1>6 DEF Adding, Rest
<1>7. CASE Making(r)
  BY <1>2, <1>7 DEF Making
<1>8. CASE Recording(r)
  BY <1>1, <1>8 DEF Recording
<1>9. CASE Denying(r)
  BY <1>1, <1>9 DEF Denying, Rest
<1>10. CASE Catching(r)
  BY <1>1, <1>10 DEF Catching, Rest
<1>11. QED BY <1>3, <1>4, <1>5, <1>6, <1>7, <1>8, <1>9, <1>10 DEF Handling

LEMMA FreeWhole == RequestWhole(Free)
BY FreeFields, Roles DEF RequestWhole

LEMMA HandlingWhole ==
    ASSUME Typed, NEW r \in Requests, Handling(r)
    PROVE  RequestWhole(req'[r])
<1>0. RequestWhole(req[r]) /\ req[r].at \notin {"free", "reply"}
  BY HandlingServes DEF Typed, Serving
<1>0a. /\ req[r].by \in Workers /\ (req[r].by \in Rekeyers => req[r].id = Recorded)
       /\ req[r].by \in Creators => req[r].id # Recorded
       /\ req[r].id = NoId => req[r].chunk = 0 /\ req[r].at = "sent"
  BY <1>0 DEF RequestWhole
<1>1. ASSUME NEW ok, Ends(r, ok), ok => req[r].id # NoId PROVE RequestWhole(req'[r])
  <2>1. CASE req'[r] = Free
    BY <2>1, FreeWhole
  <2>2. CASE req'[r] # Free
    <3>1. /\ Same(r) /\ req'[r].at = "reply" /\ req'[r].id = req[r].id /\ req'[r].ok = ok /\ req[r].heard
      BY <1>1, <2>2 DEF Ends, Vanishes
    <3>2. QED BY <1>0a, <1>1, <3>1 DEF RequestWhole, Same
  <2>3. QED BY <2>1, <2>2
<1>2. ASSUME Goes(r, "catch"), req[r].id # NoId PROVE RequestWhole(req'[r])
  BY <1>0a, <1>2 DEF RequestWhole, Goes, Same
<1>3. CASE Checking(r)
  <2>1. CASE Refusing(r)
    BY <1>1, <2>1 DEF Refusing
  <2>2. CASE Naming(r)
    <3>1. /\ Same(r) /\ req[r].chunk = 0 /\ req'[r].at = "init" /\ req'[r].upload = req[r].upload
          /\ req'[r].id \in Ids \ {Recorded} /\ req[r].by \in Creators /\ req[r].at = "sent"
      BY <2>2 DEF Naming, FreshIds
    <3>2. req[r].upload = NoUpload /\ req[r].by \notin Rekeyers
      BY <1>0, <1>0a, <3>1, Roles DEF RequestWhole
    <3>3. QED BY <1>0a, <3>1, <3>2, NullAssumption DEF RequestWhole, Same
  <2>3. CASE Locking(r)
    <3>1. /\ Same(r) /\ req[r].chunk = 0 /\ req'[r].at = "init" /\ req'[r].upload = req[r].upload
          /\ req'[r].id = req[r].id /\ req[r].by \in Rekeyers /\ req[r].at = "sent"
      BY <2>3 DEF Locking, Goes
    <3>2. req[r].upload = NoUpload /\ req[r].by \notin Creators
      BY <1>0, <1>0a, <3>1, Roles DEF RequestWhole
    <3>3. QED BY <1>0a, <3>1, <3>2, NullAssumption DEF RequestWhole, Same
  <2>4. CASE Missing(r)
    BY <1>2, <2>4, NullAssumption DEF Missing, Admitted
  <2>5. CASE Finding(r)
    <3>1. /\ Same(r) /\ req'[r].at = "part" /\ req'[r].id = req[r].id /\ req[r].id \in Ids
          /\ req'[r].upload \in Uploads
      BY <2>5 DEF Finding, Admitted
    <3>2. QED BY <1>0a, <3>1, NullAssumption DEF RequestWhole, Same
  <2>6. QED BY <1>3, <2>1, <2>2, <2>3, <2>4, <2>5 DEF Checking
<1>4. CASE Failing(r)
  BY <1>0a, <1>2, <1>4 DEF Failing
<1>5. ASSUME NEW u \in FreshUploads, Beginning(r, u) PROVE RequestWhole(req'[r])
  <2>1. /\ Same(r) /\ req'[r].at = "part" /\ req'[r].id = req[r].id /\ req[r].at = "init"
        /\ req'[r].upload = u /\ u \in Uploads
    BY <1>5 DEF Beginning, FreshUploads
  <2>2. QED BY <1>0a, <2>1 DEF RequestWhole, Same
<1>6. CASE Adding(r)
  <2>1. req[r].at = "part" /\ req[r].id # NoId /\ req[r].upload \in Uploads
    BY <1>0, <1>0a, <1>6 DEF Adding, RequestWhole
  <2>2. CASE req[r].chunk = LastChunk
    <3>1. Goes(r, "complete")
      BY <1>6, <2>2 DEF Adding
    <3>2. QED BY <1>0a, <2>1, <2>2, <3>1 DEF RequestWhole, Goes, Same
  <2>3. CASE req[r].chunk # LastChunk
    <3>1. Ends(r, TRUE)
      BY <1>6, <2>3 DEF Adding
    <3>2. QED BY <1>1, <2>1, <3>1
  <2>4. QED BY <2>2, <2>3
<1>7. CASE Making(r)
  <2>1. req[r].at = "complete" /\ req[r].id # NoId /\ req[r].chunk = LastChunk /\ (Goes(r, "catch") \/ Goes(r, "record"))
    BY <1>0, <1>0a, <1>7 DEF Making, RequestWhole
  <2>2. CASE Goes(r, "record")
    BY <1>0a, <2>1, <2>2 DEF RequestWhole, Goes, Same
  <2>3. QED BY <1>2, <2>1, <2>2
<1>8. CASE Recording(r)
  BY <1>0a, <1>1, <1>8 DEF Recording
<1>9. CASE Denying(r)
  BY <1>1, <1>9 DEF Denying
<1>10. CASE Catching(r)
  BY <1>1, <1>10 DEF Catching
<1>11. QED BY <1>3, <1>4, <1>5, <1>6, <1>7, <1>8, <1>9, <1>10 DEF Handling

\* The kinds that leave the requests and the workers alone.
Aside == Timeful \/ Deleting \/ (\E u \in Uploads : Sweeping(u)) \/ Ticking \/ UNCHANGED vars
LEMMA AsideKeeps == Aside => UNCHANGED <<client, req, lock>>
<1>1. Timeful => UNCHANGED <<client, req, lock>>
  BY DEF Timeful, Listing, Skipping, Choosing, Aborting, Dismissing, Cleans
<1>2. Deleting => UNCHANGED <<client, req, lock>>
  BY DEF Deleting, Starting, Clearing, Erasing, Freeing, Deletes
<1>3. QED BY <1>1, <1>2 DEF Aside, Sweeping, Ticking, vars, memory

LEMMA KindsSplit ==
    ASSUME Kinds
    PROVE  \/ Aside \/ Crashing
           \/ \E w \in Workers, r \in Requests : Sending(w, r)
           \/ \E w \in Workers : Fetching(w)
           \/ \E r \in Requests : Handling(r) \/ Hearing(r) \/ Losing(r) \/ Expiring(r)
BY DEF Kinds, Aside

LEMMA RequestsWhole ==
    ASSUME Typed, Waits, Kinds
    PROVE  \A x \in Requests : RequestWhole(req'[x])
<1>0. \A x \in Requests : RequestWhole(req[x])
  BY DEF Typed
<1>1. ASSUME NEW r \in Requests, Others(r), RequestWhole(req'[r]) PROVE \A x \in Requests : RequestWhole(req'[x])
  <2>1. ASSUME NEW x \in Requests PROVE RequestWhole(req'[x])
    BY <1>0, <1>1, <2>1 DEF Others
  <2>2. QED BY <2>1
<1>2. CASE Aside
  BY <1>0, <1>2, AsideKeeps
<1>3. CASE Crashing
  BY <1>3, FreeWhole DEF Crashing
<1>4. ASSUME NEW w \in Workers, NEW r \in Requests, Sending(w, r) PROVE \A x \in Requests : RequestWhole(req'[x])
  <2>1. /\ ClientWhole(w) /\ Others(r) /\ req'[r].by = w /\ req'[r].chunk = client[w].chunk /\ req'[r].id = client[w].id
        /\ req'[r].at = "sent" /\ req'[r].ok = FALSE /\ req'[r].upload = NoUpload
    BY <1>4 DEF Sending, Typed
  <2>2. RequestWhole(req'[r])
    BY <2>1, Roles, NullAssumption DEF RequestWhole, ClientWhole
  <2>3. QED BY <1>1, <2>1, <2>2
<1>5. ASSUME NEW r \in Requests, Handling(r) PROVE \A x \in Requests : RequestWhole(req'[x])
  BY <1>1, <1>5, HandlingWhole, HandlingServes DEF Serving
<1>6. ASSUME NEW r \in Requests, Hearing(r) \/ Losing(r) PROVE \A x \in Requests : RequestWhole(req'[x])
  BY <1>1, <1>6, FreeWhole DEF Hearing, Losing, Vanishes
<1>7. ASSUME NEW r \in Requests, Expiring(r) PROVE \A x \in Requests : RequestWhole(req'[x])
  <2>1. RequestWhole(req'[r])
    BY <1>0, <1>7 DEF Expiring, RequestWhole
  <2>2. QED BY <1>1, <1>7, <2>1 DEF Expiring
<1>8. ASSUME NEW w \in Workers, Fetching(w) PROVE \A x \in Requests : RequestWhole(req'[x])
  BY <1>0, <1>8 DEF Fetching
<1>9. QED BY <1>2, <1>3, <1>4, <1>5, <1>6, <1>7, <1>8, KindsSplit

LEMMA WorkersWhole ==
    ASSUME Typed, Waits, Kinds
    PROVE  \A w \in Workers : ClientWhole(w)'
<1>0. \A w \in Workers : ClientWhole(w) /\ client[w] \in Client
  BY DEF Typed, TypeOK
<1>1. ASSUME NEW w \in Workers, OtherWorkers(w), ClientWhole(w)' PROVE \A v \in Workers : ClientWhole(v)'
  <2>1. ASSUME NEW v \in Workers PROVE ClientWhole(v)'
    BY <1>0, <1>1, <2>1 DEF OtherWorkers, ClientWhole
  <2>2. QED BY <2>1
<1>2. ASSUME client' = client PROVE \A v \in Workers : ClientWhole(v)'
  BY <1>0, <1>2 DEF ClientWhole
<1>3. CASE Crashing
  <2>1. ASSUME NEW v \in Workers PROVE ClientWhole(v)'
    <3>1. client'[v] = client[v] \/ (client[v].phase = "waiting" /\ BackTo(v))
      BY <1>3 DEF Crashing
    <3>2. QED BY <1>0, <3>1, Roles, Span DEF ClientWhole, BackTo, Again
  <2>2. QED BY <2>1
<1>4. ASSUME NEW w \in Workers, NEW r \in Requests, Sending(w, r) PROVE \A v \in Workers : ClientWhole(v)'
  <2>1. ClientWhole(w)'
    BY <1>0, <1>4 DEF Sending, ClientWhole
  <2>2. QED BY <1>1, <1>4, <2>1 DEF Sending
<1>5. ASSUME NEW r \in Requests, Handling(r) PROVE \A v \in Workers : ClientWhole(v)'
  BY <1>2, <1>5, HandlingServes DEF Serving
<1>6. ASSUME NEW r \in Requests, NEW w, w = req[r].by, req[r].heard, Back(w) PROVE \A v \in Workers : ClientWhole(v)'
  <2>1. w \in Workers /\ client[w].chunk \in Chunks
    BY <1>6, Heedful
  <2>2. ClientWhole(w)'
    BY <1>0, <1>6, <2>1, Span, Roles DEF Back, BackTo, Again, ClientWhole
  <2>3. QED BY <1>1, <1>6, <2>1, <2>2 DEF Back
<1>7. ASSUME NEW r \in Requests, NEW w, w = req[r].by, Hearing(r), req[r].ok PROVE \A v \in Workers : ClientWhole(v)'
  <2>1. RequestWhole(req[r]) /\ req[r].at = "reply"
    BY <1>7 DEF Typed, Hearing
  <2>2. /\ w \in Workers /\ Forth(w, req[r].id) /\ req[r].id # NoId /\ req[r].heard
        /\ w \in Rekeyers => req[r].id = Recorded
        /\ w \in Creators => req[r].id # Recorded
    BY <1>7, <2>1 DEF RequestWhole, Hearing
  <2>3. client[w].chunk \in Chunks
    BY <1>7, <2>2, Heedful
  <2>4. client[w].chunk + 1 # 0 /\ (client[w].chunk # LastChunk => client[w].chunk + 1 # Total)
    BY <2>3, Span DEF LastChunk, Chunks
  <2>5. ClientWhole(w)'
    BY <2>2, <2>4 DEF Forth, ClientWhole
  <2>6. QED BY <1>1, <2>2, <2>5 DEF Forth
<1>8. ASSUME NEW r \in Requests, Hearing(r) \/ Losing(r) \/ Expiring(r) PROVE \A v \in Workers : ClientWhole(v)'
  <2>1. req[r].heard
    BY <1>8 DEF Hearing, Losing, Expiring, Typed, RequestWhole
  <2>2. CASE Hearing(r) /\ req[r].ok
    BY <1>7, <2>2
  <2>3. CASE ~(Hearing(r) /\ req[r].ok)
    BY <1>6, <1>8, <2>1, <2>3 DEF Hearing, Losing, Expiring
  <2>4. QED BY <2>2, <2>3
<1>9. CASE Aside
  BY <1>2, <1>9, AsideKeeps
<1>10. ASSUME NEW w \in Workers, Fetching(w) PROVE \A v \in Workers : ClientWhole(v)'
  <2>1. ClientWhole(w)'
    BY <1>10, Span, Roles DEF Fetching, ClientWhole
  <2>2. QED BY <1>1, <1>10, <2>1 DEF Fetching
<1>11. QED BY <1>3, <1>4, <1>5, <1>8, <1>9, <1>10, KindsSplit

LEMMA SessionsWhole ==
    ASSUME Typed, Waits, Kinds
    PROVE  \A k \in Keys : session'[k].upload = NoUpload => session'[k] = NoSession
<1>0. /\ \A k \in Keys : session[k].upload = NoUpload => session[k] = NoSession
      /\ timer \in Timing /\ NoUpload \notin Uploads
  BY NullAssumption DEF Typed
<1>1. ASSUME session' = session PROVE \A k \in Keys : session'[k].upload = NoUpload => session'[k] = NoSession
  BY <1>0, <1>1
<1>2. ASSUME NEW k, OtherSessions(k), k \in Keys => session'[k].upload \in Uploads \/ session'[k] = NoSession
      PROVE  \A l \in Keys : session'[l].upload = NoUpload => session'[l] = NoSession
  BY <1>0, <1>2 DEF OtherSessions
<1>3. ASSUME NEW r \in Requests, Handling(r) PROVE \A k \in Keys : session'[k].upload = NoUpload => session'[k] = NoSession
  <2>1. CASE Finding(r)
    BY <1>2, <2>1 DEF Finding
  <2>2. CASE Checking(r) /\ ~Finding(r)
    BY <1>1, <2>2 DEF Checking, Refusing, Naming, Locking, Missing
  <2>3. CASE Failing(r)
    BY <1>1, <2>3 DEF Failing
  <2>4. ASSUME NEW u \in FreshUploads, Beginning(r, u)
        PROVE  \A k \in Keys : session'[k].upload = NoUpload => session'[k] = NoSession
    BY <1>2, <2>4 DEF Beginning, FreshUploads
  <2>5. CASE Making(r)
    BY <1>1, <1>2, <2>5 DEF Making, Forgets
  <2>6. CASE Catching(r)
    BY <1>2, <2>6 DEF Catching, Forgets
  <2>7. CASE Adding(r) \/ Recording(r) \/ Denying(r)
    BY <1>1, <2>7 DEF Adding, Recording, Denying
  <2>8. QED BY <1>3, <2>1, <2>2, <2>3, <2>4, <2>5, <2>6, <2>7 DEF Handling
<1>4. CASE Timeful
  <2>1. CASE Dismissing
    BY <1>2, <2>1 DEF Dismissing, Forgets
  <2>2. CASE ~Dismissing
    BY <1>1, <1>4, <2>2 DEF Timeful, Listing, Skipping, Choosing, Aborting
  <2>3. QED BY <2>1, <2>2
<1>5. CASE Deleting \/ (\E u \in Uploads : Sweeping(u)) \/ UNCHANGED vars
  BY <1>1, <1>5 DEF Deleting, Starting, Clearing, Erasing, Freeing, Deletes, Sweeping, vars, memory
<1>6. CASE Ticking
  BY <1>0, <1>6, NoSessionFields DEF Ticking, SameSessions
<1>7. CASE Crashing
  BY <1>7 DEF Crashing
<1>8. ASSUME NEW w \in Workers, (\E r \in Requests : Sending(w, r)) \/ Fetching(w)
      PROVE  \A k \in Keys : session'[k].upload = NoUpload => session'[k] = NoSession
  BY <1>1, <1>8 DEF Sending, Fetching, World
<1>9. ASSUME NEW r \in Requests, Hearing(r) \/ Losing(r) \/ Expiring(r)
      PROVE  \A k \in Keys : session'[k].upload = NoUpload => session'[k] = NoSession
  BY <1>1, <1>9 DEF Hearing, Losing, Expiring, World
<1>10. QED BY <1>3, <1>4, <1>5, <1>6, <1>7, <1>8, <1>9 DEF Kinds

LEMMA TypedNext ==
    ASSUME Typed, Waits, [Next]_vars
    PROVE  Typed' /\ Kinds
<1>1. TypeOK' /\ TimeTypes /\ Kinds
  BY StepsTyped
<1>2. \A r \in Requests : RequestWhole(req[r])'
  <2>1. \A r \in Requests : RequestWhole(req'[r])
    BY <1>1, RequestsWhole
  <2>2. QED BY <2>1 DEF RequestWhole
<1>3. \A w \in Workers : ClientWhole(w)'
  BY <1>1, WorkersWhole
<1>4. \A k \in Keys : session'[k].upload = NoUpload => session'[k] = NoSession
  BY <1>1, SessionsWhole
<1>5. QED BY <1>1, <1>2, <1>3, <1>4 DEF Typed, TimeTypes

-----------------------------------------------------------------------------
(* Workers and their requests. *)

LEMMA WaitsInit == Init => Waits
<1> SUFFICES ASSUME Init PROVE Waits
  OBVIOUS
<1>1. \A r \in Requests : req[r] = Free
  BY DEF Init
<1>2. \A r \in Requests : ~req[r].heard /\ req[r].at = "free"
  BY <1>1, FreeFields
<1>3. QED BY <1>2 DEF Waits, Waiting, Single

LEMMA WaitsNext ==
    ASSUME Typed, Waits, Kinds
    PROVE  Waits'
<1>0. /\ \A r \in Requests : req[r].heard =>
            /\ client[req[r].by].phase = "waiting" /\ client[req[r].by].chunk = req[r].chunk
            /\ req[r].chunk # 0 => client[req[r].by].id = req[r].id
      /\ \A r \in Requests : req[r].at # "free" => client[req[r].by].phase # "absent"
      /\ Single /\ \A w \in Workers : client[w] \in Client
      /\ \A r \in Requests : req[r].at = "free" => req[r] = Free
      /\ \A r \in Requests : req[r].at # "free" => req[r].by \in Workers
      /\ \A r \in Requests : req[r].heard => req[r].by \in Workers /\ req[r].at # "free"
  BY Heedful DEF Waits, Waiting, Typed, TypeOK, RequestWhole
<1>1. CASE Aside
  <2>1. req' = req /\ client' = client
    BY <1>1, AsideKeeps
  <2>2. QED BY <2>1 DEF Waits, Waiting, Single
<1>2. CASE Crashing
  <2>1. \A r \in Requests : ~req'[r].heard /\ req'[r].at = "free"
    BY <1>2, FreeFields DEF Crashing
  <2>2. QED BY <2>1 DEF Waits, Waiting, Single
<1>3. ASSUME NEW w \in Workers, NEW r \in Requests, Sending(w, r) PROVE Waits'
  <2>1. /\ client[w].phase = "sending" /\ req[r] = Free /\ Others(r)
        /\ req'[r].by = w /\ req'[r].chunk = client[w].chunk /\ req'[r].id = client[w].id /\ req'[r].at = "sent"
        /\ OtherWorkers(w) /\ client'[w].phase = "waiting" /\ client'[w].chunk = client[w].chunk /\ client'[w].id = client[w].id
    BY <1>3 DEF Sending
  <2>2. \A x \in Requests : x # r /\ req[x].heard => req[x].by # w
    BY <1>0, <2>1
  <2>3. ASSUME NEW x \in Requests PROVE Waiting(req[x])' /\ (req'[x].at # "free" => client'[req'[x].by].phase # "absent")
    <3>1. CASE x = r
      BY <2>1, <3>1 DEF Waiting
    <3>2. CASE x # r
      BY <1>0, <2>1, <2>2, <3>2 DEF Waiting, Others, OtherWorkers
    <3>3. QED BY <3>1, <3>2
  <2>4. Single'
    BY <1>0, <2>1, <2>2 DEF Single, Others
  <2>5. QED BY <2>3, <2>4 DEF Waits
<1>4. ASSUME NEW r \in Requests, Handling(r) PROVE Waits'
  <2>1. Serving(r)
    BY <1>4, HandlingServes
  <2>2. \A x \in Requests : req'[x] = Free \/ (req'[x].by = req[x].by /\ req'[x].heard = req[x].heard
            /\ req'[x].chunk = req[x].chunk /\ (req[x].chunk # 0 => req'[x].id = req[x].id) /\ (req[x].at = "free" => req'[x].at = "free"))
    BY <2>1 DEF Serving, Others, Same
  <2>3. client' = client
    BY <2>1 DEF Serving
  <2>4. \A x \in Requests : req'[x] = Free => ~req'[x].heard /\ req'[x].at = "free"
    BY FreeFields
  <2>5. ASSUME NEW x \in Requests PROVE Waiting(req[x])' /\ (req'[x].at # "free" => client'[req'[x].by].phase # "absent")
    BY <1>0, <2>2, <2>3, <2>4 DEF Waiting
  <2>6. Single'
    BY <1>0, <2>2, <2>4 DEF Single
  <2>7. QED BY <2>5, <2>6 DEF Waits
<1>5. ASSUME NEW r \in Requests, NEW w, w = req[r].by, req[r].heard, OtherWorkers(w), Others(r), ~req'[r].heard,
             req'[r].at # "free" => req'[r].by = w, client'[w].phase # "absent"
      PROVE  Waits'
  <2>1. \A x \in Requests : req'[x].heard => req'[x] = req[x] /\ req[x].by # w /\ client'[req[x].by] = client[req[x].by]
    BY <1>0, <1>5 DEF Others, OtherWorkers, Single
  <2>2. ASSUME NEW x \in Requests PROVE Waiting(req[x])'
    BY <1>0, <2>1 DEF Waiting
  <2>3. ASSUME NEW x \in Requests PROVE req'[x].at # "free" => client'[req'[x].by].phase # "absent"
    BY <1>0, <1>5 DEF Others, OtherWorkers
  <2>4. Single'
    BY <1>0, <2>1 DEF Single
  <2>5. QED BY <2>2, <2>3, <2>4 DEF Waits
<1>6. ASSUME NEW r \in Requests, Hearing(r) \/ Losing(r) PROVE Waits'
  <2>1. req[r].heard
    BY <1>6 DEF Hearing, Losing, Typed, RequestWhole
  <2>2. Others(r) /\ req'[r] = Free
    BY <1>6 DEF Hearing, Losing, Vanishes
  <2>3. OtherWorkers(req[r].by) /\ client'[req[r].by].phase # "absent"
    BY <1>6 DEF Hearing, Losing, Back, BackTo, Again, Forth
  <2>4. QED BY <1>5, <2>1, <2>2, <2>3, FreeFields
<1>7. ASSUME NEW r \in Requests, Expiring(r) PROVE Waits'
  BY <1>5, <1>7 DEF Expiring, Back, BackTo, Again
<1>8. ASSUME NEW w \in Workers, Fetching(w) PROVE Waits'
  <2>1. /\ req' = req /\ OtherWorkers(w) /\ client[w].phase = "download"
        /\ client'[w].phase \in {"sending", "download", "failed"}
    BY <1>8 DEF Fetching
  <2>2. \A r \in Requests : req[r].heard => req[r].by # w
    BY <1>0, <2>1
  <2>3. \A r \in Requests : Waiting(req[r])'
    BY <1>0, <2>1, <2>2 DEF Waiting, OtherWorkers
  <2>4. \A r \in Requests : req'[r].at # "free" => client'[req'[r].by].phase # "absent"
    BY <1>0, <2>1 DEF OtherWorkers
  <2>5. Single'
    BY <1>0, <2>1 DEF Single
  <2>6. QED BY <2>3, <2>4, <2>5 DEF Waits
<1>9. QED BY <1>1, <1>2, <1>3, <1>4, <1>6, <1>7, <1>8, KindsSplit

-----------------------------------------------------------------------------
(* What a step may do to the uploads, to who knows them, and to the history. *)

\* An upload is opened, gets a part, or stays as it is or is closed.
Fades == \A u \in Uploads :
    multi'[u] = NoMulti \/ (multi'[u].id = multi[u].id /\ multi'[u].parts = multi[u].parts)
Begins == \E r \in Requests : \E u \in FreshUploads : Beginning(r, u)
Adds == \E r \in Requests : Adding(r)
LEMMA UploadKinds == ASSUME Kinds PROVE Fades \/ Begins \/ Adds
<1>1. multi' = multi => Fades
  BY DEF Fades
<1>2. ASSUME NEW u, Shut(u) PROVE Fades
  BY <1>2 DEF Shut, OtherUploads, Fades
<1>3. SameUploads => Fades
  BY DEF SameUploads, Fades
<1>4. ASSUME NEW r \in Requests, Handling(r) PROVE Fades \/ Begins \/ Adds
  <2>1. CASE Checking(r)
    BY <1>1, <1>3, <2>1 DEF Checking, Refusing, Naming, Locking, Missing, Finding
  <2>2. CASE Failing(r) \/ Recording(r) \/ Denying(r)
    BY <1>1, <2>2 DEF Failing, Recording, Denying
  <2>3. CASE Making(r) \/ Catching(r)
    BY <1>1, <1>2, <2>3 DEF Making, Catching
  <2>4. QED BY <1>4, <2>1, <2>2, <2>3 DEF Handling, Begins, Adds
<1>5. CASE Timeful
  BY <1>1, <1>2, <1>5 DEF Timeful, Listing, Skipping, Choosing, Aborting, Dismissing
<1>6. CASE Deleting
  BY <1>1, <1>2, <1>6 DEF Deleting, Starting, Clearing, Erasing, Freeing
<1>7. CASE Crashing \/ Ticking \/ UNCHANGED vars \/ \E u \in Uploads : Sweeping(u)
  BY <1>1, <1>2, <1>3, <1>7 DEF Crashing, Ticking, Sweeping, vars, storage
<1>8. ASSUME NEW w \in Workers, (\E r \in Requests : Sending(w, r)) \/ Fetching(w) PROVE Fades
  BY <1>1, <1>8 DEF Sending, Fetching, World
<1>9. ASSUME NEW r \in Requests, Hearing(r) \/ Losing(r) \/ Expiring(r) PROVE Fades
  BY <1>1, <1>9 DEF Hearing, Losing, Expiring, World
<1>10. QED BY <1>4, <1>5, <1>6, <1>7, <1>8, <1>9 DEF Kinds

LEMMA SessionKinds ==
    ASSUME Kinds
    PROVE  \/ Begins
           \/ \A k \in Keys : session'[k].upload = session[k].upload \/ session'[k].upload = NoUpload
<1> DEFINE Q == \A k \in Keys : session'[k].upload = session[k].upload \/ session'[k].upload = NoUpload
<1>1. session' = session => Q
  OBVIOUS
<1>2. ASSUME NEW k, Forgets(k) PROVE Q
  BY <1>2, NoSessionFields DEF Forgets, OtherSessions
<1>3. ASSUME NEW r \in Requests, Handling(r) PROVE Q \/ Begins
  <2>1. CASE Checking(r)
    BY <1>1, <2>1 DEF Checking, Refusing, Naming, Locking, Missing, Finding, OtherSessions
  <2>2. CASE Failing(r) \/ Recording(r) \/ Denying(r) \/ Adding(r)
    BY <1>1, <2>2 DEF Failing, Recording, Denying, Adding
  <2>3. CASE Making(r) \/ Catching(r)
    BY <1>1, <1>2, <2>3 DEF Making, Catching
  <2>4. QED BY <1>3, <2>1, <2>2, <2>3 DEF Handling, Begins
<1>4. CASE Timeful
  BY <1>1, <1>2, <1>4 DEF Timeful, Listing, Skipping, Choosing, Aborting, Dismissing
<1>5. CASE Deleting
  BY <1>1, <1>5 DEF Deleting, Starting, Clearing, Erasing, Freeing, Deletes
<1>6. CASE Crashing \/ Ticking \/ UNCHANGED vars \/ \E u \in Uploads : Sweeping(u)
  BY <1>1, <1>6, NoSessionFields DEF Crashing, Ticking, SameSessions, Sweeping, vars, memory
<1>7. ASSUME NEW w \in Workers, (\E r \in Requests : Sending(w, r)) \/ Fetching(w) PROVE Q
  BY <1>1, <1>7 DEF Sending, Fetching, World
<1>8. ASSUME NEW r \in Requests, Hearing(r) \/ Losing(r) \/ Expiring(r) PROVE Q
  BY <1>1, <1>8 DEF Hearing, Losing, Expiring, World
<1>9. QED BY <1>3, <1>4, <1>5, <1>6, <1>7, <1>8 DEF Kinds

\* The upload a request has noted.
LEMMA RequestKinds ==
    ASSUME Typed, Kinds, NEW x \in Requests
    PROVE  \/ req'[x].upload = req[x].upload /\ req'[x].id = req[x].id
           \/ req'[x].upload = NoUpload
           \/ Finding(x)
           \/ \E u \in FreshUploads : Beginning(x, u)
<1> DEFINE P == \/ req'[x].upload = req[x].upload /\ req'[x].id = req[x].id
                \/ req'[x].upload = NoUpload
                \/ Finding(x)
                \/ \E u \in FreshUploads : Beginning(x, u)
<1>1. CASE Aside
  BY <1>1, AsideKeeps
<1>2. CASE Crashing
  BY <1>2, FreeFields DEF Crashing
<1>3. ASSUME NEW w \in Workers, (\E r \in Requests : Sending(w, r)) \/ Fetching(w) PROVE P
  BY <1>3 DEF Sending, Fetching, Others
<1>4. ASSUME NEW r \in Requests, Hearing(r) \/ Losing(r) \/ Expiring(r) PROVE P
  BY <1>4, FreeFields DEF Hearing, Losing, Expiring, Others, Vanishes
<1>5. ASSUME NEW r \in Requests, Handling(r), x # r PROVE P
  BY <1>5, HandlingServes DEF Serving, Others
<1>6. CASE Handling(x)
  <2>1. ASSUME NEW ok, Ends(x, ok) PROVE P
    BY <2>1, FreeFields DEF Ends, Vanishes
  <2>2. ASSUME NEW at, Goes(x, at) PROVE P
    BY <2>2 DEF Goes
  <2>3. CASE Checking(x)
    <3>1. CASE Naming(x)
      <4>1. RequestWhole(req[x]) /\ req[x].at = "sent" /\ req'[x].upload = req[x].upload
        BY <3>1 DEF Typed, Naming
      <4>2. QED BY <4>1 DEF RequestWhole
    <3>2. CASE ~Naming(x)
      BY <2>1, <2>2, <2>3, <3>2 DEF Checking, Refusing, Locking, Missing
    <3>3. QED BY <3>1, <3>2
  <2>4. CASE Failing(x) \/ Making(x) \/ Adding(x)
    BY <2>1, <2>2, <2>4 DEF Failing, Making, Adding
  <2>5. CASE Recording(x) \/ Denying(x) \/ Catching(x)
    BY <2>1, <2>2, <2>5 DEF Recording, Denying, Catching
  <2>6. QED BY <1>6, <2>3, <2>4, <2>5 DEF Handling
<1>7. QED BY <1>1, <1>2, <1>3, <1>4, <1>5, <1>6, KindsSplit

\* What the timer knows.
LEMMA TimerKinds ==
    ASSUME Kinds
    PROVE  \/ UNCHANGED <<client, req, session, multi>> /\ Timeful
           \/ timer' = timer
           \/ timer'.todo = {} /\ timer'.upload = NoUpload
           \/ timer'.todo = timer.todo /\ (timer'.upload = NoUpload \/ (timer'.upload = timer.upload /\ timer'.key = timer.key))
<1> DEFINE P == \/ UNCHANGED <<client, req, session, multi>> /\ Timeful
                \/ timer' = timer
                \/ timer'.todo = {} /\ timer'.upload = NoUpload
                \/ timer'.todo = timer.todo /\ (timer'.upload = NoUpload \/ (timer'.upload = timer.upload /\ timer'.key = timer.key))
<1>1. CASE Timeful
  BY <1>1 DEF Timeful, Listing, Skipping, Choosing, Aborting, Dismissing, Cleans
<1>2. CASE Deleting
  BY <1>2 DEF Deleting, Starting, Clearing, Erasing, Freeing, Deletes
<1>3. CASE Crashing
  BY <1>3, TimerOffType DEF Crashing
<1>4. CASE Ticking \/ UNCHANGED vars \/ \E u \in Uploads : Sweeping(u)
  BY <1>4 DEF Ticking, Sweeping, vars, jobs
<1>5. ASSUME NEW w \in Workers, (\E r \in Requests : Sending(w, r)) \/ Fetching(w) PROVE P
  BY <1>5 DEF Sending, Fetching, World
<1>6. ASSUME NEW r \in Requests, Hearing(r) \/ Losing(r) \/ Expiring(r) PROVE P
  BY <1>6 DEF Hearing, Losing, Expiring, World
<1>7. ASSUME NEW r \in Requests, Handling(r) PROVE P
  <2>1. CASE Checking(r)
    BY <2>1 DEF Checking, Refusing, Naming, Locking, Missing, Finding, Admitted, Rest
  <2>2. CASE Failing(r) \/ Making(r) \/ Adding(r) \/ \E u \in FreshUploads : Beginning(r, u)
    BY <2>2 DEF Failing, Making, Adding, Beginning, Rest
  <2>3. CASE Recording(r) \/ Denying(r) \/ Catching(r)
    BY <2>3 DEF Recording, Denying, Catching, Rest
  <2>4. QED BY <1>7, <2>1, <2>2, <2>3 DEF Handling
<1>8. QED BY <1>1, <1>2, <1>3, <1>4, <1>5, <1>6, <1>7 DEF Kinds

\* The history grows.
LEMMA ScarsGrow == ASSUME Kinds PROVE scars \subseteq scars'
<1>1. ASSUME NEW kind, Marks(kind) PROVE scars \subseteq scars'
  BY <1>1 DEF Marks
<1>2. CASE Timeful
  BY <1>1, <1>2 DEF Timeful, Listing, Skipping, Choosing, Aborting, Dismissing
<1>3. CASE Deleting
  BY <1>1, <1>3 DEF Deleting, Starting, Clearing, Erasing, Freeing
<1>4. CASE Crashing \/ Ticking \/ UNCHANGED vars \/ \E u \in Uploads : Sweeping(u)
  BY <1>1, <1>4 DEF Crashing, Ticking, Sweeping, vars, history
<1>5. ASSUME NEW w \in Workers, (\E r \in Requests : Sending(w, r)) \/ Fetching(w) PROVE scars \subseteq scars'
  BY <1>1, <1>5 DEF Sending, Fetching
<1>6. ASSUME NEW r \in Requests, Hearing(r) \/ Losing(r) \/ Expiring(r) PROVE scars \subseteq scars'
  BY <1>1, <1>6 DEF Hearing, Losing, Expiring
<1>7. ASSUME NEW r \in Requests, Handling(r) PROVE scars \subseteq scars'
  <2>1. CASE Checking(r)
    BY <2>1 DEF Checking, Refusing, Naming, Locking, Missing, Finding, Admitted
  <2>2. CASE Failing(r) \/ Making(r) \/ Adding(r) \/ \E u \in FreshUploads : Beginning(r, u)
    BY <1>1, <2>2 DEF Failing, Making, Adding, Beginning
  <2>3. CASE Recording(r) \/ Denying(r) \/ Catching(r)
    BY <1>1, <2>3 DEF Recording, Denying, Catching
  <2>4. QED BY <1>7, <2>1, <2>2, <2>3 DEF Handling
<1>8. QED BY <1>2, <1>3, <1>4, <1>5, <1>6, <1>7 DEF Kinds

-----------------------------------------------------------------------------
(* What an upload id stands for. *)

LEMMA NothingOpen == ASSUME Init PROVE \A u : ~Open(u)
BY NoMultiFields DEF Init, Open

LEMMA LinkedInit == Init => Linked
<1> SUFFICES ASSUME Init PROVE Linked
  OBVIOUS
<1>1. /\ \A u : ~Open(u)
      /\ \A k \in Keys : session[k].upload = NoUpload
  BY NothingOpen, NoSessionFields DEF Init
<1>2. QED BY <1>1 DEF Linked

LEMMA LinkedNext ==
    ASSUME Typed, Linked, Kinds
    PROVE  Linked'
<1>0. /\ \A r \in Requests : Open(req[r].upload) => multi[req[r].upload].id = req[r].id
      /\ \A k \in Keys : Open(session[k].upload) => multi[session[k].upload].id = k[2]
      /\ \A k, l \in Keys : session[k].upload = session[l].upload /\ session[k].upload # NoUpload => k = l
      /\ \A e \in timer.todo : Open(e[2]) => multi[e[2]].id = e[1][2]
      /\ Open(timer.upload) => multi[timer.upload].id = timer.key[2]
      /\ NoUpload \notin Uploads /\ timer.todo \subseteq Keys \X Uploads
  BY NullAssumption DEF Linked, Typed, Timing
<1>1. ASSUME NEW r \in Requests, NEW u \in FreshUploads, Beginning(r, u) PROVE Linked'
  <2>1. /\ u \in Uploads /\ \A x \in Requests : req[x].upload # u
        /\ \A k \in Keys : session[k].upload # u
        /\ \A e \in timer.todo : e[2] # u
        /\ timer.upload # u
    BY DEF FreshUploads
  <2>2. /\ req[r].at = "init" /\ Others(r) /\ req'[r].id = req[r].id /\ req'[r].upload = u /\ timer' = timer
        /\ OtherSessions(KeyAt(r)) /\ session'[KeyAt(r)].upload = u
        /\ OtherUploads(u) /\ multi'[u].id = req[r].id
    BY <1>1 DEF Beginning, Rest
  <2>3. KeyAt(r) \in Keys /\ KeyAt(r)[2] = req[r].id
    BY <2>2, InMemory
  <2>4. \A v : v # u => (Open(v)' <=> Open(v)) /\ (v \in Uploads => multi'[v] = multi[v])
    BY <2>2 DEF OtherUploads, Open
  <2>5. \A x \in Requests : Open(req[x].upload)' => multi'[req'[x].upload].id = req'[x].id
    BY <1>0, <2>1, <2>2, <2>4 DEF Others, Open
  <2>6. \A k \in Keys : Open(session[k].upload)' => multi'[session'[k].upload].id = k[2]
    BY <1>0, <2>1, <2>2, <2>3, <2>4 DEF OtherSessions, Open
  <2>7. \A k, l \in Keys : session'[k].upload = session'[l].upload /\ session'[k].upload # NoUpload => k = l
    BY <1>0, <2>1, <2>2, <2>3 DEF OtherSessions
  <2>8. \A e \in timer'.todo : Open(e[2])' => multi'[e[2]].id = e[1][2]
    BY <1>0, <2>1, <2>2, <2>4 DEF Open
  <2>9. Open(timer.upload)' => multi'[timer'.upload].id = timer'.key[2]
    BY <1>0, <2>1, <2>2, <2>4 DEF Open
  <2>10. QED BY <2>5, <2>6, <2>7, <2>8, <2>9 DEF Linked
<1>2. CASE ~Begins
  <2>1. \A u \in Uploads : multi'[u].id = multi[u].id \/ multi'[u].id = NoId
    <3>1. CASE Fades
      BY <3>1, NoMultiFields DEF Fades
    <3>2. CASE Adds
      BY <3>2 DEF Adds, Adding, OtherUploads
    <3>3. QED BY <1>2, <3>1, <3>2, UploadKinds
  <2>2. \A v : Open(v)' => Open(v) /\ multi'[v].id = multi[v].id
    BY <2>1 DEF Open
  <2>3. \A k \in Keys : session'[k].upload = session[k].upload \/ session'[k].upload = NoUpload
    BY <1>2, SessionKinds
  <2>4. ~Open(NoUpload)'
    BY <1>0 DEF Open
  <2>5. ASSUME NEW x \in Requests PROVE Open(req[x].upload)' => multi'[req'[x].upload].id = req'[x].id
    <3>1. CASE req'[x].upload = req[x].upload /\ req'[x].id = req[x].id
      BY <1>0, <2>2, <3>1 DEF Open
    <3>2. CASE req'[x].upload = NoUpload
      BY <1>0, <3>2 DEF Open
    <3>3. CASE Finding(x)
      <4>1. req'[x].upload = session[KeyAt(x)].upload /\ req'[x].id = req[x].id /\ req[x].at = "sent" /\ req[x].id \in Ids
        BY <3>3 DEF Finding, Admitted
      <4>2. KeyAt(x) \in Keys /\ KeyAt(x)[2] = req[x].id
        <5>1. req[x].by \in Workers /\ (req[x].by \in Rekeyers <=> req[x].id = Recorded)
          BY <4>1, Served, NullAssumption
        <5>2. QED BY <4>1, <5>1, KeyFacts DEF KeyAt
      <4>3. QED BY <1>0, <2>2, <4>1, <4>2 DEF Open
    <3>4. QED BY <1>2, <3>1, <3>2, <3>3, RequestKinds DEF Begins
  <2>6. \A k \in Keys : Open(session[k].upload)' => multi'[session'[k].upload].id = k[2]
    BY <1>0, <2>2, <2>3 DEF Open
  <2>7. \A k, l \in Keys : session'[k].upload = session'[l].upload /\ session'[k].upload # NoUpload => k = l
    BY <1>0, <2>3
  <2>8. /\ \A e \in timer'.todo : Open(e[2])' => multi'[e[2]].id = e[1][2]
        /\ Open(timer.upload)' => multi'[timer'.upload].id = timer'.key[2]
    <3>1. CASE UNCHANGED <<client, req, session, multi>> /\ Timeful
      <4>1. CASE Listing
        <5>1. \A e \in timer'.todo : \E k \in Keys : e = <<k, session[k].upload>>
          BY <4>1 DEF Listing
        <5>2. \A e \in timer'.todo : Open(e[2])' => multi'[e[2]].id = e[1][2]
          BY <1>0, <2>2, <5>1 DEF Open
        <5>3. timer'.upload = timer.upload /\ timer'.key = timer.key
          BY <4>1 DEF Listing
        <5>4. QED BY <1>0, <2>2, <5>2, <5>3 DEF Open
      <4>2. ASSUME NEW e \in timer.todo, Choosing(e) PROVE <2>8!1 /\ <2>8!2
        BY <1>0, <2>2, <4>2 DEF Choosing, Open
      <4>3. CASE Skipping \/ Aborting \/ Dismissing
        BY <1>0, <2>2, <4>3 DEF Skipping, Aborting, Dismissing, Open
      <4>4. QED BY <3>1, <4>1, <4>2, <4>3 DEF Timeful
    <3>2. QED BY <1>0, <2>2, <3>1, TimerKinds DEF Open
  <2>9. QED BY <2>5, <2>6, <2>7, <2>8 DEF Linked
<1>3. QED BY <1>1, <1>2 DEF Begins

-----------------------------------------------------------------------------
(* A new file and its one worker. *)

LEMMA OwnedInit == Init => Owned
<1> SUFFICES ASSUME Init PROVE Owned
  OBVIOUS
<1>1. PICK W \in SUBSET Workers : client = [w \in Workers |->
            [phase |-> IF w \notin W THEN "absent" ELSE IF w \in Creators THEN "sending" ELSE "download",
             chunk |-> 0, id |-> IF w \in Creators THEN NoId ELSE Recorded,
             retries |-> 0, attempt |-> 0]]
  BY DEF Init
<1>2. \A w \in Workers : client[w].id \notin Ids \ {Recorded}
  BY <1>1, NullAssumption
<1>3. /\ \A r \in Requests : req[r] = Free
      /\ \A u \in Uploads : multi[u] = NoMulti
  BY DEF Init
<1>4. /\ \A r \in Requests : req[r].at = "free" /\ req[r].id = NoId
      /\ \A u \in Uploads : multi[u].id = NoId
  BY <1>3, FreeFields, NoMultiFields
<1>5. QED BY <1>2, <1>4, NullAssumption DEF Owned, Names

\* Nobody comes to name a file but the worker whose request makes its id.
LEMMA NamesKept ==
    ASSUME Typed, Waits, Kinds, NEW w \in Workers, NEW id \in Ids, Names(w, id)'
    PROVE  Names(w, id) \/ \E r \in Requests : Naming(r) /\ req[r].by = w /\ req'[r].id = id
<1> DEFINE P == Names(w, id) \/ \E r \in Requests : Naming(r) /\ req[r].by = w /\ req'[r].id = id
<1>0. Free.by \notin Workers /\ Free.id \notin Ids
  BY FreeFields, Roles, NullAssumption
<1>1. CASE client' = client /\ req' = req
  BY <1>1 DEF Names
<1>2. CASE Crashing
  BY <1>0, <1>2 DEF Crashing, BackTo, Again, Names
<1>3. ASSUME NEW v \in Workers, NEW r \in Requests, Sending(v, r) PROVE P
  <2>1. client'[w].id = client[w].id
    BY <1>3 DEF Sending, OtherWorkers
  <2>2. \A x \in Requests : req'[x].by = w /\ req'[x].id = id => (req[x].by = w /\ req[x].id = id) \/ client[w].id = id
    BY <1>3 DEF Sending, Others
  <2>3. QED BY <2>1, <2>2 DEF Names
<1>4. ASSUME NEW r \in Requests, Handling(r) PROVE P
  <2>1. Serving(r)
    BY <1>4, HandlingServes
  <2>2. CASE Naming(r)
    <3>1. Others(r) /\ req'[r].by = req[r].by /\ client' = client
      BY <2>1, <2>2 DEF Serving, Naming, Same
    <3>2. QED BY <2>2, <3>1 DEF Names, Others
  <2>3. CASE ~Naming(r)
    <3>1. req'[r] = Free \/ (req'[r].by = req[r].by /\ req'[r].id = req[r].id)
      <4>1. CASE Checking(r)
        BY <2>3, <4>1 DEF Checking, Refusing, Locking, Missing, Finding, Goes, Ends, Vanishes, Same
      <4>2. CASE Failing(r) \/ Making(r) \/ Adding(r) \/ \E u \in FreshUploads : Beginning(r, u)
        BY <4>2 DEF Failing, Making, Adding, Beginning, Goes, Ends, Vanishes, Same
      <4>3. CASE Recording(r) \/ Denying(r) \/ Catching(r)
        BY <4>3 DEF Recording, Denying, Catching, Ends, Vanishes, Same
      <4>4. QED BY <1>4, <4>1, <4>2, <4>3 DEF Handling
    <3>2. Others(r) /\ client' = client
      BY <2>1 DEF Serving
    <3>3. QED BY <1>0, <3>1, <3>2 DEF Names, Others
  <2>4. QED BY <2>2, <2>3
<1>5. ASSUME NEW r \in Requests, Hearing(r) \/ Losing(r) PROVE P
  <2>1. Others(r) /\ req'[r] = Free
    BY <1>5 DEF Hearing, Losing, Vanishes
  <2>2. client'[w].id = client[w].id \/ (req[r].by = w /\ client'[w].id = req[r].id)
    BY <1>5 DEF Hearing, Losing, Back, BackTo, Again, Forth, OtherWorkers
  <2>3. QED BY <1>0, <2>1, <2>2 DEF Names, Others
<1>6. ASSUME NEW r \in Requests, Expiring(r) PROVE P
  <2>1. \A x \in Requests : req'[x].by = req[x].by /\ req'[x].id = req[x].id
    BY <1>6 DEF Expiring, Others
  <2>2. client'[w].id = client[w].id
    BY <1>6 DEF Expiring, Back, BackTo, Again, OtherWorkers
  <2>3. QED BY <2>1, <2>2 DEF Names
<1>7. ASSUME NEW v \in Workers, Fetching(v) PROVE P
  BY <1>7 DEF Fetching, OtherWorkers, Names
<1>8. QED BY <1>1, <1>2, <1>3, <1>4, <1>5, <1>6, <1>7, KindsSplit, AsideKeeps

\* A fresh id is nobody's yet.
LEMMA FreshId ==
    ASSUME NEW id \in FreshIds
    PROVE  /\ id \in Ids \ {Recorded} /\ \A w \in Workers : ~Names(w, id)
           /\ \A u \in Uploads : multi[u].id # id
           /\ \A r \in Requests : req[r].id # id
           /\ \A w \in Workers : client[w].id # id
           /\ <<"create", id>> \in Keys /\ session[<<"create", id>>] = NoSession
           /\ bucket[id] = Absent /\ rows[id] = 0
<1>1. /\ id \in Ids \ {Recorded} /\ \A u \in Uploads : multi[u].id # NoId => multi[u].id # id
      /\ \A r \in Requests : req[r].id # id
      /\ \A w \in Workers : client[w].id # id
      /\ \A k \in Keys : session[k] # NoSession => k[2] # id
      /\ bucket[id] = Absent /\ rows[id] = 0
  BY DEF FreshIds, Open
<1>2. <<"create", id>> \in Keys /\ <<"create", id>>[2] = id
  BY <1>1, KeysApart
<1>3. QED BY <1>1, <1>2, NullAssumption DEF Names

LEMMA OneOwner ==
    ASSUME Typed, Waits, Owned, Kinds, NEW id \in Ids \ {Recorded},
           NEW v \in Workers, NEW w \in Workers, Names(v, id)', Names(w, id)'
    PROVE  v = w
<1>1. ASSUME NEW r \in Requests, Naming(r), req'[r].id = id, NEW x \in Workers, Names(x, id)'
      PROVE  x = req[r].by
  <2>0. id \in FreshIds /\ \A y \in Requests : y # r => req'[y] = req[y]
    BY <1>1 DEF Naming, Others
  <2>1. id \in FreshIds /\ \A y \in Requests : y # r => req'[y] = req[y] /\ req'[y].id # id
    BY <2>0, FreshId
  <2>2. client' = client /\ req'[r].by = req[r].by
    BY <1>1 DEF Naming, Rest, Same
  <2>3. client[x].id # id
    BY <2>1, FreshId
  <2>4. QED BY <1>1, <2>1, <2>2, <2>3 DEF Names
<1>2. Names(v, id) \/ \E r \in Requests : Naming(r) /\ req[r].by = v /\ req'[r].id = id
  BY NamesKept
<1>3. Names(w, id) \/ \E r \in Requests : Naming(r) /\ req[r].by = w /\ req'[r].id = id
  BY NamesKept
<1>4. CASE Names(v, id) /\ Names(w, id)
  BY <1>4 DEF Owned
<1>5. QED BY <1>1, <1>2, <1>3, <1>4

\* What a step may do to the uploads of a file.
LEMMA UploadsOf ==
    ASSUME Typed, Owned, Kinds, NEW id \in Ids, NEW u \in Uploads, multi'[u].id = id
    PROVE  \/ /\ multi[u].id = id
              /\ \/ multi'[u].parts = multi[u].parts
                 \/ \E r \in Requests : Adding(r) /\ req[r].upload = u
                        /\ multi'[u].parts = Append(multi[u].parts, [by |-> req[r].by, chunk |-> req[r].chunk])
           \/ \E r \in Requests : Beginning(r, u) /\ u \in FreshUploads /\ req[r].id = id
                    /\ req[r].at = "init" /\ multi'[u].parts = <<>>
<1>1. CASE Fades
  BY <1>1, NoMultiFields, NullAssumption DEF Fades
<1>2. CASE Begins
  BY <1>2 DEF Begins, Beginning, OtherUploads
<1>3. ASSUME NEW r \in Requests, Adding(r)
      PROVE  /\ multi[u].id = id
             /\ \/ multi'[u].parts = multi[u].parts
                \/ /\ req[r].upload = u
                   /\ multi'[u].parts = Append(multi[u].parts, [by |-> req[r].by, chunk |-> req[r].chunk])
  BY <1>3 DEF Adding, OtherUploads
<1>4. QED BY <1>1, <1>2, <1>3, UploadKinds DEF Adds

\* Who has an id, and at which step.
LEMMA IdKinds ==
    ASSUME Typed, Kinds, NEW x \in Requests
    PROVE  \/ req'[x].id = req[x].id \/ req'[x].id = NoId \/ Naming(x)
           \/ \E w \in Workers : client[w].id = req'[x].id
<1>1. CASE Aside
  BY <1>1, AsideKeeps
<1>2. CASE Crashing
  BY <1>2, FreeFields DEF Crashing
<1>3. ASSUME NEW w \in Workers, NEW r \in Requests, Sending(w, r)
      PROVE  req'[x].id = req[x].id \/ client[w].id = req'[x].id
  BY <1>3 DEF Sending, Others
<1>4. ASSUME NEW r \in Requests, Hearing(r) \/ Losing(r) \/ Expiring(r) PROVE req'[x].id = req[x].id \/ req'[x].id = NoId
  BY <1>4, FreeFields DEF Hearing, Losing, Expiring, Others, Vanishes
<1>5. ASSUME NEW r \in Requests, Handling(r), x # r PROVE req'[x].id = req[x].id
  BY <1>5, HandlingServes DEF Serving, Others
<1>6. ASSUME Handling(x) PROVE req'[x].id = req[x].id \/ req'[x].id = NoId \/ Naming(x)
  <2>1. ASSUME NEW ok, Ends(x, ok) PROVE req'[x].id = req[x].id \/ req'[x].id = NoId
    BY <2>1, FreeFields DEF Ends, Vanishes
  <2>2. CASE Checking(x)
    BY <2>1, <2>2 DEF Checking, Refusing, Locking, Missing, Finding, Goes
  <2>3. CASE Failing(x) \/ Making(x) \/ Adding(x) \/ \E u \in FreshUploads : Beginning(x, u)
    BY <2>1, <2>3 DEF Failing, Making, Adding, Beginning, Goes
  <2>4. CASE Recording(x) \/ Denying(x) \/ Catching(x)
    BY <2>1, <2>4 DEF Recording, Denying, Catching
  <2>5. QED BY <1>6, <2>2, <2>3, <2>4 DEF Handling
<1>7. ASSUME NEW w \in Workers, Fetching(w) PROVE req'[x].id = req[x].id
  BY <1>7 DEF Fetching
<1>8. QED BY <1>1, <1>2, <1>3, <1>4, <1>5, <1>6, <1>7, KindsSplit

LEMMA ClientIdKinds ==
    ASSUME Kinds, NEW w \in Workers
    PROVE  \/ client'[w].id = client[w].id /\ (client'[w].chunk = client[w].chunk \/ (w \in Rekeyers /\ client'[w].chunk = 0))
           \/ \E x \in Requests : Hearing(x) /\ req[x].by = w /\ req[x].ok /\ Forth(w, req[x].id)
<1> DEFINE Stays == client'[w].id = client[w].id /\ (client'[w].chunk = client[w].chunk \/ (w \in Rekeyers /\ client'[w].chunk = 0))
<1>1. CASE Aside
  BY <1>1, AsideKeeps
<1>2. CASE Crashing
  BY <1>2 DEF Crashing, BackTo, Again
<1>3. ASSUME NEW v \in Workers, (\E r \in Requests : Sending(v, r)) \/ Fetching(v) PROVE Stays
  BY <1>3 DEF Sending, Fetching, OtherWorkers
<1>4. ASSUME NEW r \in Requests, Losing(r) \/ Expiring(r) PROVE Stays
  BY <1>4 DEF Losing, Expiring, Back, BackTo, Again, OtherWorkers
<1>5. ASSUME NEW r \in Requests, Hearing(r)
      PROVE  Stays \/ (req[r].by = w /\ req[r].ok /\ Forth(w, req[r].id))
  BY <1>5 DEF Hearing, Back, BackTo, Again, Forth, OtherWorkers
<1>6. ASSUME NEW r \in Requests, Handling(r) PROVE client' = client
  BY <1>6, HandlingServes DEF Serving
<1>7. QED BY <1>1, <1>2, <1>3, <1>4, <1>5, <1>6, KindsSplit

\* How a request comes to a step.
LEMMA AtKinds ==
    ASSUME Kinds, NEW x \in Requests, req'[x].at \notin {"free", "sent"}
    PROVE  \/ Handling(x)
           \/ /\ req'[x].at = req[x].at /\ req'[x].id = req[x].id /\ req'[x].by = req[x].by /\ req'[x].chunk = req[x].chunk
              /\ req'[x].ok = req[x].ok /\ req'[x].upload = req[x].upload
<1>1. CASE Aside
  BY <1>1, AsideKeeps
<1>2. CASE Crashing
  BY <1>2, FreeFields DEF Crashing
<1>3. ASSUME NEW v \in Workers, (\E r \in Requests : Sending(v, r)) \/ Fetching(v) PROVE req'[x] = req[x]
  BY <1>3 DEF Sending, Fetching, Others
<1>4. ASSUME NEW r \in Requests, Losing(r) \/ Hearing(r) PROVE req'[x] = req[x]
  BY <1>4, FreeFields DEF Losing, Hearing, Others, Vanishes
<1>5. ASSUME NEW r \in Requests, Expiring(r)
      PROVE  /\ req'[x].at = req[x].at /\ req'[x].id = req[x].id /\ req'[x].by = req[x].by /\ req'[x].chunk = req[x].chunk
             /\ req'[x].ok = req[x].ok /\ req'[x].upload = req[x].upload
  BY <1>5 DEF Expiring, Others
<1>6. ASSUME NEW r \in Requests, Handling(r), x # r PROVE req'[x] = req[x]
  BY <1>6, HandlingServes DEF Serving, Others
<1>7. QED BY <1>1, <1>2, <1>3, <1>4, <1>5, <1>6, KindsSplit

LEMMA StillInit ==
    ASSUME Typed, Kinds, NEW r \in Requests, req'[r].at = "init", req'[r].id # Recorded, ~Naming(r)
    PROVE  req[r].at = "init" /\ req[r].id = req'[r].id
<1>1. CASE Handling(r)
  <2>1. ~Ends(r, TRUE) /\ ~Ends(r, FALSE)
    BY FreeFields DEF Ends, Vanishes
  <2>2. ~Goes(r, "catch") /\ ~Goes(r, "complete") /\ ~Goes(r, "record")
    BY DEF Goes
  <2>3. CASE Checking(r)
    <3>1. Locking(r)
      BY <2>1, <2>2, <2>3 DEF Checking, Refusing, Missing, Finding
    <3>2. RequestWhole(req[r]) /\ req[r].by \in Rekeyers /\ req'[r].id = req[r].id
      BY <3>1 DEF Typed, Locking, Goes
    <3>3. QED BY <3>2 DEF RequestWhole
  <2>4. CASE Failing(r) \/ Making(r) \/ Adding(r) \/ \E u \in FreshUploads : Beginning(r, u)
    BY <2>1, <2>2, <2>4 DEF Failing, Making, Adding, Beginning
  <2>5. CASE Recording(r) \/ Denying(r) \/ Catching(r)
    BY <2>1, <2>5 DEF Recording, Denying, Catching
  <2>6. QED BY <1>1, <2>3, <2>4, <2>5 DEF Handling
<1>2. QED BY <1>1, AtKinds

LEMMA StillRecord ==
    ASSUME Kinds, NEW r \in Requests, req'[r].at = "record"
    PROVE  req'[r].id = req[r].id /\ (req[r].at = "record" \/ (Making(r) /\ Forgets(KeyAt(r))))
<1>1. CASE Handling(r)
  <2>1. ~Ends(r, TRUE) /\ ~Ends(r, FALSE)
    BY FreeFields DEF Ends, Vanishes
  <2>2. ~Goes(r, "catch") /\ ~Goes(r, "complete") /\ ~Goes(r, "init")
    BY DEF Goes
  <2>3. CASE Checking(r)
    BY <2>1, <2>2, <2>3 DEF Checking, Refusing, Naming, Locking, Missing, Finding
  <2>4. CASE Failing(r) \/ Adding(r) \/ \E u \in FreshUploads : Beginning(r, u)
    BY <2>1, <2>2, <2>4 DEF Failing, Adding, Beginning
  <2>5. CASE Recording(r) \/ Denying(r) \/ Catching(r)
    BY <2>1, <2>5 DEF Recording, Denying, Catching
  <2>6. CASE Making(r)
    BY <2>2, <2>6 DEF Making, Goes
  <2>7. QED BY <1>1, <2>3, <2>4, <2>5, <2>6 DEF Handling
<1>2. QED BY <1>1, AtKinds

LEMMA OwnedNext ==
    ASSUME Typed, Waits, Linked, Owned, Kinds
    PROVE  Owned'
<1> SUFFICES ASSUME NEW id \in Ids \ {Recorded}
             PROVE  /\ \A v, w \in Workers : Names(v, id)' /\ Names(w, id)' => v = w
                    /\ \A u, v \in Uploads : multi'[u].id = id /\ multi'[v].id = id => u = v
                    /\ \A u \in Uploads : multi'[u].id = id => \A i \in DOMAIN multi'[u].parts :
                            \A w \in Workers : Names(w, id)' => multi'[u].parts[i].by = w
                    /\ \A r \in Requests : req'[r].at = "init" /\ req'[r].id = id =>
                            /\ \A x \in Requests \ {r} : req'[x].id # id
                            /\ \A w \in Workers : client'[w].id # id
                            /\ \A u \in Uploads : multi'[u].id # id
                            /\ session'[<<"create", id>>] = NoSession
                    /\ \A r \in Requests : req'[r].at = "record" /\ req'[r].id = id => \A u \in Uploads : multi'[u].id # id
  BY DEF Owned, Names
<1>0. /\ \A v, w \in Workers : Names(v, id) /\ Names(w, id) => v = w
      /\ \A u, v \in Uploads : multi[u].id = id /\ multi[v].id = id => u = v
      /\ \A u \in Uploads : multi[u].id = id => \A i \in DOMAIN multi[u].parts :
              \A w \in Workers : Names(w, id) => multi[u].parts[i].by = w
      /\ \A r \in Requests : req[r].at = "init" /\ req[r].id = id =>
              /\ \A x \in Requests \ {r} : req[x].id # id
              /\ \A w \in Workers : client[w].id # id
              /\ \A u \in Uploads : multi[u].id # id
              /\ session[<<"create", id>>] = NoSession
      /\ \A r \in Requests : req[r].at = "record" /\ req[r].id = id => \A u \in Uploads : multi[u].id # id
  BY DEF Owned
<1>0a. /\ \A r \in Requests : Open(req[r].upload) => multi[req[r].upload].id = req[r].id
       /\ \A u \in Uploads : multi[u].parts \in Seq(Piece)
  BY DEF Linked, Typed, TypeOK, Multi
<1>1. ASSUME NEW v \in Workers, NEW w \in Workers, Names(v, id)', Names(w, id)' PROVE v = w
  BY <1>1, OneOwner
<1>2. ASSUME NEW u \in Uploads, NEW v \in Uploads, multi'[u].id = id, multi'[v].id = id PROVE u = v
  <2>1. ASSUME NEW r \in Requests, NEW x \in Uploads, NEW y \in Uploads, Beginning(r, x), req[r].id = id, req[r].at = "init",
               multi'[y].id = id
        PROVE  x = y
    BY <1>0, <2>1 DEF Beginning, OtherUploads
  <2>2. CASE multi[u].id = id /\ multi[v].id = id
    BY <1>0, <2>2
  <2>3. QED BY <1>2, <2>1, <2>2, UploadsOf
<1>3. ASSUME NEW u \in Uploads, multi'[u].id = id, NEW i \in DOMAIN multi'[u].parts, NEW w \in Workers, Names(w, id)'
      PROVE  multi'[u].parts[i].by = w
  <2>1. CASE \E r \in Requests : Naming(r) /\ req'[r].id = id
    <3>1. \A x \in Uploads : multi[x].id # id
      BY <2>1, FreshId DEF Naming
    <3>2. multi' = multi
      BY <2>1 DEF Naming
    <3>3. QED BY <1>3, <3>1, <3>2
  <2>2. CASE ~\E r \in Requests : Naming(r) /\ req'[r].id = id
    <3>1. Names(w, id)
      BY <1>3, <2>2, NamesKept
    <3>2. CASE multi[u].id = id /\ multi'[u].parts = multi[u].parts
      BY <1>0, <1>3, <3>1, <3>2
    <3>3. ASSUME NEW r \in Requests, multi[u].id = id, Adding(r), req[r].upload = u,
                 multi'[u].parts = Append(multi[u].parts, [by |-> req[r].by, chunk |-> req[r].chunk])
          PROVE  multi'[u].parts[i].by = w
      <4>1. req[r].id = id /\ req[r].by \in Workers
        BY <1>0a, <3>3, InMemory DEF Adding
      <4>2. req[r].by = w
        BY <1>0, <3>1, <4>1 DEF Names
      <4>3. multi[u].parts \in Seq(Piece)
        BY <1>0a
      <4> DEFINE s == multi[u].parts
                 p == [by |-> req[r].by, chunk |-> req[r].chunk]
      <4>4. p.by = w /\ i \in DOMAIN Append(s, p) /\ multi'[u].parts = Append(s, p)
        BY <1>3, <3>3, <4>2
      <4>5. \A j \in DOMAIN s : s[j].by = w
        BY <1>0, <3>1, <3>3
      <4> HIDE DEF s, p
      <4>6. s \in Seq(Piece)
        BY <4>3 DEF s
      <4>7. Append(s, p)[i].by = w
        BY <4>4, <4>5, <4>6
      <4>8. QED BY <4>4, <4>7
    <3>4. CASE multi'[u].parts = <<>>
      BY <1>3, <3>4
    <3>5. QED BY <1>3, <3>2, <3>3, <3>4, UploadsOf
  <2>3. QED BY <2>1, <2>2
<1>4. ASSUME NEW r \in Requests, req'[r].at = "init", req'[r].id = id
      PROVE  /\ \A x \in Requests \ {r} : req'[x].id # id
             /\ \A w \in Workers : client'[w].id # id
             /\ \A u \in Uploads : multi'[u].id # id
             /\ session'[<<"create", id>>] = NoSession
  <2>1. CASE \E x \in Requests : Naming(x) /\ req'[x].id = id
    <3>1. PICK x \in Requests : Naming(x) /\ req'[x].id = id
      BY <2>1
    <3>2. /\ id \in FreshIds /\ \A y \in Requests : y # x => req'[y] = req[y]
          /\ client' = client /\ multi' = multi /\ session' = session
      BY <3>1 DEF Naming, Rest, Others
    <3>3. QED BY <1>4, <3>2, FreshId
  <2>2. CASE ~\E x \in Requests : Naming(x) /\ req'[x].id = id
    <3>1. req[r].at = "init" /\ req[r].id = id
      BY <1>4, <2>2, StillInit
    <3>2. \A x \in Requests \ {r} : req'[x].id # id
      <4>1. ASSUME NEW x \in Requests \ {r}, req'[x].id = id PROVE FALSE
        <5>1. req[x].id # id /\ \A w \in Workers : client[w].id # id
          BY <1>0, <3>1
        <5>2. QED BY <2>2, <4>1, <5>1, IdKinds, NullAssumption
      <4>2. QED BY <4>1
    <3>3. \A w \in Workers : client'[w].id # id
      <4>1. ASSUME NEW w \in Workers, client'[w].id = id PROVE FALSE
        <5>1. \A x \in Workers : client[x].id # id
          BY <1>0, <3>1
        <5>2. PICK x \in Requests : Hearing(x) /\ req[x].id = id
          BY <4>1, <5>1, ClientIdKinds DEF Forth
        <5>3. x = r
          BY <1>0, <3>1, <5>2
        <5>4. QED BY <3>1, <5>2, <5>3 DEF Hearing
      <4>2. QED BY <4>1
    <3>4. ~Begins \/ \E x \in Requests : \E u \in FreshUploads : Beginning(x, u) /\ x # r
      BY <1>4 DEF Begins, Beginning
    <3>5. ASSUME NEW x \in Requests, NEW u \in FreshUploads, Beginning(x, u), x # r
          PROVE  (\A v \in Uploads : multi'[v].id # id) /\ session'[<<"create", id>>] = NoSession
      <4>1. req[x].id # id /\ req[x].at = "init" /\ (\A v \in Uploads : multi[v].id # id) /\ session[<<"create", id>>] = NoSession
        BY <1>0, <3>1, <3>5 DEF Beginning
      <4>2. \A v \in Uploads : multi'[v].id # id
        BY <3>5, <4>1 DEF Beginning, OtherUploads
      <4>3. <<"create", id>> \in Keys /\ <<"create", id>> # KeyAt(x)
        BY <4>1, InMemory, KeysApart
      <4>4. QED BY <3>5, <4>1, <4>2, <4>3 DEF Beginning, OtherSessions
    <3>6. ASSUME ~Begins PROVE (\A v \in Uploads : multi'[v].id # id) /\ session'[<<"create", id>>] = NoSession
      <4>1. (\A v \in Uploads : multi[v].id # id) /\ session[<<"create", id>>] = NoSession
        BY <1>0, <3>1
      <4>2. <<"create", id>> \in Keys
        BY KeysApart
      <4>3. \A v \in Uploads : multi'[v].id # id
        <5>1. ASSUME NEW v \in Uploads, multi'[v].id = id PROVE FALSE
          BY <3>6, <4>1, <5>1, UploadsOf DEF Begins
        <5>2. QED BY <5>1
      <4>4. session'[<<"create", id>>].upload = NoUpload
        BY <3>6, <4>1, <4>2, SessionKinds, NoSessionFields
      <4>5. session'[<<"create", id>>] = NoSession
        BY <4>2, <4>4, SessionsWhole
      <4>6. QED BY <4>3, <4>5
    <3>7. QED BY <3>2, <3>3, <3>4, <3>5, <3>6
  <2>3. QED BY <2>1, <2>2
<1>5. ASSUME NEW r \in Requests, req'[r].at = "record", req'[r].id = id, NEW u \in Uploads, multi'[u].id = id
      PROVE  FALSE
  <2>1. CASE req[r].at = "record" /\ req[r].id = id
    <3>1. \A v \in Uploads : multi[v].id # id
      BY <1>0, <2>1
    <3>2. PICK x \in Requests : req[x].id = id /\ req[x].at = "init"
      BY <1>5, <3>1, UploadsOf
    <3>3. x # r
      BY <2>1, <3>2
    <3>4. QED BY <1>0, <2>1, <3>2, <3>3
  <2>2. CASE Making(r) /\ req[r].id = id
    <3>1. Open(req[r].upload) /\ req[r].upload \in Uploads /\ multi[req[r].upload].id = id /\ Shut(req[r].upload)
      BY <1>0a, <2>2 DEF Making, Completable
    <3>2. u # req[r].upload
      BY <1>5, <3>1, NoMultiFields, NullAssumption DEF Shut
    <3>3. multi[u].id = id
      BY <1>5, <3>1, <3>2 DEF Shut, OtherUploads
    <3>4. QED BY <1>0, <3>1, <3>2, <3>3
  <2>3. QED BY <1>5, <2>1, <2>2, StillRecord
<1>6. QED BY <1>1, <1>2, <1>3, <1>4, <1>5

-----------------------------------------------------------------------------
(* What is stored of a new file. *)

LEMMA HoldsNone == \A s : Holds(s, 0)
BY DEF Holds

LEMMA HoldsMore ==
    ASSUME NEW s \in Seq(Piece), NEW p \in Piece
    PROVE  /\ \A n : Holds(s, n) => Holds(Append(s, p), n)
           /\ Holds(s, p.chunk) => Holds(Append(s, p), p.chunk + 1)
<1>1. /\ DOMAIN s \subseteq DOMAIN Append(s, p) /\ \A i \in DOMAIN s : Append(s, p)[i] = s[i]
      /\ Len(s) + 1 \in DOMAIN Append(s, p) /\ Append(s, p)[Len(s) + 1] = p
  OBVIOUS
<1>2. p.chunk \in Nat
  BY Span DEF Piece
<1> DEFINE a == Append(s, p)
<1> HIDE DEF a
<1>3. /\ DOMAIN s \subseteq DOMAIN a /\ \A i \in DOMAIN s : a[i] = s[i]
      /\ \E i \in DOMAIN a : a[i].chunk = p.chunk
  BY <1>1 DEF a
<1>4. \A n : Holds(s, n) => Holds(a, n)
  BY <1>3 DEF Holds
<1>5. ASSUME Holds(s, p.chunk) PROVE Holds(a, p.chunk + 1)
  <2>1. ASSUME NEW j \in 0 .. p.chunk + 1 - 1 PROVE \E i \in DOMAIN a : a[i].chunk = j
    <3>1. CASE j = p.chunk
      BY <1>3, <3>1
    <3>2. CASE j # p.chunk
      <4>1. j \in 0 .. p.chunk - 1
        BY <1>2, <3>2
      <4>2. QED BY <1>3, <1>5, <4>1 DEF Holds
    <3>3. QED BY <3>1, <3>2
  <2>2. QED BY <1>2, <2>1 DEF Holds
<1>6. QED BY <1>4, <1>5 DEF a

\* How a request comes to be at each step.
Stays(x, at) ==
    /\ req[x].at = at /\ req'[x].at = at /\ req'[x].id = req[x].id /\ req'[x].by = req[x].by
    /\ req'[x].chunk = req[x].chunk /\ req'[x].ok = req[x].ok /\ req'[x].upload = req[x].upload
LEMMA ArriveKinds ==
    ASSUME Typed, Kinds, NEW x \in Requests
    PROVE  /\ req'[x].at = "sent" => Stays(x, "sent") \/ \E w \in Workers : Sending(w, x)
           /\ req'[x].at = "part" =>
                Stays(x, "part") \/ Finding(x) \/ \E u \in FreshUploads : Beginning(x, u)
           /\ req'[x].at = "complete" =>
                \/ Stays(x, "complete")
                \/ Adding(x) /\ req[x].chunk = LastChunk /\ Goes(x, "complete")
           /\ req'[x].at = "reply" /\ req'[x].ok =>
                \/ Stays(x, "reply") /\ req[x].ok
                \/ Adding(x) /\ req[x].chunk # LastChunk /\ Ends(x, TRUE) /\ req[x].heard
                \/ Recording(x) /\ req[x].heard
<1>1. ASSUME Handling(x), req'[x].at \in {"part", "complete", "reply"}, req'[x].at = "reply" => req'[x].ok
      PROVE  /\ req'[x].at = "part" => Finding(x) \/ \E u \in FreshUploads : Beginning(x, u)
             /\ req'[x].at = "complete" => Adding(x) /\ req[x].chunk = LastChunk /\ Goes(x, "complete")
             /\ req'[x].at = "reply" =>
                    \/ Adding(x) /\ req[x].chunk # LastChunk /\ Ends(x, TRUE) /\ req[x].heard
                    \/ Recording(x) /\ req[x].heard
  <2>1. ~Ends(x, FALSE) /\ ~Goes(x, "catch") /\ ~Goes(x, "record") /\ ~Goes(x, "init")
    BY <1>1, FreeFields DEF Ends, Vanishes, Goes
  <2>2. Ends(x, TRUE) => req'[x].at = "reply" /\ req[x].heard
    BY <1>1, FreeFields DEF Ends, Vanishes
  <2>3. CASE Checking(x)
    BY <1>1, <2>1, <2>3 DEF Checking, Refusing, Naming, Locking, Missing, Finding
  <2>4. CASE Failing(x) \/ Making(x) \/ Denying(x) \/ Catching(x)
    BY <2>1, <2>4 DEF Failing, Making, Denying, Catching
  <2>5. CASE \E u \in FreshUploads : Beginning(x, u)
    BY <2>5 DEF Beginning
  <2>6. CASE Adding(x)
    BY <2>2, <2>6 DEF Adding, Goes
  <2>7. CASE Recording(x)
    BY <2>2, <2>7 DEF Recording
  <2>8. QED BY <1>1, <2>3, <2>4, <2>5, <2>6, <2>7 DEF Handling
<1>2. ASSUME req'[x].at \in {"part", "complete", "reply"}, ~Handling(x) PROVE Stays(x, req'[x].at) /\ req'[x].ok = req[x].ok
  BY <1>2, AtKinds DEF Stays
<1>3. ASSUME req'[x].at = "sent" PROVE Stays(x, "sent") \/ \E w \in Workers : Sending(w, x)
  <2>1. CASE Aside
    BY <1>3, <2>1, AsideKeeps DEF Stays
  <2>2. CASE Crashing
    BY <1>3, <2>2, FreeFields DEF Crashing
  <2>3. ASSUME NEW v \in Workers, NEW r \in Requests, Sending(v, r), r # x PROVE Stays(x, "sent")
    BY <1>3, <2>3 DEF Sending, Others, Stays
  <2>4. ASSUME NEW r \in Requests, Losing(r) \/ Hearing(r) PROVE Stays(x, "sent")
    BY <1>3, <2>4, FreeFields DEF Losing, Hearing, Others, Vanishes, Stays
  <2>5. ASSUME NEW r \in Requests, Expiring(r) PROVE Stays(x, "sent")
    BY <1>3, <2>5 DEF Expiring, Others, Stays
  <2>6. ASSUME NEW r \in Requests, Handling(r) PROVE Stays(x, "sent")
    BY <1>3, <2>6, HandlingServes, FreeFields DEF Serving, Others, Stays
  <2>7. ASSUME NEW v \in Workers, Fetching(v) PROVE Stays(x, "sent")
    BY <1>3, <2>7 DEF Fetching, Stays
  <2>8. QED BY <2>1, <2>2, <2>3, <2>4, <2>5, <2>6, <2>7, KindsSplit
<1>4. QED BY <1>1, <1>2, <1>3

\* A part that is added: the list has one more.
LEMMA AddedTo ==
    ASSUME Typed, NEW r \in Requests, Adding(r)
    PROVE  /\ req[r].upload \in Uploads /\ multi[req[r].upload].id # NoId
           /\ \A n : Has(req[r].upload, n) => Holds(multi'[req[r].upload].parts, n)
           /\ Has(req[r].upload, req[r].chunk) => Holds(multi'[req[r].upload].parts, req[r].chunk + 1)
<1> DEFINE u == req[r].upload
           p == [by |-> req[r].by, chunk |-> req[r].chunk]
<1>1. /\ u \in Uploads /\ multi[u].id # NoId /\ multi'[u].parts = Append(multi[u].parts, p)
  BY DEF Adding, Open
<1>2. multi[u].parts \in Seq(Piece) /\ p \in Piece /\ p.chunk = req[r].chunk
  BY <1>1, InMemory DEF Adding, Typed, TypeOK, Multi, Piece
<1> HIDE DEF u, p
<1>3. QED BY <1>1, <1>2, HoldsMore DEF Has, u

LEMMA StoredInit == Init => Stored
<1> SUFFICES ASSUME Init PROVE Stored
  OBVIOUS
<1>1. \A u \in Uploads : multi[u].id = NoId
  BY NoMultiFields DEF Init
<1>2. QED BY <1>1, NullAssumption DEF Stored

LEMMA StoredNext ==
    ASSUME Typed, Waits, Linked, Owned, Stored, Kinds
    PROVE  Stored'
<1> SUFFICES ASSUME NEW u \in Uploads, NEW id \in Ids \ {Recorded}, multi'[u].id = id
             PROVE  /\ \A w \in Workers : client'[w].id = id => Holds(multi'[u].parts, client'[w].chunk)
                    /\ \A r \in Requests : req'[r].id = id =>
                        /\ req'[r].at \in {"sent", "part"} => Holds(multi'[u].parts, req'[r].chunk)
                        /\ req'[r].at = "complete" => Holds(multi'[u].parts, Total)
                        /\ req'[r].at = "reply" /\ req'[r].ok => Holds(multi'[u].parts, req'[r].chunk + 1)
  BY DEF Stored, Has
<1>1. ASSUME NEW r \in Requests, Beginning(r, u), req[r].id = id, req[r].at = "init", multi'[u].parts = <<>>
      PROVE  /\ \A w \in Workers : client'[w].id = id => Holds(multi'[u].parts, client'[w].chunk)
             /\ \A x \in Requests : req'[x].id = id =>
                 /\ req'[x].at \in {"sent", "part"} => Holds(multi'[u].parts, req'[x].chunk)
                 /\ req'[x].at = "complete" => Holds(multi'[u].parts, Total)
                 /\ req'[x].at = "reply" /\ req'[x].ok => Holds(multi'[u].parts, req'[x].chunk + 1)
  <2>1. (\A x \in Requests \ {r} : req[x].id # id) /\ \A w \in Workers : client[w].id # id
    BY <1>1 DEF Owned
  <2>2. client' = client /\ Others(r) /\ req'[r].at = "part" /\ req'[r].chunk = req[r].chunk
    BY <1>1 DEF Beginning, Rest, Same
  <2>3. req[r].chunk = 0
    BY <1>1, InMemory DEF RequestWhole
  <2>4. QED BY <2>1, <2>2, <2>3, HoldsNone DEF Others
<1>2. ASSUME multi[u].id = id, \A n : Has(u, n) => Holds(multi'[u].parts, n)
      PROVE  /\ \A w \in Workers : client'[w].id = id => Holds(multi'[u].parts, client'[w].chunk)
             /\ \A x \in Requests : req'[x].id = id =>
                 /\ req'[x].at \in {"sent", "part"} => Holds(multi'[u].parts, req'[x].chunk)
                 /\ req'[x].at = "complete" => Holds(multi'[u].parts, Total)
                 /\ req'[x].at = "reply" /\ req'[x].ok => Holds(multi'[u].parts, req'[x].chunk + 1)
  <2>0. /\ \A w \in Workers : client[w].id = id => Has(u, client[w].chunk)
        /\ \A r \in Requests : req[r].id = id =>
            /\ req[r].at \in {"sent", "part"} => Has(u, req[r].chunk)
            /\ req[r].at = "complete" => Has(u, Total)
            /\ req[r].at = "reply" /\ req[r].ok => Has(u, req[r].chunk + 1)
    BY <1>2 DEF Stored
  <2>1. ASSUME NEW w \in Workers, client'[w].id = id PROVE Holds(multi'[u].parts, client'[w].chunk)
    <3>1. CASE client'[w].id = client[w].id /\ client'[w].chunk = client[w].chunk
      BY <1>2, <2>0, <2>1, <3>1
    <3>2. ASSUME NEW x \in Requests, Hearing(x), req[x].by = w, req[x].ok, Forth(w, req[x].id)
          PROVE  Holds(multi'[u].parts, client'[w].chunk)
      <4>1. req[x].id = id /\ req[x].at = "reply" /\ client'[w].chunk = client[w].chunk + 1
        BY <2>1, <3>2 DEF Forth, Hearing
      <4>2. req[x].heard
        BY <4>1 DEF Typed, RequestWhole
      <4>3. client[w].chunk = req[x].chunk
        BY <3>2, <4>2 DEF Waits, Waiting
      <4>4. QED BY <1>2, <2>0, <3>2, <4>1, <4>3
    <3>3. CASE client'[w].chunk = 0
      BY <3>3, HoldsNone
    <3>4. QED BY <3>1, <3>2, <3>3, ClientIdKinds
  <2>2. ASSUME NEW x \in Requests, req'[x].id = id, Adding(x)
        PROVE  Holds(multi'[u].parts, req[x].chunk + 1) /\ req'[x].chunk = req[x].chunk
    <3>1. req'[x].at # "free"
      BY <2>2, FreeFields, NullAssumption DEF Adding, Goes, Ends, Vanishes
    <3>2. req'[x].chunk = req[x].chunk /\ req'[x].id = req[x].id /\ req[x].at = "part"
      BY <2>2, <3>1, FreeFields DEF Adding, Goes, Ends, Vanishes, Same
    <3>3. multi[req[x].upload].id = id /\ req[x].upload \in Uploads
      BY <2>2, <3>2 DEF Adding, Linked, Open
    <3>4. req[x].upload = u
      BY <1>2, <3>3 DEF Owned
    <3>5. QED BY <2>0, <2>2, <3>2, <3>4, AddedTo
  <2>3. ASSUME NEW x \in Requests, req'[x].id = id, req'[x].at \in {"sent", "part"}
        PROVE  Holds(multi'[u].parts, req'[x].chunk)
    <3>1. CASE Stays(x, "sent") \/ Stays(x, "part")
      BY <1>2, <2>0, <2>3, <3>1 DEF Stays
    <3>2. CASE \E w \in Workers : Sending(w, x)
      BY <1>2, <2>0, <2>3, <3>2 DEF Sending
    <3>3. CASE Finding(x)
      BY <1>2, <2>0, <2>3, <3>3 DEF Finding, Admitted, Same
    <3>4. ASSUME NEW v \in FreshUploads, Beginning(x, v) PROVE FALSE
      <4>1. req[x].at = "init" /\ req[x].id = id
        BY <2>3, <3>4 DEF Beginning
      <4>2. QED BY <1>2, <4>1 DEF Owned
    <3>5. QED BY <2>3, <3>1, <3>2, <3>3, <3>4, ArriveKinds
  <2>4. ASSUME NEW x \in Requests, req'[x].id = id, req'[x].at = "complete" PROVE Holds(multi'[u].parts, Total)
    <3>1. CASE Stays(x, "complete")
      BY <1>2, <2>0, <2>4, <3>1 DEF Stays
    <3>2. CASE Adding(x) /\ req[x].chunk = LastChunk
      BY <2>2, <2>4, <3>2, Span
    <3>3. QED BY <2>4, <3>1, <3>2, ArriveKinds
  <2>5. ASSUME NEW x \in Requests, req'[x].id = id, req'[x].at = "reply", req'[x].ok
        PROVE  Holds(multi'[u].parts, req'[x].chunk + 1)
    <3>1. CASE Stays(x, "reply") /\ req[x].ok
      BY <1>2, <2>0, <2>5, <3>1 DEF Stays
    <3>2. CASE Adding(x)
      BY <2>2, <2>5, <3>2
    <3>3. CASE Recording(x) /\ req[x].heard
      <4>1. req[x].at = "record" /\ req[x].id = id
        BY <2>5, <3>3 DEF Recording, Ends
      <4>2. QED BY <1>2, <4>1 DEF Owned
    <3>4. QED BY <2>5, <3>1, <3>2, <3>3, ArriveKinds
  <2>6. QED BY <2>1, <2>3, <2>4, <2>5
<1>3. ASSUME multi[u].id = id, multi'[u].parts = multi[u].parts PROVE \A n : Has(u, n) => Holds(multi'[u].parts, n)
  BY <1>3 DEF Has
<1>4. ASSUME NEW r \in Requests, Adding(r), req[r].upload = u PROVE \A n : Has(u, n) => Holds(multi'[u].parts, n)
  BY <1>4, AddedTo
<1>5. QED BY <1>1, <1>2, <1>3, <1>4, UploadsOf

-----------------------------------------------------------------------------
(* The tab that has the lock has the recorded file to itself. *)

\* What a step may do to the uploads of the recorded file.
RecordedAlone == \A u \in Uploads : multi'[u].id = Recorded =>
    multi[u].id = Recorded /\ multi'[u].parts = multi[u].parts
LEMMA RecordedUploads ==
    ASSUME Typed, Linked, Kinds
    PROVE  \/ RecordedAlone
           \/ \E r \in Requests : req[r].by \in Rekeyers /\ (Adding(r) \/ \E u \in FreshUploads : Beginning(r, u))
<1>1. CASE Fades
  BY <1>1, NoMultiFields, NullAssumption DEF Fades, RecordedAlone
<1>2. ASSUME NEW r \in Requests, Adding(r), req[r].by \notin Rekeyers PROVE RecordedAlone
  <2>1. req[r].upload \in Uploads /\ multi[req[r].upload].id = req[r].id /\ req[r].id # Recorded
    BY <1>2, InMemory DEF Adding, Open, Linked
  <2>2. QED BY <1>2, <2>1 DEF Adding, OtherUploads, RecordedAlone
<1>3. ASSUME NEW r \in Requests, NEW u \in FreshUploads, Beginning(r, u), req[r].by \notin Rekeyers PROVE RecordedAlone
  <2>1. req[r].id # Recorded
    BY <1>3, InMemory DEF Beginning
  <2>2. QED BY <1>3, <2>1 DEF Beginning, OtherUploads, RecordedAlone
<1>4. QED BY <1>1, <1>2, <1>3, UploadKinds DEF Begins, Adds

LEMMA StillMeans ==
    ASSUME req' = req
    PROVE  ~Begins /\ ~Adds
<1>1. ASSUME NEW r \in Requests, NEW u, Beginning(r, u) PROVE FALSE
  BY <1>1 DEF Beginning
<1>2. ASSUME NEW r \in Requests, Adding(r) PROVE FALSE
  BY <1>2, FreeFields DEF Adding, Goes, Ends, Vanishes
<1>3. QED BY <1>1, <1>2 DEF Begins, Adds

\* The set of replaceFileContent.
LEMMA LockKinds ==
    ASSUME Kinds
    PROVE  \/ lock' = lock
           \/ Crashing
           \/ \E r \in Requests : \/ Locking(r)
                                  \/ /\ Recording(r) \/ Catching(r)
                                     /\ req[r].by \in Rekeyers /\ lock' = Nobody
<1>1. CASE Aside
  BY <1>1, AsideKeeps
<1>2. ASSUME NEW w \in Workers, (\E r \in Requests : Sending(w, r)) \/ Fetching(w) PROVE lock' = lock
  BY <1>2 DEF Sending, Fetching, World
<1>3. ASSUME NEW r \in Requests, Hearing(r) \/ Losing(r) \/ Expiring(r) PROVE lock' = lock
  BY <1>3 DEF Hearing, Losing, Expiring, World
<1>4. ASSUME NEW r \in Requests, Handling(r)
      PROVE  \/ lock' = lock \/ Locking(r)
             \/ (Recording(r) \/ Catching(r)) /\ req[r].by \in Rekeyers /\ lock' = Nobody
  <2>1. CASE Checking(r)
    BY <2>1 DEF Checking, Refusing, Naming, Missing, Finding, Admitted
  <2>2. CASE Failing(r) \/ Making(r) \/ Adding(r) \/ \E u \in FreshUploads : Beginning(r, u)
    BY <2>2 DEF Failing, Making, Adding, Beginning
  <2>3. CASE Recording(r) \/ Denying(r) \/ Catching(r)
    BY <2>3 DEF Recording, Denying, Catching, Unlocks
  <2>4. QED BY <1>4, <2>1, <2>2, <2>3 DEF Handling
<1>5. QED BY <1>1, <1>2, <1>3, <1>4, KindsSplit

\* Steps that do not go on with the recorded file.
LEMMA AloneQuiet ==
    ASSUME Typed', Linked', Alone, RecordedAlone, lock' = lock,
           session'[KeyR].upload \in {session[KeyR].upload, NoUpload},
           \A x \in Requests : req'[x].by \in Rekeyers /\ req'[x].at # "free" =>
                /\ req'[x].heard
                /\ \/ req'[x] = req[x] \/ req'[x].at = "sent" \/ (req'[x].at = "reply" /\ ~req'[x].ok)
                   \/ (req'[x].at = "catch" /\ lock = req'[x].by),
           \A w \in Rekeyers : client'[w].phase \in {"sending", "waiting"} =>
                \/ client[w].phase \in {"sending", "waiting"} /\ client'[w].chunk = client[w].chunk
                \/ client'[w].chunk = 0
    PROVE  Alone'
<1>0. NoUpload \notin Uploads /\ KeyR \in Keys /\ KeyR[2] = Recorded
  BY NullAssumption, KeysApart
<1>1. \A r \in Requests : req'[r].at # "free" /\ req'[r].by \in Rekeyers => req'[r].heard
  OBVIOUS
<1>2. \A r \in Requests : Busy(req'[r]) => lock' = req'[r].by
  BY DEF Alone, Busy
<1>3. lock' = Nobody => session'[KeyR].upload = NoUpload
  BY DEF Alone
<1>4. ASSUME NEW u, Open(u)', multi'[u].id = Recorded
      PROVE  Open(u) /\ \A n, w : (Has(u, n) => Has(u, n)') /\ (ByAll(u, w) => ByAll(u, w)')
  BY <1>4, NullAssumption DEF Open, RecordedAlone, Has, ByAll
<1>5. ASSUME NEW r \in Requests, req'[r].by \in Rekeyers PROVE Attended(req[r])'
  <2>1. CASE req'[r].at \notin {"init", "record", "part", "complete"}
    BY <2>1 DEF Attended
  <2>2. CASE req'[r].at \in {"init", "record", "part", "complete"}
    <3>1. req'[r] = req[r] /\ Attended(req[r])
      BY <1>5, <2>2 DEF Alone
    <3>2. Open(req[r].upload)' => multi'[req'[r].upload].id = Recorded
      BY <1>5 DEF Linked, Typed, RequestWhole
    <3>3. req[r].at \in {"init", "record"} => session'[KeyR].upload = NoUpload
      BY <3>1 DEF Attended
    <3>4. req[r].at \in {"part", "complete"} => session'[KeyR].upload \in {NoUpload, req[r].upload}
      BY <3>1 DEF Attended
    <3>5. ASSUME NEW v, v = req[r].upload, req[r].at \in {"part", "complete"}, Open(v)',
                 NEW m, m = IF req[r].at = "part" THEN req[r].chunk ELSE Total, NEW w, w = req[r].by
          PROVE  ByAll(v, w)' /\ Has(v, m)'
      <4>0. v = req'[r].upload /\ multi'[v].id = Recorded
        BY <3>1, <3>2, <3>5 DEF Open
      <4>1. Open(v) /\ (Has(v, m) => Has(v, m)') /\ (ByAll(v, w) => ByAll(v, w)')
        BY <1>4, <3>5, <4>0
      <4>2. QED BY <3>1, <3>5, <4>1 DEF Attended
    <3>6. QED BY <3>1, <3>3, <3>4, <3>5 DEF Attended, Has, ByAll, Open
  <2>3. QED BY <2>1, <2>2
<1>6. Kept'
  <2>1. SUFFICES ASSUME NEW u, u = session'[KeyR].upload, Open(u)'
                 PROVE  /\ ByAll(u, lock)'
                        /\ client'[lock].phase \in {"sending", "waiting"} => Has(u, client[lock].chunk)'
                        /\ \A r \in Requests : req'[r].by = lock /\ req'[r].at = "reply" /\ req'[r].ok =>
                                Has(u, req[r].chunk + 1)'
    BY DEF Kept, Open, Has, ByAll
  <2>2. u = session[KeyR].upload /\ u # NoUpload /\ multi'[u].id = Recorded
    BY <1>0, <2>1 DEF Open, Linked
  <2>3. Open(u) /\ \A n, w : (Has(u, n) => Holds(multi'[u].parts, n)) /\ (ByAll(u, w) => ByAll(u, w)')
    BY <1>4, <2>1, <2>2 DEF Has
  <2>4. lock \in Rekeyers
    BY <2>2 DEF Alone, Typed, TypeOK
  <2>5. /\ ByAll(u, lock)
        /\ client[lock].phase \in {"sending", "waiting"} => Has(u, client[lock].chunk)
        /\ \A r \in Requests : req[r].by = lock /\ req[r].at = "reply" /\ req[r].ok => Has(u, req[r].chunk + 1)
    BY <2>2, <2>3 DEF Alone, Kept
  <2>6. ByAll(u, lock)'
    BY <2>3, <2>5 DEF ByAll
  <2>7. client'[lock].phase \in {"sending", "waiting"} => Holds(multi'[u].parts, client'[lock].chunk)
    BY <2>3, <2>4, <2>5, HoldsNone
  <2>8. ASSUME NEW r \in Requests, req'[r].by = lock, req'[r].at = "reply", req'[r].ok
        PROVE  Holds(multi'[u].parts, req'[r].chunk + 1)
    BY <2>3, <2>4, <2>5, <2>8
  <2>9. QED BY <2>6, <2>7, <2>8 DEF Has
<1>7. QED BY <1>1, <1>2, <1>3, <1>5, <1>6 DEF Alone, Busy

LEMMA OneBusy ==
    ASSUME Typed, Waits, Alone, NEW r \in Requests, req[r].at # "free", req[r].by = lock
    PROVE  \A x \in Requests : x # r => ~Busy(req[x]) /\ (req[x].at # "free" => req[x].by # req[r].by)
<1>1. lock \in Rekeyers /\ req[r].heard
  BY Served, Roles DEF Alone, Typed, TypeOK
<1>2. ASSUME NEW x \in Requests, x # r, req[x].at # "free" PROVE req[x].by # lock
  BY <1>1, <1>2 DEF Alone, Waits, Single
<1>3. \A x \in Requests : Busy(req[x]) => req[x].at # "free" /\ req[x].by = lock
  BY DEF Alone, Busy
<1>4. QED BY <1>2, <1>3

\* A step of the request that has the lock, or comes to have it.
LEMMA AloneActs ==
    ASSUME Alone, NEW r \in Requests, NEW w \in Rekeyers, w = req[r].by, Others(r),
           \A x \in Requests : x # r => ~Busy(req[x]) /\ (req[x].at # "free" => req[x].by # w),
           req'[r].at # "free" => req'[r].heard /\ req'[r].by = w,
           Busy(req[r])' => lock' = w,
           lock' = Nobody => session'[KeyR].upload = NoUpload,
           Attended(req[r])', Kept'
    PROVE  Alone'
<1>1. ASSUME NEW x \in Requests PROVE req'[x].at # "free" /\ req'[x].by \in Rekeyers => req'[x].heard
  BY DEF Others, Alone
<1>2. ASSUME NEW x \in Requests PROVE Busy(req[x])' => lock' = req'[x].by
  <2>1. CASE x = r
    BY <2>1 DEF Busy
  <2>2. CASE x # r
    BY <2>2 DEF Others, Busy
  <2>3. QED BY <2>1, <2>2
<1>3. ASSUME NEW x \in Requests, req'[x].by \in Rekeyers PROVE Attended(req[x])'
  <2>1. CASE x # r
    <3>1. req'[x] = req[x] /\ req'[x].at \notin {"init", "part", "complete", "record"}
      BY <1>3, <2>1 DEF Others, Busy
    <3>2. QED BY <3>1 DEF Attended
  <2>2. QED BY <2>1
<1>4. QED BY <1>1, <1>2, <1>3 DEF Alone

LEMMA AloneByCreator ==
    ASSUME Typed, Typed', Linked, Linked', Alone, Kinds, NEW r \in Requests, Handling(r), req[r].by \in Creators
    PROVE  Alone'
<1>1. req[r].by \notin Rekeyers /\ Serving(r) /\ req[r].at \notin {"free", "reply"}
  BY HandlingServes, Roles DEF Serving
<1>2. \A x \in Requests : req'[x].by \in Rekeyers => x # r /\ req'[x] = req[x]
  BY <1>1, FreeFields, Roles DEF Serving, Others, Same
<1>3. RecordedAlone
  <2>1. ASSUME NEW x \in Requests, req[x].by \in Rekeyers, Adding(x) \/ \E u \in FreshUploads : Beginning(x, u) PROVE FALSE
    <3>1. x # r
      BY <1>1, <2>1
    <3>2. req'[x] = req[x]
      BY <1>1, <3>1 DEF Serving, Others
    <3>3. QED BY <2>1, <3>2, FreeFields DEF Adding, Beginning, Goes, Ends, Vanishes
  <2>2. QED BY <2>1, RecordedUploads
<1>4. lock' = lock
  BY <1>1, Roles DEF Handling, Checking, Refusing, Naming, Locking, Missing, Finding, Admitted, Failing, Beginning,
        Adding, Making, Recording, Denying, Catching, Unlocks
<1>5. session'[KeyR].upload \in {session[KeyR].upload, NoUpload}
  <2>1. CASE Begins
    <3>1. PICK x \in Requests : \E u \in FreshUploads : Beginning(x, u)
      BY <2>1 DEF Begins
    <3>2. req[x].at = "init" /\ req'[x].at = "part" /\ OtherSessions(KeyAt(x))
      BY <3>1 DEF Beginning
    <3>3. x = r
      BY <1>1, <3>2 DEF Serving, Others
    <3>4. KeyAt(x) # KeyR
      BY <1>1, <3>2, <3>3, InMemory, KeysApart
    <3>5. QED BY <3>2, <3>4, KeysApart DEF OtherSessions
  <2>2. CASE ~Begins
    BY <2>2, SessionKinds, KeysApart
  <2>3. QED BY <2>1, <2>2
<1>6. client' = client
  BY <1>1 DEF Serving
<1>7. \A x \in Requests : req'[x].by \in Rekeyers /\ req'[x].at # "free" => req'[x].heard /\ req'[x] = req[x]
  BY <1>2 DEF Alone
<1>8. QED BY <1>3, <1>4, <1>5, <1>6, <1>7, AloneQuiet

LEMMA AloneByTab ==
    ASSUME Typed, Typed', Waits, Linked, Linked', Alone, Kinds, ~Late(Recorded)',
           NEW r \in Requests, Handling(r), NEW w \in Rekeyers, w = req[r].by
    PROVE  Alone'
<1>0. /\ Serving(r) /\ Others(r) /\ client' = client /\ req[r].at \notin {"free", "reply"} /\ req[r].heard
      /\ w \in Workers /\ w \notin Creators /\ req[r].id = Recorded /\ RequestWhole(req[r])
      /\ NoUpload \notin Uploads /\ KeyR \in Keys /\ KeyR[2] = Recorded /\ lock \in Rekeyers \cup {Nobody} /\ Nobody # w
  BY HandlingServes, Served, Roles, NullAssumption, KeysApart DEF Serving, Alone, Typed, TypeOK, RequestWhole
<1>1. KeyAt(r) = KeyR
  BY <1>0, KeyFacts, NullAssumption DEF KeyAt
<1>2. client[w].phase = "waiting" /\ client[w].chunk = req[r].chunk
  BY <1>0 DEF Waits, Waiting
\* a step that ends the handling or that goes to the catch
<1>3. ASSUME RecordedAlone, lock' = lock, session'[KeyR].upload \in {session[KeyR].upload, NoUpload},
             (Goes(r, "catch") /\ lock = w) \/ Ends(r, FALSE)
      PROVE  Alone'
  <2>1. \/ req'[r].at = "free"
        \/ req'[r].heard /\ (req'[r].at = "reply" /\ ~req'[r].ok)
        \/ req'[r].heard /\ (req'[r].at = "catch" /\ lock = req'[r].by)
    BY <1>0, <1>3, FreeFields DEF Goes, Ends, Same, Vanishes
  <2>2. \A x \in Requests : req'[x].by \in Rekeyers /\ req'[x].at # "free" =>
                /\ req'[x].heard
                /\ \/ req'[x] = req[x] \/ req'[x].at = "sent" \/ (req'[x].at = "reply" /\ ~req'[x].ok)
                   \/ (req'[x].at = "catch" /\ lock = req'[x].by)
    BY <1>0, <2>1 DEF Others, Alone
  <2>3. QED BY <1>0, <1>3, <2>2, AloneQuiet
<1>4. ASSUME lock' = lock, UNCHANGED <<session, multi>>, (Goes(r, "catch") /\ lock = w) \/ Ends(r, FALSE) PROVE Alone'
  BY <1>3, <1>4 DEF RecordedAlone
<1>5. Busy(req[r]) => lock = w
  BY DEF Alone
<1>6. ASSUME lock = w PROVE \A x \in Requests : x # r => ~Busy(req[x]) /\ (req[x].at # "free" => req[x].by # w)
  BY <1>0, <1>6, OneBusy
<1>7. CASE Refusing(r)
  BY <1>4, <1>7 DEF Refusing
<1>8. CASE Locking(r)
  <2>1. /\ lock = Nobody /\ lock' = w /\ Goes(r, "init") /\ session' = session
    BY <1>8 DEF Locking
  <2>2. session[KeyR].upload = NoUpload
    BY <2>1 DEF Alone
  <2>3. \A x \in Requests : x # r => ~Busy(req[x]) /\ (req[x].at # "free" => req[x].by # w)
    <3>1. \A x \in Requests : ~Busy(req[x])
      BY <2>1, Roles DEF Alone, Busy
    <3>2. \A x \in Requests : x # r /\ req[x].at # "free" => req[x].by # w
      BY <1>0 DEF Alone, Waits, Single
    <3>3. QED BY <3>1, <3>2
  <2>4. Attended(req[r])'
    BY <2>1, <2>2 DEF Attended, Goes
  <2>5. Kept'
    BY <1>0, <2>1, <2>2 DEF Kept, Open
  <2>6. req'[r].heard /\ req'[r].by = w
    BY <1>0, <2>1 DEF Goes, Same
  <2>7. QED BY <1>0, <2>1, <2>3, <2>4, <2>5, <2>6, AloneActs
<1>9. CASE Missing(r) \/ Finding(r)
  <2>1. lock = w /\ lock' = lock
    <3>1. scars' = IF req[r].by \in Creators \/ lock = req[r].by THEN scars ELSE scars \cup {"intruder"}
      BY <1>9 DEF Missing, Finding, Admitted
    <3>2. "intruder" \notin scars'
      BY DEF Late, Scarred
    <3>3. lock' = lock
      BY <1>9 DEF Missing, Finding, Admitted
    <3>4. QED BY <1>0, <3>1, <3>2, <3>3
  <2>2. CASE Missing(r)
    BY <1>4, <2>1, <2>2 DEF Missing
  <2>3. ASSUME NEW u, u = session[KeyR].upload, Finding(r) PROVE Alone'
    <3>1. /\ req'[r].at = "part" /\ req'[r].upload = u /\ req'[r].by = w /\ req'[r].chunk = req[r].chunk /\ req'[r].heard
          /\ session'[KeyR].upload = u /\ SameUploads /\ u \in Uploads
      BY <1>0, <1>1, <2>3 DEF Finding, Same
    <3>2. multi'[u].id = multi[u].id /\ multi'[u].parts = multi[u].parts
      BY <3>1 DEF SameUploads
    <3>3. Open(u)' <=> Open(u)
      BY <3>2 DEF Open
    <3>4. /\ Open(u) => ByAll(u, w) /\ Has(u, req[r].chunk)
          /\ Open(u) => \A x \in Requests : req[x].by = w /\ req[x].at = "reply" /\ req[x].ok => Has(u, req[x].chunk + 1)
      BY <1>2, <2>1, <2>3 DEF Alone, Kept
    <3>5. Attended(req[r])'
      BY <3>1, <3>2, <3>3, <3>4 DEF Attended, ByAll, Has, Open
    <3>6. Kept'
      <4>1. ASSUME Open(u)' PROVE ByAll(u, lock)' /\ Has(u, client[lock].chunk)'
        BY <1>0, <1>2, <2>1, <3>2, <3>3, <3>4, <4>1 DEF ByAll, Has
      <4>2. ASSUME Open(u)', NEW x \in Requests, req'[x].by = w, req'[x].at = "reply", req'[x].ok
            PROVE  Holds(multi'[u].parts, req'[x].chunk + 1)
        <5>1. x # r
          BY <3>1, <4>2
        <5>2. req'[x] = req[x]
          BY <1>0, <5>1 DEF Others
        <5>3. QED BY <3>2, <3>3, <3>4, <4>2, <5>2 DEF Has
      <4>3. QED BY <2>1, <3>1, <4>1, <4>2 DEF Kept, Has, ByAll, Open
    <3>7. QED BY <1>0, <1>6, <2>1, <3>1, <3>5, <3>6, AloneActs
  <2>4. QED BY <1>9, <2>2, <2>3
<1>10. CASE Failing(r)
  <2>1. Busy(req[r]) /\ Goes(r, "catch") /\ lock' = lock /\ UNCHANGED <<session, multi>>
    BY <1>10 DEF Failing, Busy
  <2>2. QED BY <1>4, <1>5, <2>1
<1>11. ASSUME NEW u \in FreshUploads, Beginning(r, u) PROVE Alone'
  <2>1. /\ req[r].at = "init" /\ req'[r].at = "part" /\ req'[r].upload = u /\ req'[r].by = w /\ req'[r].chunk = req[r].chunk
        /\ req'[r].heard /\ session'[KeyR].upload = u /\ multi'[u].parts = <<>> /\ lock' = lock
    BY <1>0, <1>1, <1>11 DEF Beginning, Same
  <2>2. lock = w /\ req[r].chunk = 0
    BY <1>0, <1>5, <2>1 DEF Busy, RequestWhole
  <2>3. \A x \in Requests : x # r => ~Busy(req[x]) /\ (req[x].at # "free" => req[x].by # w)
    BY <1>6, <2>2
  <2>4. ByAll(u, w)' /\ Holds(multi'[u].parts, 0)
    BY <2>1, HoldsNone DEF ByAll
  <2>5. Attended(req[r])'
    BY <2>1, <2>2, <2>4 DEF Attended, Has, ByAll
  <2>6. \A x \in Requests : ~(req'[x].by = w /\ req'[x].at = "reply")
    BY <1>0, <2>1, <2>3 DEF Others
  <2>7. Kept'
    BY <1>0, <1>2, <2>1, <2>2, <2>4, <2>6 DEF Kept, Has, ByAll
  <2>8. u # NoUpload
    BY <1>0 DEF FreshUploads
  <2>9. QED BY <1>0, <2>1, <2>2, <2>3, <2>5, <2>7, AloneActs
<1>12. ASSUME NEW u, u = req[r].upload, Adding(r) PROVE Alone'
  <2>1. /\ req[r].at = "part" /\ lock = w /\ lock' = lock /\ session' = session /\ Open(u) /\ u \in Uploads
        /\ multi'[u].id = multi[u].id
    BY <1>0, <1>5, <1>12 DEF Adding, Busy, Open
  <2>2. session[KeyR].upload \in {NoUpload, u} /\ ByAll(u, w) /\ Has(u, req[r].chunk)
    BY <1>12, <2>1 DEF Alone, Attended
  <2>3. /\ \A n : Has(u, n) => Holds(multi'[u].parts, n)
        /\ Holds(multi'[u].parts, req[r].chunk + 1)
    BY <1>12, <2>2, AddedTo
  <2>4. ByAll(u, w)'
    <3> DEFINE s == multi[u].parts
               p == [by |-> req[r].by, chunk |-> req[r].chunk]
    <3>1. s \in Seq(Piece) /\ multi'[u].parts = Append(s, p) /\ p.by = w
      BY <1>12, <2>1 DEF Adding, Typed, TypeOK, Multi
    <3>2. \A i \in DOMAIN s : s[i].by = w
      BY <2>2 DEF ByAll
    <3> HIDE DEF s, p
    <3>3. \A i \in DOMAIN Append(s, p) : Append(s, p)[i].by = w
      BY <3>1, <3>2
    <3>4. QED BY <3>1, <3>3 DEF ByAll
  <2>5. \A x \in Requests : x # r => ~Busy(req[x]) /\ (req[x].at # "free" => req[x].by # w)
    BY <1>6, <2>1
  <2>6. /\ req'[r].by = w /\ req'[r].heard /\ req'[r].chunk = req[r].chunk /\ req'[r].upload = u
        /\ (req'[r].at = "complete" /\ req[r].chunk = LastChunk) \/ req'[r].at = "reply"
    BY <1>0, <1>12 DEF Adding, Goes, Ends, Same
  <2>7. Attended(req[r])'
    BY <2>1, <2>2, <2>3, <2>4, <2>6, Span DEF Attended, Has, ByAll
  <2>8. \A x \in Requests : req'[x].by = w /\ req'[x].at = "reply" => req'[x].chunk = req[r].chunk
    BY <1>0, <2>5, <2>6 DEF Others
  <2>9. ASSUME NEW v, v = session'[KeyR].upload, Open(v)' PROVE v = u
    BY <1>0, <2>1, <2>2, <2>9 DEF Open
  <2>10. Kept'
    BY <1>0, <1>2, <2>1, <2>2, <2>3, <2>4, <2>8, <2>9 DEF Kept, Has, ByAll, Open
  <2>11. QED BY <1>0, <2>1, <2>5, <2>6, <2>7, <2>10, AloneActs DEF Busy
\* a step that leaves no session
<1>13. ASSUME lock = w, session'[KeyR].upload = NoUpload, lock' \in {lock, Nobody},
              req'[r].at # "free" => /\ req'[r].heard /\ req'[r].by = w
                                     /\ req'[r].at \in {"record", "reply"} /\ (req'[r].at = "record" => lock' = w)
       PROVE  Alone'
  <2>1. \A x \in Requests : x # r => ~Busy(req[x]) /\ (req[x].at # "free" => req[x].by # w)
    BY <1>6, <1>13
  <2>2. Attended(req[r])' /\ Kept'
    BY <1>0, <1>13 DEF Attended, Kept, Open
  <2>3. Busy(req[r])' => lock' = w
    BY <1>13 DEF Busy
  <2>4. QED BY <1>0, <1>13, <2>1, <2>2, <2>3, AloneActs
<1>14. CASE Making(r)
  <2>1. lock = w /\ lock' = lock /\ req[r].at = "complete"
    BY <1>0, <1>5, <1>14 DEF Making, Busy
  <2>2. CASE Goes(r, "catch") /\ session' = session
    <3>1. ~Begins /\ ~Adds
      <4>1. ASSUME NEW x \in Requests, Adding(x) \/ \E u \in FreshUploads : Beginning(x, u) PROVE FALSE
        <5>1. x # r
          BY <2>1, <4>1 DEF Adding, Beginning
        <5>2. req'[x] = req[x]
          BY <1>0, <5>1 DEF Others
        <5>3. QED BY <4>1, <5>2, FreeFields DEF Adding, Beginning, Goes, Ends, Vanishes
      <4>2. QED BY <4>1 DEF Begins, Adds
    <3>2. RecordedAlone
      BY <3>1, RecordedUploads DEF Begins, Adds
    <3>3. QED BY <1>3, <2>1, <2>2, <3>2
  <2>3. CASE Goes(r, "record") /\ Forgets(KeyAt(r))
    <3>1. session'[KeyR].upload = NoUpload
      BY <1>1, <2>3, NoSessionFields DEF Forgets
    <3>2. req'[r].heard /\ req'[r].by = w /\ req'[r].at = "record"
      BY <1>0, <2>3 DEF Goes, Same
    <3>3. QED BY <1>13, <2>1, <3>1, <3>2
  <2>4. QED BY <1>14, <2>2, <2>3 DEF Making
<1>15. CASE Recording(r) \/ Catching(r)
  <2>1. lock = w /\ lock' \in {lock, Nobody} /\ req[r].at \in {"record", "catch"}
    BY <1>0, <1>5, <1>15 DEF Recording, Catching, Busy, Unlocks
  <2>2. session'[KeyR].upload = NoUpload
    BY <1>0, <1>1, <1>15, NoSessionFields DEF Recording, Catching, Forgets, Alone, Attended
  <2>3. req'[r].heard /\ req'[r].by = w /\ req'[r].at = "reply"
    BY <1>0, <1>15 DEF Recording, Catching, Ends, Same
  <2>4. QED BY <1>13, <2>1, <2>2, <2>3
<1>16. CASE Naming(r) \/ Denying(r)
  BY <1>0, <1>16 DEF Naming, Denying
<1>17. QED BY <1>7, <1>8, <1>9, <1>10, <1>11, <1>12, <1>14, <1>15, <1>16 DEF Handling, Checking

LEMMA AlonesInit == Init => Alones
<1> SUFFICES ASSUME Init PROVE Alone
  BY DEF Alones
<1>1. /\ \A r \in Requests : req[r] = Free
      /\ session = [k \in Keys |-> NoSession] /\ KeyR \in Keys /\ \A u : ~Open(u)
  BY KeysApart, NothingOpen DEF Init
<1>2. session[KeyR].upload = NoUpload /\ \A r \in Requests : req[r].at = "free"
  BY <1>1, NoSessionFields, FreeFields
<1>3. QED BY <1>1, <1>2 DEF Alone, Busy, Attended, Kept

LEMMA AlonesNext ==
    ASSUME Typed, Typed', Waits, Linked, Linked', Alones, Kinds
    PROVE  Alones'
<1> SUFFICES ASSUME ~Late(Recorded)' PROVE Alone'
  BY DEF Alones, Alone
<1>1. "timeout" \notin scars' /\ scars \subseteq scars' /\ Alone
  BY ScarsGrow DEF Late, Scarred, Alones
<1>2. ASSUME ~Begins, ~Adds, lock' = lock,
             \A x \in Requests : req'[x].by \in Rekeyers /\ req'[x].at # "free" =>
                req'[x].heard /\ (req'[x] = req[x] \/ req'[x].at = "sent"),
             \A w \in Rekeyers : client'[w].phase \in {"sending", "waiting"} =>
                \/ client[w].phase \in {"sending", "waiting"} /\ client'[w].chunk = client[w].chunk
                \/ client'[w].chunk = 0
      PROVE  Alone'
  <2>1. RecordedAlone
    BY <1>2, RecordedUploads DEF Begins, Adds
  <2>2. session'[KeyR].upload \in {session[KeyR].upload, NoUpload}
    BY <1>2, SessionKinds, KeysApart
  <2>3. QED BY <1>1, <1>2, <2>1, <2>2, AloneQuiet
<1>3. CASE Aside
  <2>1. client' = client /\ req' = req /\ lock' = lock /\ ~Begins /\ ~Adds
    BY <1>3, AsideKeeps, StillMeans
  <2>2. QED BY <1>1, <1>2, <2>1 DEF Alone
<1>4. CASE Crashing
  <2>1. /\ \A r \in Requests : req'[r].at = "free"
        /\ session'[KeyR].upload = NoUpload
    BY <1>4, FreeFields, NoSessionFields, KeysApart DEF Crashing
  <2>2. QED BY <2>1, NullAssumption DEF Alone, Busy, Attended, Kept, Open
<1>5. ASSUME World PROVE ~Begins /\ ~Adds /\ lock' = lock
  <2>1. ASSUME NEW r \in Requests, NEW u \in FreshUploads, Beginning(r, u) PROVE FALSE
    <3>1. multi'[u] = multi[u] /\ u \in Uploads /\ multi[u].id = NoId /\ multi'[u].id = req[r].id
      BY <1>5, <2>1 DEF World, Beginning, FreshUploads, Open
    <3>2. req[r].id # NoId
      BY <2>1, InMemory, NullAssumption DEF Beginning
    <3>3. QED BY <3>1, <3>2
  <2>2. ASSUME NEW r \in Requests, Adding(r) PROVE FALSE
    <3>1. /\ multi[req[r].upload].parts \in Seq(Piece)
          /\ multi[req[r].upload].parts = Append(multi[req[r].upload].parts, [by |-> req[r].by, chunk |-> req[r].chunk])
      BY <1>5, <2>2 DEF World, Adding, Open, Typed, TypeOK, Multi
    <3>2. QED BY <3>1
  <2>3. QED BY <1>5, <2>1, <2>2 DEF World, Begins, Adds
<1>6. ASSUME NEW w \in Workers, NEW r \in Requests, Sending(w, r) PROVE Alone'
  <2>1. World /\ Others(r) /\ req'[r].at = "sent" /\ req'[r].heard = TRUE
    BY <1>6 DEF Sending
  <2>2. \A x \in Requests : req'[x].by \in Rekeyers /\ req'[x].at # "free" =>
                req'[x].heard /\ (req'[x] = req[x] \/ req'[x].at = "sent")
    BY <1>1, <2>1 DEF Others, Alone
  <2>3. \A v \in Workers : client'[v].phase \in {"sending", "waiting"} =>
                client[v].phase \in {"sending", "waiting"} /\ client'[v].chunk = client[v].chunk
    BY <1>6 DEF Sending, OtherWorkers
  <2>4. QED BY <1>2, <1>5, <2>1, <2>2, <2>3, Roles
<1>7. ASSUME NEW r \in Requests, Hearing(r) \/ Losing(r) PROVE Alone'
  <2>1. World /\ Others(r) /\ req'[r] = Free /\ req[r].heard
    BY <1>7 DEF Hearing, Losing, Vanishes, Typed, RequestWhole
  <2>2. \A x \in Requests : x # r \/ req'[x].at = "free"
    BY <2>1, FreeFields
  <2>3. \A x \in Requests : req'[x].by \in Rekeyers /\ req'[x].at # "free" => req'[x].heard /\ req'[x] = req[x]
    BY <1>1, <2>1, <2>2 DEF Others, Alone
  <2>4. CASE Back(req[r].by)
    <3>1. client[req[r].by].phase = "waiting"
      BY <2>1, Heedful
    <3>2. \A v \in Workers : client'[v].phase \in {"sending", "waiting"} =>
                client[v].phase \in {"sending", "waiting"} /\ client'[v].chunk = client[v].chunk
      BY <2>4, <3>1 DEF Back, BackTo, Again, OtherWorkers
    <3>3. QED BY <1>2, <1>5, <2>1, <2>3, <3>2, Roles
  <2>5. CASE req[r].at = "reply" /\ req[r].ok /\ Forth(req[r].by, req[r].id)
    <3>1. UNCHANGED <<session, multi, lock>>
      BY <2>1 DEF World
    <3>2. client[req[r].by].chunk = req[r].chunk /\ client'[req[r].by].chunk = req[r].chunk + 1
      BY <2>1, <2>5, Heedful DEF Forth
    <3>3. Attended(req[r])'
      BY <2>2 DEF Attended
    <3>4. ASSUME NEW x \in Requests, x # r, req'[x].by \in Rekeyers PROVE Attended(req[x])'
      <4>1. req'[x] = req[x] /\ Attended(req[x])
        BY <1>1, <2>1, <3>4 DEF Others, Alone
      <4>2. QED BY <3>1, <4>1 DEF Attended, Open, ByAll, Has
    <3>5. Kept'
      <4> DEFINE u == session[KeyR].upload
      <4>1. CASE ~Open(session[KeyR].upload)
        BY <3>1, <4>1 DEF Kept, Open
      <4>2. CASE Open(session[KeyR].upload)
        <5>1. lock \in Rekeyers
          BY <1>1, <4>2, NullAssumption DEF Alone, Typed, TypeOK, Open
        <5>2. /\ ByAll(u, lock) /\ (client[lock].phase \in {"sending", "waiting"} => Holds(multi[u].parts, client[lock].chunk))
              /\ \A x \in Requests : req[x].by = lock /\ req[x].at = "reply" /\ req[x].ok => Holds(multi[u].parts, req[x].chunk + 1)
          BY <1>1, <4>2 DEF Alone, Kept, Has
        <5>3. client'[lock].phase \in {"sending", "waiting"} => Holds(multi[u].parts, client'[lock].chunk)
          <6>1. CASE lock = req[r].by
            BY <2>5, <3>2, <5>2, <6>1
          <6>2. CASE lock # req[r].by
            BY <2>5, <5>1, <5>2, <6>2, Roles DEF Forth, OtherWorkers
          <6>3. QED BY <6>1, <6>2
        <5>4. \A x \in Requests : req'[x].by = lock /\ req'[x].at = "reply" /\ req'[x].ok => Holds(multi[u].parts, req'[x].chunk + 1)
          BY <2>3, <5>1, <5>2
        <5>5. QED BY <3>1, <5>2, <5>3, <5>4 DEF Kept, Has, ByAll
      <4>3. QED BY <4>1, <4>2
    <3>6. \A x \in Requests : Busy(req'[x]) => lock' = req'[x].by
      BY <1>1, <2>3, <3>1 DEF Alone, Busy
    <3>7. lock' = Nobody => session'[KeyR].upload = NoUpload
      BY <1>1, <3>1 DEF Alone
    <3>8. QED BY <2>3, <3>3, <3>4, <3>5, <3>6, <3>7 DEF Alone, Busy
  <2>6. QED BY <1>7, <2>4, <2>5 DEF Hearing, Losing
<1>8. ASSUME NEW r \in Requests, Expiring(r) PROVE FALSE
  BY <1>1, <1>8 DEF Expiring, Marks
<1>9. ASSUME NEW r \in Requests, Handling(r) PROVE Alone'
  <2>1. req[r].by \in Workers
    BY <1>9, Served, HandlingServes DEF Serving
  <2>2. CASE req[r].by \in Creators
    BY <1>1, <1>9, <2>2, AloneByCreator
  <2>3. CASE req[r].by \in Rekeyers
    BY <1>1, <1>9, <2>3, AloneByTab
  <2>4. QED BY <2>1, <2>2, <2>3, Roles
<1>10. ASSUME NEW w \in Workers, Fetching(w) PROVE Alone'
  <2>1. World /\ req' = req /\ OtherWorkers(w) /\ client'[w].chunk = 0
    BY <1>10 DEF Fetching
  <2>2. \A x \in Requests : req'[x].by \in Rekeyers /\ req'[x].at # "free" => req'[x].heard /\ req'[x] = req[x]
    BY <1>1, <2>1 DEF Alone
  <2>3. \A v \in Workers : client'[v].phase \in {"sending", "waiting"} =>
                \/ client[v].phase \in {"sending", "waiting"} /\ client'[v].chunk = client[v].chunk
                \/ client'[v].chunk = 0
    BY <2>1 DEF OtherWorkers
  <2>4. QED BY <1>2, <1>5, <2>1, <2>2, <2>3, Roles
<1>11. QED BY <1>3, <1>4, <1>6, <1>7, <1>8, <1>9, <1>10, KindsSplit

-----------------------------------------------------------------------------
(* Lists of parts without gaps. *)

LEMMA LineMore ==
    ASSUME NEW s \in Seq(Piece), NEW p \in Piece, Holds(s, p.chunk),
           Ascending(s) => \A i \in DOMAIN s : s[i].chunk = i - 1, Ascending(Append(s, p))
    PROVE  \A i \in DOMAIN Append(s, p) : Append(s, p)[i].chunk = i - 1
<1> DEFINE a == Append(s, p)
           n == Len(s)
<1>1. /\ n \in Nat /\ DOMAIN s = 1 .. n /\ DOMAIN a = 1 .. n + 1 /\ Len(a) = n + 1
      /\ \A i \in 1 .. n : a[i] = s[i]
      /\ a[n + 1] = p
  OBVIOUS
<1>2. p.chunk \in Nat
  BY Span DEF Piece
<1> HIDE DEF a, n
<1>3. \A i \in 1 .. n : a[i].chunk < a[i + 1].chunk
  BY <1>1 DEF Ascending, a
<1>4. Ascending(s)
  <2>1. \A i \in 1 .. n - 1 : i \in 1 .. n /\ i + 1 \in 1 .. n
    BY <1>1
  <2>2. \A i \in 1 .. n - 1 : s[i].chunk < s[i + 1].chunk
    BY <1>1, <1>3, <2>1
  <2>3. QED BY <2>2 DEF Ascending, n
<1>5. \A i \in 1 .. n : s[i].chunk = i - 1
  BY <1>1, <1>4
<1>6. p.chunk >= n
  <2>1. CASE n = 0
    BY <1>2, <2>1
  <2>2. CASE n # 0
    <3>1. n \in 1 .. n
      BY <1>1, <2>2
    <3>2. a[n].chunk < a[n + 1].chunk /\ a[n].chunk = n - 1
      BY <1>1, <1>3, <1>5, <3>1
    <3>3. QED BY <1>1, <1>2, <3>2
  <2>3. QED BY <2>1, <2>2
<1>7. p.chunk <= n
  <2>1. CASE p.chunk > n
    <3>1. n \in 0 .. p.chunk - 1
      BY <1>1, <1>2, <2>1
    <3>2. PICK i \in 1 .. n : s[i].chunk = n
      BY <1>1, <3>1 DEF Holds
    <3>3. s[i].chunk = i - 1
      BY <1>5
    <3>4. QED BY <1>1, <3>2, <3>3
  <2>2. QED BY <1>1, <1>2, <2>1
<1>8. p.chunk = n
  BY <1>1, <1>2, <1>6, <1>7
<1>9. ASSUME NEW i \in 1 .. n + 1 PROVE a[i].chunk = i - 1
  <2>1. CASE i \in 1 .. n
    BY <1>1, <1>5, <2>1
  <2>2. CASE i = n + 1
    BY <1>1, <1>8, <2>2
  <2>3. QED BY <1>1, <2>1, <2>2
<1>10. QED BY <1>1, <1>9 DEF a

\* What a handler that adds a part or completes finds of the chunks before its own.
LEMMA PartsBefore ==
    ASSUME Typed, Linked, Stored, Alones, NEW r \in Requests, req[r].at \in {"part", "complete"},
           Open(req[r].upload), ~Late(req[r].id)
    PROVE  /\ req[r].upload \in Uploads /\ multi[req[r].upload].id = req[r].id
           /\ Has(req[r].upload, IF req[r].at = "part" THEN req[r].chunk ELSE Total)
<1>1. req[r].upload \in Uploads /\ multi[req[r].upload].id = req[r].id /\ req[r].id \in Ids
      /\ (req[r].by \in Rekeyers <=> req[r].id = Recorded)
  BY InMemory DEF Linked, Open
<1>2. CASE req[r].id # Recorded
  BY <1>1, <1>2 DEF Stored
<1>3. CASE req[r].id = Recorded
  BY <1>1, <1>3 DEF Alones, Alone, Attended
<1>4. QED BY <1>1, <1>2, <1>3

LEMMA LinesInit == Init => Lines
BY NothingOpen DEF Lines

LEMMA LinesNext ==
    ASSUME Typed, Typed', Linked, Owned, Stored, Alones, Lines, Kinds
    PROVE  Lines'
<1> SUFFICES ASSUME NEW u \in Uploads, Open(u)', NEW id, id = multi'[u].id, ~Late(id)'
             PROVE  Lined(u)'
  BY DEF Lines
<1>1. id \in Ids /\ ~Late(id)
  BY ScarsGrow DEF Typed, TypeOK, Multi, Open, Late, Scarred
<1>2. CASE multi[u].id = id /\ multi'[u].parts = multi[u].parts
  <2>1. Lined(u)
    BY <1>1, <1>2, NullAssumption DEF Lines, Open
  <2>2. QED BY <1>2, <2>1 DEF Lined
<1>3. CASE multi'[u].parts = <<>>
  BY <1>3 DEF Lined
<1>4. ASSUME NEW r \in Requests, multi[u].id = id, Adding(r), req[r].upload = u,
             multi'[u].parts = Append(multi[u].parts, [by |-> req[r].by, chunk |-> req[r].chunk])
      PROVE  Lined(u)'
  <2> DEFINE s == multi[u].parts
             p == [by |-> req[r].by, chunk |-> req[r].chunk]
  <2>1. Open(u) /\ req[r].at = "part" /\ req[r].id = id
    BY <1>4 DEF Adding, Linked
  <2>2. Has(u, req[r].chunk)
    BY <1>1, <1>4, <2>1, PartsBefore
  <2>3. Ascending(s) => \A i \in DOMAIN s : s[i].chunk = i - 1
    BY <1>1, <1>4, <2>1 DEF Lines, Lined
  <2>4. s \in Seq(Piece) /\ p \in Piece /\ p.chunk = req[r].chunk
    BY <2>1, InMemory DEF Typed, TypeOK, Multi, Piece
  <2>5. multi'[u].parts = Append(s, p) /\ Holds(s, p.chunk)
    BY <1>4, <2>2, <2>4 DEF Has
  <2> HIDE DEF s, p
  <2>6. Ascending(Append(s, p)) => \A i \in DOMAIN Append(s, p) : Append(s, p)[i].chunk = i - 1
    BY <2>3, <2>4, <2>5, LineMore
  <2>7. QED BY <2>5, <2>6 DEF Lined
<1>5. QED BY <1>1, <1>2, <1>3, <1>4, UploadsOf

-----------------------------------------------------------------------------
(* Objects and rows. *)

\* A list that S3 completes has every chunk of one worker, in order.
LEMMA MadeWhole ==
    ASSUME Typed, Linked, Owned, Stored, Alones, Lines, NEW r \in Requests, Making(r), ~Late(req[r].id)
    PROVE  multi[req[r].upload].parts = Object(req[r].by)
<1> DEFINE u == req[r].upload
           s == multi[u].parts
           n == Len(s)
           w == req[r].by
<1>1. /\ req[r].at = "complete" /\ Open(u) /\ Ascending(s) /\ u \in Uploads /\ multi[u].id = req[r].id
      /\ w \in Workers /\ req[r].id \in Ids /\ (w \in Rekeyers <=> req[r].id = Recorded) /\ s \in Seq(Piece)
  BY InMemory, PartsBefore DEF Making, Completable, Typed, TypeOK, Multi, Open
<1>2. Holds(s, Total)
  BY <1>1, PartsBefore DEF Has
<1>3. \A i \in DOMAIN s : s[i].chunk = i - 1
  BY <1>1 DEF Lines, Lined
<1>4. \A i \in DOMAIN s : s[i].by = w
  <2>1. CASE req[r].id # Recorded
    <3>1. Names(w, req[r].id)
      BY DEF Names
    <3>2. \A i \in DOMAIN multi[u].parts : \A v \in Workers : Names(v, req[r].id) => multi[u].parts[i].by = v
      BY <1>1, <2>1 DEF Owned
    <3>3. QED BY <1>1, <3>1, <3>2
  <2>2. CASE req[r].id = Recorded
    BY <1>1, <2>2 DEF Alones, Alone, Attended, ByAll
  <2>3. QED BY <2>1, <2>2
<1> HIDE DEF s, w
<1>5. n \in Nat /\ DOMAIN s = 1 .. n /\ \A i \in 1 .. n : s[i] \in Piece
  BY <1>1
<1> HIDE DEF n
<1>6. n <= Total
  <2>1. CASE n # 0
    <3>1. n \in 1 .. n /\ s[n].chunk = n - 1 /\ s[n].chunk \in Chunks
      BY <1>3, <1>5, <2>1 DEF Piece
    <3>2. QED BY <1>5, <3>1, SizeAssumption DEF Chunks
  <2>2. QED BY <1>5, <2>1, Span
<1>7. n >= Total
  <2>1. Total - 1 \in 0 .. Total - 1
    BY SizeAssumption
  <2>2. PICK i \in 1 .. n : s[i].chunk = Total - 1
    BY <1>2, <1>5, <2>1 DEF Holds
  <2>3. QED BY <1>3, <1>5, <2>2, SizeAssumption
<1>8. n = Total
  BY <1>5, <1>6, <1>7, Span
<1>9. \A i \in 1 .. Total : s[i] = [by |-> w, chunk |-> i - 1]
  BY <1>3, <1>4, <1>5, <1>8 DEF Piece
<1>10. s = [i \in 1 .. Total |-> s[i]]
  BY <1>1, <1>5, <1>8
<1>11. s = Object(w)
  BY <1>9, <1>10 DEF Object
<1>12. QED BY <1>11 DEF s, w

LEMMA ObjectFacts == ASSUME NEW w PROVE Object(w) # Absent /\ Len(Object(w)) = Total
<1>1. Object(w) = [i \in 1 .. Total |-> [by |-> w, chunk |-> i - 1]] /\ Total \in Nat /\ Total > 0
  BY Span DEF Object
<1>2. Len(Object(w)) = Total
  BY <1>1
<1>3. QED BY <1>1, <1>2 DEF Absent

\* What a step may do to objects, rows and the deletion.
LEMMA StoreKinds ==
    ASSUME Kinds
    PROVE  \/ UNCHANGED <<bucket, rows, share, remover>>
           \/ Deleting \/ Crashing \/ \E r \in Requests : Making(r) \/ Recording(r)
<1>1. ASSUME NEW r \in Requests, Handling(r)
      PROVE  UNCHANGED <<bucket, rows, share, remover>> \/ Making(r) \/ Recording(r)
  <2>1. CASE Checking(r)
    BY <2>1 DEF Checking, Refusing, Naming, Locking, Missing, Finding, Admitted, Rest
  <2>2. CASE Failing(r) \/ Adding(r) \/ \E u \in FreshUploads : Beginning(r, u)
    BY <2>2 DEF Failing, Adding, Beginning, Rest
  <2>3. CASE Denying(r) \/ Catching(r)
    BY <2>3 DEF Denying, Catching, Rest
  <2>4. QED BY <1>1, <2>1, <2>2, <2>3 DEF Handling
<1>2. CASE Timeful
  BY <1>2 DEF Timeful, Listing, Skipping, Choosing, Aborting, Dismissing, Cleans
<1>3. CASE Ticking \/ UNCHANGED vars \/ \E u \in Uploads : Sweeping(u)
  BY <1>3 DEF Ticking, Sweeping, vars, storage, database, jobs
<1>4. ASSUME NEW w \in Workers, (\E r \in Requests : Sending(w, r)) \/ Fetching(w) PROVE UNCHANGED <<bucket, rows, share, remover>>
  BY <1>4 DEF Sending, Fetching, World
<1>5. ASSUME NEW r \in Requests, Hearing(r) \/ Losing(r) \/ Expiring(r) PROVE UNCHANGED <<bucket, rows, share, remover>>
  BY <1>5 DEF Hearing, Losing, Expiring, World
<1>6. QED BY <1>1, <1>2, <1>3, <1>4, <1>5 DEF Kinds

LEMMA RemovedInit == Init => Removed
BY RemoverOffType, NullAssumption, Span DEF Init, Removed

LEMMA RemovedNext ==
    ASSUME Typed, Removed, Kinds
    PROVE  Removed'
<1>0. scars \subseteq scars' /\ Recorded \in Ids
  BY ScarsGrow, NullAssumption
<1>1. CASE UNCHANGED <<bucket, rows, share, remover>>
  BY <1>0, <1>1 DEF Removed, Scarred
<1>2. CASE Deleting
  BY <1>0, <1>2 DEF Removed, Scarred, Deleting, Starting, Clearing, Erasing, Freeing, Marks
<1>3. CASE Crashing
  BY <1>0, <1>3, RemoverOffType DEF Removed, Scarred, Crashing
<1>4. ASSUME NEW r \in Requests, Making(r) PROVE Removed'
  BY <1>0, <1>4 DEF Removed, Scarred, Making
<1>5. ASSUME NEW r \in Requests, Recording(r) PROVE Removed'
  <2>1. /\ UNCHANGED <<share, remover>> /\ req[r].id \in Ids /\ bucket[req[r].id] # Absent /\ bucket[req[r].id] \in Seq(Piece)
        /\ \A id \in Ids : id # req[r].id => rows'[id] = rows[id]
        /\ rows'[req[r].id] = Len(bucket[req[r].id])
    BY <1>5, InMemory DEF Recording, Possible, Typed, TypeOK
  <2>2. Len(bucket[req[r].id]) # 0
    BY <2>1, EmptySeq DEF Absent
  <2>3. QED BY <1>0, <2>1, <2>2 DEF Removed, Scarred
<1>6. QED BY <1>1, <1>2, <1>3, <1>4, <1>5, StoreKinds

LEMMA StockedInit == Init => Stocked
<1> SUFFICES ASSUME Init PROVE Stocked
  OBVIOUS
<1>1. /\ bucket = [id \in Ids |-> IF id = Recorded THEN Object(Old) ELSE Absent]
      /\ rows = [id \in Ids |-> IF id = Recorded THEN Total ELSE 0]
  BY DEF Init
<1>2. \A id \in Ids : \/ id = Recorded /\ bucket[id] = Object(Old) /\ rows[id] = Total
                      \/ bucket[id] = Absent /\ rows[id] = 0
  BY <1>1
<1>3. Object(Old) # Absent /\ Total # 0
  BY ObjectFacts, Span
<1>4. QED BY <1>2, <1>3 DEF Stocked, Whole

\* A row that is to be written, is written, is still to be, or something went wrong.
LEMMA RecordPends ==
    ASSUME Typed, Removed, Kinds, NEW id \in Ids, bucket[id] # Absent, rows[id] = 0,
           NEW r \in Requests, req[r].at = "record", req[r].id = id
    PROVE  \/ req'[r].at = "record" /\ req'[r].id = id
           \/ Scarred({"crash", "error", "remove"})'
           \/ Recording(r)
<1>0. scars \subseteq scars'
  BY ScarsGrow
<1>1. CASE Aside
  BY <1>1, AsideKeeps
<1>2. CASE Crashing
  BY <1>2 DEF Crashing, Marks, Scarred
<1>3. ASSUME NEW w \in Workers, (\E x \in Requests : Sending(w, x)) \/ Fetching(w) PROVE req'[r] = req[r]
  BY <1>3, FreeFields DEF Sending, Fetching, Others
<1>4. ASSUME NEW x \in Requests, x # r, Handling(x) PROVE req'[r] = req[r]
  BY <1>4, HandlingServes DEF Serving, Others
<1>5. ASSUME NEW x \in Requests, Hearing(x) \/ Losing(x) PROVE req'[r] = req[r]
  BY <1>5 DEF Hearing, Losing, Vanishes, Others
<1>6. ASSUME NEW x \in Requests, Expiring(x) PROVE req'[r].at = "record" /\ req'[r].id = id
  BY <1>6 DEF Expiring, Others
<1>7. CASE Handling(r)
  <2>1. Failing(r) \/ Denying(r) \/ Recording(r)
    BY <1>7 DEF Handling, Checking, Refusing, Naming, Locking, Missing, Finding, Admitted, Beginning, Adding,
                Making, Catching
  <2>2. CASE Marks("error")
    BY <2>2 DEF Marks, Scarred
  <2>3. CASE Failing(r) /\ ~Marks("error")
    <3>1. rows[Recorded] = 0
      BY <2>3, InMemory DEF Failing
    <3>2. QED BY <1>0, <3>1 DEF Removed, Scarred
  <2>4. CASE Denying(r) /\ ~Marks("error")
    <3>1. ~share
      BY <2>4, InMemory, Roles DEF Denying, Possible
    <3>2. QED BY <1>0, <3>1 DEF Removed, Scarred
  <2>5. QED BY <2>1, <2>2, <2>3, <2>4
<1>8. QED BY <1>1, <1>2, <1>3, <1>4, <1>5, <1>6, <1>7, KindsSplit

LEMMA StockedNext ==
    ASSUME Typed, Linked, Owned, Stored, Alones, Lines, Removed, Stocked, Kinds
    PROVE  Stocked'
<1> SUFFICES ASSUME NEW id \in Ids
             PROVE  /\ ~Late(id)' => (bucket'[id] # Absent => Whole(id)') /\ (rows'[id] # 0 => rows'[id] = Total)
                    /\ ~Late(id)' => (rows'[id] # 0 /\ bucket'[id] = Absent => Gone(id)')
                    /\ bucket'[id] # Absent /\ rows'[id] = 0 =>
                        \/ \E r \in Requests : req'[r].at = "record" /\ req'[r].id = id
                        \/ Scarred({"crash", "error", "remove"})'
  BY DEF Stocked
<1>0. /\ ~Late(id) => (bucket[id] # Absent => Whole(id)) /\ (rows[id] # 0 => rows[id] = Total)
      /\ ~Late(id) => (rows[id] # 0 /\ bucket[id] = Absent => Gone(id))
      /\ bucket[id] # Absent /\ rows[id] = 0 =>
        \/ \E r \in Requests : req[r].at = "record" /\ req[r].id = id
        \/ Scarred({"crash", "error", "remove"})
  BY DEF Stocked
<1>1. scars \subseteq scars' /\ (Late(id) => Late(id)')
  BY ScarsGrow DEF Late, Scarred
<1>2. ASSUME bucket[id] # Absent, rows[id] = 0, \A r \in Requests : req[r].id = id => ~Recording(r)
      PROVE  \/ \E r \in Requests : req'[r].at = "record" /\ req'[r].id = id
             \/ Scarred({"crash", "error", "remove"})'
  <2>1. CASE Scarred({"crash", "error", "remove"})
    BY <1>1, <2>1 DEF Scarred
  <2>2. QED BY <1>0, <1>2, <2>1, RecordPends
<1>3. CASE UNCHANGED <<bucket, rows, share, remover>>
  <2>1. \A r \in Requests : req[r].id = id /\ rows[id] = 0 => ~Recording(r)
    <3> SUFFICES ASSUME NEW r \in Requests, req[r].id = id, rows[id] = 0, Recording(r) PROVE FALSE
      OBVIOUS
    <3>1. Len(bucket[id]) = 0 /\ bucket[id] \in Seq(Piece) /\ bucket[id] # Absent
      BY <1>3 DEF Recording, Possible, Typed, TypeOK
    <3>2. QED BY <3>1, EmptySeq DEF Absent
  <2>2. QED BY <1>0, <1>1, <1>2, <1>3, <2>1 DEF Whole, Gone
<1>4. ASSUME NEW r \in Requests, Making(r)
      PROVE  /\ ~Late(id)' => (bucket'[id] # Absent => Whole(id)') /\ (rows'[id] # 0 => rows'[id] = Total)
             /\ ~Late(id)' => (rows'[id] # 0 /\ bucket'[id] = Absent => Gone(id)')
             /\ bucket'[id] # Absent /\ rows'[id] = 0 =>
                 \/ \E x \in Requests : req'[x].at = "record" /\ req'[x].id = id
                 \/ Scarred({"crash", "error", "remove"})'
  <2>0. /\ UNCHANGED <<rows, share, remover>> /\ req[r].at = "complete"
        /\ \A i \in Ids : i # req[r].id => bucket'[i] = bucket[i]
        /\ bucket'[req[r].id] = multi[req[r].upload].parts
        /\ Others(r)
    BY <1>4 DEF Making, Goes
  <2>1. CASE id # req[r].id
    <3>1. bucket'[id] = bucket[id]
      BY <2>0, <2>1
    <3>2. ASSUME NEW x \in Requests, req[x].at = "record", req[x].id = id PROVE req'[x] = req[x]
      BY <2>0, <2>1, <3>2 DEF Others
    <3>3. QED BY <1>0, <1>1, <2>0, <3>1, <3>2 DEF Whole, Gone, Scarred
  <2>2. CASE id = req[r].id
    <3>1. ~Late(id) => \E w \in Workers : bucket'[id] = Object(w)
      BY <1>4, <2>0, <2>2, MadeWhole, InMemory
    <3>2. ~Late(id) => bucket'[id] # Absent /\ Whole(id)'
      BY <3>1, ObjectFacts DEF Whole
    <3>3. (req'[r].at = "record" /\ req'[r].id = id) \/ Marks("error")
      BY <1>4, <2>2 DEF Making, Goes
    <3>4. QED BY <1>0, <1>1, <2>0, <3>2, <3>3 DEF Marks, Scarred
  <2>3. QED BY <2>1, <2>2
<1>5. ASSUME NEW r \in Requests, Recording(r)
      PROVE  /\ ~Late(id)' => (bucket'[id] # Absent => Whole(id)') /\ (rows'[id] # 0 => rows'[id] = Total)
             /\ ~Late(id)' => (rows'[id] # 0 /\ bucket'[id] = Absent => Gone(id)')
             /\ bucket'[id] # Absent /\ rows'[id] = 0 =>
                 \/ \E x \in Requests : req'[x].at = "record" /\ req'[x].id = id
                 \/ Scarred({"crash", "error", "remove"})'
  <2>0. /\ UNCHANGED <<bucket, share, remover>> /\ req[r].at = "record"
        /\ \A i \in Ids : i # req[r].id => rows'[i] = rows[i]
        /\ rows'[req[r].id] = Len(bucket[req[r].id]) /\ bucket[req[r].id] # Absent /\ Others(r)
    BY <1>5 DEF Recording, Possible, Ends, Vanishes
  <2>1. CASE id # req[r].id
    <3>1. rows'[id] = rows[id]
      BY <2>0, <2>1
    <3>2. ASSUME NEW x \in Requests, req[x].at = "record", req[x].id = id PROVE req'[x] = req[x]
      BY <2>0, <2>1, <3>2 DEF Others
    <3>3. QED BY <1>0, <1>1, <2>0, <3>1, <3>2 DEF Whole, Gone, Scarred
  <2>2. CASE id = req[r].id
    <3>1. bucket[id] # Absent /\ bucket[id] \in Seq(Piece) /\ rows'[id] = Len(bucket[id])
      BY <2>0, <2>2 DEF Typed, TypeOK
    <3>2. rows'[id] # 0
      BY <3>1, EmptySeq DEF Absent
    <3>3. ~Late(id) => Whole(id) /\ rows'[id] = Total
      BY <1>0, <3>1, ObjectFacts DEF Whole
    <3>4. QED BY <1>1, <2>0, <3>1, <3>2, <3>3 DEF Whole
  <2>3. QED BY <2>1, <2>2
<1>6. CASE remover.at # "off" /\ Deleting
  <2>1. Scarred({"crash", "error", "remove"})'
    BY <1>1, <1>6 DEF Removed, Scarred
  <2>2. CASE Clearing
    BY <1>0, <1>1, <2>1, <2>2 DEF Clearing, Whole, Gone
  <2>3. CASE Erasing
    <3>1. rows'[id] = 0 \/ (rows'[id] = rows[id] /\ (id = Recorded => remover.at # "row") /\ remover.at # "share")
      BY <2>3 DEF Erasing
    <3>2. QED BY <1>0, <1>1, <2>1, <2>3, <3>1 DEF Erasing, Whole, Gone
  <2>4. CASE Freeing
    BY <1>0, <1>1, <2>1, <2>4 DEF Freeing, Whole, Gone
  <2>5. CASE Starting
    BY <1>6, <2>5 DEF Starting
  <2>6. QED BY <1>6, <2>2, <2>3, <2>4, <2>5 DEF Deleting
<1>7. CASE Starting
  <2>1. Scarred({"crash", "error", "remove"})'
    BY <1>7 DEF Starting, Marks, Scarred
  <2>2. QED BY <1>0, <1>1, <1>7, <2>1 DEF Starting, Whole, Gone
<1>8. CASE Crashing
  <2>1. Scarred({"crash", "error", "remove"})'
    BY <1>8 DEF Crashing, Marks, Scarred
  <2>2. UNCHANGED <<bucket, rows>> /\ scars' = scars \cup {"crash"}
    BY <1>8 DEF Crashing, Marks
  <2>3. Gone(id) => {"remove", "crash"} \subseteq scars'
    BY <2>2 DEF Gone, Removed, Scarred
  <2>4. QED BY <1>0, <1>1, <2>1, <2>2, <2>3 DEF Whole, Gone
<1>9. remover.at = "off" /\ Deleting => Starting
  BY DEF Deleting, Clearing, Erasing, Freeing
<1>10. QED BY <1>3, <1>4, <1>5, <1>6, <1>7, <1>8, <1>9, StoreKinds

-----------------------------------------------------------------------------
(* What workers are told. *)

\* A worker that is done was so, or hears it.
LEMMA DoneKinds ==
    ASSUME Typed, Waits, Kinds, NEW w \in Workers, client'[w].phase = "done"
    PROVE  \/ client'[w] = client[w]
           \/ \E r \in Requests : /\ Hearing(r) /\ req[r].ok /\ req[r].chunk = LastChunk
                                  /\ client'[w].id = req[r].id
<1>1. CASE Aside
  BY <1>1, AsideKeeps
<1>2. CASE Crashing
  BY <1>2 DEF Crashing, BackTo, Again
<1>3. ASSUME NEW v \in Workers, (\E r \in Requests : Sending(v, r)) \/ Fetching(v) PROVE client'[w] = client[w]
  BY <1>3 DEF Sending, Fetching, OtherWorkers
<1>4. ASSUME NEW r \in Requests, Handling(r) PROVE client'[w] = client[w]
  BY <1>4, HandlingServes DEF Serving
<1>5. ASSUME NEW r \in Requests, Losing(r) \/ Expiring(r) PROVE client'[w] = client[w]
  BY <1>5 DEF Losing, Expiring, Back, BackTo, Again, OtherWorkers
<1>6. ASSUME NEW r \in Requests, Hearing(r)
      PROVE  \/ client'[w] = client[w]
             \/ req[r].ok /\ req[r].chunk = LastChunk /\ client'[w].id = req[r].id
  <2>1. req[r].heard /\ client[req[r].by].chunk = req[r].chunk
    BY <1>6, Heedful DEF Hearing, Typed, RequestWhole
  <2>2. CASE req[r].by # w
    BY <1>6, <2>2 DEF Hearing, Forth, Back, BackTo, Again, OtherWorkers
  <2>3. CASE req[r].by = w
    BY <1>6, <2>1, <2>3 DEF Hearing, Forth, Back, BackTo, Again
  <2>4. QED BY <2>2, <2>3
<1>7. QED BY <1>1, <1>2, <1>3, <1>4, <1>5, <1>6, KindsSplit

\* While nothing is deleted an object that a worker made stays, or another takes its place.
LEMMA RenewedKept ==
    ASSUME Typed, Linked, Owned, Stored, Alones, Lines, Removed, Kinds,
           ~Scarred({"remove"})', NEW id \in Ids, ~Late(id)', Renewed(id)
    PROVE  Renewed(id)' /\ (rows[id] = Total => rows'[id] = Total)
<1>1. ~Scarred({"remove"}) /\ ~Late(id) /\ remover.at = "off"
  BY ScarsGrow DEF Scarred, Late, Removed
<1>2. CASE UNCHANGED <<bucket, rows, share, remover>> \/ Crashing
  BY <1>2 DEF Renewed, Crashing
<1>3. ~Deleting
  BY <1>1 DEF Deleting, Starting, Clearing, Erasing, Freeing, Marks, Scarred
<1>4. ASSUME NEW r \in Requests, Making(r) PROVE Renewed(id)' /\ rows' = rows
  <2>1. /\ rows' = rows /\ req[r].at = "complete"
        /\ \A i \in Ids : i # req[r].id => bucket'[i] = bucket[i]
        /\ bucket'[req[r].id] = multi[req[r].upload].parts
    BY <1>4 DEF Making
  <2>2. CASE id # req[r].id
    BY <2>1, <2>2 DEF Renewed
  <2>3. CASE id = req[r].id
    BY <1>1, <1>4, <2>1, <2>3, MadeWhole, InMemory DEF Renewed
  <2>4. QED BY <2>1, <2>2, <2>3
<1>5. ASSUME NEW r \in Requests, Recording(r) PROVE Renewed(id)' /\ (rows[id] = Total => rows'[id] = Total)
  <2>1. /\ bucket' = bucket /\ \A i \in Ids : i # req[r].id => rows'[i] = rows[i]
        /\ rows'[req[r].id] = Len(bucket[req[r].id])
    BY <1>5 DEF Recording
  <2>2. Len(bucket[id]) = Total
    BY ObjectFacts DEF Renewed
  <2>3. QED BY <2>1, <2>2 DEF Renewed
<1>6. QED BY <1>2, <1>3, <1>4, <1>5, StoreKinds

LEMMA ToldInit == Init => Told
<1> SUFFICES ASSUME Init PROVE Told
  OBVIOUS
<1>1. \A r \in Requests : req[r].at = "free"
  BY FreeFields DEF Init
<1>2. \A w \in Workers : client[w].phase # "done"
  BY DEF Init
<1>3. QED BY <1>1, <1>2 DEF Told

LEMMA ToldNext ==
    ASSUME Typed, Typed', Waits, Linked, Owned, Stored, Alones, Lines, Removed, Told, Kinds
    PROVE  Told'
<1> SUFFICES ASSUME ~Scarred({"remove"})' PROVE Told'
  BY DEF Told
<1>1. ~Scarred({"remove"}) /\ \A id : ~Late(id)' => ~Late(id)
  BY ScarsGrow DEF Scarred, Late
<1>2. ASSUME NEW r \in Requests, NEW id, id = req'[r].id, req'[r].at = "record", ~Late(id)'
      PROVE  Renewed(id)'
  <2>0. id = req[r].id /\ ~Late(id)
    BY <1>1, <1>2, StillRecord
  <2>1. CASE req[r].at = "record"
    <3>1. Renewed(id) /\ id \in Ids
      BY <1>1, <2>0, <2>1, InMemory DEF Told
    <3>2. QED BY <1>2, <3>1, RenewedKept
  <2>2. CASE Making(r)
    <3>1. req[r].at = "complete" /\ bucket'[id] = multi[req[r].upload].parts
      BY <2>0, <2>2 DEF Making
    <3>2. bucket'[id] = Object(req[r].by) /\ req[r].by \in Workers
      BY <2>0, <2>2, <3>1, MadeWhole, InMemory
    <3>3. QED BY <3>2 DEF Renewed
  <2>3. QED BY <1>2, <2>1, <2>2, StillRecord
<1>3. ASSUME NEW r \in Requests, NEW id, id = req'[r].id, req'[r].at = "reply", req'[r].ok,
             req'[r].chunk = LastChunk, ~Late(id)'
      PROVE  Renewed(id)' /\ rows'[id] = Total
  <2>0. ~Late(id)
    BY <1>1, <1>3
  <2>1. CASE Stays(r, "reply") /\ req[r].ok
    <3>1. req[r].at = "reply" /\ req[r].chunk = LastChunk /\ req[r].id = id
      BY <1>3, <2>1 DEF Stays
    <3>2. Renewed(id) /\ rows[id] = Total
      BY <1>1, <2>0, <2>1, <3>1 DEF Told
    <3>3. id \in Ids
      BY <2>1, <3>1 DEF Typed, TypeOK, Request, RequestWhole
    <3>4. QED BY <1>3, <3>2, <3>3, RenewedKept
  <2>2. CASE Recording(r) /\ req[r].heard
    <3>1. /\ req[r].at = "record" /\ req[r].id = id /\ bucket' = bucket
          /\ rows'[id] = Len(bucket[id])
      BY <1>3, <2>2 DEF Recording, Ends
    <3>2. Renewed(id)
      BY <1>1, <2>0, <3>1 DEF Told
    <3>3. QED BY <3>1, <3>2, ObjectFacts DEF Renewed
  <2>3. CASE req[r].chunk # LastChunk /\ Ends(r, TRUE) /\ req[r].heard
    BY <1>3, <2>3 DEF Ends, Same
  <2>4. QED BY <1>3, <2>1, <2>2, <2>3, ArriveKinds
<1>4. ASSUME NEW w \in Workers, NEW id, id = client'[w].id, client'[w].phase = "done", ~Late(id)'
      PROVE  id \in Ids /\ Renewed(id)' /\ rows'[id] = Total
  <2>0. ~Late(id)
    BY <1>1, <1>4
  <2>1. CASE client'[w] = client[w]
    <3>1. id \in Ids /\ Renewed(id) /\ rows[id] = Total
      BY <1>1, <1>4, <2>0, <2>1 DEF Told
    <3>2. QED BY <1>4, <3>1, RenewedKept
  <2>2. ASSUME NEW r \in Requests, Hearing(r), req[r].ok, req[r].chunk = LastChunk, id = req[r].id
        PROVE  id \in Ids /\ Renewed(id)' /\ rows'[id] = Total
    <3>1. req[r].at = "reply" /\ UNCHANGED <<bucket, rows>>
      BY <2>2 DEF Hearing, World
    <3>2. Renewed(id) /\ rows[id] = Total
      BY <1>1, <2>0, <2>2, <3>1 DEF Told
    <3>3. id \in Ids
      BY <2>2, <3>1 DEF Typed, TypeOK, Request, RequestWhole
    <3>4. QED BY <3>1, <3>2, <3>3 DEF Renewed
  <2>3. QED BY <1>4, <2>1, <2>2, DoneKinds
<1>5. QED BY <1>2, <1>3, <1>4 DEF Told, Renewed, Late, Scarred

-----------------------------------------------------------------------------
(* Sessions and the uploads that S3 has open. *)

LEMMA TimerStill ==
    ASSUME Kinds
    PROVE  Timeful \/ Crashing \/ timer' = timer
<1>1. ASSUME NEW r \in Requests, Handling(r) PROVE timer' = timer
  BY <1>1 DEF Handling, Checking, Refusing, Naming, Locking, Missing, Finding, Admitted, Failing, Beginning,
              Adding, Making, Recording, Denying, Catching, Rest
<1>2. ASSUME NEW w \in Workers, (\E r \in Requests : Sending(w, r)) \/ Fetching(w) PROVE timer' = timer
  BY <1>2 DEF Sending, Fetching, World
<1>3. ASSUME NEW r \in Requests, Hearing(r) \/ Losing(r) \/ Expiring(r) PROVE timer' = timer
  BY <1>3 DEF Hearing, Losing, Expiring, World
<1>4. CASE Deleting
  BY <1>4 DEF Deleting, Starting, Clearing, Erasing, Freeing, Deletes
<1>5. CASE Ticking \/ UNCHANGED vars \/ \E u \in Uploads : Sweeping(u)
  BY <1>5 DEF Ticking, Sweeping, vars, jobs
<1>6. QED BY <1>1, <1>2, <1>3, <1>4, <1>5 DEF Kinds

\* An upload that is open was open, or begins.
LEMMA OpenKinds ==
    ASSUME Kinds, NEW u, Open(u)'
    PROVE  \/ Open(u) /\ multi'[u].id = multi[u].id
           \/ u \in FreshUploads /\ \E r \in Requests : Beginning(r, u)
<1>1. u \in Uploads /\ multi'[u].id # NoId
  BY DEF Open
<1>2. CASE Fades
  BY <1>1, <1>2, NoMultiFields DEF Fades, Open
<1>3. CASE Begins
  BY <1>1, <1>3 DEF Begins, Beginning, OtherUploads, Open
<1>4. CASE Adds
  BY <1>1, <1>4 DEF Adds, Adding, OtherUploads, Open
<1>5. QED BY <1>2, <1>3, <1>4, UploadKinds

LEMMA DroppingInit == Init => Dropping
BY TimerOffType DEF Init, Dropping

LEMMA DroppingNext ==
    ASSUME Dropping, Kinds
    PROVE  Dropping'
<1> SUFFICES ASSUME timer'.at = "drop", NEW u, u = timer'.upload, Open(u)' PROVE Scarred({"error"})'
  BY DEF Dropping, Open
<1>1. scars \subseteq scars'
  BY ScarsGrow
<1>2. CASE timer' = timer
  <2>1. Open(u)
    BY <1>2, OpenKinds DEF FreshUploads
  <2>2. Scarred({"error"})
    BY <1>2, <2>1 DEF Dropping
  <2>3. QED BY <1>1, <2>2 DEF Scarred
<1>3. CASE Aborting
  <2>1. Marks("error") \/ Shut(u)
    BY <1>3 DEF Aborting
  <2>2. ~Shut(u)
    BY NoMultiFields DEF Shut, Open
  <2>3. QED BY <2>1, <2>2 DEF Marks, Scarred
<1>4. CASE Crashing
  BY <1>4, TimerOffType DEF Crashing
<1>5. ~(Listing \/ Skipping \/ Dismissing \/ \E e \in timer.todo : Choosing(e))
  BY DEF Listing, Skipping, Choosing, Dismissing
<1>6. QED BY <1>2, <1>3, <1>4, <1>5, TimerStill DEF Timeful

\* Who changes the session of a key.
LEMMA SessionChanges ==
    ASSUME Kinds, NEW k \in Keys, session'[k].upload # session[k].upload
    PROVE  \/ Crashing \/ (Dismissing /\ k = timer.key)
           \/ \E r \in Requests : /\ k = KeyAt(r)
                                  /\ Catching(r) \/ Making(r) \/ \E u \in FreshUploads : Beginning(r, u)
<1>1. ASSUME NEW r \in Requests, Handling(r)
      PROVE  k = KeyAt(r) /\ (Catching(r) \/ Making(r) \/ \E u \in FreshUploads : Beginning(r, u))
  <2>1. CASE Checking(r)
    BY <2>1 DEF Checking, Refusing, Naming, Locking, Missing, Finding, OtherSessions
  <2>2. CASE Failing(r) \/ Adding(r) \/ Recording(r) \/ Denying(r)
    BY <2>2 DEF Failing, Adding, Recording, Denying
  <2>3. CASE Catching(r)
    BY <2>3 DEF Catching, Forgets, OtherSessions
  <2>4. CASE Making(r)
    BY <2>4 DEF Making, Forgets, OtherSessions
  <2>5. CASE \E u \in FreshUploads : Beginning(r, u)
    BY <2>5 DEF Beginning, OtherSessions
  <2>6. QED BY <1>1, <2>1, <2>2, <2>3, <2>4, <2>5 DEF Handling
<1>2. ASSUME NEW w \in Workers, (\E r \in Requests : Sending(w, r)) \/ Fetching(w) PROVE FALSE
  BY <1>2 DEF Sending, Fetching, World
<1>3. ASSUME NEW r \in Requests, Hearing(r) \/ Losing(r) \/ Expiring(r) PROVE FALSE
  BY <1>3 DEF Hearing, Losing, Expiring, World
<1>4. CASE Deleting
  BY <1>4 DEF Deleting, Starting, Clearing, Erasing, Freeing, Deletes
<1>5. CASE Ticking \/ UNCHANGED vars \/ \E u \in Uploads : Sweeping(u)
  BY <1>5 DEF Ticking, SameSessions, Sweeping, vars, memory
<1>6. CASE Timeful
  BY <1>6 DEF Timeful, Listing, Skipping, Choosing, Aborting, Dismissing, Forgets, OtherSessions
<1>7. QED BY <1>1, <1>2, <1>3, <1>4, <1>5, <1>6 DEF Kinds

LEMMA KnownInit == Init => Known
BY NothingOpen DEF Known

\* A handler that is about to begin an upload or to complete one, and the session of its key.
LEMMA SessionBefore ==
    ASSUME Typed, Linked, Owned, Alones, NEW r \in Requests, req[r].at \in {"init", "complete"},
           NEW u, u = session[KeyAt(r)].upload, Open(u), ~Late(multi[u].id), Open(req[r].upload) \/ req[r].at = "init"
    PROVE  req[r].at = "complete" /\ u = req[r].upload
<1>1. /\ req[r].id \in Ids /\ KeyAt(r) \in Keys /\ KeyAt(r)[2] = req[r].id /\ u \in Uploads /\ u # NoUpload
      /\ req[r].by \in Creators => KeyAt(r) = <<"create", req[r].id>> /\ req[r].id # Recorded
      /\ req[r].by \in Rekeyers => KeyAt(r) = KeyR /\ req[r].id = Recorded
      /\ req[r].by \in Creators \/ req[r].by \in Rekeyers
      /\ multi[u].id = req[r].id
      /\ req[r].at = "complete" => req[r].upload \in Uploads /\ multi[req[r].upload].id = req[r].id
  BY InMemory, Roles, NullAssumption DEF Linked, Open
<1>2. CASE req[r].by \in Creators
  <2>1. req[r].at # "init"
    BY <1>1, <1>2, NoSessionFields DEF Owned
  <2>2. u = req[r].upload
    BY <1>1, <1>2, <2>1 DEF Owned
  <2>3. QED BY <2>1, <2>2
<1>3. CASE req[r].by \in Rekeyers
  <2>1. Attended(req[r])
    BY <1>1, <1>3 DEF Alones, Alone
  <2>2. QED BY <1>1, <1>3, <2>1 DEF Attended
<1>4. QED BY <1>1, <1>2, <1>3

LEMMA KnownNext ==
    ASSUME Typed, Linked, Owned, Alones, Dropping, Known, Kinds
    PROVE  Known'
<1> SUFFICES ASSUME NEW u \in Uploads, Open(u)', ~Scarred({"crash", "error", "dropped"})', NEW id,
                    id = multi'[u].id, ~Late(id)'
             PROVE  \E k \in Keys : session'[k].upload = u
  BY DEF Known, Late, Scarred
<1>1. ~Scarred({"crash", "error", "dropped"}) /\ ~Scarred({"error"})' /\ ~Late(id) /\ ~Scarred({"error"})
  BY ScarsGrow DEF Scarred, Late
<1>2. CASE Open(u) /\ multi[u].id = id
  <2>1. PICK k \in Keys : session[k].upload = u
    BY <1>1, <1>2 DEF Known
  <2>2. CASE session'[k].upload = session[k].upload
    BY <2>1, <2>2
  <2>3. CASE Crashing
    BY <2>3 DEF Crashing, Marks, Scarred
  <2>4. CASE Dismissing /\ k = timer.key
    <3>1. session[k].upload \in {NoUpload, timer.upload} /\ timer.at = "drop"
      BY <2>4 DEF Dismissing, Scarred
    <3>2. u = timer.upload
      BY <2>1, <3>1, NullAssumption
    <3>3. QED BY <1>1, <1>2, <3>1, <3>2 DEF Dropping
  <2>5. ASSUME NEW r \in Requests, k = KeyAt(r), Catching(r) PROVE FALSE
    <3>1. Shut(u)
      BY <1>1, <2>1, <2>5 DEF Catching, Marks, Scarred
    <3>2. QED BY <3>1, NoMultiFields DEF Shut, Open
  <2>6. ASSUME NEW r \in Requests, k = KeyAt(r), Making(r) PROVE FALSE
    <3>1. req[r].at = "complete" /\ Open(req[r].upload) /\ Shut(req[r].upload)
      BY <2>6 DEF Making, Completable
    <3>2. u = req[r].upload
      BY <1>1, <1>2, <2>1, <2>6, <3>1, SessionBefore
    <3>3. QED BY <3>1, <3>2, NoMultiFields DEF Shut, Open
  <2>7. ASSUME NEW r \in Requests, k = KeyAt(r), \E v \in FreshUploads : Beginning(r, v) PROVE FALSE
    <3>1. req[r].at = "init"
      BY <2>7 DEF Beginning
    <3>2. QED BY <1>1, <1>2, <2>1, <2>7, <3>1, SessionBefore
  <2>8. QED BY <2>2, <2>3, <2>4, <2>5, <2>6, <2>7, SessionChanges
<1>3. ASSUME NEW r \in Requests, Beginning(r, u) PROVE \E k \in Keys : session'[k].upload = u
  <2>1. KeyAt(r) \in Keys /\ session'[KeyAt(r)].upload = u
    BY <1>3, InMemory DEF Beginning
  <2>2. QED BY <2>1
<1>4. QED BY <1>2, <1>3, OpenKinds

-----------------------------------------------------------------------------
(* The time since the last chunk. *)

\* Steps that leave sessions and uploads as they are, or end them.
Recedes ==
    /\ \A k \in Keys : session'[k] = session[k] \/ session'[k] = NoSession
    /\ \A u \in Uploads : multi'[u] = multi[u] \/ multi'[u] = NoMulti
LEMMA ClockKinds ==
    ASSUME Kinds
    PROVE  \/ Ticking \/ Recedes
           \/ \E r \in Requests : Finding(r) \/ Adding(r) \/ \E u \in FreshUploads : Beginning(r, u)
<1>1. ASSUME NEW r \in Requests, Handling(r), ~Finding(r), ~Adding(r), ~\E u \in FreshUploads : Beginning(r, u)
      PROVE  Recedes
  <2>1. CASE Checking(r)
    BY <1>1, <2>1 DEF Recedes, Checking, Refusing, Naming, Locking, Missing
  <2>2. CASE Failing(r) \/ Recording(r) \/ Denying(r)
    BY <2>2 DEF Recedes, Failing, Recording, Denying
  <2>3. CASE Catching(r)
    BY <2>3 DEF Recedes, Catching, Forgets, OtherSessions, Shut, OtherUploads
  <2>4. CASE Making(r)
    BY <2>4 DEF Recedes, Making, Forgets, OtherSessions, Shut, OtherUploads
  <2>5. QED BY <1>1, <2>1, <2>2, <2>3, <2>4 DEF Handling
<1>2. ASSUME NEW w \in Workers, (\E r \in Requests : Sending(w, r)) \/ Fetching(w) PROVE Recedes
  BY <1>2 DEF Recedes, Sending, Fetching, World
<1>3. ASSUME NEW r \in Requests, Hearing(r) \/ Losing(r) \/ Expiring(r) PROVE Recedes
  BY <1>3 DEF Recedes, Hearing, Losing, Expiring, World
<1>4. CASE Deleting
  BY <1>4 DEF Recedes, Deleting, Starting, Clearing, Erasing, Freeing, Deletes, Shut, OtherUploads
<1>5. CASE Crashing \/ UNCHANGED vars \/ \E u \in Uploads : Sweeping(u)
  BY <1>5 DEF Recedes, Crashing, Sweeping, Shut, OtherUploads, vars, memory, storage
<1>6. CASE Timeful
  BY <1>6 DEF Recedes, Timeful, Listing, Skipping, Choosing, Aborting, Dismissing, Forgets, OtherSessions, Shut, OtherUploads
<1>7. QED BY <1>1, <1>2, <1>3, <1>4, <1>5, <1>6 DEF Kinds

LEMMA TimedInit == Init => Timed
BY NothingOpen DEF Timed

LEMMA TimedNext ==
    ASSUME Typed, Linked, Timed, Kinds
    PROVE  Timed'
<1> SUFFICES ASSUME NEW k \in Keys, NEW u, u = session'[k].upload, Open(u)'
             PROVE  multi'[u].quiet = session'[k].idle /\ (session'[k].idle > Ttl => multi'[u].paused)
  BY DEF Timed, Open
<1>1. u \in Uploads /\ multi'[u].id # NoId /\ u # NoUpload /\ ~(0 > Ttl) /\ Ttl \in Nat
  BY NullAssumption, SizeAssumption DEF Open
<1>2. ASSUME session[k].upload = u, Open(u)
      PROVE  /\ multi[u].quiet = session[k].idle /\ (session[k].idle > Ttl => multi[u].paused)
             /\ session[k].idle \in Nat
             /\ \A l \in Keys : session[l].upload = u => l = k
  BY <1>1, <1>2 DEF Timed, Linked, Typed, TypeOK, Session
<1>3. CASE Recedes
  <2>1. session'[k] = session[k] /\ multi'[u] = multi[u]
    BY <1>1, <1>3, NoSessionFields, NoMultiFields DEF Recedes
  <2>2. Open(u)
    BY <1>1, <2>1 DEF Open
  <2>3. QED BY <1>2, <2>1, <2>2
<1>4. CASE Ticking
  <2>1. session[k].upload = u /\ multi[u].id # NoId
    BY <1>1, <1>4 DEF Ticking, SameSessions, SameUploads
  <2>2. Open(u) /\ session[k] # NoSession
    BY <1>1, <2>1, NoSessionFields DEF Open
  <2>3. /\ session'[k].idle = IF session[k].idle > Ttl THEN session[k].idle ELSE session[k].idle + 1
        /\ multi'[u].quiet = IF multi[u].quiet > Ttl THEN multi[u].quiet ELSE multi[u].quiet + 1
        /\ multi'[u].paused <=> multi[u].paused \/ multi[u].quiet >= Ttl
    BY <1>1, <1>4, <2>2 DEF Ticking
  <2>4. QED BY <1>1, <1>2, <2>1, <2>2, <2>3
<1>5. ASSUME NEW r \in Requests, Finding(r)
      PROVE  multi'[u].quiet = session'[k].idle /\ (session'[k].idle > Ttl => multi'[u].paused)
  <2> DEFINE v == session[KeyAt(r)].upload
  <2>1. /\ v \in Uploads /\ OtherSessions(KeyAt(r)) /\ session'[KeyAt(r)].upload = v /\ session'[KeyAt(r)].idle = 0
        /\ OtherUploads(v) /\ SameUploads /\ (Open(v) => multi'[v].quiet = 0)
    BY <1>5 DEF Finding
  <2>2. session[k].upload = u /\ Open(u)
    BY <1>1, <2>1 DEF OtherSessions, SameUploads, Open
  <2>3. CASE k = KeyAt(r)
    BY <1>1, <2>1, <2>2, <2>3
  <2>4. CASE k # KeyAt(r)
    <3>0. req[r].at # "free" /\ req[r].id \in Ids /\ req[r].id # NoId
      BY <1>5, NullAssumption DEF Finding, Admitted
    <3>1. KeyAt(r) \in Keys
      BY <3>0, Served, KeyFacts DEF KeyAt
    <3>2. v # u
      BY <1>2, <2>2, <2>4, <3>1
    <3>3. QED BY <1>1, <1>2, <2>1, <2>2, <2>4, <3>2 DEF OtherSessions, OtherUploads
  <2>5. QED BY <2>3, <2>4
<1>6. ASSUME NEW r \in Requests, Adding(r)
      PROVE  multi'[u].quiet = session'[k].idle /\ (session'[k].idle > Ttl => multi'[u].paused)
  <2>1. /\ session' = session /\ multi'[u].id = multi[u].id
        /\ multi'[u].quiet = multi[u].quiet /\ multi'[u].paused = multi[u].paused
    BY <1>1, <1>6 DEF Adding, OtherUploads
  <2>2. Open(u)
    BY <1>1, <2>1 DEF Open
  <2>3. QED BY <1>2, <2>1, <2>2
<1>7. ASSUME NEW r \in Requests, NEW v \in FreshUploads, Beginning(r, v)
      PROVE  multi'[u].quiet = session'[k].idle /\ (session'[k].idle > Ttl => multi'[u].paused)
  <2>1. /\ ~Open(v) /\ \A l \in Keys : session[l].upload # v
        /\ OtherSessions(KeyAt(r)) /\ session'[KeyAt(r)] = [upload |-> v, idle |-> 0]
        /\ OtherUploads(v) /\ multi'[v].quiet = 0
    BY <1>7 DEF Beginning, FreshUploads
  <2>2. CASE k = KeyAt(r)
    BY <1>1, <2>1, <2>2
  <2>3. CASE k # KeyAt(r)
    <3>1. session'[k] = session[k] /\ u # v
      BY <2>1, <2>3 DEF OtherSessions
    <3>2. multi'[u] = multi[u]
      BY <1>1, <2>1, <3>1 DEF OtherUploads
    <3>3. Open(u)
      BY <1>1, <3>2 DEF Open
    <3>4. QED BY <1>2, <3>1, <3>2, <3>3
  <2>4. QED BY <2>2, <2>3
<1>8. QED BY <1>3, <1>4, <1>5, <1>6, <1>7, ClockKinds

-----------------------------------------------------------------------------
(* Nothing went wrong: what besides the workers' own requests a step may do. *)

\* Without scars there are no faults, no deletion and no job's abort.
LEMMA CalmKinds ==
    ASSUME Removed, Kinds, scars' = {}
    PROVE  /\ scars = {} /\ \A kind : ~Marks(kind)
           /\ \/ UNCHANGED vars \/ Timeful \/ Ticking
              \/ \E w \in Workers, r \in Requests : Sending(w, r)
              \/ \E w \in Workers : Fetching(w)
              \/ \E r \in Requests : Handling(r) \/ Hearing(r)
<1>1. scars = {} /\ \A kind : ~Marks(kind)
  BY ScarsGrow DEF Marks
<1>2. ~Deleting
  BY <1>1 DEF Deleting, Starting, Clearing, Erasing, Freeing, Removed, Scarred
<1>3. ~Crashing /\ \A r \in Requests : ~Losing(r) /\ ~Expiring(r)
  BY <1>1 DEF Crashing, Losing, Expiring
<1>4. \A u \in Uploads : ~Sweeping(u)
  BY DEF Sweeping
<1>5. QED BY <1>1, <1>2, <1>3, <1>4 DEF Kinds

\* What the timer does to sessions and uploads is nothing.
LEMMA TimerIdle ==
    ASSUME Dropping, AllOpen, AbortPaused, Timeful, scars = {}, scars' = {}
    PROVE  /\ SameSessions
           /\ \A u \in Uploads : Open(u) => multi'[u] = multi[u]
<1>1. CASE Listing \/ Skipping \/ \E e \in timer.todo : Choosing(e)
  BY <1>1 DEF Listing, Skipping, Choosing, SameSessions
<1>2. CASE Aborting
  <2>1. session' = session /\ timer.at = "abort" /\ (multi' = multi \/ Shut(timer.upload))
    BY <1>2 DEF Aborting
  <2>2. multi' = multi \/ ~multi[timer.upload].paused
    BY <1>2 DEF Aborting, Marks
  <2>3. multi' = multi \/ ~Open(timer.upload)
    BY <2>1, <2>2 DEF AbortPaused
  <2>4. QED BY <2>1, <2>3 DEF SameSessions, Shut, OtherUploads
<1>3. CASE Dismissing
  <2>1. /\ Forgets(timer.key) /\ multi' = multi /\ timer.at = "drop"
        /\ session[timer.key].upload \in {NoUpload, timer.upload}
    BY <1>3 DEF Dismissing
  <2>2. ~Open(timer.upload)
    BY <2>1 DEF Dropping, Scarred
  <2>3. \A k \in Keys : k = timer.key => session[k].upload = NoUpload
    BY <2>1, <2>2 DEF AllOpen
  <2>4. QED BY <2>1, <2>3, NoSessionFields DEF Forgets, OtherSessions, SameSessions
<1>4. QED BY <1>1, <1>2, <1>3 DEF Timeful

LEMMA AllOpenNext ==
    ASSUME Typed, Linked, Removed, Dropping, AllOpen, AbortPaused, Kinds, scars' = {}
    PROVE  AllOpen'
<1> SUFFICES ASSUME NEW k \in Keys, NEW u, u = session'[k].upload, u # NoUpload PROVE Open(u)'
  BY DEF AllOpen
<1>0. session[k].upload = u => u \in Uploads /\ multi[u].id # NoId /\ Open(u)
  BY DEF AllOpen, Open
<1>1. CASE SameSessions /\ SameUploads
  BY <1>0, <1>1 DEF SameSessions, SameUploads, Open
<1>2. CASE Timeful
  BY <1>0, <1>2, TimerIdle, CalmKinds DEF SameSessions, Open
<1>3. CASE UNCHANGED vars \/ Ticking \/ \E w \in Workers, r \in Requests : Sending(w, r)
  BY <1>1, <1>3 DEF vars, memory, storage, Ticking, Sending, World, SameSessions, SameUploads
<1>4. ASSUME NEW r \in Requests, Hearing(r) PROVE Open(u)'
  BY <1>1, <1>4 DEF Hearing, World, SameSessions, SameUploads
<1>5. ASSUME NEW r \in Requests, Handling(r) PROVE Open(u)'
  <2>1. CASE Checking(r)
    <3>1. SameUploads
      BY <2>1 DEF Checking, Refusing, Naming, Locking, Missing, Finding, SameUploads
    <3>2. SameSessions
      BY <2>1 DEF Checking, Refusing, Naming, Locking, Missing, Finding, SameSessions, OtherSessions
    <3>3. QED BY <1>1, <3>1, <3>2
  <2>2. CASE Failing(r) \/ Recording(r) \/ Denying(r)
    BY <1>1, <2>2 DEF Failing, Recording, Denying, SameUploads, SameSessions
  <2>3. CASE Adding(r)
    BY <1>0, <2>3 DEF Adding, OtherUploads, Open
  <2>4. ASSUME NEW v \in FreshUploads, Beginning(r, v) PROVE Open(u)'
    <3>1. v \in Uploads /\ multi'[v].id = req[r].id /\ req[r].id # NoId
      BY <2>4, InMemory, NullAssumption DEF Beginning, FreshUploads
    <3>2. QED BY <1>0, <2>4, <3>1 DEF Beginning, OtherSessions, OtherUploads, FreshUploads, Open
  <2>5. CASE Making(r)
    <3>1. /\ Shut(req[r].upload) /\ Forgets(KeyAt(r)) /\ Open(req[r].upload) /\ req[r].at = "complete"
      BY <2>5, CalmKinds DEF Making, Completable
    <3>2. k # KeyAt(r) /\ session[k].upload = u
      BY <3>1, NoSessionFields DEF Forgets, OtherSessions
    <3>3. multi[req[r].upload].id = KeyAt(r)[2] /\ KeyAt(r) \in Keys
      BY <3>1, InMemory DEF Linked
    <3>4. u # req[r].upload
      BY <1>0, <3>2, <3>3, KeysApart DEF Linked
    <3>5. QED BY <1>0, <3>1, <3>2, <3>4 DEF Shut, OtherUploads, Open
  <2>6. CASE Catching(r)
    <3>1. /\ Shut(session[KeyAt(r)].upload) /\ Forgets(KeyAt(r)) /\ req[r].at = "catch"
      BY <2>6, CalmKinds DEF Catching
    <3>2. k # KeyAt(r) /\ session[k].upload = u
      BY <3>1, NoSessionFields DEF Forgets, OtherSessions
    <3>3. u # session[KeyAt(r)].upload
      BY <3>1, <3>2, InMemory DEF Linked
    <3>4. QED BY <1>0, <3>1, <3>2, <3>3 DEF Shut, OtherUploads, Open
  <2>7. QED BY <1>5, <2>1, <2>2, <2>3, <2>4, <2>5, <2>6 DEF Handling
<1>6. ASSUME NEW w \in Workers, Fetching(w) PROVE Open(u)'
  BY <1>1, <1>6 DEF Fetching, World, SameSessions, SameUploads
<1>7. QED BY <1>2, <1>3, <1>4, <1>5, <1>6, CalmKinds

\* An upload that paused stays one.
LEMMA PausedGrows ==
    ASSUME Kinds, NEW u, Open(u), Open(u)', multi[u].paused
    PROVE  multi'[u].paused
<1>1. u \in Uploads /\ multi'[u].id # NoId
  BY DEF Open
<1>2. CASE Recedes
  BY <1>1, <1>2, NoMultiFields DEF Recedes
<1>3. CASE Ticking
  BY <1>1, <1>3 DEF Ticking
<1>4. ASSUME NEW r \in Requests, Finding(r) \/ Adding(r) \/ \E v \in FreshUploads : Beginning(r, v)
      PROVE  multi'[u].paused
  BY <1>1, <1>4 DEF Finding, Adding, Beginning, OtherUploads, FreshUploads
<1>5. QED BY <1>2, <1>3, <1>4, ClockKinds

LEMMA AbortPausedNext ==
    ASSUME Typed, Linked, Removed, Known, Timed, AbortPaused, Kinds, scars' = {}
    PROVE  AbortPaused'
<1> SUFFICES ASSUME timer'.at = "abort", NEW u, u = timer'.upload, Open(u)' PROVE multi'[u].paused
  BY DEF AbortPaused
<1>1. CASE timer' = timer
  <2>1. Open(u)
    BY <1>1, OpenKinds DEF FreshUploads
  <2>2. QED BY <1>1, <2>1, PausedGrows DEF AbortPaused
<1>2. ASSUME NEW e \in timer.todo, Choosing(e) PROVE multi'[u].paused
  <2>1. u = e[2] /\ multi' = multi /\ Idle(e) /\ Open(u) /\ e[1] \in Keys
    BY <1>2 DEF Choosing, Open, Typed, Timing
  <2>2. PICK k \in Keys : session[k].upload = u
    <3>1. scars = {} /\ u \in Uploads
      BY <2>1, CalmKinds DEF Open
    <3>2. \A kinds : ~Scarred(kinds)
      BY <3>1 DEF Scarred
    <3>3. QED BY <2>1, <3>1, <3>2 DEF Known, Late
  <2>3. k = e[1]
    BY <2>1, <2>2, KeysApart DEF Linked
  <2>4. session[k].idle > Ttl
    BY <2>1, <2>2, <2>3 DEF Idle
  <2>5. QED BY <2>1, <2>2, <2>4 DEF Timed
<1>3. ~Crashing
  BY CalmKinds DEF Crashing
<1>4. ~(Listing \/ Skipping \/ Aborting \/ Dismissing)
  BY DEF Listing, Skipping, Aborting, Dismissing
<1>5. QED BY <1>1, <1>2, <1>3, <1>4, TimerStill DEF Timeful

LEMMA AllHeardNext ==
    ASSUME Removed, AllHeard, Kinds, scars' = {}
    PROVE  AllHeard'
<1> SUFFICES ASSUME NEW x \in Requests, req'[x].at # "free" PROVE req'[x].heard
  BY DEF AllHeard
<1>1. CASE Aside
  BY <1>1, AsideKeeps DEF AllHeard
<1>2. ASSUME NEW w \in Workers, NEW r \in Requests, Sending(w, r) PROVE req'[x].heard
  BY <1>2 DEF Sending, Others, AllHeard
<1>3. ASSUME NEW r \in Requests, Hearing(r) PROVE req'[x].heard
  BY <1>3, FreeFields DEF Hearing, Vanishes, Others, AllHeard
<1>4. ASSUME NEW r \in Requests, Handling(r) PROVE req'[x].heard
  BY <1>4, HandlingServes, FreeFields DEF Serving, Same, Others, AllHeard
<1>5. ASSUME NEW w \in Workers, Fetching(w) PROVE req'[x].heard
  BY <1>5 DEF Fetching, AllHeard
<1>6. QED BY <1>1, <1>2, <1>3, <1>4, <1>5, CalmKinds DEF Aside

-----------------------------------------------------------------------------
(* Nothing went wrong: the course of a worker. *)

LEMMA PrefixFacts ==
    ASSUME NEW w
    PROVE  /\ Prefix(w, 0) = <<>>
           /\ \A n \in Nat : /\ Append(Prefix(w, n), [by |-> w, chunk |-> n]) = Prefix(w, n + 1)
                             /\ Ascending(Prefix(w, n))
<1>1. Prefix(w, 0) = <<>>
  BY DEF Prefix
<1>2. ASSUME NEW n \in Nat
      PROVE  /\ Append(Prefix(w, n), [by |-> w, chunk |-> n]) = Prefix(w, n + 1)
             /\ Ascending(Prefix(w, n))
  <2> DEFINE s == Prefix(w, n)
             p == [by |-> w, chunk |-> n]
             t == Prefix(w, n + 1)
  <2>1. Len(s) = n /\ \A i \in 1 .. n : s[i] = [by |-> w, chunk |-> i - 1]
    BY DEF Prefix
  <2>2. Len(t) = n + 1 /\ DOMAIN t = 1 .. n + 1 /\ \A i \in 1 .. n + 1 : t[i] = [by |-> w, chunk |-> i - 1]
    BY DEF Prefix
  <2>3. Append(s, p) = t
    BY <2>1 DEF Prefix
  <2>4. Ascending(s)
    BY <2>1 DEF Ascending
  <2>5. QED BY <2>3, <2>4
<1>3. QED BY <1>1, <1>2

\* A step that does not touch the file of a worker.
Untouched(w, id) ==
    /\ session'[Key(w, id)].upload = KeyOf(w, id)
    /\ Open(KeyOf(w, id)) =>
        multi'[KeyOf(w, id)].id # NoId /\ multi'[KeyOf(w, id)].parts = multi[KeyOf(w, id)].parts
    /\ rows'[id] = rows[id]

LEMMA AtKept ==
    ASSUME NEW w, NEW id, NEW n, At(w, id, n), Untouched(w, id)
    PROVE  At(w, id, n)'
BY DEF At, Untouched, KeyOf, Open

LEMMA StageKept ==
    ASSUME NEW w \in Workers, NEW q, Stage(w, q), q.id # NoId => Untouched(w, q.id),
           q.id = NoId => w \in Creators /\ q.chunk = 0 /\ q.at \in {"free", "sent"},
           w \in Rekeyers => lock' = lock
    PROVE  Stage(w, q)'
<1>1. CASE q.id = NoId
  BY <1>1, Roles DEF Stage, Unlocked, Unwritten
<1>2. CASE q.id # NoId
  <2>1. /\ KeyOf(w, q.id)' = KeyOf(w, q.id) /\ (Unwritten(w, q.id) => Unwritten(w, q.id)')
        /\ \A n : Unlocked(w, n) => Unlocked(w, n)'
        /\ \A n : At(w, q.id, n) => At(w, q.id, n)'
    BY <1>2, AtKept DEF KeyOf, Untouched, Unwritten, Unlocked
  <2>2. Open(KeyOf(w, q.id)) /\ KeyOf(w, q.id) = q.upload =>
            Open(q.upload)' /\ multi'[q.upload].parts = multi[q.upload].parts
    BY <1>2 DEF Untouched, Open
  <2>3. QED BY <2>1, <2>2 DEF Stage
<1>3. QED BY <1>1, <1>2

LEMMA StageOf ==
    ASSUME NEW w, NEW x, NEW q, q = req'[x], Stage(w, q)'
    PROVE  Stage(w, req[x])'
BY DEF Stage, At, KeyOf, Unlocked, Unwritten, Open

LEMMA ReadyOf ==
    ASSUME NEW w, NEW id, NEW n, id = client'[w].id, n = client'[w].chunk, Ready(w, id, n)'
    PROVE  Ready(w, client[w].id, client[w].chunk)'
BY DEF Ready, At, KeyOf, Unlocked, Unwritten, Open

\* Who names a file has a key for it.
LEMMA NamesRole ==
    ASSUME Typed, NEW w \in Workers, NEW id \in Ids, Names(w, id)
    PROVE  /\ w \in Rekeyers <=> id = Recorded
           /\ Key(w, id) \in Keys /\ Key(w, id)[2] = id
<1>1. w \in Rekeyers => id = Recorded
  BY DEF Names, Typed, ClientWhole, RequestWhole
<1>2. w \in Creators => id # Recorded
  BY DEF Names, Typed, ClientWhole, RequestWhole
<1>3. QED BY <1>1, <1>2, KeyFacts, Roles

\* A step that is not the worker's own.
LEMMA OnCourseKept ==
    ASSUME Typed, NEW w \in Workers, OnCourse(w), client'[w] = client[w],
           \A x \in Requests : req[x].by = w \/ req'[x].by = w => req'[x] = req[x],
           \A id \in Ids : Names(w, id) => Untouched(w, id),
           w \in Rekeyers => lock' = lock,
           client[w].phase = "download" => bucket'[Recorded] = bucket[Recorded]
    PROVE  OnCourse(w)'
<1>1. ASSUME client[w].phase \in {"download", "sending"}, NEW id, id = client[w].id, NEW n, n = client[w].chunk
      PROVE  Ready(w, id, n)'
  <2>1. Ready(w, id, n)
    BY <1>1 DEF OnCourse
  <2>2. id # NoId => id \in Ids /\ Names(w, id)
    BY <1>1 DEF Typed, TypeOK, Client, Names
  <2>3. id # NoId => Untouched(w, id)
    BY <2>2
  <2>4. QED BY <2>1, <2>3, AtKept DEF Ready, Unlocked, Unwritten, Untouched
<1>2. ASSUME NEW x \in Requests, req'[x].by = w, NEW q, q = req[x]
      PROVE  req'[x] = q /\ Stage(w, q)'
  <2>1. req'[x] = q /\ q.by = w /\ Stage(w, q)
    BY <1>2 DEF OnCourse
  <2>2. q \in Request /\ RequestWhole(q) /\ q.at # "free"
    BY <1>2, <2>1, FreeFields, Roles DEF Typed, TypeOK, RequestWhole
  <2>3. q.id # NoId => q.id \in Ids /\ Names(w, q.id)
    BY <1>2, <2>1, <2>2 DEF Request, Names
  <2>4. q.id = NoId => w \in Creators /\ q.chunk = 0 /\ q.at \in {"free", "sent"}
    BY <2>1, <2>2, NullAssumption, Roles DEF RequestWhole, Stage
  <2>5. QED BY <2>1, <2>3, <2>4, StageKept
<1>3. client'[w].phase \in {"download", "sending"} => Ready(w, client[w].id, client[w].chunk)'
  <2>1. ASSUME NEW id, id = client[w].id, NEW n, n = client[w].chunk, client'[w].phase \in {"download", "sending"}
        PROVE  Ready(w, client[w].id, client[w].chunk)'
    <3>1. Ready(w, id, n)' /\ id = client'[w].id /\ n = client'[w].chunk
      BY <1>1, <2>1
    <3>2. QED BY <3>1, ReadyOf
  <2>2. QED BY <2>1
<1>4. ASSUME NEW x \in Requests, req'[x].by = w PROVE Stage(w, req[x])'
  <2>1. ASSUME NEW q, q = req[x] PROVE Stage(w, req[x])'
    <3>1. q = req'[x] /\ Stage(w, q)'
      BY <1>2, <1>4, <2>1
    <3>2. QED BY <3>1, StageOf
  <2>2. QED BY <2>1
<1>5. client'[w].phase # "failed" /\ (client'[w].phase = "download" => bucket'[Recorded] = Object(Old))
  BY DEF OnCourse
<1>6. QED BY <1>3, <1>4, <1>5 DEF OnCourse

\* A handler of another file.
LEMMA Foreign ==
    ASSUME Typed, Linked, NEW r \in Requests, Handling(r), NEW w, NEW id \in Ids,
           Key(w, id) \in Keys, Key(w, id)[2] = id, req[r].id # id
    PROVE  Untouched(w, id)
<1> DEFINE k == Key(w, id)
           u == session[k].upload
<1>0. /\ k \in Keys /\ k[2] = id /\ KeyOf(w, id) = u
      /\ Open(u) => u \in Uploads /\ multi[u].id = id /\ id # NoId
      /\ u # NoUpload => \A l \in Keys : session[l].upload = u => l = k
  BY NullAssumption DEF KeyOf, Open, Linked
<1> DEFINE Q == /\ session'[k].upload = u
                /\ Open(u) => multi'[u].id = multi[u].id /\ multi'[u].parts = multi[u].parts
                /\ rows'[id] = rows[id]
<1> SUFFICES Q
  BY <1>0 DEF Untouched, Open
<1> HIDE DEF k
<1>1. CASE Checking(r)
  <2>1. SameUploads /\ rows' = rows
    BY <1>1 DEF Checking, Refusing, Naming, Locking, Missing, Finding, Admitted, Rest, SameUploads
  <2>2. SameSessions
    BY <1>1 DEF Checking, Refusing, Naming, Locking, Missing, Finding, SameSessions, OtherSessions
  <2>3. QED BY <1>0, <2>1, <2>2 DEF SameUploads, SameSessions
<1>2. CASE Failing(r) \/ Denying(r)
  BY <1>2 DEF Failing, Denying, Rest
<1>3. CASE Recording(r)
  BY <1>3 DEF Recording
<1>4. ASSUME NEW v \in FreshUploads, Beginning(r, v) PROVE Q
  <2>1. KeyAt(r) # k /\ rows' = rows /\ OtherSessions(KeyAt(r)) /\ OtherUploads(v) /\ ~Open(v)
    BY <1>0, <1>4, InMemory DEF Beginning, Rest, FreshUploads
  <2>2. QED BY <1>0, <2>1 DEF OtherSessions, OtherUploads
<1>5. CASE Adding(r)
  <2>1. /\ session' = session /\ rows' = rows /\ OtherUploads(req[r].upload)
        /\ multi[req[r].upload].id = req[r].id
    BY <1>5 DEF Adding, Rest, Linked
  <2>2. QED BY <1>0, <2>1 DEF OtherUploads
<1>6. CASE Making(r)
  <2>1. /\ KeyAt(r) # k /\ rows' = rows /\ Shut(req[r].upload) /\ (session' = session \/ Forgets(KeyAt(r)))
        /\ multi[req[r].upload].id = req[r].id
    BY <1>0, <1>6, InMemory DEF Making, Completable, Linked
  <2>2. QED BY <1>0, <2>1 DEF OtherSessions, Forgets, Shut, OtherUploads
<1>7. CASE Catching(r)
  <2>1. /\ KeyAt(r) \in Keys /\ KeyAt(r) # k /\ rows' = rows /\ Forgets(KeyAt(r))
        /\ multi' = multi \/ Shut(session[KeyAt(r)].upload)
    BY <1>0, <1>7, InMemory DEF Catching, Rest
  <2>2. Open(u) => u # session[KeyAt(r)].upload
    BY <1>0, <2>1, NullAssumption DEF Open
  <2>3. QED BY <1>0, <2>1, <2>2 DEF OtherSessions, Forgets, Shut, OtherUploads
<1>8. QED BY <1>1, <1>2, <1>3, <1>4, <1>5, <1>6, <1>7 DEF Handling

\* What Stage says of a request, and the files' state, when nothing went wrong.
LEMMA Undisturbed ==
    ASSUME Removed, Told, scars = {}
    PROVE  /\ share /\ rows[Recorded] # 0 /\ \A id : ~Late(id)
           /\ \A r \in Requests : req[r].at = "record" => bucket[req[r].id] # Absent
<1>1. \A kinds : ~Scarred(kinds)
  BY DEF Scarred
<1>2. \A r \in Requests : req[r].at = "record" => Renewed(req[r].id)
  BY <1>1 DEF Told, Late
<1>3. QED BY <1>1, <1>2, ObjectFacts DEF Removed, Late, Renewed

\* A worker's own request is let in, is refused nothing, and comes to its next step.
LEMMA OwnCheck ==
    ASSUME Typed, Removed, Told, scars = {}, NEW r \in Requests, Checking(r),
           NEW w \in Workers, w = req[r].by, Stage(w, req[r]), NEW q, q = req'[r]
    PROVE  Stage(w, q)'
<1> DEFINE id == req[r].id
           n == req[r].chunk
<1>0. /\ req[r].at = "sent" /\ n \in Chunks /\ n # Total /\ share /\ rows[Recorded] # 0
      /\ (w \in Rekeyers => id = Recorded) /\ (w \in Creators \/ w \in Rekeyers) /\ ~(w \in Creators /\ w \in Rekeyers)
      /\ (n = 0 /\ w \in Creators) \/ At(w, id, n)
      /\ Unlocked(w, n) /\ Unwritten(w, id)
  <2>1. req[r].at = "sent"
    BY DEF Checking, Refusing, Naming, Locking, Missing, Finding, Admitted
  <2>2. n \in Chunks /\ RequestWhole(req[r])
    BY <2>1, Served DEF Typed
  <2>3. QED BY <2>1, <2>2, Span, Roles, Undisturbed DEF Stage, RequestWhole
<1>1. ~Refusing(r)
  BY <1>0 DEF Refusing, Unlocked
<1>2. ~Missing(r)
  BY <1>0, NullAssumption DEF Missing, Admitted, At, KeyOf, KeyAt, Open
<1>3. CASE Naming(r)
  <2>1. /\ q.at = "init" /\ q.id \in FreshIds /\ session' = session /\ rows' = rows /\ w \in Creators
    BY <1>3 DEF Naming, Rest
  <2>2. q.id \in Ids \ {Recorded} /\ session[<<"create", q.id>>] = NoSession /\ rows[q.id] = 0
    BY <2>1, FreshId
  <2>3. Key(w, q.id) = <<"create", q.id>>
    BY <2>1 DEF Key
  <2>4. KeyOf(w, q.id)' = NoUpload
    BY <2>1, <2>2, <2>3, NoSessionFields DEF KeyOf
  <2>5. At(w, q.id, 0)' /\ Unwritten(w, q.id)'
    BY <2>1, <2>2, <2>4 DEF At, Unwritten
  <2>6. QED BY <2>1, <2>5 DEF Stage
<1>4. CASE Locking(r)
  <2>1. q.at = "init" /\ q.id = id /\ session' = session /\ w \in Rekeyers /\ n = 0
    BY <1>4 DEF Locking, Goes
  <2>2. At(w, q.id, 0)' /\ Unwritten(w, q.id)'
    BY <1>0, <2>1 DEF At, KeyOf, Unwritten
  <2>3. QED BY <2>1, <2>2 DEF Stage
<1>5. CASE Finding(r)
  <2> DEFINE u == session[KeyAt(r)].upload
  <2>1. /\ q.at = "part" /\ q.id = id /\ q.upload = u /\ q.chunk = n /\ rows' = rows /\ n # 0
        /\ session'[KeyAt(r)].upload = u /\ SameUploads /\ KeyAt(r) = Key(w, q.id)
    BY <1>5 DEF Finding, Admitted, Rest, Same, KeyAt
  <2>2. Open(u) /\ multi[u].parts = Prefix(w, n) /\ KeyOf(w, q.id) = u
    BY <1>0, <2>1 DEF At, KeyOf
  <2>3. Open(q.upload)' /\ multi'[q.upload].parts = Prefix(w, n) /\ KeyOf(w, q.id)' = q.upload
    BY <2>1, <2>2 DEF Open, SameUploads, KeyOf
  <2>4. Unwritten(w, q.id)'
    BY <1>0, <2>1 DEF Unwritten
  <2>5. QED BY <2>1, <2>3, <2>4 DEF Stage
<1>6. QED BY <1>1, <1>2, <1>3, <1>4, <1>5 DEF Checking

LEMMA OwnStep ==
    ASSUME Typed, Linked, Alones, Removed, Told, Kinds, scars = {}, scars' = {},
           NEW r \in Requests, Handling(r), ~Checking(r), req[r].heard,
           NEW w \in Workers, w = req[r].by, Stage(w, req[r]), NEW q, q = req'[r], NEW id, id = req[r].id,
           NEW n, n = req[r].chunk
    PROVE  Stage(w, q)'
<1>0. /\ req[r].at \in {"init", "part", "complete", "record", "catch"}
      /\ \A kind : ~Marks(kind)
  <2>1. \A kind : ~Marks(kind)
    BY CalmKinds
  <2>2. req[r].at \in {"init", "part", "complete", "record", "catch"}
    BY DEF Handling, Failing, Beginning, Adding, Making, Recording, Denying, Catching
  <2>3. QED BY <2>1, <2>2
<1>1. /\ id \in Ids /\ id # NoId /\ req[r].chunk \in Chunks /\ KeyAt(r) \in Keys /\ KeyAt(r) = Key(w, id)
      /\ RequestWhole(req[r]) /\ (w \in Rekeyers => id = Recorded) /\ (w \in Creators \/ w \in Rekeyers)
      /\ Unwritten(w, id) \/ req[r].at = "catch"
  BY <1>0, InMemory, NullAssumption, Roles DEF KeyAt, Stage
<1>2. rows' = rows => (Unwritten(w, id) => Unwritten(w, id)')
  BY DEF Unwritten
<1>3. ~Catching(r)
  BY DEF Catching, Stage
<1>4. ~Failing(r)
  <2>1. ASSUME Failing(r) PROVE FALSE
    <3>1. \/ req[r].at = "part" /\ ~Open(req[r].upload)
          \/ req[r].at = "complete" /\ ~Completable(req[r].upload)
          \/ req[r].at = "record" /\ w \in Rekeyers /\ (bucket[id] = Absent \/ rows[id] = 0)
      BY <1>0, <2>1 DEF Failing
    <3>2. req[r].at = "part" => Open(req[r].upload)
      BY DEF Stage
    <3>3. ASSUME req[r].at = "complete" PROVE Completable(req[r].upload)
      <4>1. Open(req[r].upload) /\ multi[req[r].upload].parts = Prefix(w, Total)
        BY <3>3 DEF Stage
      <4>2. Ascending(Prefix(w, Total))
        BY PrefixFacts, Span
      <4>3. QED BY <4>1, <4>2 DEF Completable
    <3>4. req[r].at = "record" => bucket[id] # Absent /\ rows[Recorded] # 0
      BY Undisturbed
    <3>5. QED BY <1>1, <3>1, <3>2, <3>3, <3>4
  <2>2. QED BY <2>1
<1>5. ~Denying(r)
  <2>1. ASSUME Denying(r) PROVE FALSE
    <3>1. req[r].at = "record" /\ w \in Creators /\ ~Possible(req[r])
      BY <1>0, <2>1 DEF Denying
    <3>2. bucket[id] # Absent /\ share /\ rows[id] = 0 /\ w \notin Rekeyers
      BY <1>1, <3>1, Undisturbed, Roles DEF Unwritten
    <3>3. QED BY <3>1, <3>2 DEF Possible
  <2>2. QED BY <2>1
<1>6. ASSUME NEW u \in FreshUploads, Beginning(r, u) PROVE Stage(w, q)'
  <2>1. /\ q.at = "part" /\ q.id = id /\ q.upload = u /\ q.chunk = req[r].chunk /\ req[r].at = "init"
        /\ session'[Key(w, id)].upload = u /\ multi'[u].id = id /\ multi'[u].parts = <<>> /\ rows' = rows
        /\ u \in Uploads
    BY <1>1, <1>6 DEF Beginning, Same, Rest, FreshUploads
  <2>2. q.chunk = 0
    BY <1>1, <2>1 DEF RequestWhole
  <2>3. KeyOf(w, id)' = u /\ Open(u)' /\ multi'[u].parts = Prefix(w, q.chunk)
    BY <1>1, <2>1, <2>2, PrefixFacts DEF KeyOf, Open
  <2>4. QED BY <1>1, <1>2, <2>1, <2>3 DEF Stage
<1>7. CASE Adding(r)
  <2> DEFINE u == req[r].upload
  <2>1. /\ req[r].at = "part" /\ session' = session /\ rows' = rows /\ lock' = lock /\ Open(u)
        /\ multi'[u].id = multi[u].id /\ multi'[u].parts = Append(multi[u].parts, [by |-> w, chunk |-> n])
        /\ IF n = LastChunk THEN Goes(r, "complete") ELSE Ends(r, TRUE)
    BY <1>7 DEF Adding, Rest
  <2>2. KeyOf(w, id) = u /\ multi[u].parts = Prefix(w, n)
    BY <2>1 DEF Stage
  <2>3. n \in Nat /\ n + 1 # 0 /\ (n = LastChunk <=> n + 1 = Total)
    <3>1. n \in Nat /\ LastChunk \in Nat /\ LastChunk + 1 = Total
      BY <1>1, Span
    <3>2. QED BY <3>1
  <2>4. multi'[u].parts = Prefix(w, n + 1) /\ KeyOf(w, id)' = u /\ multi'[u].id # NoId /\ u \in Uploads
    BY <2>1, <2>2, <2>3, PrefixFacts DEF KeyOf, Open
  <2>5. CASE n = LastChunk
    <3>1. q.at = "complete" /\ q.id = id /\ q.upload = u
      BY <2>1, <2>5 DEF Goes
    <3>2. Open(q.upload)' /\ multi'[q.upload].parts = Prefix(w, Total) /\ KeyOf(w, id)' = q.upload
      BY <2>3, <2>4, <2>5, <3>1 DEF Open
    <3>3. QED BY <1>1, <1>2, <2>1, <3>1, <3>2 DEF Stage
  <2>6. CASE n # LastChunk
    <3>1. q.at = "reply" /\ q.id = id /\ q.ok /\ q.chunk = n
      BY <2>1, <2>6 DEF Ends, Same
    <3>2. At(w, id, n + 1)'
      BY <2>3, <2>4, <2>6 DEF At, Open, KeyOf
    <3>3. Unlocked(w, n + 1)'
      <4>1. w \in Rekeyers => lock = w
        BY <1>1, <2>1, Undisturbed DEF Alones, Alone, Busy
      <4>2. QED BY <2>1, <2>3, <2>6, <4>1, Roles DEF Unlocked
    <3>4. QED BY <1>1, <1>2, <2>1, <3>1, <3>2, <3>3 DEF Stage
  <2>7. QED BY <2>5, <2>6
<1>8. CASE Making(r)
  <2>1. /\ q.at = "record" /\ q.id = id /\ session'[Key(w, id)] = NoSession /\ rows' = rows /\ req[r].at = "complete"
    BY <1>0, <1>1, <1>8 DEF Making, Goes, Forgets
  <2>2. KeyOf(w, id)' = NoUpload
    BY <2>1, NoSessionFields DEF KeyOf
  <2>3. QED BY <1>1, <1>2, <2>1, <2>2 DEF Stage
<1>9. CASE Recording(r)
  <2>1. /\ q.at = "reply" /\ q.id = id /\ q.ok /\ q.chunk = req[r].chunk /\ req[r].at = "record" /\ session' = session
        /\ Unlocks(r)
    BY <1>9 DEF Recording, Ends, Same
  <2>2. q.chunk = LastChunk /\ KeyOf(w, id) = NoUpload
    BY <1>1, <2>1 DEF RequestWhole, Stage
  <2>3. q.chunk + 1 = Total
    BY <2>2, Span
  <2>4. At(w, id, Total)' /\ Unlocked(w, Total)'
    BY <2>1, <2>2 DEF At, KeyOf, Unlocked, Unlocks
  <2>5. QED BY <2>1, <2>2, <2>3, <2>4 DEF Stage
<1>10. QED BY <1>3, <1>4, <1>5, <1>6, <1>7, <1>8, <1>9 DEF Handling

\* A worker has one request when none was given up.
LEMMA OnlyOne ==
    ASSUME Typed, Waits, AllHeard, NEW r \in Requests, NEW x \in Requests, req[r].at # "free",
           req[x].by = req[r].by
    PROVE  x = r
<1>1. req[r].by \in Workers
  BY Served
<1>2. req[x].at # "free"
  BY <1>1, FreeFields, Roles DEF Typed, RequestWhole
<1>3. QED BY <1>2 DEF AllHeard, Waits, Single

\* Who is absent stays so, and only who is absent is.
LEMMA CrowdStays ==
    ASSUME Removed, Kinds, scars' = {}, NEW w \in Workers, w \notin Crowd'
    PROVE  w \notin Crowd
<1>1. ASSUME NEW v \in Workers, client[v].phase # "absent" PROVE client'[v].phase # "absent"
  <2>1. CASE Aside
    BY <1>1, <2>1, AsideKeeps
  <2>2. ASSUME NEW x \in Workers, NEW r \in Requests, Sending(x, r) PROVE client'[v].phase # "absent"
    BY <1>1, <2>2 DEF Sending, OtherWorkers
  <2>3. ASSUME NEW r \in Requests, Hearing(r) PROVE client'[v].phase # "absent"
    BY <1>1, <2>3 DEF Hearing, Forth, Back, BackTo, Again, OtherWorkers
  <2>4. ASSUME NEW r \in Requests, Handling(r) PROVE client'[v].phase # "absent"
    BY <1>1, <2>4, HandlingServes DEF Serving
  <2>5. ASSUME NEW x \in Workers, Fetching(x) PROVE client'[v].phase # "absent"
    BY <1>1, <2>5 DEF Fetching, OtherWorkers
  <2>6. QED BY <2>1, <2>2, <2>3, <2>4, <2>5, CalmKinds DEF Aside
<1>2. QED BY <1>1, Roles DEF Crowd

\* Steps of the timer, the clock and the network leave a file untouched.
LEMMA IdleTouches ==
    ASSUME SameSessions, \A u \in Uploads : Open(u) => multi'[u].id = multi[u].id /\ multi'[u].parts = multi[u].parts,
           rows' = rows, NEW w, NEW id, Key(w, id) \in Keys
    PROVE  Untouched(w, id)
BY DEF SameSessions, Untouched, KeyOf, Open

LEMMA AsideTouches ==
    ASSUME Typed, Dropping, AllOpen, AbortPaused, scars = {}, scars' = {}, UNCHANGED vars \/ Timeful \/ Ticking
    PROVE  /\ UNCHANGED <<client, req, lock, rows, bucket>> /\ SameSessions
           /\ \A u \in Uploads : Open(u) => multi'[u].id = multi[u].id /\ multi'[u].parts = multi[u].parts
<1>1. CASE UNCHANGED vars
  BY <1>1 DEF vars, memory, storage, database, SameSessions
<1>2. CASE Timeful
  <2>1. UNCHANGED <<client, req, lock, rows, bucket>>
    BY <1>2 DEF Timeful, Listing, Skipping, Choosing, Aborting, Dismissing, Cleans
  <2>2. QED BY <1>2, <2>1, TimerIdle
<1>3. CASE Ticking
  BY <1>3 DEF Ticking, SameUploads
<1>4. QED BY <1>1, <1>2, <1>3

\* A step of somebody else's.
LEMMA OthersCourse ==
    ASSUME Typed, Waits, Linked, Owned, NEW w \in Workers, w \notin Crowd, OnCourse(w),
           NEW r \in Requests, Handling(r), req[r].by # w
    PROVE  OnCourse(w)'
<1>1. /\ client' = client /\ Others(r) /\ req[r].at \notin {"free", "reply"} /\ req'[r].by # w
  BY HandlingServes, FreeFields, Roles DEF Serving, Same
<1>2. req[r].by \in Workers /\ client[req[r].by].phase # "absent"
  BY <1>1, Served DEF Waits
<1>3. w \in Rekeyers => req[r].by \in Creators
  BY <1>2, Roles DEF Crowd
<1>4. ASSUME NEW id \in Ids, Names(w, id) PROVE Untouched(w, id)
  <2>1. /\ w \in Rekeyers <=> id = Recorded
        /\ Key(w, id) \in Keys /\ Key(w, id)[2] = id
    BY <1>4, NamesRole
  <2>2. req[r].id # id
    <3>1. CASE w \in Rekeyers
      BY <1>1, <1>3, <2>1, <3>1 DEF Typed, RequestWhole
    <3>2. CASE w \notin Rekeyers
      <4>1. req[r].id = id => Names(req[r].by, id)
        BY DEF Names
      <4>2. \A v \in Workers : Names(v, id) => v = w
        BY <1>4, <2>1, <3>2 DEF Owned
      <4>3. QED BY <1>2, <4>1, <4>2
    <3>3. QED BY <3>1, <3>2
  <2>3. QED BY <2>1, <2>2, Foreign
<1>5. w \in Rekeyers => lock' = lock
  <2>1. ASSUME req[r].by \in Creators PROVE lock' = lock
    <3>1. req[r].by \notin Rekeyers
      BY <2>1, Roles
    <3>2. QED BY <3>1 DEF Handling, Checking, Refusing, Naming, Locking, Missing, Finding, Admitted, Failing,
                     Beginning, Adding, Making, Recording, Denying, Catching, Unlocks
  <2>2. QED BY <1>3, <2>1
<1>6. \A x \in Requests : req[x].by = w \/ req'[x].by = w => req'[x] = req[x]
  BY <1>1 DEF Others
<1>7. client[w].phase = "download" => bucket'[Recorded] = bucket[Recorded]
  <2>1. ASSUME w \in Rekeyers PROVE bucket'[Recorded] = bucket[Recorded]
    <3>1. req[r].id # Recorded
      BY <1>1, <1>3, <2>1 DEF Typed, RequestWhole
    <3>2. Recorded \in Ids
      BY NullAssumption
    <3>3. CASE Making(r)
      BY <3>1, <3>2, <3>3 DEF Making
    <3>4. CASE ~Making(r)
      BY <1>1, <3>4 DEF Handling, Checking, Refusing, Naming, Locking, Missing, Finding, Admitted, Failing,
                        Beginning, Adding, Recording, Denying, Catching, Rest
    <3>5. QED BY <3>3, <3>4
  <2>2. QED BY <2>1 DEF Typed, ClientWhole
<1>8. QED BY <1>1, <1>4, <1>5, <1>6, <1>7, OnCourseKept

\* A worker sends its next chunk.
LEMMA SendingCourse ==
    ASSUME Typed, NEW w \in Workers, OnCourse(w), NEW r \in Requests, Sending(w, r),
           \A x \in Requests : req[x].by # w
    PROVE  OnCourse(w)'
<1>1. /\ client'[w].phase = "waiting" /\ Others(r) /\ World /\ client[w].phase = "sending"
      /\ req'[r].at = "sent" /\ req'[r].id = client[w].id /\ req'[r].chunk = client[w].chunk
  BY DEF Sending
<1>2. ASSUME NEW q, q = req'[r] PROVE Stage(w, q)'
  <2>1. Ready(w, q.id, q.chunk) /\ q.at = "sent"
    BY <1>1, <1>2 DEF OnCourse
  <2>2. q.id = NoId => w \in Creators /\ q.chunk = 0
    BY <1>1, <1>2, NullAssumption, Roles DEF Typed, ClientWhole
  <2>3. Stage(w, q)
    BY <2>1, <2>2 DEF Ready, Stage
  <2>4. q.id # NoId => Untouched(w, q.id)
    BY <1>1 DEF World, Untouched, KeyOf, Open
  <2>5. lock' = lock
    BY <1>1 DEF World
  <2>6. QED BY <2>1, <2>2, <2>3, <2>4, <2>5, StageKept
<1>3. Stage(w, req[r])'
  BY <1>2, StageOf
<1>4. ASSUME NEW x \in Requests, req'[x].by = w PROVE Stage(w, req[x])'
  <2>1. x = r
    BY <1>1, <1>4 DEF Others
  <2>2. QED BY <1>3, <2>1
<1>5. QED BY <1>1, <1>4 DEF OnCourse

\* A worker hears that a chunk is stored.
LEMMA HearingCourse ==
    ASSUME Typed, Waits, NEW w \in Workers, OnCourse(w), NEW r \in Requests, Hearing(r), req[r].by = w,
           \A x \in Requests : req[x].by = w => x = r
    PROVE  OnCourse(w)'
<1>1. /\ req[r].at = "reply" /\ req[r].ok /\ Forth(w, req[r].id) /\ World
      /\ Others(r) /\ req'[r] = Free
      /\ Stage(w, req[r])
  BY DEF Hearing, OnCourse, Stage, Vanishes
<1>2. client[w].chunk = req[r].chunk
  BY <1>1, Heedful DEF Typed, RequestWhole
<1>3. ASSUME NEW id, id = client'[w].id, NEW n, n = client'[w].chunk, client'[w].phase = "sending"
      PROVE  Ready(w, id, n)'
  <2>1. id = req[r].id /\ n = req[r].chunk + 1 /\ req[r].chunk # LastChunk
    BY <1>1, <1>2, <1>3 DEF Forth
  <2>2. At(w, id, n) /\ Unlocked(w, n) /\ Unwritten(w, id)
    BY <1>1, <2>1 DEF Stage
  <2>3. Untouched(w, id) /\ lock' = lock
    BY <1>1 DEF World, Untouched, KeyOf, Open
  <2>4. QED BY <2>2, <2>3, AtKept DEF Ready, Unlocked, Unwritten, Untouched
<1>4. ASSUME client'[w].phase = "sending" PROVE Ready(w, client[w].id, client[w].chunk)'
  BY <1>3, <1>4, ReadyOf
<1>5. \A x \in Requests : req'[x].by # w
  BY <1>1, FreeFields, Roles DEF Others
<1>6. client'[w].phase \notin {"download", "failed"}
  BY <1>1 DEF Forth
<1>7. QED BY <1>4, <1>5, <1>6 DEF OnCourse

\* A tab has the file it downloads.
LEMMA FetchingCourse ==
    ASSUME Typed, Waits, Removed, Told, AllHeard, scars = {}, scars' = {},
           NEW w \in Workers, OnCourse(w), Fetching(w)
    PROVE  OnCourse(w)'
<1>1. /\ client[w].phase = "download" /\ client[w].id = Recorded /\ client[w].chunk = 0 /\ w \in Rekeyers
      /\ client'[w].id = Recorded /\ client'[w].chunk = 0 /\ req' = req /\ World
  BY DEF Fetching
<1>2. Fetchable
  <2>1. bucket[Recorded] = Object(Old)
    BY <1>1 DEF OnCourse
  <2>2. Readable(Recorded)
    BY <2>1, ObjectFacts DEF Readable, Object
  <2>3. QED BY <2>2, Undisturbed DEF Fetchable
<1>3. client'[w].phase = "sending"
  BY <1>2 DEF Fetching, Marks
<1>4. Ready(w, Recorded, 0)'
  <2>1. Ready(w, Recorded, 0) /\ Recorded # NoId
    BY <1>1, NullAssumption DEF OnCourse
  <2>2. Untouched(w, Recorded) /\ lock' = lock
    BY <1>1 DEF World, Untouched, KeyOf, Open
  <2>3. QED BY <2>1, <2>2, AtKept DEF Ready, Unlocked, Unwritten, Untouched
<1>5. Ready(w, client[w].id, client[w].chunk)'
  BY <1>1, <1>4, ReadyOf
<1>6. ASSUME NEW x \in Requests, req'[x].by = w PROVE FALSE
  <2>1. req[x].at # "free" /\ req[x].by = w
    BY <1>1, <1>6, FreeFields, Roles DEF Typed, RequestWhole
  <2>2. req[x].heard
    BY <2>1 DEF AllHeard
  <2>3. QED BY <1>1, <2>1, <2>2, Heedful
<1>7. QED BY <1>3, <1>5, <1>6 DEF OnCourse

LEMMA CourseNext ==
    ASSUME Typed, Waits, Linked, Owned, Alones, Removed, Told, Dropping, Calm, Kinds, scars' = {},
           NEW w \in Workers, w \notin Crowd'
    PROVE  OnCourse(w)'
<1>1. scars = {} /\ w \notin Crowd /\ AllOpen /\ AbortPaused /\ AllHeard /\ OnCourse(w)
  BY CalmKinds, CrowdStays DEF Calm
<1>2. ASSUME NEW id \in Ids, Names(w, id) PROVE Key(w, id) \in Keys
  BY <1>2, NamesRole
<1>3. CASE UNCHANGED vars \/ Timeful \/ Ticking
  <2>1. /\ UNCHANGED <<client, req, lock, rows, bucket>> /\ SameSessions
        /\ \A u \in Uploads : Open(u) => multi'[u].id = multi[u].id /\ multi'[u].parts = multi[u].parts
    BY <1>1, <1>3, AsideTouches
  <2>2. \A id \in Ids : Names(w, id) => Untouched(w, id)
    BY <1>2, <2>1, IdleTouches
  <2>3. QED BY <1>1, <2>1, <2>2, OnCourseKept
<1>4. World => \A id : Untouched(w, id)
  BY DEF World, Untouched, KeyOf, Open
<1>5. ASSUME NEW v \in Workers, NEW r \in Requests, Sending(v, r) PROVE OnCourse(w)'
  <2>1. CASE v = w
    <3>1. ASSUME NEW x \in Requests, req[x].by = w PROVE FALSE
      <4>1. req[x].at # "free"
        BY <3>1, FreeFields, Roles DEF Typed, RequestWhole
      <4>2. req[x].heard
        BY <1>1, <4>1 DEF AllHeard
      <4>3. client[w].phase = "waiting"
        BY <3>1, <4>2, Heedful
      <4>4. QED BY <1>5, <2>1, <4>3 DEF Sending
    <3>2. QED BY <1>1, <1>5, <2>1, <3>1, SendingCourse
  <2>2. CASE v # w
    <3>1. /\ client'[w] = client[w] /\ World /\ Others(r) /\ req'[r].by = v /\ req[r].by = Nobody
      BY <1>5, <2>2, FreeFields DEF Sending, OtherWorkers
    <3>2. \A x \in Requests : req[x].by = w \/ req'[x].by = w => req'[x] = req[x]
      BY <2>2, <3>1, Roles DEF Others
    <3>3. QED BY <1>1, <1>4, <3>1, <3>2, OnCourseKept DEF World
  <2>3. QED BY <2>1, <2>2
<1>6. ASSUME NEW r \in Requests, Hearing(r) PROVE OnCourse(w)'
  <2>0. req[r].at # "free"
    BY <1>6 DEF Hearing
  <2>1. CASE req[r].by = w
    BY <1>1, <1>6, <2>0, <2>1, OnlyOne, HearingCourse
  <2>2. CASE req[r].by # w
    <3>1. client'[w] = client[w] /\ World /\ Others(r) /\ req'[r].by = Nobody
      BY <1>6, <2>2, FreeFields DEF Hearing, Forth, Back, OtherWorkers, Vanishes
    <3>2. \A x \in Requests : req[x].by = w \/ req'[x].by = w => req'[x] = req[x]
      BY <2>2, <3>1, Roles DEF Others
    <3>3. QED BY <1>1, <1>4, <3>1, <3>2, OnCourseKept DEF World
  <2>3. QED BY <2>1, <2>2
<1>7. ASSUME NEW r \in Requests, Handling(r) PROVE OnCourse(w)'
  <2>1. CASE req[r].by # w
    BY <1>1, <1>7, <2>1, OthersCourse
  <2>2. CASE req[r].by = w
    <3>1. client' = client /\ Others(r) /\ req[r].at # "free"
      BY <1>7, HandlingServes DEF Serving
    <3>2. Stage(w, req[r]) /\ req[r].heard /\ client[w].phase = "waiting"
      BY <1>1, <2>2, <3>1, Heedful DEF OnCourse, AllHeard
    <3>3. ASSUME NEW q, q = req'[r] PROVE Stage(w, q)'
      <4>1. CASE Checking(r)
        BY <1>1, <2>2, <3>2, <3>3, <4>1, OwnCheck
      <4>2. CASE ~Checking(r)
        BY <1>1, <1>7, <2>2, <3>2, <3>3, <4>2, OwnStep
      <4>3. QED BY <4>1, <4>2
    <3>4. Stage(w, req[r])'
      BY <3>3, StageOf
    <3>5. ASSUME NEW x \in Requests, req'[x].by = w PROVE x = r
      <4>1. CASE x # r
        <5>1. req[x].by = req[r].by
          BY <2>2, <3>1, <3>5, <4>1 DEF Others
        <5>2. QED BY <1>1, <3>1, <5>1, OnlyOne
      <4>2. QED BY <4>1
    <3>6. QED BY <3>1, <3>2, <3>4, <3>5 DEF OnCourse
  <2>3. QED BY <2>1, <2>2
<1>8. ASSUME NEW v \in Workers, Fetching(v) PROVE OnCourse(w)'
  <2>1. CASE v = w
    BY <1>1, <1>8, <2>1, FetchingCourse
  <2>2. CASE v # w
    <3>1. client'[w] = client[w] /\ World /\ req' = req
      BY <1>8, <2>2 DEF Fetching, OtherWorkers
    <3>2. QED BY <1>1, <1>4, <3>1, OnCourseKept DEF World
  <2>3. QED BY <2>1, <2>2
<1>9. QED BY <1>3, <1>5, <1>6, <1>7, <1>8, CalmKinds

LEMMA CalmNext ==
    ASSUME Typed, Waits, Linked, Owned, Alones, Removed, Told, Dropping, Known, Timed, Calm, Kinds
    PROVE  Calm'
<1> SUFFICES ASSUME scars' = {} PROVE AllOpen' /\ AbortPaused' /\ AllHeard' /\ \A w \in Workers \ Crowd' : OnCourse(w)'
  BY DEF Calm
<1>1. AllOpen /\ AbortPaused /\ AllHeard
  BY CalmKinds DEF Calm
<1>2. QED BY <1>1, AllOpenNext, AbortPausedNext, AllHeardNext, CourseNext

LEMMA CalmInit == Init => Calm
<1> SUFFICES ASSUME Init PROVE Calm
  OBVIOUS
<1>1. /\ \A k \in Keys : session[k].upload = NoUpload
      /\ \A r \in Requests : req[r].at = "free" /\ req[r].by = Nobody
      /\ timer.at = "off" /\ lock = Nobody /\ bucket[Recorded] = Object(Old)
  BY NoSessionFields, FreeFields, TimerOffType, NullAssumption DEF Init
<1>2. \A w \in Workers : /\ client[w].phase \in {"sending", "absent", "download"} /\ client[w].chunk = 0
                         /\ client[w].id = IF w \in Creators THEN NoId ELSE Recorded
  BY DEF Init
<1>3. ASSUME NEW w \in Workers PROVE Ready(w, client[w].id, client[w].chunk)
  <2>1. CASE w \in Creators
    BY <1>1, <1>2, <2>1, Roles DEF Ready, Unlocked, Unwritten
  <2>2. CASE w \in Rekeyers
    <3>1. client[w].id = Recorded /\ Key(w, Recorded) = KeyR /\ KeyR \in Keys /\ w \notin Creators
      BY <1>2, <2>2, KeyFacts, KeysApart, Roles, NullAssumption
    <3>2. QED BY <1>1, <1>2, <2>2, <3>1 DEF Ready, At, KeyOf, Unlocked, Unwritten
  <2>3. QED BY <2>1, <2>2, Roles
<1>4. \A w \in Workers : OnCourse(w)
  BY <1>1, <1>2, <1>3, Roles DEF OnCourse
<1>5. AllOpen /\ AbortPaused /\ AllHeard
  BY <1>1 DEF AllOpen, AbortPaused, AllHeard
<1>6. QED BY <1>4, <1>5 DEF Calm

-----------------------------------------------------------------------------
(* The theorems. *)

IndInv ==
    /\ Typed /\ Waits /\ Linked /\ Owned /\ Stored /\ Alones /\ Lines
    /\ Removed /\ Stocked /\ Told /\ Dropping /\ Known /\ Timed /\ Calm

LEMMA Start == Init => IndInv
BY TypedInit, WaitsInit, LinkedInit, OwnedInit, StoredInit, AlonesInit, LinesInit, RemovedInit, StockedInit,
   ToldInit, DroppingInit, KnownInit, TimedInit, CalmInit
   DEF IndInv

LEMMA Steps == ASSUME IndInv, [Next]_vars PROVE IndInv'
<1>1. /\ Typed /\ Waits /\ Linked /\ Owned /\ Stored /\ Alones /\ Lines
      /\ Removed /\ Stocked /\ Told /\ Dropping /\ Known /\ Timed /\ Calm
  BY DEF IndInv
<1>2. Typed' /\ Kinds
  BY <1>1, TypedNext
<1>3. Waits' /\ Linked'
  BY <1>1, <1>2, WaitsNext, LinkedNext
<1>4. Owned' /\ Stored'
  BY <1>1, <1>2, OwnedNext, StoredNext
<1>5. Alones' /\ Lines'
  BY <1>1, <1>2, <1>3, AlonesNext, LinesNext
<1>6. Removed' /\ Stocked' /\ Told'
  BY <1>1, <1>2, RemovedNext, StockedNext, ToldNext
<1>7. Dropping' /\ Known' /\ Timed' /\ Calm'
  BY <1>1, <1>2, DroppingNext, KnownNext, TimedNext, CalmNext
<1>8. QED BY <1>2, <1>3, <1>4, <1>5, <1>6, <1>7 DEF IndInv

\* The inductive invariant: what the handlers, the timer, the jobs and the workers know of
\* the bucket's uploads between any two of their awaited calls.
THEOREM Invariants == Spec => []IndInv
BY Start, Steps, PTL DEF Spec

\* The state has its types whatever is sent, given up, lost, aborted or restarted.
THEOREM TypeCorrect == Spec => []TypeOK
<1>1. IndInv => TypeOK
  BY DEF IndInv, Typed
<1>2. QED BY <1>1, Invariants, PTL

\* create and replace: a file with a row has the whole object of one worker, of the size
\* that is recorded, and an object without a row is about to get one or a fault left it.
THEOREM ObjectsCorrect == Spec => []ObjectsMatchRows
<1>1. IndInv => ObjectsMatchRows
  <2> SUFFICES ASSUME IndInv, NEW id \in Ids
               PROVE  /\ rows[id] # 0 /\ ~Removing /\ ~Late(id) => Whole(id) /\ rows[id] = Total
                      /\ bucket[id] # Absent /\ rows[id] = 0 =>
                            \/ \E r \in Requests : req[r].at = "record" /\ req[r].id = id
                            \/ Scarred({"crash", "error", "remove"})
    BY DEF ObjectsMatchRows, Whole
  <2>1. /\ ~Late(id) => (bucket[id] # Absent => Whole(id)) /\ (rows[id] # 0 => rows[id] = Total)
        /\ ~Late(id) => (rows[id] # 0 /\ bucket[id] = Absent => Gone(id))
        /\ bucket[id] # Absent /\ rows[id] = 0 =>
              \/ \E r \in Requests : req[r].at = "record" /\ req[r].id = id
              \/ Scarred({"crash", "error", "remove"})
    BY DEF IndInv, Stocked
  <2>2. Gone(id) => Removing
    BY DEF Gone, Removing
  <2>3. QED BY <2>1, <2>2
<1>2. QED BY <1>1, Invariants, PTL

\* The workers: what they show as uploaded is stored and listed; and they fail only after a
\* fault, a pause, the job's end of an upload or beside another tab, so that the timer alone
\* ends no active upload.  (The job may: the statement excuses it by name.)
THEOREM WorkersCorrect == Spec => []WorkersTellTrue
<1>1. IndInv => WorkersTellTrue
  <2> SUFFICES ASSUME IndInv, NEW w \in Workers
               PROVE  /\ client[w].phase = "done" /\ ~Scarred({"remove"}) /\ ~Late(client[w].id) =>
                            rows[client[w].id] = Total /\ Renewed(client[w].id)
                      /\ client[w].phase = "failed" => scars # {} \/ w \in Crowd
    BY DEF WorkersTellTrue, Renewed
  <2>1. Told /\ Calm
    BY DEF IndInv
  <2>2. QED BY <2>1 DEF Told, Calm, OnCourse
<1>2. QED BY <1>1, Invariants, PTL

\* cleanupAbandonedUploads: an upload that S3 holds parts of is in the map, where the timer
\* finds it, unless S3 failed, the server restarted or an entry was dropped for another.
THEOREM OpenCorrect == Spec => []OpenUploadsKnown
<1>1. IndInv => OpenUploadsKnown
  BY DEF IndInv, Known, OpenUploadsKnown
<1>2. QED BY <1>1, Invariants, PTL
===============================================================================
