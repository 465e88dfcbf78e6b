-------------------------- MODULE LocalUpload_proofs --------------------------
(***************************************************************************)
(* Theorems about LocalUpload, for any number of files, chunks, requests   *)
(* and faults, and any sizes.                                              *)
(***************************************************************************)
EXTENDS LocalUpload, FiniteSetTheorems, SequenceTheorems, TLAPS

-----------------------------------------------------------------------------
(* Inductive invariants. *)

\* TypeOK, what a request and a worker are at each of their steps, and whose an id is.
RequestWhole(q) ==
    /\ q.at = "free" => q = Free
    /\ q.at # "free" => q.upload \in Uploads
    /\ q.at = "sent" => (q.chunk = 0 <=> q.id = NoId)
    /\ q.at \in {"append", "rename", "record"} => q.id \in Ids
    /\ q.at \in {"rename", "record"} => q.chunk = LastChunk
    /\ q.at = "reply" => q.heard
    /\ q.at = "reply" /\ q.reply = "ok" => q.id \in Ids
    /\ q.heard => q.at # "free"
RequestOwned(q) == q.id \in Ids => owner[q.id] = q.upload
WorkerWhole(c) ==
    /\ c.id = NoId <=> c.chunk = 0
    /\ c.phase = "done" <=> c.chunk = Total
    /\ c.phase \in {"sending", "waiting"} => c.retries < MaxRetries
WorkerOwned(u) == client[u].id \in Ids => owner[client[u].id] = u
Unused(id) == owner[id] = NoUpload => tmp[id] = Absent /\ disk[id] = Absent /\ rows[id] = NoRow
Typed ==
    /\ TypeOK
    /\ \A r \in Requests : RequestWhole(req[r]) /\ RequestOwned(req[r])
    /\ \A u \in Uploads : WorkerWhole(client[u]) /\ WorkerOwned(u)
    /\ \A id \in Ids : Unused(id)

\* The worker waits for the one request it still hears, which is for the chunk it is at;
\* a chunk after the first one is sent with the id the worker knows.
Waiting(q) == q.heard =>
    /\ client[q.upload].phase = "waiting" /\ client[q.upload].chunk = q.chunk
    /\ q.at = "sent" => q.id = client[q.upload].id
Following(q) == q.chunk > 0 => q.id \in Ids /\ q.id = client[q.upload].id
Single == \A q, r \in Requests : req[q].heard /\ req[r].heard /\ req[q].upload = req[r].upload => q = r
Waits ==
    /\ \A r \in Requests : Waiting(req[r]) /\ Following(req[r])
    /\ Single

\* A file of several chunks is recorded under the id the worker knows, and an answer to
\* the last chunk that is no error tells of a row.
RowKnown(id) == rows[id] # NoRow /\ LastChunk > 0 => client[owner[id]].id = id
ReplyTrue(q) == q.at = "reply" /\ q.reply = "ok" /\ q.chunk = LastChunk => rows[q.id] # NoRow
DoneTrue(u) == client[u].phase = "done" => rows[client[u].id] # NoRow
Told ==
    /\ \A id \in Ids : RowKnown(id)
    /\ \A r \in Requests : ReplyTrue(req[r])
    /\ \A u \in Uploads : DoneTrue(u)

\* The first chunks of a file.
Prefix(k) == [i \in 1 .. k |-> i - 1]
\* The server is at the requests of an upload one after the other, unless the upload is in
\* raced: a chunk is appended to what it belongs after.
FileGood(id) == owner[id] \notin raced =>
    /\ tmp[id] = Absent \/ \E k \in 1 .. Total : tmp[id] = Prefix(k)
    /\ disk[id] = Absent \/ disk[id] = Prefix(Total)
    /\ rows[id] # NoRow => disk[id] = Prefix(Total) /\ rows[id] = Size
ServedGood(q) == q.upload \notin raced =>
    /\ q.at # "free" => q.heard
    /\ q.at = "append" => tmp[q.id] = IF q.chunk = 0 THEN Absent ELSE Prefix(q.chunk)
    /\ q.at = "rename" => tmp[q.id] = Prefix(Total)
    /\ q.at = "record" => disk[q.id] = Prefix(Total)
FilesGood ==
    /\ \A id \in Ids : FileGood(id)
    /\ \A r \in Requests : ServedGood(req[r])

\* Once the share is closed every worker is done.
Closed == locked => \A u \in Uploads : client[u].phase = "done"

-----------------------------------------------------------------------------
(* Sizes and chunks. *)

LEMMA Division ==
    ASSUME NEW a \in Nat, NEW b \in Nat \ {0}
    PROVE  /\ CeilDiv(a, b) \in Nat
           /\ a <= CeilDiv(a, b) * b
           /\ CeilDiv(a, b) * b <= a + b - 1
BY DEF CeilDiv

LEMMA DivisionUnique ==
    ASSUME NEW a \in Nat, NEW b \in Nat \ {0}, NEW k \in Nat, a <= k * b, k * b <= a + b - 1
    PROVE  CeilDiv(a, b) = k
<1> DEFINE n == CeilDiv(a, b)
<1>1. n \in Nat /\ a <= n * b /\ n * b <= a + b - 1
  BY Division
<1> HIDE DEF n
<1>2. (n - k) * b < b /\ (k - n) * b < b
  BY <1>1
<1>3. n - k < 1
  BY <1>1, <1>2
<1>4. k - n < 1
  BY <1>1, <1>2
<1>5. n = k
  BY <1>1, <1>3, <1>4
<1>6. QED BY <1>5 DEF n

LEMMA Span ==
    /\ Total \in Nat \ {0} /\ LastChunk \in Nat /\ LastChunk = Total - 1 /\ LastChunk \in Chunks
    /\ LastSize \in Nat /\ Size = LastChunk * ChunkSize + LastSize
    /\ LastSize <= ChunkSize
    /\ Size = 0 => Total = 1
    /\ Size # 0 => LastSize # 0
<1>1. CASE Size = 0
  BY <1>1, SizeAssumption DEF Total, LastChunk, LastSize, Chunks
<1>2. CASE Size # 0
  <2> DEFINE n == CeilDiv(Size, ChunkSize)
  <2>1. n \in Nat /\ Size <= n * ChunkSize /\ n * ChunkSize <= Size + ChunkSize - 1
    BY Division, SizeAssumption
  <2>2. Total = n
    BY <1>2 DEF Total
  <2> HIDE DEF n
  <2>3. n # 0
    BY <1>2, <2>1, SizeAssumption
  <2>4. (n - 1) * ChunkSize = n * ChunkSize - ChunkSize
    BY <2>1, SizeAssumption
  <2>5. QED BY <1>2, <2>1, <2>2, <2>3, <2>4, SizeAssumption DEF LastChunk, LastSize, Chunks
<1>3. QED BY <1>1, <1>2

\* How many of the chunks of a file are the last one.
Short(content) == Cardinality({i \in DOMAIN content : content[i] = LastChunk})

LEMMA BytesTyped ==
    ASSUME NEW content \in Content \cup {Absent}
    PROVE  Bytes(content) \in Nat
<1>1. CASE content = Absent
  BY <1>1 DEF Bytes
<1>2. CASE content # Absent
  <2>1. content \in Seq(Chunks) /\ Len(content) \in Nat /\ DOMAIN content = 1 .. Len(content)
    BY <1>2 DEF Content
  <2>2. {i \in DOMAIN content : content[i] = LastChunk} \subseteq 1 .. Len(content)
    BY <2>1
  <2>3. IsFiniteSet(1 .. Len(content)) /\ Cardinality(1 .. Len(content)) = Len(content)
    BY <2>1, FS_Interval
  <2>4. Short(content) \in Nat /\ Short(content) <= Len(content)
    BY <2>2, <2>3, FS_Subset, FS_CardinalityType DEF Short
  <2>5. Bytes(content) = (Len(content) - Short(content)) * ChunkSize + Short(content) * LastSize
    BY <1>2 DEF Bytes, Short
  <2>6. (Len(content) - Short(content)) * ChunkSize \in Nat /\ Short(content) * LastSize \in Nat
    BY <2>1, <2>4, Span, SizeAssumption
  <2>7. QED BY <2>5, <2>6
<1>3. QED BY <1>1, <1>2

LEMMA ExpectedTyped ==
    ASSUME NEW content \in Content \cup {Absent}
    PROVE  Expected(content) \in Nat
BY BytesTyped, Division, SizeAssumption DEF Expected

LEMMA PrefixFacts ==
    ASSUME NEW k \in 0 .. Total
    PROVE  /\ Prefix(k) \in Content /\ Prefix(k) # Absent /\ Len(Prefix(k)) = k
           /\ DOMAIN Prefix(k) = 1 .. k /\ \A i \in 1 .. k : Prefix(k)[i] = i - 1
<1>1. k \in Nat /\ \A i \in 1 .. k : i - 1 \in Chunks
  BY Span DEF Chunks
<1>2. Prefix(k) \in Seq(Chunks) /\ Len(Prefix(k)) = k
  BY <1>1 DEF Prefix
<1>3. QED BY <1>2, AbsentAssumption DEF Content, Prefix

LEMMA PrefixGrows ==
    /\ Prefix(1) = <<0>> /\ Prefix(Total) = Whole
    /\ \A k \in Chunks : Append(Prefix(k), k) = Prefix(k + 1)
<1>1. Prefix(1) = <<0>>
  BY DEF Prefix
<1>2. ASSUME NEW k \in Chunks PROVE Append(Prefix(k), k) = Prefix(k + 1)
  <2>1. k \in 0 .. Total /\ k + 1 \in 0 .. Total /\ k \in Nat
    BY Span DEF Chunks
  <2>2. /\ Prefix(k) \in Seq(Chunks) /\ Len(Prefix(k)) = k /\ Prefix(k + 1) \in Seq(Chunks)
        /\ Len(Prefix(k + 1)) = k + 1
        /\ \A i \in 1 .. k : Prefix(k)[i] = i - 1
        /\ \A i \in 1 .. k + 1 : Prefix(k + 1)[i] = i - 1
    BY <2>1, PrefixFacts DEF Content
  <2>3. Append(Prefix(k), k) \in Seq(Chunks) /\ Len(Append(Prefix(k), k)) = k + 1
        /\ \A i \in 1 .. k + 1 : Append(Prefix(k), k)[i] = i - 1
    BY <2>1, <2>2
  <2> DEFINE a == Append(Prefix(k), k)
             b == Prefix(k + 1)
  <2>4. /\ a \in Seq(Chunks) /\ b \in Seq(Chunks) /\ Len(a) = Len(b)
        /\ \A i \in 1 .. Len(a) : a[i] = b[i]
    BY <2>2, <2>3
  <2> HIDE DEF a, b
  <2>5. a = b
    BY <2>4, SeqEqual
  <2>6. QED BY <2>5 DEF a, b
<1>3. QED BY <1>1, <1>2 DEF Prefix, Whole

LEMMA PrefixBytes ==
    /\ \A k \in 1 .. Total - 1 : Bytes(Prefix(k)) = k * ChunkSize
    /\ Bytes(Prefix(Total)) = Size
<1>1. ASSUME NEW k \in 1 .. Total
      PROVE  Bytes(Prefix(k)) = (k - Short(Prefix(k))) * ChunkSize + Short(Prefix(k)) * LastSize
  BY PrefixFacts DEF Bytes, Short
<1>2. ASSUME NEW k \in 1 .. Total - 1 PROVE Bytes(Prefix(k)) = k * ChunkSize
  <2>1. k \in 1 .. Total /\ k \in 0 .. Total /\ k \in Nat
    BY Span
  <2>2. {i \in DOMAIN Prefix(k) : Prefix(k)[i] = LastChunk} = {}
    BY <2>1, PrefixFacts, Span
  <2>3. Short(Prefix(k)) = 0
    BY <2>2, FS_EmptySet DEF Short
  <2>4. QED BY <1>1, <2>1, <2>3, Span, SizeAssumption
<1>3. Bytes(Prefix(Total)) = Size
  <2>1. Total \in 1 .. Total /\ Total \in 0 .. Total
    BY Span
  <2>2. {i \in DOMAIN Prefix(Total) : Prefix(Total)[i] = LastChunk} = {Total}
    BY <2>1, PrefixFacts, Span
  <2>3. Short(Prefix(Total)) = 1
    BY <2>2, FS_Singleton DEF Short
  <2>4. QED BY <1>1, <2>1, <2>3, Span, SizeAssumption
<1>4. QED BY <1>2, <1>3

\* The chunk a good partial file asks for is the one after its last.
LEMMA PrefixExpected ==
    /\ Expected(Absent) = 0
    /\ \A k \in 1 .. Total : Expected(Prefix(k)) \in Chunks \ {0} => Expected(Prefix(k)) = k
<1>1. Expected(Absent) = 0
  <2>1. CeilDiv(0, ChunkSize) = 0
    BY DivisionUnique, SizeAssumption
  <2>2. QED BY <2>1 DEF Expected, Bytes
<1>2. ASSUME NEW k \in 1 .. Total - 1 PROVE Expected(Prefix(k)) = k
  <2>1. k \in Nat /\ k * ChunkSize \in Nat
    BY Span, SizeAssumption
  <2>2. CeilDiv(k * ChunkSize, ChunkSize) = k
    BY <2>1, DivisionUnique, SizeAssumption
  <2>3. QED BY <2>2, PrefixBytes DEF Expected
<1>3. Expected(Prefix(Total)) \notin Chunks \ {0}
  <2>1. Expected(Prefix(Total)) = CeilDiv(Size, ChunkSize)
    BY PrefixBytes DEF Expected
  <2>2. CASE Size = 0
    <3>1. CeilDiv(0, ChunkSize) = 0
      BY DivisionUnique, SizeAssumption
    <3>2. QED BY <2>1, <2>2, <3>1
  <2>3. CASE Size # 0
    BY <2>1, <2>3, Span DEF Total, Chunks
  <2>4. QED BY <2>2, <2>3
<1>4. QED BY <1>1, <1>2, <1>3, Span

-----------------------------------------------------------------------------
(* What each step does to the requests and the workers. *)

LEMMA RequestFields ==
    ASSUME NEW q \in Request
    PROVE  /\ q.upload \in Uploads \cup {NoUpload} /\ q.chunk \in Chunks /\ q.id \in Ids \cup {NoId}
           /\ q.at \in {"free", "sent", "append", "rename", "record", "reply"}
           /\ q.heard \in BOOLEAN /\ q.cookie \in BOOLEAN /\ q.reply \in Replies /\ q.expected \in Nat
BY DEF Request

LEMMA ClientFields ==
    ASSUME NEW c \in Client
    PROVE  /\ c.phase \in Phases /\ c.chunk \in 0 .. Total /\ c.id \in Ids \cup {NoId}
           /\ c.retries \in 0 .. MaxRetries /\ c.retries \in Nat
           /\ c.refreshes \in 0 .. MaxRefreshes /\ c.refreshes \in Nat
BY SizeAssumption DEF Client

LEMMA FreeFields ==
    ASSUME NEW q, q = Free
    PROVE  /\ q.upload = NoUpload /\ q.chunk = 0 /\ q.id = NoId /\ q.at = "free"
           /\ q.heard = FALSE /\ q.reply = "none"
BY DEF Free

LEMMA FreeTyped == Free \in Request
<1>1. 0 \in Chunks /\ "none" \in Replies
  BY Span DEF Chunks, Replies
<1>2. QED BY <1>1 DEF Free, Request

LEMMA FreeWhole ==
    ASSUME NEW q, q = Free
    PROVE  RequestWhole(q)
BY FreeFields DEF RequestWhole

\* The other requests stay.
Others(r) == req' \in [Requests -> Request] /\ \A x \in Requests \ {r} : req'[x] = req[x]
Freed(r) == Others(r) /\ req'[r] = Free
\* A request that goes on, or is answered.
Same(p, q) == p.upload = q.upload /\ p.chunk = q.chunk
Moves(r, at, id) ==
    /\ Others(r) /\ Same(req'[r], req[r]) /\ req'[r].heard = req[r].heard
    /\ req'[r].at = at /\ req'[r].id = id
Answered(r, reply) ==
    /\ req[r].heard /\ Others(r) /\ Same(req'[r], req[r])
    /\ req'[r].heard = TRUE /\ req'[r].at = "reply" /\ req'[r].id = req[r].id /\ req'[r].reply = reply

LEMMA AnswerGoes ==
    ASSUME req \in [Requests -> Request], NEW r \in Requests, NEW reply \in Replies, NEW n \in Nat,
           Answer(r, reply, n)
    PROVE  (~req[r].heard /\ Freed(r)) \/ Answered(r, reply)
<1>0. req[r] \in Request
  OBVIOUS
<1>1. CASE ~req[r].heard
  BY <1>1, FreeTyped DEF Answer, Freed, Others
<1>2. CASE req[r].heard
  <2> DEFINE p == [req[r] EXCEPT !.at = "reply", !.reply = reply, !.expected = n]
  <2>1. req' = [req EXCEPT ![r] = p]
    BY <1>2 DEF Answer
  <2>2. /\ p \in Request /\ p.upload = req[r].upload /\ p.chunk = req[r].chunk /\ p.id = req[r].id
        /\ p.heard = req[r].heard /\ p.at = "reply" /\ p.reply = reply
    BY <1>0 DEF Request
  <2>3. req[r].heard \in BOOLEAN
    BY <1>0, RequestFields
  <2> HIDE DEF p
  <2>4. QED BY <1>2, <2>1, <2>2, <2>3 DEF Answered, Others, Same
<1>3. QED BY <1>1, <1>2

LEMMA MoveGoes ==
    ASSUME req \in [Requests -> Request], NEW r \in Requests,
           NEW at \in {"append", "rename", "record"}, NEW id \in Ids,
           req' = [req EXCEPT ![r].at = at, ![r].id = id]
    PROVE  Moves(r, at, id)
<1>0. req[r] \in Request
  OBVIOUS
<1> DEFINE p == [req[r] EXCEPT !.at = at, !.id = id]
<1>1. req' = [req EXCEPT ![r] = p]
  BY <1>0 DEF Request
<1>2. /\ p \in Request /\ p.upload = req[r].upload /\ p.chunk = req[r].chunk /\ p.id = id
      /\ p.heard = req[r].heard /\ p.at = at
  BY <1>0 DEF Request
<1> HIDE DEF p
<1>3. QED BY <1>1, <1>2 DEF Moves, Others, Same

LEMMA StepGoes ==
    ASSUME req \in [Requests -> Request], NEW r \in Requests,
           NEW at \in {"append", "rename", "record"}, req' = [req EXCEPT ![r].at = at]
    PROVE  Moves(r, at, req[r].id)
<1>0. req[r] \in Request
  OBVIOUS
<1> DEFINE p == [req[r] EXCEPT !.at = at]
<1>1. req' = [req EXCEPT ![r] = p]
  OBVIOUS
<1>2. /\ p \in Request /\ p.upload = req[r].upload /\ p.chunk = req[r].chunk /\ p.id = req[r].id
      /\ p.heard = req[r].heard /\ p.at = at
  BY <1>0 DEF Request
<1> HIDE DEF p
<1>3. QED BY <1>1, <1>2 DEF Moves, Others, Same

\* The other workers stay.
OtherWorkers(u) == client' \in [Uploads -> Client] /\ \A x \in Uploads \ {u} : client'[x] = client[x]
\* A worker that tries again, or gives up.
Back(c, d) ==
    /\ d \in Client /\ d.id = c.id /\ d.chunk = c.chunk /\ d.phase \in {"sending", "failed"}
    /\ d.phase = "sending" => d.retries < MaxRetries
\* A worker whose chunk is stored.
Forth(c, d, id) ==
    /\ d \in Client /\ d.id = id /\ d.chunk = c.chunk + 1 /\ d.retries = 0
    /\ d.phase = IF c.chunk = LastChunk THEN "done" ELSE "sending"

LEMMA RetryGoes ==
    ASSUME NEW c \in Client, c.retries < MaxRetries
    PROVE  Back(c, Retry(c))
<1>1. c.retries \in Nat /\ c.retries + 1 \in 0 .. MaxRetries
  BY ClientFields, SizeAssumption
<1> DEFINE n == c.retries + 1
           ph == IF n >= MaxRetries THEN "failed" ELSE "sending"
           d == [c EXCEPT !.retries = n, !.phase = ph]
<1>2. ph \in {"sending", "failed"} /\ (ph = "sending" => n < MaxRetries)
  BY <1>1, SizeAssumption
<1>3. Retry(c) = d
  BY DEF Retry
<1>4. n \in 0 .. MaxRetries
  BY <1>1
<1> HIDE DEF n, ph
<1>5. d \in Client /\ d.id = c.id /\ d.chunk = c.chunk /\ d.phase = ph /\ d.retries = n
  BY <1>2, <1>4 DEF Client, Phases
<1> HIDE DEF d
<1>6. QED BY <1>2, <1>3, <1>5 DEF Back

LEMMA ProgressGoes ==
    ASSUME NEW c \in Client, c.chunk \in Chunks, NEW id \in Ids
    PROVE  Forth(c, Progress(c, id), id)
<1>1. c.chunk + 1 \in 0 .. Total /\ 0 \in 0 .. MaxRetries /\ 0 \in 0 .. MaxRefreshes
  BY Span, SizeAssumption DEF Chunks
<1> DEFINE n == c.chunk + 1
           ph == IF c.chunk = LastChunk THEN "done" ELSE "sending"
           d == [c EXCEPT !.id = id, !.retries = 0, !.refreshes = 0, !.chunk = n, !.phase = ph]
<1>2. Progress(c, id) = d
  BY DEF Progress
<1>3. n \in 0 .. Total /\ ph \in Phases
  BY <1>1 DEF Phases
<1> HIDE DEF n, ph
<1>4. d \in Client /\ d.id = id /\ d.chunk = n /\ d.retries = 0 /\ d.phase = ph
  BY <1>1, <1>3 DEF Client
<1> HIDE DEF d
<1>5. QED BY <1>2, <1>4 DEF Forth, n, ph

LEMMA RefreshedGoes ==
    ASSUME NEW c \in Client, c.retries < MaxRetries
    PROVE  Back(c, Refreshed(c))
<1>1. CASE c.refreshes < MaxRefreshes
  <2> DEFINE n == c.refreshes + 1
             d == [c EXCEPT !.refreshes = n, !.phase = "sending"]
  <2>1. n \in 0 .. MaxRefreshes
    BY <1>1, ClientFields, SizeAssumption
  <2>2. Refreshed(c) = d
    BY <1>1 DEF Refreshed
  <2> HIDE DEF n
  <2>3. QED BY <2>1, <2>2 DEF Back, Client, Phases
<1>2. CASE ~(c.refreshes < MaxRefreshes)
  BY <1>2 DEF Refreshed, Back, Client, Phases
<1>3. QED BY <1>1, <1>2

LEMMA PhaseGoes ==
    ASSUME NEW c \in Client, c.retries < MaxRetries, NEW phase \in {"sending", "failed"}
    PROVE  Back(c, [c EXCEPT !.phase = phase])
BY DEF Back, Client, Phases

LEMMA AfterReplyGoes ==
    ASSUME NEW c \in Client, c.retries < MaxRetries, c.chunk \in Chunks, NEW q \in Request,
           q.reply = "ok" => q.id \in Ids
    PROVE  \/ q.reply = "ok" /\ Forth(c, AfterReply(c, q), q.id)
           \/ q.reply # "ok" /\ Back(c, AfterReply(c, q))
<1>1. CASE q.reply = "ok"
  <2>1. Status(q.reply) = 201
    BY <1>1 DEF Status
  <2>2. AfterReply(c, q) = Progress(c, q.id)
    BY <1>1, <2>1 DEF AfterReply
  <2>3. QED BY <1>1, <2>2, ProgressGoes
<1>2. CASE q.reply # "ok"
  <2>1. Back(c, [c EXCEPT !.phase = "failed"]) /\ Back(c, [c EXCEPT !.phase = "sending"])
    BY PhaseGoes
  <2>2. Status("unexpected") # 422
    BY DEF Status
  <2>3. AfterReply(c, q) \in {Retry(c), Refreshed(c), [c EXCEPT !.phase = "failed"],
                              [c EXCEPT !.phase = "sending"]}
    BY <1>2, <2>2 DEF AfterReply
  <2>4. QED BY <1>2, <2>1, <2>3, RetryGoes, RefreshedGoes
<1>3. QED BY <1>1, <1>2

-----------------------------------------------------------------------------
(* What each action does. *)

\* A request ends without an answer of the server; a step that is about the session only.
Ends(r) == Lose(r) \/ LoseRefresh(r) \/ Challenge(r)
Quiet == Lapse \/ EndSession \/ UNCHANGED vars

LEMMA Quiets ==
    ASSUME Quiet
    PROVE  /\ UNCHANGED <<client, req, tmp, disk, rows, locked, owner, raced>>
           /\ faults' = faults \/ faults' = faults + 1
BY DEF Quiet, Lapse, EndSession, Fault, vars, files

LEMMA LoginKept ==
    ASSUME Typed, [Next]_vars
    PROVE  cookie' \in BOOLEAN /\ session' \in Sessions
<1>0. cookie \in BOOLEAN /\ session \in Sessions
  BY DEF Typed, TypeOK
<1>1. ASSUME NEW r \in Requests, Serve(r) \/ Lose(r) \/ LoseRefresh(r) \/ Challenge(r) \/ Timeout(r)
      PROVE  UNCHANGED <<cookie, session>>
  BY <1>1 DEF Serve, Check, AppendChunk, Rename, Record, Lose, LoseRefresh, Challenge, Timeout, login
<1>2. ASSUME NEW r \in Requests, Hear(r) PROVE cookie' \in BOOLEAN /\ session' = session
  BY <1>2 DEF Hear
<1>3. ASSUME NEW u \in Uploads, NEW r \in Requests, Send(u, r) PROVE UNCHANGED <<cookie, session>>
  BY <1>3 DEF Send, login
<1>4. CASE Lapse
  BY <1>0, <1>4 DEF Lapse
<1>5. CASE EndSession
  BY <1>0, <1>5 DEF EndSession, Sessions
<1>6. ASSUME Complete \/ Crash \/ (\E id \in Ids : Purge(id)) \/ UNCHANGED vars
      PROVE  UNCHANGED <<cookie, session>>
  BY <1>6 DEF Complete, Crash, Purge, vars, login
<1>7. QED BY <1>0, <1>1, <1>2, <1>3, <1>4, <1>5, <1>6 DEF Next

\* The handler ends without success; it ends with it.
Refused(r) == (~req[r].heard /\ Freed(r)) \/ \E reply \in Replies \ {"ok"} : Answered(r, reply)
Granted(r) == (~req[r].heard /\ Freed(r)) \/ Answered(r, "ok")

LEMMA StateFields ==
    ASSUME Typed
    PROVE  /\ client \in [Uploads -> Client] /\ req \in [Requests -> Request]
           /\ tmp \in [Ids -> Content \cup {Absent}] /\ disk \in [Ids -> Content \cup {Absent}]
           /\ rows \in [Ids -> Nat \cup {NoRow}] /\ owner \in [Ids -> Uploads \cup {NoUpload}]
           /\ locked \in BOOLEAN /\ raced \in SUBSET Uploads /\ faults \in Nat
           /\ cookie \in BOOLEAN /\ session \in Sessions
           /\ \A r \in Requests : req[r] \in Request /\ RequestWhole(req[r]) /\ RequestOwned(req[r])
           /\ \A u \in Uploads : client[u] \in Client /\ WorkerWhole(client[u]) /\ WorkerOwned(u)
           /\ \A id \in Ids : Unused(id)
BY DEF Typed, TypeOK

LEMMA Checked ==
    ASSUME Typed, NEW r \in Requests, Check(r)
    PROVE  /\ UNCHANGED <<client, tmp, disk, rows, locked, raced, faults>>
           /\ req[r].at = "sent"
           /\ \/ Refused(r) /\ owner' = owner
              \/ \E id \in Ids :
                    /\ ~locked /\ Expected(tmp[id]) = req[r].chunk /\ Moves(r, "append", id)
                    /\ owner' = [owner EXCEPT ![id] = req[r].upload]
                    /\ id = req[r].id \/ (req[r].id = NoId /\ owner[id] = NoUpload)
<1>0. req[r] \in Request /\ req \in [Requests -> Request] /\ tmp \in [Ids -> Content \cup {Absent}]
  BY StateFields
<1>1. UNCHANGED <<client, tmp, disk, rows, locked, raced, faults>> /\ req[r].at = "sent"
  BY DEF Check, files
<1>a. ASSUME NEW reply \in {"unauthorized", "forbidden", "locked", "unexpected", "tooLarge"}, NEW n \in Nat,
             Answer(r, reply, n)
      PROVE  Refused(r)
  <2>1. reply \in Replies /\ reply \in Replies \ {"ok"}
    BY DEF Replies
  <2>2. (~req[r].heard /\ Freed(r)) \/ Answered(r, reply)
    BY <1>0, <1>a, <2>1, AnswerGoes
  <2>3. QED BY <2>1, <2>2 DEF Refused
<1>2. CASE Answer(r, Refusal(req[r]), 0) /\ UNCHANGED owner
  <2>1. Refusal(req[r]) \in {"unauthorized", "forbidden", "locked", "unexpected", "tooLarge"}
    BY DEF Refusal
  <2>2. Refused(r)
    BY <1>a, <1>2, <2>1
  <2>3. QED BY <1>1, <1>2, <2>2
<1>3. ASSUME NEW id \in IF req[r].id = NoId THEN {i \in Ids : owner[i] = NoUpload} ELSE {req[r].id},
             \/ locked /\ Answer(r, "locked", 0) /\ UNCHANGED owner
             \/ /\ ~locked /\ Expected(tmp[id]) # req[r].chunk
                /\ Answer(r, "unexpected", Expected(tmp[id])) /\ UNCHANGED owner
             \/ /\ ~locked /\ Expected(tmp[id]) = req[r].chunk /\ ShareSize(id, req[r].chunk) > MaxShareSize
                /\ Answer(r, "tooLarge", 0) /\ UNCHANGED owner
             \/ /\ ~locked /\ Expected(tmp[id]) = req[r].chunk /\ ShareSize(id, req[r].chunk) <= MaxShareSize
                /\ req' = [req EXCEPT ![r].at = "append", ![r].id = id]
                /\ owner' = [owner EXCEPT ![id] = req[r].upload]
      PROVE  \/ Refused(r) /\ owner' = owner
             \/ \E x \in Ids :
                   /\ ~locked /\ Expected(tmp[x]) = req[r].chunk /\ Moves(r, "append", x)
                   /\ owner' = [owner EXCEPT ![x] = req[r].upload]
                   /\ x = req[r].id \/ (req[r].id = NoId /\ owner[x] = NoUpload)
  <2>1. id \in Ids /\ (id = req[r].id \/ (req[r].id = NoId /\ owner[id] = NoUpload))
    BY <1>0, <1>3, RequestFields
  <2>2. Expected(tmp[id]) \in Nat
    BY <1>0, <2>1, ExpectedTyped
  <2>3. CASE owner' = owner /\ \E reply \in {"locked", "unexpected", "tooLarge"}, n \in Nat : Answer(r, reply, n)
    BY <1>a, <2>3
  <2>4. CASE /\ ~locked /\ Expected(tmp[id]) = req[r].chunk
             /\ req' = [req EXCEPT ![r].at = "append", ![r].id = id]
             /\ owner' = [owner EXCEPT ![id] = req[r].upload]
    <3>1. Moves(r, "append", id)
      BY <1>0, <2>1, <2>4, MoveGoes
    <3>2. QED BY <2>1, <2>4, <3>1
  <2>5. QED BY <1>3, <2>2, <2>3, <2>4
<1>4. QED BY <1>1, <1>2, <1>3 DEF Check

LEMMA Appended ==
    ASSUME Typed, NEW r \in Requests, AppendChunk(r)
    PROVE  /\ UNCHANGED <<client, disk, rows, locked, owner, raced, faults>>
           /\ req[r].at = "append" /\ req[r].id \in Ids
           /\ tmp' = [tmp EXCEPT ![req[r].id] =
                        IF tmp[req[r].id] = Absent THEN <<req[r].chunk>> ELSE Append(tmp[req[r].id], req[r].chunk)]
           /\ \/ req[r].chunk = LastChunk /\ Moves(r, "rename", req[r].id)
              \/ req[r].chunk # LastChunk /\ Granted(r)
<1>0. req[r] \in Request /\ req \in [Requests -> Request] /\ RequestWhole(req[r]) /\ tmp \in [Ids -> Content \cup {Absent}]
  BY StateFields
<1>1. /\ UNCHANGED <<client, disk, rows, locked, owner, raced, faults>>
      /\ req[r].at = "append" /\ req[r].id \in Ids
  BY <1>0 DEF AppendChunk, RequestWhole
<1>2. tmp' = [tmp EXCEPT ![req[r].id] =
                 IF tmp[req[r].id] = Absent THEN <<req[r].chunk>> ELSE Append(tmp[req[r].id], req[r].chunk)]
  BY <1>0, <1>1 DEF AppendChunk
<1>3. CASE req[r].chunk = LastChunk
  <2>1. req' = [req EXCEPT ![r].at = "rename"]
    BY <1>3 DEF AppendChunk
  <2>2. QED BY <1>0, <1>1, <1>2, <1>3, <2>1, StepGoes
<1>4. CASE req[r].chunk # LastChunk
  <2>1. Answer(r, "ok", 0) /\ "ok" \in Replies
    BY <1>4 DEF AppendChunk, Replies
  <2>2. Granted(r)
    BY <1>0, <2>1, AnswerGoes DEF Granted
  <2>3. QED BY <1>1, <1>2, <1>4, <2>2
<1>5. QED BY <1>3, <1>4

LEMMA Renamed ==
    ASSUME Typed, NEW r \in Requests, Rename(r)
    PROVE  /\ UNCHANGED <<client, rows, locked, owner, raced, faults>>
           /\ req[r].at = "rename" /\ req[r].id \in Ids
           /\ \/ tmp[req[r].id] = Absent /\ Refused(r) /\ UNCHANGED <<tmp, disk>>
              \/ /\ tmp[req[r].id] # Absent /\ Moves(r, "record", req[r].id)
                 /\ disk' = [disk EXCEPT ![req[r].id] = tmp[req[r].id]]
                 /\ tmp' = [tmp EXCEPT ![req[r].id] = Absent]
<1>0. req[r] \in Request /\ req \in [Requests -> Request] /\ RequestWhole(req[r])
  BY StateFields
<1>1. /\ UNCHANGED <<client, rows, locked, owner, raced, faults>>
      /\ req[r].at = "rename" /\ req[r].id \in Ids
  BY <1>0 DEF Rename, RequestWhole
<1>2. CASE tmp[req[r].id] = Absent
  <2>1. Answer(r, "error", 0) /\ UNCHANGED <<tmp, disk>> /\ "error" \in Replies \ {"ok"}
    BY <1>2 DEF Rename, Replies
  <2>2. (~req[r].heard /\ Freed(r)) \/ Answered(r, "error")
    BY <1>0, <2>1, AnswerGoes
  <2>3. QED BY <1>1, <1>2, <2>1, <2>2 DEF Refused
<1>3. CASE tmp[req[r].id] # Absent
  <2>1. /\ req' = [req EXCEPT ![r].at = "record"]
        /\ disk' = [disk EXCEPT ![req[r].id] = tmp[req[r].id]]
        /\ tmp' = [tmp EXCEPT ![req[r].id] = Absent]
    BY <1>3 DEF Rename
  <2>2. QED BY <1>0, <1>1, <1>3, <2>1, StepGoes
<1>4. QED BY <1>2, <1>3

LEMMA Recorded ==
    ASSUME Typed, NEW r \in Requests, Record(r)
    PROVE  /\ UNCHANGED <<client, tmp, disk, locked, owner, raced, faults>>
           /\ req[r].at = "record" /\ req[r].id \in Ids
           /\ \/ rows[req[r].id] # NoRow /\ Refused(r) /\ rows' = rows
              \/ /\ rows[req[r].id] = NoRow /\ Granted(r)
                 /\ rows' = [rows EXCEPT ![req[r].id] = Bytes(disk[req[r].id])]
<1>0. req[r] \in Request /\ req \in [Requests -> Request] /\ RequestWhole(req[r])
  BY StateFields
<1>1. /\ UNCHANGED <<client, tmp, disk, locked, owner, raced, faults>>
      /\ req[r].at = "record" /\ req[r].id \in Ids
  BY <1>0 DEF Record, RequestWhole
<1>2. CASE rows[req[r].id] # NoRow
  <2>1. Answer(r, "error", 0) /\ UNCHANGED rows /\ "error" \in Replies \ {"ok"}
    BY <1>2 DEF Record, Replies
  <2>2. (~req[r].heard /\ Freed(r)) \/ Answered(r, "error")
    BY <1>0, <2>1, AnswerGoes
  <2>3. QED BY <1>1, <1>2, <2>1, <2>2 DEF Refused
<1>3. CASE rows[req[r].id] = NoRow
  <2>1. /\ Answer(r, "ok", 0) /\ "ok" \in Replies
        /\ rows' = [rows EXCEPT ![req[r].id] = Bytes(disk[req[r].id])]
    BY <1>3 DEF Record, Replies
  <2>2. Granted(r)
    BY <1>0, <2>1, AnswerGoes DEF Granted
  <2>3. QED BY <1>1, <1>3, <2>1, <2>2
<1>4. QED BY <1>2, <1>3

\* The worker of a request that is heard.
LEMMA HeardWorker ==
    ASSUME Typed, Waits, NEW r \in Requests, req[r].heard
    PROVE  /\ req[r].upload \in Uploads /\ req[r].at # "free"
           /\ client[req[r].upload] \in Client /\ client[req[r].upload].retries < MaxRetries
           /\ client[req[r].upload].phase = "waiting" /\ client[req[r].upload].chunk = req[r].chunk
           /\ req[r].chunk \in Chunks
<1>1. req[r] \in Request /\ RequestWhole(req[r]) /\ Waiting(req[r])
  BY StateFields DEF Waits
<1>2. req[r].at # "free" /\ req[r].upload \in Uploads /\ req[r].chunk \in Chunks
  BY <1>1, RequestFields DEF RequestWhole
<1>3. client[req[r].upload] \in Client /\ WorkerWhole(client[req[r].upload])
  BY <1>2, StateFields
<1>4. client[req[r].upload].phase = "waiting" /\ client[req[r].upload].chunk = req[r].chunk
  BY <1>1 DEF Waiting
<1>5. QED BY <1>2, <1>3, <1>4 DEF WorkerWhole

LEMMA Sent ==
    ASSUME Typed, NEW u \in Uploads, NEW r \in Requests, Send(u, r)
    PROVE  /\ UNCHANGED <<tmp, disk, rows, locked, owner, raced, faults>>
           /\ req[r] = Free /\ client[u].phase = "sending"
           /\ Others(r) /\ req'[r].upload = u /\ req'[r].chunk = client[u].chunk
           /\ req'[r].id = client[u].id /\ req'[r].at = "sent" /\ req'[r].heard = TRUE
           /\ req'[r].reply = "none"
           /\ OtherWorkers(u) /\ client'[u].phase = "waiting" /\ client'[u].id = client[u].id
           /\ client'[u].chunk = client[u].chunk /\ client'[u].retries = client[u].retries
<1>0. /\ client \in [Uploads -> Client] /\ req \in [Requests -> Request]
      /\ client[u] \in Client /\ WorkerWhole(client[u])
  BY StateFields
<1>1. client[u].phase = "sending" /\ req[r] = Free /\ UNCHANGED <<tmp, disk, rows, locked, owner, raced, faults>>
  BY DEF Send, files
<1>2. client[u].chunk \in Chunks /\ client[u].id \in Ids \cup {NoId}
  BY <1>0, <1>1, ClientFields, Span DEF WorkerWhole, Chunks
<1> DEFINE p == [Free EXCEPT !.upload = u, !.chunk = client[u].chunk, !.id = client[u].id,
                             !.at = "sent", !.heard = TRUE, !.cookie = cookie]
           d == [client[u] EXCEPT !.phase = "waiting"]
<1>3. req' = [req EXCEPT ![r] = p] /\ client' = [client EXCEPT ![u] = d]
  BY DEF Send
<1>4. 0 \in Nat /\ "none" \in Replies /\ cookie \in BOOLEAN
  BY StateFields DEF Replies
<1>5. /\ p \in Request /\ p.upload = u /\ p.chunk = client[u].chunk /\ p.id = client[u].id
      /\ p.at = "sent" /\ p.heard = TRUE /\ p.reply = "none"
  BY <1>2, <1>4 DEF Free, Request
<1>6. /\ d \in Client /\ d.phase = "waiting" /\ d.id = client[u].id
      /\ d.chunk = client[u].chunk /\ d.retries = client[u].retries
  BY <1>0 DEF Client, Phases
<1> HIDE DEF p, d
<1>7. QED BY <1>0, <1>1, <1>3, <1>5, <1>6 DEF Others, OtherWorkers

LEMMA Answers ==
    ASSUME Typed, Waits, NEW r \in Requests, Hear(r)
    PROVE  /\ UNCHANGED <<tmp, disk, rows, locked, owner, raced, faults>>
           /\ req[r].at = "reply" /\ req[r].heard /\ Freed(r) /\ OtherWorkers(req[r].upload)
           /\ \/ /\ req[r].reply = "ok" /\ req[r].id \in Ids
                 /\ Forth(client[req[r].upload], client'[req[r].upload], req[r].id)
              \/ req[r].reply # "ok" /\ Back(client[req[r].upload], client'[req[r].upload])
<1>0. /\ client \in [Uploads -> Client] /\ req \in [Requests -> Request]
      /\ req[r] \in Request /\ RequestWhole(req[r])
  BY StateFields
<1>1. req[r].at = "reply" /\ UNCHANGED <<tmp, disk, rows, locked, owner, raced, faults>>
  BY DEF Hear, files
<1>2. req[r].heard /\ (req[r].reply = "ok" => req[r].id \in Ids)
  BY <1>0, <1>1 DEF RequestWhole
<1> DEFINE u == req[r].upload
           d == AfterReply(client[u], req[r])
<1>3. u \in Uploads /\ client[u] \in Client /\ client[u].retries < MaxRetries /\ client[u].chunk \in Chunks
  BY <1>2, HeardWorker
<1>4. \/ req[r].reply = "ok" /\ Forth(client[u], d, req[r].id)
      \/ req[r].reply # "ok" /\ Back(client[u], d)
  BY <1>0, <1>2, <1>3, AfterReplyGoes
<1>5. d \in Client
  BY <1>4 DEF Forth, Back
<1>6. client' = [client EXCEPT ![u] = d] /\ req' = [req EXCEPT ![r] = Free]
  BY <1>0, <1>3 DEF Hear
<1> HIDE DEF d
<1>7. client'[u] = d /\ OtherWorkers(u)
  BY <1>0, <1>3, <1>5, <1>6 DEF OtherWorkers
<1>8. Freed(r)
  BY <1>0, <1>6, FreeTyped DEF Freed, Others
<1>9. QED BY <1>1, <1>2, <1>4, <1>7, <1>8

\* A worker whose request is lost or given up.
LEMMA WorkerRetries ==
    ASSUME Typed, Waits, NEW r \in Requests, req[r].heard,
           client' = [client EXCEPT ![req[r].upload] = Retry(@)]
    PROVE  OtherWorkers(req[r].upload) /\ Back(client[req[r].upload], client'[req[r].upload])
<1> DEFINE u == req[r].upload
           d == Retry(client[u])
<1>1. u \in Uploads /\ client[u] \in Client /\ client[u].retries < MaxRetries
  BY HeardWorker
<1>2. Back(client[u], d)
  BY <1>1, RetryGoes
<1>3. d \in Client
  BY <1>2 DEF Back
<1>4. client' = [client EXCEPT ![u] = d] /\ client \in [Uploads -> Client]
  BY StateFields
<1> HIDE DEF d
<1>5. client'[u] = d /\ OtherWorkers(u)
  BY <1>1, <1>3, <1>4 DEF OtherWorkers
<1>6. QED BY <1>2, <1>5

LEMMA Lost ==
    ASSUME Typed, Waits, NEW r \in Requests, Ends(r)
    PROVE  /\ UNCHANGED <<tmp, disk, rows, locked, owner, raced>> /\ faults' = faults + 1
           /\ req[r].heard /\ Freed(r) /\ OtherWorkers(req[r].upload)
           /\ Back(client[req[r].upload], client'[req[r].upload])
<1>0. req \in [Requests -> Request] /\ client \in [Uploads -> Client] /\ RequestWhole(req[r])
  BY StateFields
<1>1. /\ UNCHANGED <<tmp, disk, rows, locked, owner, raced>> /\ faults' = faults + 1
      /\ req[r].heard /\ req' = [req EXCEPT ![r] = Free]
  BY <1>0 DEF Ends, Lose, LoseRefresh, Challenge, Fault, files, RequestWhole
<1>2. Freed(r)
  BY <1>0, <1>1, FreeTyped DEF Freed, Others
<1>3. CASE Lose(r)
  BY <1>1, <1>2, <1>3, WorkerRetries DEF Lose
<1>4. CASE LoseRefresh(r) \/ Challenge(r)
  <2> DEFINE u == req[r].upload
  <2>1. PICK phase \in {"sending", "failed"} : client' = [client EXCEPT ![u].phase = phase]
    BY <1>4 DEF LoseRefresh, Challenge
  <2>2. u \in Uploads /\ client[u] \in Client /\ client[u].retries < MaxRetries
    BY <1>1, HeardWorker
  <2>3. Back(client[u], [client[u] EXCEPT !.phase = phase])
    BY <2>2, PhaseGoes
  <2>4. client'[u] = [client[u] EXCEPT !.phase = phase] /\ OtherWorkers(u)
    BY <1>0, <2>1, <2>2, <2>3 DEF OtherWorkers, Back
  <2>5. QED BY <1>1, <1>2, <2>3, <2>4
<1>5. QED BY <1>3, <1>4 DEF Ends

LEMMA TimedOut ==
    ASSUME Typed, Waits, NEW r \in Requests, Timeout(r)
    PROVE  /\ UNCHANGED <<tmp, disk, rows, locked, owner>> /\ faults' = faults + 1
           /\ raced' = raced \cup {req[r].upload} /\ "timeout" \in Faults
           /\ req[r].heard /\ req[r].at # "reply"
           /\ Others(r) /\ Same(req'[r], req[r]) /\ req'[r].heard = FALSE
           /\ req'[r].at = req[r].at /\ req'[r].id = req[r].id
           /\ OtherWorkers(req[r].upload)
           /\ Back(client[req[r].upload], client'[req[r].upload])
<1>0. req \in [Requests -> Request] /\ req[r] \in Request
  BY StateFields
<1>1. /\ UNCHANGED <<tmp, disk, rows, locked, owner>> /\ faults' = faults + 1
      /\ raced' = raced \cup {req[r].upload} /\ "timeout" \in Faults
      /\ req[r].heard /\ req[r].at # "reply" /\ req' = [req EXCEPT ![r].heard = FALSE]
      /\ client' = [client EXCEPT ![req[r].upload] = Retry(@)]
  BY DEF Timeout, Fault, files
<1> DEFINE p == [req[r] EXCEPT !.heard = FALSE]
<1>2. req' = [req EXCEPT ![r] = p]
  BY <1>1
<1>3. /\ p \in Request /\ p.upload = req[r].upload /\ p.chunk = req[r].chunk /\ p.id = req[r].id
      /\ p.at = req[r].at /\ p.heard = FALSE
  BY <1>0 DEF Request
<1> HIDE DEF p
<1>4. Others(r) /\ req'[r] = p
  BY <1>0, <1>2, <1>3 DEF Others
<1>5. QED BY <1>1, <1>3, <1>4, WorkerRetries DEF Same

LEMMA Crashed ==
    ASSUME Typed, Crash
    PROVE  /\ UNCHANGED <<tmp, disk, rows, locked, owner, raced>> /\ faults' = faults + 1
           /\ req' \in [Requests -> Request] /\ \A r \in Requests : req'[r] = Free
           /\ client' \in [Uploads -> Client]
           /\ \A u \in Uploads : \/ client'[u] = client[u] /\ client[u].phase # "waiting"
                                 \/ client[u].phase = "waiting" /\ Back(client[u], client'[u])
<1>1. /\ UNCHANGED <<tmp, disk, rows, locked, owner, raced>> /\ faults' = faults + 1
      /\ req' = [r \in Requests |-> Free]
      /\ client' = [u \in Uploads |->
             IF client[u].phase = "waiting" THEN Retry(client[u]) ELSE client[u]]
  BY DEF Crash, Fault, files
<1>2. ASSUME NEW u \in Uploads, client[u].phase = "waiting"
      PROVE  Back(client[u], Retry(client[u]))
  <2>1. client[u] \in Client /\ client[u].retries < MaxRetries
    BY <1>2, StateFields DEF WorkerWhole
  <2>2. QED BY <2>1, RetryGoes
<1>3. ASSUME NEW u \in Uploads
      PROVE  \/ client'[u] = client[u] /\ client[u].phase # "waiting"
             \/ client[u].phase = "waiting" /\ Back(client[u], client'[u])
  BY <1>1, <1>2, <1>3
<1>4. \A u \in Uploads : client'[u] \in Client
  BY <1>3, StateFields DEF Back
<1>5. client' \in [Uploads -> Client]
  BY <1>1, <1>4
<1>6. req' \in [Requests -> Request] /\ \A r \in Requests : req'[r] = Free
  BY <1>1, FreeTyped
<1>7. QED BY <1>1, <1>3, <1>5, <1>6

LEMMA Purged ==
    ASSUME Typed, NEW id \in Ids, Purge(id)
    PROVE  /\ UNCHANGED <<client, req, disk, rows, locked, owner>> /\ faults' = faults + 1
           /\ "purge" \in Faults /\ tmp' = [tmp EXCEPT ![id] = Absent]
           /\ raced' \in SUBSET Uploads /\ raced \subseteq raced'
           /\ \A r \in Requests : req[r].at \in {"append", "rename", "record"} /\ req[r].id = id
                                      => req[r].upload \in raced'
<1>1. /\ UNCHANGED <<client, req, disk, rows, locked, owner>> /\ faults' = faults + 1
      /\ "purge" \in Faults /\ tmp' = [tmp EXCEPT ![id] = Absent]
      /\ raced' = raced \cup {req[r].upload : r \in {x \in Served : req[x].id = id}}
  BY DEF Purge, Fault
<1>2. \A x \in Served : x \in Requests /\ req[x].upload \in Uploads
  <2>1. \A x \in Requests : RequestWhole(req[x])
    BY StateFields
  <2>2. QED BY <2>1 DEF Served, RequestWhole
<1>3. raced' \in SUBSET Uploads
  BY <1>1, <1>2, StateFields
<1>4. QED BY <1>1, <1>3 DEF Served

-----------------------------------------------------------------------------
(* Types. *)

LEMMA TypedInit == Init => Typed
<1> SUFFICES ASSUME Init PROVE Typed
  OBVIOUS
<1> DEFINE c == [phase |-> "sending", chunk |-> 0, id |-> NoId, retries |-> 0, refreshes |-> 0]
<1>1. 0 \in 0 .. Total /\ 0 \in 0 .. MaxRetries /\ 0 \in 0 .. MaxRefreshes /\ 0 # Total /\ 0 < MaxRetries
  BY Span, SizeAssumption
<1>2. c \in Client
  BY <1>1 DEF Client, Phases
<1>3. c.id = NoId /\ c.chunk = 0 /\ c.phase = "sending" /\ c.retries = 0
  OBVIOUS
<1>4. WorkerWhole(c)
  BY <1>1, <1>3 DEF WorkerWhole
<1>5. \A u \in Uploads : client[u] = c
  BY DEF Init
<1> HIDE DEF c
<1>6. client \in [Uploads -> Client] /\ \A u \in Uploads : WorkerWhole(client[u]) /\ WorkerOwned(u)
  <2>1. client = [u \in Uploads |-> c]
    BY DEF Init, c
  <2>2. QED BY <1>2, <1>3, <1>4, <1>5, <2>1, NullAssumption DEF WorkerOwned
<1>7. req \in [Requests -> Request] /\ \A r \in Requests : req[r] = Free
  BY FreeTyped DEF Init
<1>8. \A r \in Requests : RequestWhole(req[r]) /\ RequestOwned(req[r])
  <2>1. \A r \in Requests : RequestWhole(req[r]) /\ req[r].id = NoId
    BY <1>7, FreeWhole, FreeFields
  <2>2. QED BY <2>1, NullAssumption DEF RequestOwned
<1>9. /\ tmp \in [Ids -> Content \cup {Absent}] /\ disk \in [Ids -> Content \cup {Absent}]
      /\ rows \in [Ids -> Nat \cup {NoRow}] /\ locked \in BOOLEAN
      /\ owner \in [Ids -> Uploads \cup {NoUpload}] /\ raced \in SUBSET Uploads /\ faults \in Nat
      /\ cookie \in BOOLEAN /\ session \in Sessions /\ \A id \in Ids : Unused(id)
  BY DEF Init, Unused, Sessions
<1>10. QED BY <1>6, <1>7, <1>8, <1>9 DEF Typed, TypeOK

\* The id of a file stays the upload's it was generated for.
OwnersKept ==
    /\ owner' \in [Ids -> Uploads \cup {NoUpload}]
    /\ \A id \in Ids : owner[id] # NoUpload => owner'[id] = owner[id]

LEMMA TypedKept ==
    ASSUME Typed, OwnersKept,
           tmp' \in [Ids -> Content \cup {Absent}], disk' \in [Ids -> Content \cup {Absent}],
           rows' \in [Ids -> Nat \cup {NoRow}], locked' \in BOOLEAN, raced' \in SUBSET Uploads, faults' \in Nat,
           cookie' \in BOOLEAN, session' \in Sessions,
           req' \in [Requests -> Request], client' \in [Uploads -> Client],
           \A r \in Requests :
               \/ req'[r] = req[r]
               \/ /\ RequestWhole(req'[r])
                  /\ req'[r].id \in Ids => owner'[req'[r].id] = req'[r].upload,
           \A u \in Uploads :
               \/ client'[u] = client[u]
               \/ /\ WorkerWhole(client'[u])
                  /\ client'[u].id \in Ids => owner'[client'[u].id] = u,
           \A id \in Ids : Unused(id)'
    PROVE  Typed'
<1>1. TypeOK'
  BY DEF TypeOK, OwnersKept
<1>2. ASSUME NEW r \in Requests PROVE RequestWhole(req'[r]) /\ RequestOwned(req[r])'
  <2>1. CASE req'[r] = req[r]
    <3>1. RequestWhole(req[r]) /\ RequestOwned(req[r]) /\ req[r] \in Request
      BY StateFields
    <3>2. ASSUME req[r].id \in Ids PROVE req[r].upload \in Uploads
      <4>1. req[r].at # "free"
        BY <3>1, <3>2, FreeFields, NullAssumption DEF RequestWhole
      <4>2. QED BY <3>1, <4>1 DEF RequestWhole
    <3>3. req[r].id \in Ids => owner'[req[r].id] = req[r].upload
      BY <3>1, <3>2, NullAssumption DEF RequestOwned, OwnersKept
    <3>4. QED BY <2>1, <3>1, <3>3 DEF RequestOwned
  <2>2. CASE /\ RequestWhole(req'[r])
             /\ req'[r].id \in Ids => owner'[req'[r].id] = req'[r].upload
    BY <2>2 DEF RequestOwned
  <2>3. QED BY <1>2, <2>1, <2>2
<1>3. ASSUME NEW u \in Uploads PROVE WorkerWhole(client'[u]) /\ WorkerOwned(u)'
  <2>1. CASE client'[u] = client[u]
    <3>1. WorkerWhole(client[u]) /\ WorkerOwned(u)
      BY StateFields
    <3>2. client[u].id \in Ids => owner'[client[u].id] = u
      BY <3>1, NullAssumption DEF WorkerOwned, OwnersKept
    <3>3. QED BY <2>1, <3>1, <3>2 DEF WorkerOwned
  <2>2. CASE /\ WorkerWhole(client'[u])
             /\ client'[u].id \in Ids => owner'[client'[u].id] = u
    BY <2>2 DEF WorkerOwned
  <2>3. QED BY <1>3, <2>1, <2>2
<1>4. (\A r \in Requests : RequestWhole(req[r]) /\ RequestOwned(req[r]))'
  <2>1. ASSUME NEW r \in Requests PROVE RequestWhole(req[r])' /\ RequestOwned(req[r])'
    BY <1>2 DEF RequestWhole
  <2>2. QED BY <2>1
<1>5. (\A u \in Uploads : WorkerWhole(client[u]) /\ WorkerOwned(u))'
  <2>1. ASSUME NEW u \in Uploads PROVE WorkerWhole(client[u])' /\ WorkerOwned(u)'
    BY <1>3 DEF WorkerWhole
  <2>2. QED BY <2>1
<1>6. QED BY <1>1, <1>4, <1>5 DEF Typed

\* The requests of a step that ends one.
LEMMA FreedWhole ==
    ASSUME NEW r \in Requests, Freed(r)
    PROVE  RequestWhole(req'[r]) /\ req'[r].id \notin Ids
BY FreeWhole, FreeFields, NullAssumption DEF Freed

LEMMA AnsweredWhole ==
    ASSUME Typed, NEW r \in Requests, NEW reply \in Replies, Answered(r, reply), req[r].at # "free",
           reply = "ok" => req[r].id \in Ids
    PROVE  RequestWhole(req'[r]) /\ (req'[r].id \in Ids => owner[req'[r].id] = req'[r].upload)
<1>1. RequestWhole(req[r]) /\ RequestOwned(req[r])
  BY StateFields
<1>2. req[r].upload \in Uploads
  BY <1>1 DEF RequestWhole
<1>3. QED BY <1>1, <1>2 DEF Answered, Same, RequestWhole, RequestOwned

LEMMA BackWhole ==
    ASSUME NEW c \in Client, NEW d, WorkerWhole(c), c.phase = "waiting", Back(c, d)
    PROVE  WorkerWhole(d)
BY DEF WorkerWhole, Back

LEMMA ForthWhole ==
    ASSUME NEW c \in Client, NEW d, NEW id \in Ids, c.chunk \in Chunks, Forth(c, d, id)
    PROVE  WorkerWhole(d)
<1>1. c.chunk \in Nat /\ c.chunk + 1 # 0 /\ (c.chunk + 1 = Total <=> c.chunk = LastChunk)
  BY Span DEF Chunks
<1>2. d.id # NoId
  BY NullAssumption DEF Forth
<1>3. QED BY <1>1, <1>2, SizeAssumption DEF Forth, WorkerWhole

LEMMA TypedNext == Typed /\ Waits /\ [Next]_vars => Typed'
<1> SUFFICES ASSUME Typed, Waits, [Next]_vars PROVE Typed'
  OBVIOUS
<1>0. /\ client \in [Uploads -> Client] /\ req \in [Requests -> Request]
      /\ tmp \in [Ids -> Content \cup {Absent}] /\ disk \in [Ids -> Content \cup {Absent}]
      /\ rows \in [Ids -> Nat \cup {NoRow}] /\ owner \in [Ids -> Uploads \cup {NoUpload}]
      /\ locked \in BOOLEAN /\ raced \in SUBSET Uploads /\ faults \in Nat
      /\ \A r \in Requests : req[r] \in Request /\ RequestWhole(req[r]) /\ RequestOwned(req[r])
      /\ cookie' \in BOOLEAN /\ session' \in Sessions /\ \A id \in Ids : Unused(id)
  BY StateFields, LoginKept
\* Who has an id that is used.
<1>a. ASSUME NEW r \in Requests, req[r].at # "free", req[r].id \in Ids
      PROVE  owner[req[r].id] = req[r].upload /\ owner[req[r].id] # NoUpload
  BY <1>0, <1>a, NullAssumption DEF RequestWhole, RequestOwned
<1>b. ASSUME UNCHANGED owner PROVE OwnersKept
  BY <1>0, <1>b DEF OwnersKept
<1>c. ASSUME UNCHANGED <<tmp, disk, rows, owner>> PROVE \A id \in Ids : Unused(id)'
  BY <1>0, <1>c DEF Unused
<1>d. ASSUME NEW r \in Requests, req[r].at # "free", Refused(r)
      PROVE  /\ Others(r) /\ RequestWhole(req'[r])
             /\ req'[r].id \in Ids => owner[req'[r].id] = req'[r].upload
  <2>1. CASE Freed(r)
    BY <2>1, FreedWhole DEF Freed
  <2>2. ASSUME NEW reply \in Replies \ {"ok"}, Answered(r, reply)
        PROVE  /\ Others(r) /\ RequestWhole(req'[r])
               /\ req'[r].id \in Ids => owner[req'[r].id] = req'[r].upload
    <3>1. reply \in Replies /\ reply # "ok"
      BY <2>2
    <3>2. Others(r)
      BY <2>2 DEF Answered
    <3>3. QED BY <1>d, <2>2, <3>1, <3>2, AnsweredWhole
  <2>3. QED BY <1>d, <2>1, <2>2 DEF Refused
<1>e. ASSUME NEW r \in Requests, req[r].at # "free", req[r].id \in Ids, Granted(r)
      PROVE  /\ Others(r) /\ RequestWhole(req'[r])
             /\ req'[r].id \in Ids => owner[req'[r].id] = req'[r].upload
  <2>1. CASE Freed(r)
    BY <2>1, FreedWhole DEF Freed
  <2>2. CASE Answered(r, "ok")
    <3>1. "ok" \in Replies
      BY DEF Replies
    <3>2. Others(r)
      BY <2>2 DEF Answered
    <3>3. QED BY <1>e, <2>2, <3>1, <3>2, AnsweredWhole
  <2>3. QED BY <1>e, <2>1, <2>2 DEF Granted
<1>1. ASSUME NEW r \in Requests, Check(r) PROVE Typed'
  <2>1. UNCHANGED <<client, tmp, disk, rows, locked, raced, faults>> /\ req[r].at = "sent"
    BY <1>1, Checked
  <2>2. CASE Refused(r) /\ owner' = owner
    <3>1. /\ Others(r) /\ RequestWhole(req'[r])
          /\ req'[r].id \in Ids => owner'[req'[r].id] = req'[r].upload
      BY <1>d, <2>1, <2>2
    <3>2. OwnersKept /\ \A id \in Ids : Unused(id)'
      BY <1>b, <1>c, <2>1, <2>2
    <3>3. QED BY <1>0, <2>1, <3>1, <3>2, TypedKept DEF Others
  <2>3. ASSUME NEW id \in Ids, Moves(r, "append", id), owner' = [owner EXCEPT ![id] = req[r].upload],
               id = req[r].id \/ (req[r].id = NoId /\ owner[id] = NoUpload)
        PROVE  Typed'
    <3>1. req[r].upload \in Uploads /\ Others(r) /\ owner'[id] = req[r].upload
      BY <1>0, <2>1, <2>3 DEF RequestWhole, Moves
    <3>2. owner[id] # NoUpload => owner[id] = req[r].upload
      BY <1>a, <2>1, <2>3
    <3>3. OwnersKept
      BY <1>0, <2>3, <3>1, <3>2 DEF OwnersKept
    <3>4. \A i \in Ids : Unused(i)'
      BY <1>0, <2>1, <2>3, <3>1, NullAssumption DEF Unused
    <3>5. RequestWhole(req'[r]) /\ (req'[r].id \in Ids => owner'[req'[r].id] = req'[r].upload)
      BY <2>3, <3>1 DEF Moves, Same, RequestWhole
    <3>6. QED BY <1>0, <2>1, <3>1, <3>3, <3>4, <3>5, TypedKept DEF Others
  <2>4. QED BY <1>1, <2>2, <2>3, Checked
<1>2. ASSUME NEW r \in Requests, AppendChunk(r) PROVE Typed'
  <2>1. /\ UNCHANGED <<client, disk, rows, locked, owner, raced, faults>>
        /\ req[r].at = "append" /\ req[r].id \in Ids
        /\ tmp' = [tmp EXCEPT ![req[r].id] =
                     IF tmp[req[r].id] = Absent THEN <<req[r].chunk>> ELSE Append(tmp[req[r].id], req[r].chunk)]
    BY <1>2, Appended
  <2>2. tmp' \in [Ids -> Content \cup {Absent}]
    <3>1. req[r].chunk \in Chunks
      BY <1>0, RequestFields
    <3>2. tmp[req[r].id] = Absent \/ tmp[req[r].id] \in Seq(Chunks)
      BY <1>0, <2>1 DEF Content
    <3>3. (IF tmp[req[r].id] = Absent THEN <<req[r].chunk>> ELSE Append(tmp[req[r].id], req[r].chunk)) \in Content
      BY <3>1, <3>2 DEF Content
    <3>4. QED BY <1>0, <2>1, <3>3
  <2>3. OwnersKept
    BY <1>b, <2>1
  <2>4. \A id \in Ids : Unused(id)'
    BY <1>0, <1>a, <2>1 DEF Unused
  <2>5. CASE req[r].chunk = LastChunk /\ Moves(r, "rename", req[r].id)
    <3>1. req[r].upload \in Uploads /\ owner[req[r].id] = req[r].upload
      BY <1>0, <1>a, <2>1 DEF RequestWhole
    <3>2. /\ Others(r) /\ RequestWhole(req'[r])
          /\ req'[r].id \in Ids => owner'[req'[r].id] = req'[r].upload
      BY <2>1, <2>5, <3>1 DEF Moves, Same, RequestWhole
    <3>3. QED BY <1>0, <2>1, <2>2, <2>3, <2>4, <3>2, TypedKept DEF Others
  <2>6. CASE Granted(r)
    <3>1. /\ Others(r) /\ RequestWhole(req'[r])
          /\ req'[r].id \in Ids => owner'[req'[r].id] = req'[r].upload
      BY <1>e, <2>1, <2>6
    <3>2. QED BY <1>0, <2>1, <2>2, <2>3, <2>4, <3>1, TypedKept DEF Others
  <2>7. QED BY <1>2, <2>5, <2>6, Appended
<1>3. ASSUME NEW r \in Requests, Rename(r) PROVE Typed'
  <2>1. /\ UNCHANGED <<client, rows, locked, owner, raced, faults>>
        /\ req[r].at = "rename" /\ req[r].id \in Ids
    BY <1>3, Renamed
  <2>2. OwnersKept
    BY <1>b, <2>1
  <2>3. CASE Refused(r) /\ UNCHANGED <<tmp, disk>>
    <3>1. /\ Others(r) /\ RequestWhole(req'[r])
          /\ req'[r].id \in Ids => owner'[req'[r].id] = req'[r].upload
      BY <1>d, <2>1, <2>3
    <3>2. \A id \in Ids : Unused(id)'
      BY <1>c, <2>1, <2>3
    <3>3. QED BY <1>0, <2>1, <2>2, <2>3, <3>1, <3>2, TypedKept DEF Others
  <2>4. CASE /\ Moves(r, "record", req[r].id)
             /\ disk' = [disk EXCEPT ![req[r].id] = tmp[req[r].id]]
             /\ tmp' = [tmp EXCEPT ![req[r].id] = Absent]
    <3>1. /\ tmp' \in [Ids -> Content \cup {Absent}] /\ disk' \in [Ids -> Content \cup {Absent}]
      BY <1>0, <2>1, <2>4
    <3>2. \A id \in Ids : Unused(id)'
      BY <1>0, <1>a, <2>1, <2>4 DEF Unused
    <3>3. req[r].upload \in Uploads /\ owner[req[r].id] = req[r].upload /\ req[r].chunk = LastChunk
      BY <1>0, <1>a, <2>1 DEF RequestWhole
    <3>4. /\ Others(r) /\ RequestWhole(req'[r])
          /\ req'[r].id \in Ids => owner'[req'[r].id] = req'[r].upload
      BY <2>1, <2>4, <3>3 DEF Moves, Same, RequestWhole
    <3>5. QED BY <1>0, <2>1, <2>2, <3>1, <3>2, <3>4, TypedKept DEF Others
  <2>5. QED BY <1>3, <2>3, <2>4, Renamed
<1>4. ASSUME NEW r \in Requests, Record(r) PROVE Typed'
  <2>1. /\ UNCHANGED <<client, tmp, disk, locked, owner, raced, faults>>
        /\ req[r].at = "record" /\ req[r].id \in Ids
    BY <1>4, Recorded
  <2>2. OwnersKept
    BY <1>b, <2>1
  <2>3. CASE Refused(r) /\ rows' = rows
    <3>1. /\ Others(r) /\ RequestWhole(req'[r])
          /\ req'[r].id \in Ids => owner'[req'[r].id] = req'[r].upload
      BY <1>d, <2>1, <2>3
    <3>2. \A id \in Ids : Unused(id)'
      BY <1>c, <2>1, <2>3
    <3>3. QED BY <1>0, <2>1, <2>2, <2>3, <3>1, <3>2, TypedKept DEF Others
  <2>4. CASE Granted(r) /\ rows' = [rows EXCEPT ![req[r].id] = Bytes(disk[req[r].id])]
    <3>1. rows' \in [Ids -> Nat \cup {NoRow}]
      <4>1. Bytes(disk[req[r].id]) \in Nat
        BY <1>0, <2>1, BytesTyped
      <4>2. QED BY <1>0, <2>1, <2>4, <4>1
    <3>2. \A id \in Ids : Unused(id)'
      BY <1>0, <1>a, <2>1, <2>4 DEF Unused
    <3>3. /\ Others(r) /\ RequestWhole(req'[r])
          /\ req'[r].id \in Ids => owner'[req'[r].id] = req'[r].upload
      BY <1>e, <2>1, <2>4
    <3>4. QED BY <1>0, <2>1, <2>2, <3>1, <3>2, <3>3, TypedKept DEF Others
  <2>5. QED BY <1>4, <2>3, <2>4, Recorded
<1>5. ASSUME NEW u \in Uploads, NEW r \in Requests, Send(u, r) PROVE Typed'
  <2>1. UNCHANGED <<tmp, disk, rows, locked, owner, raced, faults>>
    BY <1>5, Sent
  <2>2. OwnersKept /\ \A id \in Ids : Unused(id)'
    BY <1>b, <1>c, <2>1
  <2>3. /\ Others(r) /\ req'[r].upload = u /\ req'[r].chunk = client[u].chunk
        /\ req'[r].id = client[u].id /\ req'[r].at = "sent"
    BY <1>5, Sent
  <2>4. /\ OtherWorkers(u) /\ client'[u].phase = "waiting" /\ client'[u].id = client[u].id
        /\ client'[u].chunk = client[u].chunk /\ client'[u].retries = client[u].retries
        /\ client[u].phase = "sending"
    BY <1>5, Sent
  <2>5. WorkerWhole(client[u]) /\ (client[u].id \in Ids => owner[client[u].id] = u)
    BY StateFields DEF WorkerOwned
  <2>6. RequestWhole(req'[r]) /\ (req'[r].id \in Ids => owner'[req'[r].id] = req'[r].upload)
    BY <2>1, <2>3, <2>5 DEF RequestWhole, WorkerWhole
  <2>7. WorkerWhole(client'[u]) /\ (client'[u].id \in Ids => owner'[client'[u].id] = u)
    BY <2>1, <2>4, <2>5 DEF WorkerWhole
  <2>8. QED BY <1>0, <2>1, <2>2, <2>3, <2>4, <2>6, <2>7, TypedKept DEF Others, OtherWorkers
<1>f. ASSUME NEW r \in Requests, req[r].heard, Back(client[req[r].upload], client'[req[r].upload])
      PROVE  /\ WorkerWhole(client'[req[r].upload])
             /\ client'[req[r].upload].id \in Ids => owner[client'[req[r].upload].id] = req[r].upload
  <2>1. req[r].upload \in Uploads /\ client[req[r].upload] \in Client /\ client[req[r].upload].phase = "waiting"
    BY <1>f, HeardWorker
  <2>2. WorkerWhole(client[req[r].upload]) /\ WorkerOwned(req[r].upload)
    BY <2>1, StateFields
  <2>3. WorkerWhole(client'[req[r].upload])
    BY <1>f, <2>1, <2>2, BackWhole
  <2>4. QED BY <1>f, <2>2, <2>3 DEF Back, WorkerOwned
<1>6. ASSUME NEW r \in Requests, Hear(r) PROVE Typed'
  <2>1. /\ UNCHANGED <<tmp, disk, rows, locked, owner, raced, faults>>
        /\ req[r].at = "reply" /\ req[r].heard /\ Freed(r) /\ OtherWorkers(req[r].upload)
    BY <1>6, Answers
  <2>2. OwnersKept /\ \A id \in Ids : Unused(id)'
    BY <1>b, <1>c, <2>1
  <2>3. RequestWhole(req'[r]) /\ req'[r].id \notin Ids /\ Others(r)
    BY <2>1, FreedWhole DEF Freed
  <2>4. /\ WorkerWhole(client'[req[r].upload])
        /\ client'[req[r].upload].id \in Ids => owner[client'[req[r].upload].id] = req[r].upload
    <3>1. CASE Back(client[req[r].upload], client'[req[r].upload])
      BY <1>f, <2>1, <3>1
    <3>2. CASE req[r].id \in Ids /\ Forth(client[req[r].upload], client'[req[r].upload], req[r].id)
      <4>1. client[req[r].upload] \in Client /\ client[req[r].upload].chunk \in Chunks
        BY <2>1, HeardWorker
      <4>2. WorkerWhole(client'[req[r].upload])
        BY <3>2, <4>1, ForthWhole
      <4>3. QED BY <1>a, <2>1, <3>2, <4>2 DEF Forth
    <3>3. QED BY <1>6, <3>1, <3>2, Answers
  <2>5. QED BY <1>0, <2>1, <2>2, <2>3, <2>4, TypedKept DEF Others, OtherWorkers
<1>7. ASSUME NEW r \in Requests, Ends(r) PROVE Typed'
  <2>1. /\ UNCHANGED <<tmp, disk, rows, locked, owner, raced>> /\ faults' = faults + 1
        /\ req[r].heard /\ Freed(r) /\ OtherWorkers(req[r].upload)
        /\ Back(client[req[r].upload], client'[req[r].upload])
    BY <1>7, Lost
  <2>2. OwnersKept /\ \A id \in Ids : Unused(id)'
    BY <1>b, <1>c, <2>1
  <2>3. RequestWhole(req'[r]) /\ req'[r].id \notin Ids /\ Others(r)
    BY <2>1, FreedWhole DEF Freed
  <2>4. /\ WorkerWhole(client'[req[r].upload])
        /\ client'[req[r].upload].id \in Ids => owner[client'[req[r].upload].id] = req[r].upload
    BY <1>f, <2>1
  <2>5. faults' \in Nat
    BY <1>0, <2>1
  <2>6. QED BY <1>0, <2>1, <2>2, <2>3, <2>4, <2>5, TypedKept DEF Others, OtherWorkers
<1>8. ASSUME NEW r \in Requests, Timeout(r) PROVE Typed'
  <2>1. /\ UNCHANGED <<tmp, disk, rows, locked, owner>> /\ faults' = faults + 1
        /\ raced' = raced \cup {req[r].upload} /\ req[r].heard /\ req[r].at # "reply"
        /\ Others(r) /\ Same(req'[r], req[r]) /\ req'[r].heard = FALSE
        /\ req'[r].at = req[r].at /\ req'[r].id = req[r].id
        /\ OtherWorkers(req[r].upload) /\ Back(client[req[r].upload], client'[req[r].upload])
    BY <1>8, TimedOut
  <2>2. OwnersKept /\ \A id \in Ids : Unused(id)'
    BY <1>b, <1>c, <2>1
  <2>3. req[r].upload \in Uploads /\ req[r].at # "free"
    BY <2>1, HeardWorker
  <2>4. RequestWhole(req[r]) /\ RequestOwned(req[r])
    BY <1>0
  <2>5. RequestWhole(req'[r]) /\ (req'[r].id \in Ids => owner'[req'[r].id] = req'[r].upload)
    BY <2>1, <2>3, <2>4 DEF RequestWhole, RequestOwned, Same
  <2>6. /\ WorkerWhole(client'[req[r].upload])
        /\ client'[req[r].upload].id \in Ids => owner[client'[req[r].upload].id] = req[r].upload
    BY <1>f, <2>1
  <2>7. faults' \in Nat /\ raced' \in SUBSET Uploads
    BY <1>0, <2>1, <2>3
  <2>8. QED BY <1>0, <2>1, <2>2, <2>5, <2>6, <2>7, TypedKept DEF Others, OtherWorkers
<1>9. CASE Crash
  <2>1. /\ UNCHANGED <<tmp, disk, rows, locked, owner, raced>> /\ faults' = faults + 1
        /\ req' \in [Requests -> Request] /\ \A r \in Requests : req'[r] = Free
        /\ client' \in [Uploads -> Client]
        /\ \A u \in Uploads : \/ client'[u] = client[u] /\ client[u].phase # "waiting"
                              \/ client[u].phase = "waiting" /\ Back(client[u], client'[u])
    BY <1>9, Crashed
  <2>2. OwnersKept /\ \A id \in Ids : Unused(id)'
    BY <1>b, <1>c, <2>1
  <2>3. \A r \in Requests : RequestWhole(req'[r]) /\ req'[r].id \notin Ids
    BY <2>1, FreeWhole, FreeFields, NullAssumption
  <2>4. ASSUME NEW u \in Uploads
        PROVE  \/ client'[u] = client[u]
               \/ WorkerWhole(client'[u]) /\ (client'[u].id \in Ids => owner'[client'[u].id] = u)
    <3>1. client[u] \in Client /\ WorkerWhole(client[u]) /\ WorkerOwned(u)
      BY StateFields
    <3>2. CASE client[u].phase = "waiting" /\ Back(client[u], client'[u])
      <4>1. WorkerWhole(client'[u])
        BY <3>1, <3>2, BackWhole
      <4>2. QED BY <2>1, <3>1, <3>2, <4>1 DEF Back, WorkerOwned
    <3>3. QED BY <2>1, <3>2
  <2>5. faults' \in Nat
    BY <1>0, <2>1
  <2>6. QED BY <1>0, <2>1, <2>2, <2>3, <2>4, <2>5, TypedKept
<1>10. ASSUME NEW id \in Ids, Purge(id) PROVE Typed'
  <2>1. /\ UNCHANGED <<client, req, disk, rows, locked, owner>> /\ faults' = faults + 1
        /\ tmp' = [tmp EXCEPT ![id] = Absent] /\ raced' \in SUBSET Uploads
    BY <1>10, Purged
  <2>2. OwnersKept
    BY <1>b, <2>1
  <2>3. tmp' \in [Ids -> Content \cup {Absent}] /\ faults' \in Nat
    BY <1>0, <2>1
  <2>4. \A i \in Ids : Unused(i)'
    BY <1>0, <2>1 DEF Unused
  <2>5. QED BY <1>0, <2>1, <2>2, <2>3, <2>4, TypedKept
<1>11. CASE Complete
  <2>1. UNCHANGED <<client, req, tmp, disk, rows, owner, raced, faults>> /\ locked' = TRUE
    BY <1>11 DEF Complete, files
  <2>2. OwnersKept /\ \A id \in Ids : Unused(id)'
    BY <1>b, <1>c, <2>1
  <2>3. QED BY <1>0, <2>1, <2>2, TypedKept
<1>12. CASE Quiet
  <2>1. UNCHANGED <<client, req, tmp, disk, rows, locked, owner, raced>> /\ faults' \in Nat
    BY <1>0, <1>12, Quiets
  <2>2. OwnersKept /\ \A id \in Ids : Unused(id)'
    BY <1>b, <1>c, <2>1
  <2>3. QED BY <1>0, <2>1, <2>2, TypedKept
<1>13. QED
  BY <1>1, <1>2, <1>3, <1>4, <1>5, <1>6, <1>7, <1>8, <1>9, <1>10, <1>11, <1>12 DEF Next, Serve, Ends, Quiet

-----------------------------------------------------------------------------
(* The worker waits for one request. *)

LEMMA WaitsInit == Init => Waits
<1> SUFFICES ASSUME Init PROVE Waits
  OBVIOUS
<1>1. \A r \in Requests : req[r].heard = FALSE /\ req[r].chunk = 0
  BY FreeFields DEF Init
<1>2. QED BY <1>1 DEF Waits, Waiting, Following, Single

\* Requests that end, or go on for the same worker, and a worker that goes on.
LEMMA WaitsKept ==
    ASSUME Waits,
           \A r \in Requests :
               \/ req'[r] = req[r]
               \/ req'[r] = Free
               \/ /\ Same(req'[r], req[r]) /\ (req'[r].heard => req[r].heard) /\ req'[r].at # "sent"
                  /\ req'[r].id = req[r].id \/ req[r].id \notin Ids
               \/ Same(req'[r], req[r]) /\ req'[r].heard = FALSE /\ req'[r].id = req[r].id,
           \A r \in Requests : req'[r].heard => client'[req'[r].upload] = client[req'[r].upload],
           \A r \in Requests : req'[r].chunk > 0 => client'[req'[r].upload].id = client[req'[r].upload].id
    PROVE  Waits'
<1>0. \A r \in Requests : Waiting(req[r]) /\ Following(req[r])
  BY DEF Waits
<1>1. ASSUME NEW r \in Requests, req'[r].heard PROVE req[r].heard /\ req'[r].upload = req[r].upload
  BY <1>1, FreeFields DEF Same
<1>2. ASSUME NEW r \in Requests PROVE Waiting(req[r])'
  <2> SUFFICES ASSUME req'[r].heard
               PROVE  /\ client'[req'[r].upload].phase = "waiting" /\ client'[req'[r].upload].chunk = req'[r].chunk
                      /\ req'[r].at = "sent" => req'[r].id = client'[req'[r].upload].id
    BY DEF Waiting
  <2>1. /\ req[r].heard /\ req'[r].upload = req[r].upload /\ req'[r].chunk = req[r].chunk
        /\ req'[r].at = "sent" => req[r].at = "sent" /\ req'[r].id = req[r].id
    BY <1>2, FreeFields DEF Same
  <2>2. client'[req[r].upload] = client[req[r].upload]
    BY <1>2, <2>1
  <2>3. QED BY <1>0, <1>2, <2>1, <2>2 DEF Waiting
<1>3. ASSUME NEW r \in Requests PROVE Following(req[r])'
  <2> SUFFICES ASSUME req'[r].chunk > 0
               PROVE  req'[r].id \in Ids /\ req'[r].id = client'[req'[r].upload].id
    BY DEF Following
  <2>0. req'[r] # Free
    <3> SUFFICES ASSUME req'[r] = Free PROVE req'[r].chunk = 0
      OBVIOUS
    <3>1. QED BY FreeFields
  <2>1. req'[r].upload = req[r].upload /\ req'[r].chunk = req[r].chunk
        /\ (req'[r].id = req[r].id \/ req[r].id \notin Ids)
    BY <1>3, <2>0 DEF Same
  <2>2. req[r].id \in Ids /\ req[r].id = client[req[r].upload].id
    BY <1>0, <1>3, <2>1 DEF Following
  <2>3. client'[req[r].upload].id = client[req[r].upload].id
    BY <1>3, <2>1
  <2>4. QED BY <2>1, <2>2, <2>3
<1>4. Single'
  BY <1>1 DEF Single, Waits
<1>5. QED BY <1>2, <1>3, <1>4 DEF Waits

\* A request that is answered.
LEMMA RefusedEnds ==
    ASSUME NEW r \in Requests, Refused(r) \/ Granted(r)
    PROVE  /\ Others(r)
           /\ \/ req'[r] = Free
              \/ /\ Same(req'[r], req[r]) /\ req[r].heard /\ req'[r].at = "reply"
                 /\ req'[r].id = req[r].id
<1>1. CASE Freed(r)
  BY <1>1 DEF Freed
<1>2. ASSUME NEW reply, Answered(r, reply)
      PROVE  /\ Others(r) /\ Same(req'[r], req[r]) /\ req[r].heard /\ req'[r].at = "reply"
             /\ req'[r].id = req[r].id
  BY <1>2 DEF Answered
<1>3. QED BY <1>1, <1>2 DEF Refused, Granted

LEMMA WaitsServed ==
    ASSUME Typed, Waits, NEW r \in Requests, Serve(r)
    PROVE  Waits' /\ client' = client
<1>1. CASE Check(r)
  <2>1. client' = client /\ req[r].at = "sent"
    BY <1>1, Checked
  <2>2. CASE Refused(r)
    BY <2>1, <2>2, RefusedEnds, WaitsKept DEF Others
  <2>3. ASSUME NEW id \in Ids, Moves(r, "append", id), id = req[r].id \/ req[r].id = NoId PROVE Waits'
    <3>1. Others(r) /\ Same(req'[r], req[r]) /\ req'[r].heard = req[r].heard /\ req'[r].at = "append" /\ req'[r].id = id
      BY <2>3 DEF Moves
    <3>2. req'[r].id = req[r].id \/ req[r].id \notin Ids
      BY <2>3, <3>1, NullAssumption
    <3>3. QED BY <2>1, <3>1, <3>2, WaitsKept DEF Others
  <2>4. QED BY <1>1, <2>1, <2>2, <2>3, Checked
<1>2. ASSUME NEW at \in {"rename", "record"}, Moves(r, at, req[r].id), client' = client PROVE Waits'
  <2>1. Others(r) /\ Same(req'[r], req[r]) /\ req'[r].heard = req[r].heard /\ req'[r].at # "sent" /\ req'[r].id = req[r].id
    BY <1>2 DEF Moves
  <2>2. QED BY <1>2, <2>1, WaitsKept DEF Others
<1>3. ASSUME Refused(r) \/ Granted(r), client' = client PROVE Waits'
  BY <1>3, RefusedEnds, WaitsKept DEF Others
<1>4. CASE AppendChunk(r)
  BY <1>2, <1>3, <1>4, Appended
<1>5. CASE Rename(r)
  BY <1>2, <1>3, <1>5, Renamed
<1>6. CASE Record(r)
  BY <1>3, <1>6, Recorded
<1>7. QED BY <1>1, <1>4, <1>5, <1>6 DEF Serve

LEMMA WaitsNext == Typed /\ Waits /\ [Next]_vars => Waits'
<1> SUFFICES ASSUME Typed, Waits, [Next]_vars PROVE Waits'
  OBVIOUS
<1>0. \A r \in Requests : req[r] \in Request /\ RequestWhole(req[r]) /\ Waiting(req[r]) /\ Following(req[r])
  BY StateFields DEF Waits
<1>1. ASSUME NEW r \in Requests, Serve(r) PROVE Waits'
  BY <1>1, WaitsServed
\* A request that is heard is the only one of its worker.
<1>a. ASSUME NEW r \in Requests, req[r].heard,
             \A x \in Requests \ {r} : req'[x] = req[x],
             \A x \in Uploads \ {req[r].upload} : client'[x] = client[x],
             req'[r].heard = FALSE
      PROVE  \A x \in Requests : req'[x].heard => client'[req'[x].upload] = client[req'[x].upload]
  <2> SUFFICES ASSUME NEW x \in Requests, req'[x].heard
               PROVE  client'[req'[x].upload] = client[req'[x].upload]
    OBVIOUS
  <2>1. x # r /\ req'[x] = req[x] /\ req[x].upload # req[r].upload
    BY <1>a DEF Waits, Single
  <2>2. req[x].upload \in Uploads
    BY <1>0, <2>1 DEF RequestWhole
  <2>3. QED BY <1>a, <2>1, <2>2
<1>b. ASSUME NEW u \in Uploads, \A x \in Uploads \ {u} : client'[x] = client[x],
             \A x \in Requests : req[x].chunk > 0 /\ req[x].upload = u => client'[u].id = client[u].id
      PROVE  \A x \in Requests : req[x].chunk > 0 => client'[req[x].upload].id = client[req[x].upload].id
  <2> SUFFICES ASSUME NEW x \in Requests, req[x].chunk > 0
               PROVE  client'[req[x].upload].id = client[req[x].upload].id
    OBVIOUS
  <2>0. req[x] # Free
    <3> SUFFICES ASSUME req[x] = Free PROVE req[x].chunk = 0
      OBVIOUS
    <3>1. QED BY FreeFields
  <2>1. req[x].upload \in Uploads
    BY <1>0, <2>0 DEF RequestWhole
  <2>2. QED BY <1>b, <2>1
<1>2. ASSUME NEW r \in Requests, req[r].heard, Freed(r), OtherWorkers(req[r].upload),
             \/ Forth(client[req[r].upload], client'[req[r].upload], req[r].id)
             \/ Back(client[req[r].upload], client'[req[r].upload])
      PROVE  Waits'
  <2>1. req[r].upload \in Uploads /\ client[req[r].upload].chunk = req[r].chunk /\ req[r].chunk \in Chunks
    BY <1>2, HeardWorker
  <2>2. WorkerWhole(client[req[r].upload])
    BY <2>1, StateFields
  <2>3. ASSUME NEW x \in Requests, req[x].chunk > 0, req[x].upload = req[r].upload
        PROVE  client'[req[r].upload].id = client[req[r].upload].id
    <3>1. client[req[r].upload].id \in Ids
      BY <1>0, <2>3 DEF Following
    <3>2. req[r].chunk > 0
      BY <2>1, <2>2, <3>1, NullAssumption DEF WorkerWhole, Chunks
    <3>3. req[r].id = client[req[r].upload].id
      BY <1>0, <3>2 DEF Following
    <3>4. QED BY <1>2, <3>3 DEF Forth, Back
  <2>4. \A x \in Requests : req[x].chunk > 0 => client'[req[x].upload].id = client[req[x].upload].id
    BY <1>2, <1>b, <2>1, <2>3 DEF OtherWorkers
  <2>5. req'[r] = Free /\ req'[r].heard = FALSE /\ req'[r].chunk = 0 /\ \A x \in Requests \ {r} : req'[x] = req[x]
    BY <1>2, FreeFields DEF Freed, Others
  <2>6. \A x \in Requests : req'[x].heard => client'[req'[x].upload] = client[req'[x].upload]
    BY <1>2, <1>a, <2>5 DEF OtherWorkers
  <2>7. \A x \in Requests : req'[x].chunk > 0 => client'[req'[x].upload].id = client[req'[x].upload].id
    BY <2>4, <2>5
  <2>8. QED BY <2>5, <2>6, <2>7, WaitsKept
<1>3. ASSUME NEW r \in Requests, Hear(r) PROVE Waits'
  BY <1>2, <1>3, Answers
<1>4. ASSUME NEW r \in Requests, Ends(r) PROVE Waits'
  BY <1>2, <1>4, Lost
<1>5. ASSUME NEW r \in Requests, Timeout(r) PROVE Waits'
  <2>1. /\ req[r].heard /\ Others(r) /\ Same(req'[r], req[r]) /\ req'[r].heard = FALSE
        /\ req'[r].id = req[r].id /\ OtherWorkers(req[r].upload)
        /\ Back(client[req[r].upload], client'[req[r].upload])
    BY <1>5, TimedOut
  <2>2. req[r].upload \in Uploads /\ client'[req[r].upload].id = client[req[r].upload].id
    BY <2>1, HeardWorker DEF Back
  <2>3. \A x \in Requests : req[x].chunk > 0 => client'[req[x].upload].id = client[req[x].upload].id
    BY <1>b, <2>1, <2>2 DEF OtherWorkers
  <2>4. \A x \in Requests : req'[x].heard => client'[req'[x].upload] = client[req'[x].upload]
    BY <1>a, <2>1 DEF OtherWorkers, Others
  <2>5. \A x \in Requests : req'[x].upload = req[x].upload /\ req'[x].chunk = req[x].chunk
    BY <2>1 DEF Others, Same
  <2>6. \A x \in Requests : req'[x].chunk > 0 => client'[req'[x].upload].id = client[req'[x].upload].id
    BY <2>3, <2>5
  <2>7. QED BY <2>1, <2>4, <2>6, WaitsKept DEF Others
<1>6. ASSUME NEW u \in Uploads, NEW r \in Requests, Send(u, r) PROVE Waits'
  <2>1. /\ req[r] = Free /\ client[u].phase = "sending" /\ Others(r)
        /\ req'[r].upload = u /\ req'[r].chunk = client[u].chunk
        /\ req'[r].id = client[u].id /\ req'[r].at = "sent" /\ req'[r].heard = TRUE
    BY <1>6, Sent
  <2>2. /\ OtherWorkers(u) /\ client'[u].phase = "waiting" /\ client'[u].id = client[u].id
        /\ client'[u].chunk = client[u].chunk
    BY <1>6, Sent
  <2>3. \A x \in Requests : req[x].heard => req[x].upload # u /\ req[x].upload \in Uploads
    BY <1>0, <2>1 DEF Waiting, RequestWhole
  <2>4. \A x \in Requests : req[x].chunk > 0 => client'[req[x].upload].id = client[req[x].upload].id
    BY <1>b, <2>2 DEF OtherWorkers
  <2>5. WorkerWhole(client[u]) /\ client[u] \in Client
    BY StateFields
  <2>6. Waiting(req[r])' /\ Following(req[r])'
    <3>1. client[u].chunk > 0 => client[u].id \in Ids
      BY <2>5, ClientFields DEF WorkerWhole
    <3>2. QED BY <2>1, <2>2, <3>1 DEF Waiting, Following
  <2>7. ASSUME NEW x \in Requests \ {r} PROVE Waiting(req[x])' /\ Following(req[x])'
    <3>1. req'[x] = req[x] /\ Waiting(req[x]) /\ Following(req[x])
      BY <1>0, <2>1 DEF Others
    <3>2. Waiting(req[x])'
      BY <2>2, <2>3, <3>1 DEF Waiting, OtherWorkers
    <3>3. Following(req[x])'
      BY <2>4, <3>1 DEF Following
    <3>4. QED BY <3>2, <3>3
  <2>8. Single'
    BY <2>1, <2>3 DEF Single, Waits, Others
  <2>9. QED BY <2>6, <2>7, <2>8 DEF Waits
<1>7. CASE Crash
  <2>1. \A r \in Requests : req'[r].heard = FALSE /\ req'[r].chunk = 0
    BY <1>7, Crashed, FreeFields
  <2>2. QED BY <2>1 DEF Waits, Waiting, Following, Single
<1>8. ASSUME UNCHANGED <<client, req>> PROVE Waits'
  BY <1>8, WaitsKept
<1>9. CASE Complete \/ (\E id \in Ids : Purge(id)) \/ Quiet
  BY <1>8, <1>9, Quiets DEF Complete, Purge
<1>10. QED
  BY <1>1, <1>3, <1>4, <1>5, <1>6, <1>7, <1>9 DEF Next, Ends, Quiet

-----------------------------------------------------------------------------
(* What no step takes back. *)

LEMMA OwnersStay == Typed /\ Waits /\ [Next]_vars => OwnersKept
<1> SUFFICES ASSUME Typed, Waits, [Next]_vars PROVE OwnersKept
  OBVIOUS
<1>0. owner \in [Ids -> Uploads \cup {NoUpload}]
  BY StateFields
<1>1. ASSUME NEW r \in Requests, Check(r), owner' # owner PROVE OwnersKept
  <2>1. PICK id \in Ids : /\ owner' = [owner EXCEPT ![id] = req[r].upload]
                          /\ id = req[r].id \/ (req[r].id = NoId /\ owner[id] = NoUpload)
    BY <1>1, Checked
  <2>2. req[r].at = "sent" /\ RequestWhole(req[r]) /\ RequestOwned(req[r])
    BY <1>1, Checked, StateFields
  <2>3. req[r].upload \in Uploads /\ (id = req[r].id => owner[id] = req[r].upload)
    BY <2>2 DEF RequestWhole, RequestOwned
  <2>4. QED BY <1>0, <2>1, <2>3 DEF OwnersKept
<1>2. CASE owner' = owner
  BY <1>0, <1>2 DEF OwnersKept
<1>3. ASSUME NEW r \in Requests, AppendChunk(r) \/ Rename(r) \/ Record(r) PROVE owner' = owner
  BY <1>3, Appended, Renamed, Recorded
<1>4. ASSUME NEW r \in Requests, Hear(r) \/ Ends(r) \/ Timeout(r) PROVE owner' = owner
  BY <1>4, Answers, Lost, TimedOut
<1>5. ASSUME Crash \/ Complete \/ (\E id \in Ids : Purge(id)) \/ Quiet
      PROVE  owner' = owner
  BY <1>5, Crashed, Purged, Quiets DEF Complete
<1>6. ASSUME NEW u \in Uploads, NEW r \in Requests, Send(u, r) PROVE owner' = owner
  BY <1>6, Sent
<1>7. QED BY <1>1, <1>2, <1>3, <1>4, <1>5, <1>6 DEF Next, Serve, Ends, Quiet

\* A worker keeps the id it was told.
IdsKept == \A u \in Uploads : client[u].id \in Ids => client'[u].id = client[u].id

LEMMA IdsStay == Typed /\ Waits /\ [Next]_vars => IdsKept
<1> SUFFICES ASSUME Typed, Waits, [Next]_vars PROVE IdsKept
  OBVIOUS
<1>1. CASE client' = client
  BY <1>1 DEF IdsKept
<1>2. ASSUME NEW r \in Requests, Hear(r) PROVE IdsKept
  <2>1. req[r].heard /\ OtherWorkers(req[r].upload)
    BY <1>2, Answers
  <2>2. CASE Back(client[req[r].upload], client'[req[r].upload])
    BY <2>1, <2>2 DEF IdsKept, Back, OtherWorkers
  <2>3. CASE Forth(client[req[r].upload], client'[req[r].upload], req[r].id)
    <3>1. /\ req[r].upload \in Uploads /\ client[req[r].upload].chunk = req[r].chunk
          /\ req[r].chunk \in Chunks /\ Following(req[r])
      BY <2>1, HeardWorker DEF Waits
    <3>2. WorkerWhole(client[req[r].upload])
      BY <3>1, StateFields
    <3>3. ASSUME client[req[r].upload].id \in Ids PROVE client'[req[r].upload].id = client[req[r].upload].id
      <4>1. req[r].chunk > 0
        BY <3>1, <3>2, <3>3, NullAssumption DEF WorkerWhole, Chunks
      <4>2. QED BY <2>3, <3>1, <4>1 DEF Forth, Following
    <3>4. QED BY <2>1, <3>3 DEF IdsKept, OtherWorkers
  <2>4. QED BY <1>2, <2>2, <2>3, Answers
<1>3. ASSUME NEW r \in Requests, Ends(r) \/ Timeout(r) PROVE IdsKept
  <2>1. OtherWorkers(req[r].upload) /\ Back(client[req[r].upload], client'[req[r].upload])
    BY <1>3, Lost, TimedOut
  <2>2. QED BY <2>1 DEF IdsKept, Back, OtherWorkers
<1>4. CASE Crash
  BY <1>4, Crashed DEF IdsKept, Back
<1>5. ASSUME NEW u \in Uploads, NEW r \in Requests, Send(u, r) PROVE IdsKept
  <2>1. OtherWorkers(u) /\ client'[u].id = client[u].id
    BY <1>5, Sent
  <2>2. QED BY <2>1 DEF IdsKept, OtherWorkers
<1>6. ASSUME NEW r \in Requests, Serve(r) PROVE client' = client
  BY <1>6, WaitsServed
<1>7. ASSUME Complete \/ (\E id \in Ids : Purge(id)) \/ Quiet PROVE client' = client
  BY <1>7, Quiets DEF Complete, Purge
<1>8. QED BY <1>1, <1>2, <1>3, <1>4, <1>5, <1>6, <1>7 DEF Next, Ends, Quiet

\* Rows stay; only Record makes one.
RowsKept == \A id \in Ids : rows[id] # NoRow => rows'[id] = rows[id]

LEMMA RowsSame ==
    ASSUME Typed, Waits, [Next]_vars, ~\E r \in Requests : Record(r)
    PROVE  rows' = rows
<1>1. ASSUME NEW r \in Requests, Check(r) \/ AppendChunk(r) \/ Rename(r) PROVE rows' = rows
  BY <1>1, Checked, Appended, Renamed
<1>2. ASSUME NEW r \in Requests, Hear(r) \/ Ends(r) \/ Timeout(r) PROVE rows' = rows
  BY <1>2, Answers, Lost, TimedOut
<1>3. ASSUME Crash \/ Complete \/ (\E id \in Ids : Purge(id)) \/ Quiet PROVE rows' = rows
  BY <1>3, Crashed, Purged, Quiets DEF Complete, files
<1>4. ASSUME NEW u \in Uploads, NEW r \in Requests, Send(u, r) PROVE rows' = rows
  BY <1>4, Sent
<1>5. QED BY <1>1, <1>2, <1>3, <1>4 DEF Next, Serve, Ends, Quiet

LEMMA RowsStay == Typed /\ Waits /\ [Next]_vars => RowsKept
<1> SUFFICES ASSUME Typed, Waits, [Next]_vars PROVE RowsKept
  OBVIOUS
<1>1. ASSUME NEW r \in Requests, Record(r) PROVE RowsKept
  BY <1>1, Recorded, StateFields DEF RowsKept
<1>2. CASE rows' = rows
  BY <1>2 DEF RowsKept
<1>3. QED BY <1>1, <1>2, RowsSame

-----------------------------------------------------------------------------
(* Rows and the workers who know of them. *)

LEMMA ToldInit == Init => Told
<1> SUFFICES ASSUME Init PROVE Told
  OBVIOUS
<1>1. \A r \in Requests : req[r].at = "free"
  BY FreeFields DEF Init
<1>2. \A u \in Uploads : client[u].phase = "sending"
  BY DEF Init
<1>3. \A id \in Ids : rows[id] = NoRow
  BY DEF Init
<1>4. QED BY <1>1, <1>2, <1>3 DEF Told, RowKnown, ReplyTrue, DoneTrue

LEMMA ToldKept ==
    ASSUME Typed, Waits, Told, [Next]_vars,
           \A id \in Ids : rows'[id] # NoRow /\ rows[id] = NoRow => RowKnown(id)',
           \A r \in Requests : req'[r] = req[r] \/ ReplyTrue(req[r])',
           \A u \in Uploads : client'[u] = client[u] \/ DoneTrue(u)'
    PROVE  Told'
<1>0. OwnersKept /\ IdsKept /\ RowsKept
  BY OwnersStay, IdsStay, RowsStay
<1>1. ASSUME NEW id \in Ids, rows[id] # NoRow PROVE RowKnown(id)'
  <2>1. owner[id] \in Uploads /\ owner'[id] = owner[id] /\ RowKnown(id)
    BY <1>0, <1>1, StateFields DEF Unused, OwnersKept, Told
  <2>2. QED BY <1>0, <1>1, <2>1 DEF RowKnown, IdsKept
<1>2. \A id \in Ids : RowKnown(id)'
  <2>1. ASSUME NEW id \in Ids, rows'[id] = NoRow PROVE RowKnown(id)'
    BY <2>1 DEF RowKnown
  <2>2. QED BY <1>1, <2>1
<1>3. ASSUME NEW r \in Requests PROVE ReplyTrue(req[r])'
  <2>1. CASE req'[r] = req[r]
    <3> SUFFICES ASSUME req[r].at = "reply", req[r].reply = "ok", req[r].chunk = LastChunk
                 PROVE  rows'[req[r].id] # NoRow
      BY <2>1 DEF ReplyTrue
    <3>1. req[r].id \in Ids /\ rows[req[r].id] # NoRow
      BY StateFields DEF RequestWhole, Told, ReplyTrue
    <3>2. QED BY <1>0, <3>1 DEF RowsKept
  <2>2. QED BY <1>3, <2>1
<1>4. ASSUME NEW u \in Uploads PROVE DoneTrue(u)'
  <2>1. CASE client'[u] = client[u]
    <3> SUFFICES ASSUME client[u].phase = "done" PROVE rows'[client[u].id] # NoRow
      BY <2>1 DEF DoneTrue
    <3>1. client[u] \in Client /\ WorkerWhole(client[u]) /\ rows[client[u].id] # NoRow
      BY StateFields DEF Told, DoneTrue
    <3>2. client[u].id \in Ids
      BY <3>1, ClientFields, Span DEF WorkerWhole
    <3>3. QED BY <1>0, <3>1, <3>2 DEF RowsKept
  <2>2. QED BY <1>4, <2>1
<1>5. QED BY <1>2, <1>3, <1>4 DEF Told

LEMMA ToldNext == Typed /\ Waits /\ Told /\ [Next]_vars => Told'
<1> SUFFICES ASSUME Typed, Waits, Told, [Next]_vars PROVE Told'
  OBVIOUS
<1>a. ASSUME NEW r \in Requests, Freed(r) \/ Refused(r) \/ (Others(r) /\ req'[r].at # "reply")
      PROVE  \A x \in Requests : req'[x] = req[x] \/ ReplyTrue(req[x])'
  <2>1. Others(r) /\ ~(req'[r].at = "reply" /\ req'[r].reply = "ok")
    <3>1. CASE Freed(r)
      BY <3>1, FreeFields DEF Freed
    <3>2. ASSUME NEW reply \in Replies \ {"ok"}, Answered(r, reply)
          PROVE  Others(r) /\ req'[r].reply # "ok"
      BY <3>2 DEF Answered
    <3>3. QED BY <1>a, <3>1, <3>2 DEF Refused
  <2>2. QED BY <2>1 DEF Others, ReplyTrue
<1>b. ASSUME NEW u \in Uploads, OtherWorkers(u), client'[u].phase # "done"
      PROVE  \A x \in Uploads : client'[x] = client[x] \/ DoneTrue(x)'
  BY <1>b DEF OtherWorkers, DoneTrue
<1>1. ASSUME NEW r \in Requests, Check(r) PROVE Told'
  <2>1. UNCHANGED <<client, rows>>
    BY <1>1, Checked
  <2>2. Refused(r) \/ (Others(r) /\ req'[r].at # "reply")
    BY <1>1, Checked DEF Moves
  <2>3. QED BY <1>a, <2>1, <2>2, ToldKept
<1>2. ASSUME NEW r \in Requests, AppendChunk(r) PROVE Told'
  <2>1. UNCHANGED <<client, rows>>
    BY <1>2, Appended
  <2>2. CASE Moves(r, "rename", req[r].id)
    <3>1. Others(r) /\ req'[r].at # "reply"
      BY <2>2 DEF Moves
    <3>2. QED BY <1>a, <2>1, <3>1, ToldKept
  <2>3. CASE req[r].chunk # LastChunk /\ Granted(r)
    <3>1. CASE Freed(r)
      BY <1>a, <2>1, <3>1, ToldKept
    <3>2. CASE Answered(r, "ok")
      <4>1. Others(r) /\ req'[r].chunk # LastChunk
        BY <2>3, <3>2 DEF Answered, Same
      <4>2. \A x \in Requests : req'[x] = req[x] \/ ReplyTrue(req[x])'
        BY <4>1 DEF Others, ReplyTrue
      <4>3. QED BY <2>1, <4>2, ToldKept
    <3>3. QED BY <2>3, <3>1, <3>2 DEF Granted
  <2>4. QED BY <1>2, <2>2, <2>3, Appended
<1>3. ASSUME NEW r \in Requests, Rename(r) PROVE Told'
  <2>1. UNCHANGED <<client, rows>>
    BY <1>3, Renamed
  <2>2. Refused(r) \/ (Others(r) /\ req'[r].at # "reply")
    BY <1>3, Renamed DEF Moves
  <2>3. QED BY <1>a, <2>1, <2>2, ToldKept
<1>4. ASSUME NEW r \in Requests, Record(r) PROVE Told'
  <2>1. UNCHANGED <<client, owner>> /\ req[r].at = "record" /\ req[r].id \in Ids
    BY <1>4, Recorded
  <2>2. CASE Refused(r) /\ rows' = rows
    BY <1>a, <2>1, <2>2, ToldKept
  <2>3. CASE Granted(r) /\ rows' = [rows EXCEPT ![req[r].id] = Bytes(disk[req[r].id])]
    <3>1. /\ rows \in [Ids -> Nat \cup {NoRow}] /\ disk[req[r].id] \in Content \cup {Absent}
          /\ RequestWhole(req[r]) /\ RequestOwned(req[r])
      BY <2>1, StateFields
    <3>2. rows'[req[r].id] # NoRow
      <4>1. Bytes(disk[req[r].id]) \in Nat
        BY <3>1, BytesTyped
      <4>2. QED BY <2>1, <2>3, <3>1, <4>1, AbsentAssumption
    <3>3. ASSUME LastChunk > 0 PROVE client[owner[req[r].id]].id = req[r].id
      <4>1. req[r].chunk = LastChunk /\ owner[req[r].id] = req[r].upload
        BY <2>1, <3>1 DEF RequestWhole, RequestOwned
      <4>2. QED BY <3>3, <4>1 DEF Waits, Following
    <3>4. \A id \in Ids : rows'[id] # NoRow /\ rows[id] = NoRow => RowKnown(id)'
      BY <2>1, <2>3, <3>1, <3>3 DEF RowKnown
    <3>5. \A x \in Requests : req'[x] = req[x] \/ ReplyTrue(req[x])'
      <4>1. CASE Freed(r)
        BY <1>a, <4>1
      <4>2. CASE Answered(r, "ok")
        <5>1. Others(r) /\ req'[r].id = req[r].id
          BY <4>2 DEF Answered
        <5>2. QED BY <3>2, <5>1 DEF Others, ReplyTrue
      <4>3. QED BY <2>3, <4>1, <4>2 DEF Granted
    <3>6. QED BY <2>1, <3>4, <3>5, ToldKept
  <2>4. QED BY <1>4, <2>2, <2>3, Recorded
<1>5. ASSUME NEW u \in Uploads, NEW r \in Requests, Send(u, r) PROVE Told'
  <2>1. /\ rows' = rows /\ Others(r) /\ req'[r].at # "reply"
        /\ OtherWorkers(u) /\ client'[u].phase # "done"
    BY <1>5, Sent
  <2>2. QED BY <1>a, <1>b, <2>1, ToldKept
<1>6. ASSUME NEW r \in Requests, Hear(r) PROVE Told'
  <2>1. /\ rows' = rows /\ req[r].at = "reply" /\ req[r].heard /\ Freed(r) /\ OtherWorkers(req[r].upload)
    BY <1>6, Answers
  <2>2. PICK u \in Uploads : u = req[r].upload /\ client[u].chunk = req[r].chunk
    BY <2>1, HeardWorker
  <2>3. \A x \in Uploads : client'[x] = client[x] \/ DoneTrue(x)'
    <3>1. CASE Back(client[u], client'[u])
      <4>1. client'[u].phase # "done"
        BY <3>1 DEF Back
      <4>2. QED BY <1>b, <2>1, <2>2, <4>1
    <3>2. CASE req[r].reply = "ok" /\ Forth(client[u], client'[u], req[r].id)
      <4>1. ReplyTrue(req[r])
        BY DEF Told
      <4>2. client'[u].id = req[r].id /\ (client'[u].phase = "done" => req[r].chunk = LastChunk)
        BY <2>2, <3>2 DEF Forth
      <4>3. client'[u].phase = "done" => rows'[client'[u].id] # NoRow
        BY <2>1, <3>2, <4>1, <4>2 DEF ReplyTrue
      <4>4. QED BY <2>1, <2>2, <4>3 DEF OtherWorkers, DoneTrue
    <3>3. QED BY <1>6, <2>2, <3>1, <3>2, Answers
  <2>4. QED BY <1>a, <2>1, <2>3, ToldKept
<1>7. ASSUME NEW r \in Requests, Ends(r) PROVE Told'
  <2>1. /\ rows' = rows /\ req[r].heard /\ Freed(r) /\ OtherWorkers(req[r].upload)
        /\ Back(client[req[r].upload], client'[req[r].upload])
    BY <1>7, Lost
  <2>2. req[r].upload \in Uploads /\ client'[req[r].upload].phase # "done"
    BY <2>1, HeardWorker DEF Back
  <2>3. QED BY <1>a, <1>b, <2>1, <2>2, ToldKept
<1>8. ASSUME NEW r \in Requests, Timeout(r) PROVE Told'
  <2>1. /\ rows' = rows /\ req[r].heard /\ req[r].at # "reply" /\ Others(r) /\ req'[r].at = req[r].at
        /\ OtherWorkers(req[r].upload) /\ Back(client[req[r].upload], client'[req[r].upload])
    BY <1>8, TimedOut
  <2>2. req[r].upload \in Uploads /\ client'[req[r].upload].phase # "done"
    BY <2>1, HeardWorker DEF Back
  <2>3. QED BY <1>a, <1>b, <2>1, <2>2, ToldKept
<1>9. CASE Crash
  <2>1. rows' = rows /\ \A r \in Requests : req'[r].at = "free"
    BY <1>9, Crashed, FreeFields
  <2>2. \A u \in Uploads : client'[u] = client[u] \/ client'[u].phase # "done"
    BY <1>9, Crashed DEF Back
  <2>3. QED BY <2>1, <2>2, ToldKept DEF ReplyTrue, DoneTrue
<1>10. CASE Complete \/ (\E id \in Ids : Purge(id)) \/ Quiet
  <2>1. UNCHANGED <<client, req, rows>>
    BY <1>10, Quiets DEF Complete, Purge, files
  <2>2. QED BY <2>1, ToldKept
<1>11. QED
  BY <1>1, <1>2, <1>3, <1>4, <1>5, <1>6, <1>7, <1>8, <1>9, <1>10 DEF Next, Serve, Ends, Quiet

-----------------------------------------------------------------------------
(* The files. *)

LEMMA FilesGoodInit == Init => FilesGood
<1> SUFFICES ASSUME Init PROVE FilesGood
  OBVIOUS
<1>1. ASSUME NEW id \in Ids PROVE FileGood(id)
  <2>1. tmp[id] = Absent /\ disk[id] = Absent /\ rows[id] = NoRow
    BY DEF Init
  <2>2. QED BY <2>1 DEF FileGood
<1>2. ASSUME NEW r \in Requests PROVE ServedGood(req[r])
  <2>1. req[r].at = "free"
    BY FreeFields DEF Init
  <2>2. QED BY <2>1 DEF ServedGood
<1>3. QED BY <1>1, <1>2 DEF FilesGood

\* A step that changes no file and gives no id away.
LEMMA FilesSame ==
    ASSUME Typed, FilesGood, UNCHANGED <<tmp, disk, rows, owner>>, raced \subseteq raced',
           \A r \in Requests : req'[r] = req[r] \/ ServedGood(req[r])'
    PROVE  FilesGood'
<1>1. ASSUME NEW id \in Ids PROVE FileGood(id)'
  BY DEF FilesGood, FileGood
<1>2. ASSUME NEW r \in Requests PROVE ServedGood(req[r])'
  <2>1. CASE req'[r] = req[r]
    BY <2>1 DEF FilesGood, ServedGood
  <2>2. QED BY <1>2, <2>1
<1>3. QED BY <1>1, <1>2 DEF FilesGood

\* The server is at one request of an upload that is not in raced.
LEMMA ServedAlone ==
    ASSUME Typed, Waits, FilesGood, NEW r \in Requests, NEW x \in Requests,
           req[r].at # "free", req[x].at # "free", req[r].upload \notin raced,
           req[x].upload = req[r].upload
    PROVE  x = r
<1>1. req[r].heard /\ req[x].heard
  BY DEF FilesGood, ServedGood
<1>2. QED BY <1>1 DEF Waits, Single

\* A step of a request that changes its file only.
LEMMA FilesServed ==
    ASSUME Typed, Waits, FilesGood, NEW r \in Requests, NEW id \in Ids, Others(r),
           req[r].at # "free", owner[id] = req[r].upload, UNCHANGED <<owner, raced>>,
           \A i \in Ids \ {id} : tmp'[i] = tmp[i] /\ disk'[i] = disk[i] /\ rows'[i] = rows[i],
           FileGood(id)', ServedGood(req[r])'
    PROVE  FilesGood'
<1>1. ASSUME NEW i \in Ids PROVE FileGood(i)'
  <2>1. CASE i # id
    BY <2>1 DEF FilesGood, FileGood
  <2>2. QED BY <2>1
<1>2. ASSUME NEW x \in Requests \ {r} PROVE ServedGood(req[x])'
  <2>1. req'[x] = req[x] /\ ServedGood(req[x]) /\ RequestWhole(req[x]) /\ RequestOwned(req[x])
    BY StateFields DEF Others, FilesGood
  <2> SUFFICES ASSUME req[x].upload \notin raced PROVE ServedGood(req[x])'
    BY <2>1 DEF ServedGood
  <2>2. CASE req[x].at \in {"append", "rename", "record"}
    <3>1. req[x].id \in Ids /\ owner[req[x].id] = req[x].upload
      BY <2>1, <2>2 DEF RequestWhole, RequestOwned
    <3>2. req[x].id # id
      BY <2>2, <3>1, ServedAlone
    <3>3. tmp'[req[x].id] = tmp[req[x].id] /\ disk'[req[x].id] = disk[req[x].id]
      BY <3>1, <3>2
    <3>4. QED BY <2>1, <3>3 DEF ServedGood
  <2>3. QED BY <2>1, <2>2 DEF ServedGood
<1>3. QED BY <1>1, <1>2 DEF FilesGood

\* An answer, or the end of a request nobody hears, is good.
LEMMA EndedGood ==
    ASSUME NEW r \in Requests, Refused(r) \/ Granted(r) \/ Freed(r)
    PROVE  Others(r) /\ ServedGood(req[r])'
<1>1. CASE Freed(r)
  <2>1. Others(r) /\ req'[r].at = "free"
    BY <1>1, FreeFields DEF Freed
  <2>2. QED BY <2>1 DEF ServedGood
<1>2. ASSUME NEW reply, Answered(r, reply)
      PROVE  Others(r) /\ ServedGood(req[r])'
  BY <1>2 DEF Answered, ServedGood
<1>3. QED BY <1>1, <1>2 DEF Refused, Granted

LEMMA CheckGood == ASSUME Typed, Waits, FilesGood, NEW r \in Requests, Check(r) PROVE FilesGood'
<1>0. UNCHANGED <<tmp, disk, rows, raced>> /\ req[r].at = "sent" /\ req[r] \in Request
  BY Checked, StateFields
<1>1. CASE Refused(r) /\ owner' = owner
  BY <1>0, <1>1, EndedGood, FilesSame DEF Others
<1>2. ASSUME NEW id \in Ids, Expected(tmp[id]) = req[r].chunk, Moves(r, "append", id),
             owner' = [owner EXCEPT ![id] = req[r].upload],
             id = req[r].id \/ (req[r].id = NoId /\ owner[id] = NoUpload)
      PROVE  FilesGood'
  <2>0. /\ RequestWhole(req[r]) /\ RequestOwned(req[r]) /\ Unused(id) /\ req[r].chunk \in Chunks
        /\ owner \in [Ids -> Uploads \cup {NoUpload}] /\ (req[r].chunk = 0 <=> req[r].id = NoId)
    BY <1>0, StateFields, RequestFields DEF RequestWhole
  <2>1. ASSUME NEW i \in Ids PROVE FileGood(i)'
    <3>1. CASE i # id \/ owner[i] = req[r].upload
      <4>1. owner'[i] = owner[i] /\ FileGood(i)
        BY <1>2, <2>0, <3>1 DEF FilesGood
      <4>2. QED BY <1>0, <4>1 DEF FileGood
    <3>2. CASE i = id /\ owner[i] # req[r].upload
      <4>1. owner[id] = NoUpload
        BY <1>2, <2>0, <3>2 DEF RequestOwned
      <4>2. tmp[id] = Absent /\ disk[id] = Absent /\ rows[id] = NoRow
        BY <2>0, <4>1 DEF Unused
      <4>3. QED BY <1>0, <3>2, <4>2 DEF FileGood
    <3>3. QED BY <3>1, <3>2
  <2>2. ASSUME req[r].upload \notin raced
        PROVE  tmp[id] = IF req[r].chunk = 0 THEN Absent ELSE Prefix(req[r].chunk)
    <3>1. CASE req[r].chunk = 0
      <4>1. owner[id] = NoUpload
        BY <1>2, <2>0, <3>1, NullAssumption
      <4>2. QED BY <2>0, <3>1, <4>1 DEF Unused
    <3>2. CASE req[r].chunk # 0
      <4>1. owner[id] \notin raced
        BY <1>2, <2>0, <2>2, <3>2 DEF RequestOwned
      <4>2. tmp[id] = Absent \/ \E k \in 1 .. Total : tmp[id] = Prefix(k)
        BY <4>1 DEF FilesGood, FileGood
      <4>3. Expected(tmp[id]) \in Chunks \ {0}
        BY <1>2, <2>0, <3>2
      <4>4. QED BY <1>2, <3>2, <4>2, <4>3, PrefixExpected
    <3>3. QED BY <3>1, <3>2
  <2>3. ServedGood(req[r])'
    <3>1. /\ req'[r].upload = req[r].upload /\ req'[r].chunk = req[r].chunk
          /\ req'[r].heard = req[r].heard /\ req'[r].at = "append" /\ req'[r].id = id
      BY <1>2 DEF Moves, Same
    <3>2. req[r].upload \notin raced => req[r].heard
      BY <1>0 DEF FilesGood, ServedGood
    <3>3. QED BY <1>0, <2>2, <3>1, <3>2 DEF ServedGood
  <2>4. ASSUME NEW x \in Requests \ {r} PROVE ServedGood(req[x])'
    <3>1. req'[x] = req[x] /\ ServedGood(req[x])
      BY <1>2 DEF Moves, Others, FilesGood
    <3>2. QED BY <1>0, <3>1 DEF ServedGood
  <2>5. QED BY <2>1, <2>3, <2>4 DEF FilesGood
<1>3. QED BY <1>1, <1>2, Checked

LEMMA AppendGood == ASSUME Typed, Waits, FilesGood, NEW r \in Requests, AppendChunk(r) PROVE FilesGood'
<1>1. PICK id \in Ids : id = req[r].id
  BY Appended
<1>2. /\ UNCHANGED <<disk, rows, owner, raced>> /\ req[r].at = "append" /\ req[r].chunk \in Chunks
      /\ tmp \in [Ids -> Content \cup {Absent}] /\ owner[id] = req[r].upload
  BY <1>1, Appended, StateFields, RequestFields DEF RequestOwned
<1>3. /\ tmp'[id] = IF tmp[id] = Absent THEN <<req[r].chunk>> ELSE Append(tmp[id], req[r].chunk)
      /\ \A i \in Ids \ {id} : tmp'[i] = tmp[i]
  BY <1>1, <1>2, Appended
<1>4. ASSUME req[r].upload \notin raced PROVE tmp'[id] = Prefix(req[r].chunk + 1)
  <2>1. tmp[id] = IF req[r].chunk = 0 THEN Absent ELSE Prefix(req[r].chunk)
    BY <1>1, <1>2, <1>4 DEF FilesGood, ServedGood
  <2>2. CASE req[r].chunk = 0
    BY <1>3, <2>1, <2>2, PrefixGrows
  <2>3. CASE req[r].chunk # 0
    <3>1. req[r].chunk \in 0 .. Total
      BY <1>2, Span DEF Chunks
    <3>2. tmp[id] = Prefix(req[r].chunk) /\ tmp[id] # Absent
      BY <2>1, <2>3, <3>1, PrefixFacts
    <3>3. QED BY <1>2, <1>3, <3>2, PrefixGrows
  <2>4. QED BY <2>2, <2>3
<1>5. req[r].chunk + 1 \in 1 .. Total /\ (req[r].chunk = LastChunk => req[r].chunk + 1 = Total)
  BY <1>2, Span DEF Chunks
<1>6. FileGood(id)'
  BY <1>2, <1>4, <1>5 DEF FilesGood, FileGood
<1>7. Others(r) /\ ServedGood(req[r])'
  <2>1. CASE req[r].chunk = LastChunk /\ Moves(r, "rename", req[r].id)
    <3>1. /\ Others(r) /\ req'[r].upload = req[r].upload
          /\ req'[r].heard = req[r].heard /\ req'[r].at = "rename" /\ req'[r].id = id
      BY <1>1, <2>1 DEF Moves, Same
    <3>2. req[r].upload \notin raced => req[r].heard
      BY <1>2 DEF FilesGood, ServedGood
    <3>3. req[r].upload \notin raced => tmp'[id] = Prefix(Total)
      BY <1>4, <1>5, <2>1
    <3>4. QED BY <1>2, <3>1, <3>2, <3>3 DEF ServedGood
  <2>2. CASE Granted(r)
    BY <2>2, EndedGood
  <2>3. QED BY <2>1, <2>2, Appended
<1>8. QED BY <1>2, <1>3, <1>6, <1>7, FilesServed

LEMMA RenameGood == ASSUME Typed, Waits, FilesGood, NEW r \in Requests, Rename(r) PROVE FilesGood'
<1>1. PICK id \in Ids : id = req[r].id
  BY Renamed
<1>2. /\ UNCHANGED <<rows, owner, raced>> /\ req[r].at = "rename" /\ owner[id] = req[r].upload
      /\ tmp \in [Ids -> Content \cup {Absent}] /\ disk \in [Ids -> Content \cup {Absent}]
  BY <1>1, Renamed, StateFields DEF RequestOwned
<1>3. CASE Refused(r) /\ UNCHANGED <<tmp, disk>>
  BY <1>2, <1>3, EndedGood, FilesSame DEF Others
<1>4. CASE /\ Moves(r, "record", req[r].id)
           /\ disk' = [disk EXCEPT ![req[r].id] = tmp[req[r].id]]
           /\ tmp' = [tmp EXCEPT ![req[r].id] = Absent]
  <2>1. /\ tmp'[id] = Absent /\ disk'[id] = tmp[id]
        /\ \A i \in Ids \ {id} : tmp'[i] = tmp[i] /\ disk'[i] = disk[i]
    BY <1>1, <1>2, <1>4
  <2>2. req[r].upload \notin raced => tmp[id] = Prefix(Total) /\ req[r].heard
    BY <1>1, <1>2 DEF FilesGood, ServedGood
  <2>3. FileGood(id)'
    <3>1. owner[id] \notin raced /\ rows[id] # NoRow => rows[id] = Size
      BY DEF FilesGood, FileGood
    <3>2. QED BY <1>2, <2>1, <2>2, <3>1 DEF FileGood
  <2>4. /\ Others(r) /\ req'[r].upload = req[r].upload
        /\ req'[r].heard = req[r].heard /\ req'[r].at = "record" /\ req'[r].id = id
    BY <1>1, <1>4 DEF Moves, Same
  <2>5. ServedGood(req[r])'
    BY <1>2, <2>1, <2>2, <2>4 DEF ServedGood
  <2>6. QED BY <1>2, <2>1, <2>3, <2>4, <2>5, FilesServed
<1>5. QED BY <1>3, <1>4, Renamed

LEMMA RecordGood == ASSUME Typed, Waits, FilesGood, NEW r \in Requests, Record(r) PROVE FilesGood'
<1>1. PICK id \in Ids : id = req[r].id
  BY Recorded
<1>2. /\ UNCHANGED <<tmp, disk, owner, raced>> /\ req[r].at = "record" /\ owner[id] = req[r].upload
      /\ rows \in [Ids -> Nat \cup {NoRow}]
  BY <1>1, Recorded, StateFields DEF RequestOwned
<1>3. CASE Refused(r) /\ rows' = rows
  BY <1>2, <1>3, EndedGood, FilesSame DEF Others
<1>4. CASE Granted(r) /\ rows' = [rows EXCEPT ![req[r].id] = Bytes(disk[req[r].id])]
  <2>1. rows'[id] = Bytes(disk[id]) /\ \A i \in Ids \ {id} : rows'[i] = rows[i]
    BY <1>1, <1>2, <1>4
  <2>2. req[r].upload \notin raced => disk[id] = Prefix(Total)
    BY <1>1, <1>2 DEF FilesGood, ServedGood
  <2>3. FileGood(id)'
    <3>1. owner[id] \notin raced => rows'[id] = Size
      BY <1>2, <2>1, <2>2, PrefixBytes
    <3>2. owner[id] \notin raced => tmp[id] = Absent \/ \E k \in 1 .. Total : tmp[id] = Prefix(k)
      BY DEF FilesGood, FileGood
    <3>3. QED BY <1>2, <2>2, <3>1, <3>2 DEF FileGood
  <2>4. Others(r) /\ ServedGood(req[r])'
    BY <1>4, EndedGood
  <2>5. QED BY <1>2, <2>1, <2>3, <2>4, FilesServed
<1>5. QED BY <1>3, <1>4, Recorded

LEMMA FilesGoodNext == Typed /\ Waits /\ FilesGood /\ [Next]_vars => FilesGood'
<1> SUFFICES ASSUME Typed, Waits, FilesGood, [Next]_vars PROVE FilesGood'
  OBVIOUS
<1>1. ASSUME NEW r \in Requests, Serve(r) PROVE FilesGood'
  BY <1>1, CheckGood, AppendGood, RenameGood, RecordGood DEF Serve
<1>2. ASSUME NEW u \in Uploads, NEW r \in Requests, Send(u, r) PROVE FilesGood'
  <2>1. /\ UNCHANGED <<tmp, disk, rows, owner, raced>> /\ Others(r)
        /\ req'[r].at = "sent" /\ req'[r].heard = TRUE
    BY <1>2, Sent
  <2>2. ServedGood(req[r])'
    BY <2>1 DEF ServedGood
  <2>3. QED BY <2>1, <2>2, FilesSame DEF Others
<1>3. ASSUME NEW r \in Requests, Hear(r) \/ Ends(r) PROVE FilesGood'
  <2>1. UNCHANGED <<tmp, disk, rows, owner, raced>> /\ Freed(r)
    BY <1>3, Answers, Lost
  <2>2. QED BY <2>1, EndedGood, FilesSame DEF Others
<1>4. ASSUME NEW r \in Requests, Timeout(r) PROVE FilesGood'
  <2>1. /\ UNCHANGED <<tmp, disk, rows, owner>> /\ raced' = raced \cup {req[r].upload}
        /\ Others(r) /\ Same(req'[r], req[r])
    BY <1>4, TimedOut
  <2>2. ServedGood(req[r])'
    BY <2>1 DEF Same, ServedGood
  <2>3. QED BY <2>1, <2>2, FilesSame DEF Others
<1>5. CASE Crash
  <2>1. /\ UNCHANGED <<tmp, disk, rows, owner, raced>>
        /\ \A r \in Requests : req'[r].at = "free"
    BY <1>5, Crashed, FreeFields
  <2>2. QED BY <2>1, FilesSame DEF ServedGood
<1>6. ASSUME NEW id \in Ids, Purge(id) PROVE FilesGood'
  <2>1. /\ UNCHANGED <<req, disk, rows, owner>> /\ tmp' = [tmp EXCEPT ![id] = Absent]
        /\ raced \subseteq raced' /\ tmp \in [Ids -> Content \cup {Absent}]
        /\ \A r \in Requests : req[r].at \in {"append", "rename", "record"} /\ req[r].id = id
                                   => req[r].upload \in raced'
    BY <1>6, Purged, StateFields
  <2>2. tmp'[id] = Absent /\ \A i \in Ids \ {id} : tmp'[i] = tmp[i]
    BY <2>1
  <2>3. ASSUME NEW i \in Ids PROVE FileGood(i)'
    <3>1. FileGood(i)
      BY DEF FilesGood
    <3>2. tmp'[i] = tmp[i] \/ tmp'[i] = Absent
      BY <2>2
    <3>3. QED BY <2>1, <3>1, <3>2 DEF FileGood
  <2>4. ASSUME NEW r \in Requests PROVE ServedGood(req[r])'
    <3>1. ServedGood(req[r]) /\ RequestWhole(req[r])
      BY StateFields DEF FilesGood
    <3> SUFFICES ASSUME req[r].upload \notin raced' PROVE ServedGood(req[r])'
      BY <2>1 DEF ServedGood
    <3>2. CASE req[r].at \in {"append", "rename", "record"}
      <4>1. req[r].id \in Ids \ {id}
        BY <2>1, <3>1, <3>2 DEF RequestWhole
      <4>2. tmp'[req[r].id] = tmp[req[r].id]
        BY <2>2, <4>1
      <4>3. QED BY <2>1, <3>1, <4>2 DEF ServedGood
    <3>3. QED BY <2>1, <3>1, <3>2 DEF ServedGood
  <2>5. QED BY <2>3, <2>4 DEF FilesGood
<1>7. CASE Complete \/ Quiet
  <2>1. UNCHANGED <<req, tmp, disk, rows, owner, raced>>
    BY <1>7, Quiets DEF Complete, vars, files
  <2>2. QED BY <2>1, FilesSame
<1>8. QED BY <1>1, <1>2, <1>3, <1>4, <1>5, <1>6, <1>7 DEF Next, Ends, Quiet

-----------------------------------------------------------------------------
(* The end of the upload. *)

\* A worker that is done stays so.
DoneKept == \A u \in Uploads : client[u].phase = "done" => client'[u] = client[u]

LEMMA DoneStays == Typed /\ Waits /\ [Next]_vars => DoneKept
<1> SUFFICES ASSUME Typed, Waits, [Next]_vars, NEW u \in Uploads, client[u].phase = "done"
             PROVE  client'[u] = client[u]
  BY DEF DoneKept
<1>1. ASSUME NEW r \in Requests, Check(r) \/ AppendChunk(r) \/ Rename(r) \/ Record(r)
      PROVE  client' = client
  BY <1>1 DEF Check, AppendChunk, Rename, Record
<1>2. ASSUME NEW x \in Uploads, NEW r \in Requests, Send(x, r) PROVE client'[u] = client[u]
  <2>1. client[x].phase = "sending" /\ OtherWorkers(x)
    BY <1>2, Sent
  <2>2. QED BY <2>1 DEF OtherWorkers
<1>3. ASSUME NEW r \in Requests, Hear(r) \/ Ends(r) \/ Timeout(r) PROVE client'[u] = client[u]
  <2>1. req[r].heard /\ OtherWorkers(req[r].upload)
    BY <1>3, Answers, Lost, TimedOut
  <2>2. client[req[r].upload].phase = "waiting"
    BY <2>1, HeardWorker
  <2>3. QED BY <2>1, <2>2 DEF OtherWorkers
<1>4. CASE Crash
  BY <1>4, Crashed
<1>5. CASE Complete \/ (\E id \in Ids : Purge(id)) \/ Quiet
  BY <1>5, Quiets DEF Complete, Purge
<1>6. QED BY <1>1, <1>2, <1>3, <1>4, <1>5 DEF Next, Serve, Ends, Quiet

LEMMA ClosedNext == Typed /\ Waits /\ Closed /\ [Next]_vars => Closed'
<1> SUFFICES ASSUME Typed, Waits, Closed, [Next]_vars PROVE Closed'
  OBVIOUS
<1>1. DoneKept
  BY DoneStays
<1>2. CASE Complete
  BY <1>1, <1>2 DEF Complete, DoneKept, Closed
<1>3. CASE ~Complete
  <2>1. locked' = locked
    BY <1>3 DEF Next, Serve, Check, AppendChunk, Rename, Record, Send, Hear, Lose, LoseRefresh, Challenge, Lapse, EndSession, Timeout, Crash,
                Purge, vars
  <2>2. QED BY <1>1, <2>1 DEF Closed, DoneKept
<1>4. QED BY <1>2, <1>3

\* No upload is given up, or cleaned up, while the server is at it.
Sequential == "timeout" \notin Faults /\ "purge" \notin Faults
Unraced == Sequential => raced = {}

LEMMA UnracedNext == Typed /\ Waits /\ Unraced /\ [Next]_vars => Unraced'
<1> SUFFICES ASSUME Typed, Waits, Unraced, [Next]_vars, Sequential PROVE raced' = raced
  BY DEF Unraced
<1>1. ~(\E r \in Requests : Timeout(r)) /\ ~(\E id \in Ids : Purge(id))
  BY DEF Sequential, Timeout, Purge, Fault
<1>2. QED
  BY <1>1 DEF Next, Serve, Check, AppendChunk, Rename, Record, Send, Hear, Lose, LoseRefresh, Challenge, Lapse, EndSession, Crash, Complete,
              vars

-----------------------------------------------------------------------------
(* Theorems. *)

Inductive == Typed /\ Waits /\ Told /\ FilesGood /\ Closed /\ Unraced

THEOREM Invariants == Spec => []Inductive
<1>1. Init => Inductive
  <2>1. Init => Closed /\ Unraced
    BY DEF Init, Closed, Unraced
  <2>2. QED BY <2>1, TypedInit, WaitsInit, ToldInit, FilesGoodInit DEF Inductive
<1>2. Inductive /\ [Next]_vars => Inductive'
  BY TypedNext, WaitsNext, ToldNext, FilesGoodNext, ClosedNext, UnracedNext DEF Inductive
<1>3. QED BY <1>1, <1>2, PTL DEF Spec

\* The state has its types.
THEOREM TypeCorrect == Spec => []TypeOK
<1>1. Inductive => TypeOK
  BY DEF Inductive, Typed
<1>2. QED BY <1>1, Invariants, PTL

\* A file with a row has all its chunks on disk, in order and once each, and its true size,
\* however often a chunk was sent and wherever the server stopped: the size of the partial
\* file, from which LocalFileService.create tells the chunk it expects, tells it exactly;
\* unless the worker gave a request up while the server was at it, or the cleanup of old
\* partial files came between.
THEOREM WholeCorrect == Spec => []RecordedFilesWhole
<1>1. Inductive => RecordedFilesWhole
  BY PrefixGrows DEF Inductive, FilesGood, FileGood, RecordedFilesWhole
<1>2. QED BY <1>1, Invariants, PTL

\* A worker that reports success has a file with a row, its own.
THEOREM DoneCorrect == Spec => []DoneFilesRecorded
<1>1. Inductive => DoneFilesRecorded
  <2> SUFFICES ASSUME Inductive, NEW u \in Uploads, client[u].phase = "done"
               PROVE  /\ client[u].id \in Ids /\ rows[client[u].id] # NoRow
                      /\ owner[client[u].id] = u
    BY DEF DoneFilesRecorded
  <2>1. client[u] \in Client /\ WorkerWhole(client[u]) /\ WorkerOwned(u) /\ DoneTrue(u)
    BY StateFields DEF Inductive, Told
  <2>2. client[u].id \in Ids
    BY <2>1, ClientFields, Span DEF WorkerWhole
  <2>3. QED BY <2>1, <2>2 DEF WorkerOwned, DoneTrue
<1>2. QED BY <1>1, Invariants, PTL

\* A file of several chunks has one row, although the id of a first chunk whose answer is
\* lost is lost with it and the chunk is stored again under a new id: the chunks after the
\* first go under the one id the worker was told.
THEOREM OnceCorrect == Spec => []RecordedOnce
<1>1. Inductive => RecordedOnce
  BY DEF Inductive, Told, RowKnown, RecordedOnce
<1>2. QED BY <1>1, Invariants, PTL

-----------------------------------------------------------------------------
(* Uploading implements Delivery. *)

\* The uploads with a row, and those whose worker is done.
Recordings == {u \in Uploads : \E id \in Ids : owner[id] = u /\ rows[id] # NoRow}
Successes == {u \in Uploads : client[u].phase = "done"}

\* Without overlap every row is of a whole file.
LEMMA RecordingsStored ==
    ASSUME Inductive, Sequential
    PROVE  {u \in Uploads : \E id \in Ids :
                owner[id] = u /\ rows[id] # NoRow /\ disk[id] = Whole} = Recordings
BY PrefixGrows DEF Inductive, Unraced, FilesGood, FileGood, Recordings

LEMMA RecordingsSame ==
    ASSUME Inductive, [Next]_vars, rows' = rows
    PROVE  Recordings' = Recordings
<1>1. OwnersKept /\ \A id \in Ids : Unused(id)
  BY OwnersStay, StateFields DEF Inductive
<1>2. \A id \in Ids : rows[id] # NoRow => owner'[id] = owner[id]
  BY <1>1, StateFields DEF Inductive, Unused, OwnersKept
<1>3. QED BY <1>2 DEF Recordings

\* A row is made for one upload, and not once the share is closed.
LEMMA RecordStores ==
    ASSUME Inductive, Sequential, NEW r \in Requests, Record(r), rows' # rows
    PROVE  /\ ~locked /\ UNCHANGED <<client, locked>>
           /\ \E u \in Uploads : Recordings' = Recordings \cup {u}
<1>0. Typed /\ Waits /\ Closed /\ raced = {} /\ ServedGood(req[r])
  BY DEF Inductive, Unraced, Sequential, FilesGood
<1>1. PICK id \in Ids : id = req[r].id
  BY <1>0, Recorded
<1>2. /\ UNCHANGED <<client, locked, owner>> /\ req[r].at = "record"
      /\ rows' = [rows EXCEPT ![id] = Bytes(disk[id])]
  BY <1>0, <1>1, Recorded
<1>3. req[r].heard
  BY <1>0, <1>2 DEF ServedGood
<1>4. PICK u \in Uploads : u = req[r].upload
  BY <1>0, <1>3, HeardWorker
<1>5. ~locked
  BY <1>0, <1>3, <1>4, HeardWorker DEF Closed
<1>6. owner[id] = u /\ rows \in [Ids -> Nat \cup {NoRow}] /\ disk[id] \in Content \cup {Absent}
  BY <1>0, <1>1, <1>4, StateFields DEF RequestOwned
<1>7. Bytes(disk[id]) # NoRow
  BY <1>6, BytesTyped, AbsentAssumption
<1>8. Recordings' = Recordings \cup {u}
  BY <1>2, <1>6, <1>7 DEF Recordings
<1>9. QED BY <1>2, <1>5, <1>8

\* A worker that becomes done is told of a row that is there already.
LEMMA SuccessTold ==
    ASSUME Inductive, Inductive', [Next]_vars, Successes' # Successes
    PROVE  /\ rows' = rows /\ locked' = locked
           /\ \E u \in Recordings : Successes' = Successes \cup {u}
<1>0. Typed /\ Waits /\ DoneKept
  BY DoneStays DEF Inductive
<1>1. PICK r \in Requests : Hear(r)
  <2>1. ASSUME NEW r \in Requests, Ends(r) \/ Timeout(r) PROVE Successes' = Successes
    <3>1. OtherWorkers(req[r].upload) /\ Back(client[req[r].upload], client'[req[r].upload]) /\ req[r].heard
      BY <1>0, <2>1, Lost, TimedOut
    <3>2. client[req[r].upload].phase # "done" /\ client'[req[r].upload].phase # "done"
      BY <1>0, <3>1, HeardWorker DEF Back
    <3>3. QED BY <3>1, <3>2 DEF Successes, OtherWorkers
  <2>2. ASSUME NEW u \in Uploads, NEW r \in Requests, Send(u, r) PROVE Successes' = Successes
    <3>1. OtherWorkers(u) /\ client[u].phase # "done" /\ client'[u].phase # "done"
      BY <1>0, <2>2, Sent
    <3>2. QED BY <3>1 DEF Successes, OtherWorkers
  <2>3. CASE Crash
    BY <1>0, <2>3, Crashed DEF Successes, Back
  <2>4. ASSUME NEW r \in Requests, Serve(r) PROVE Successes' = Successes
    BY <2>4 DEF Serve, Check, AppendChunk, Rename, Record, Successes
  <2>5. CASE Complete \/ (\E id \in Ids : Purge(id)) \/ Quiet
    BY <2>5, Quiets DEF Complete, Purge, Successes
  <2>6. QED BY <2>1, <2>2, <2>3, <2>4, <2>5 DEF Next, Ends, Quiet
<1>2. PICK u \in Uploads : u = req[r].upload
  BY <1>0, <1>1, Answers, HeardWorker
<1>3. UNCHANGED <<rows, locked, owner>> /\ OtherWorkers(u)
  BY <1>0, <1>1, <1>2, Answers
<1>4. Successes' = Successes \cup {u} /\ client'[u].phase = "done"
  BY <1>0, <1>3 DEF Successes, OtherWorkers, DoneKept
<1>5. client'[u].id \in Ids /\ rows'[client'[u].id] # NoRow /\ owner'[client'[u].id] = u
  <2>1. (WorkerWhole(client[u]) /\ WorkerOwned(u) /\ DoneTrue(u))' /\ client'[u] \in Client
    BY DEF Inductive, Typed, Told, TypeOK
  <2>2. client'[u].id \in Ids
    BY <1>4, <2>1, ClientFields, Span DEF WorkerWhole
  <2>3. QED BY <1>4, <2>1, <2>2 DEF WorkerOwned, DoneTrue
<1>6. u \in Recordings
  BY <1>3, <1>5 DEF Recordings
<1>7. QED BY <1>3, <1>4, <1>6

LEMMA DeliveryStep ==
    ASSUME Inductive, Inductive', Sequential, [Next]_vars
    PROVE  [Delivered!Next]_(Delivered!vars)
<1> DEFINE Stored == {u \in Uploads : \E id \in Ids :
                          owner[id] = u /\ rows[id] # NoRow /\ disk[id] = Whole}
           Told1 == {u \in Uploads : client[u].phase = "done"}
<1>1. Stored = Recordings /\ Told1 = Successes /\ Told1' = Successes'
  BY RecordingsStored DEF Successes
<1>2. Stored' = Recordings'
  BY PrefixGrows DEF Inductive, Unraced, FilesGood, FileGood, Recordings
<1>3. ASSUME NEW r \in Requests, Record(r), rows' # rows PROVE [Delivered!Next]_(Delivered!vars)
  <2>1. PICK u \in Uploads : Recordings' = Recordings \cup {u}
    BY <1>3, RecordStores
  <2>2. ~locked /\ locked' = locked /\ Told1' = Told1
    BY <1>3, RecordStores
  <2>3. CASE u \in Recordings
    <3>1. Stored' = Stored
      BY <1>1, <1>2, <2>1, <2>3
    <3>2. QED BY <2>2, <3>1 DEF Delivered!vars
  <2>4. CASE u \notin Recordings
    <3>1. u \notin Stored /\ Stored' = Stored \cup {u}
      BY <1>1, <1>2, <2>1, <2>4
    <3>2. Delivered!Store(u)
      BY <2>2, <3>1 DEF Delivered!Store
    <3>3. QED BY <3>2 DEF Delivered!Next
  <2>5. QED BY <2>3, <2>4
<1>4. CASE Successes' # Successes
  <2>1. PICK u \in Recordings : Successes' = Successes \cup {u}
    BY <1>4, SuccessTold
  <2>2. rows' = rows /\ locked' = locked
    BY <1>4, SuccessTold
  <2>3. Stored' = Stored
    BY <1>1, <1>2, <2>2, RecordingsSame
  <2>4. u \in Stored \ Told1 /\ Told1' = Told1 \cup {u} /\ u \in Uploads
    BY <1>1, <1>4, <2>1 DEF Recordings
  <2>5. Delivered!Tell(u)
    BY <2>2, <2>3, <2>4 DEF Delivered!Tell
  <2>6. QED BY <2>4, <2>5 DEF Delivered!Next
<1>5. CASE rows' = rows /\ Successes' = Successes
  <2>1. Stored' = Stored /\ Told1' = Told1
    BY <1>1, <1>2, <1>5, RecordingsSame
  <2>2. CASE Complete
    <3>1. Told1 = Uploads /\ locked' = TRUE
      BY <2>2 DEF Complete
    <3>2. Delivered!Close
      BY <2>1, <3>1 DEF Delivered!Close
    <3>3. QED BY <3>2 DEF Delivered!Next
  <2>3. CASE ~Complete
    <3>1. locked' = locked
      BY <2>3 DEF Next, Serve, Check, AppendChunk, Rename, Record, Send, Hear, Lose, LoseRefresh, Challenge, Lapse, EndSession, Timeout, Crash,
                  Purge, vars
    <3>2. QED BY <2>1, <3>1 DEF Delivered!vars
  <2>4. QED BY <2>2, <2>3
<1>6. QED BY <1>3, <1>4, <1>5, RowsSame DEF Inductive

\* Uploading files to a local share implements Delivery: a file is in the share as a whole
\* or not at all, its worker reports success only when it is, and nothing comes into the
\* share once every file is told and the share is completed. For uploads whose requests do
\* not overlap: after a timeout, or a cleanup under a request, the server may still be at a
\* chunk the worker sends again.
THEOREM DeliveryCorrect == Sequential => (Spec => DeliversFiles)
<1> SUFFICES ASSUME Sequential PROVE Spec => DeliversFiles
  OBVIOUS
<1>1. Init => Delivered!Init
  BY DEF Init, Delivered!Init
<1>2. Inductive /\ Inductive' /\ [Next]_vars => [Delivered!Next]_(Delivered!vars)
  BY DeliveryStep
<1>3. QED BY <1>1, <1>2, Invariants, PTL DEF Spec, DeliversFiles, Delivered!Spec

===============================================================================
