--------------------------- MODULE Reencrypt_proofs ---------------------------
(***************************************************************************)
(* Theorems about Reencrypt, for any number of tabs, requests, chunks,     *)
(* retries and faults.                                                     *)
(***************************************************************************)
EXTENDS Reencrypt, SequenceTheorems, TLAPS

-----------------------------------------------------------------------------
(* Inductive invariants. *)

\* TypeOK, and what a request and a tab are at each of their steps.
RequestWhole(q) ==
    /\ q.at # "free" => q.client \in Clients
    /\ q.at \in {"sent", "reply"} => q.heard
    /\ q.at = "unlink" => q.chunk = 0
    /\ q.at \in {"rename", "size"} => q.chunk = LastChunk
    /\ q.heard => q.at # "free"
TabWhole(k) ==
    /\ k.phase = "download" => k.chunk = 0
    /\ k.phase = "idle" => k.chunk = 0 /\ k.attempt = 0
    /\ k.phase # "idle" => k.runs > 0
Typed ==
    /\ TypeOK
    /\ \A r \in Requests : RequestWhole(req[r])
    /\ \A c \in Clients : TabWhole(client[c])

\* A tab waits for the one request it still hears, which is for the chunk it is at.
Waiting(q) == q.heard => client[q.client].phase = "waiting" /\ client[q.client].chunk = q.chunk
Single == \A q, r \in Requests :
    req[q].heard /\ req[r].heard /\ req[q].client = req[r].client => q = r
Waits == (\A r \in Requests : Waiting(req[r])) /\ Single

\* What is stored is under the keys of tabs that ran; a tab that hears of its last chunk
\* finds nothing of the old file.
Ran(c) == c \in Clients /\ client[c].runs > 0
Renewed == content # <<>> /\ \A i \in DOMAIN content : Ran(content[i].key)
Renewing(q) == q.at = "size" \/ (q.at = "reply" /\ q.ok /\ q.chunk = LastChunk)
Renews ==
    /\ \A r \in Requests : req[r].at # "free" => Ran(req[r].client)
    /\ \A i \in DOMAIN tmp : Ran(tmp[i].key)
    /\ lock => Ran(holder)
    /\ content = Whole(OldKey) \/ Renewed
    /\ \A r \in Requests : Renewing(req[r]) => Renewed
    /\ \A c \in Clients : client[c].phase = "done" => Renewed

\* The first chunks of the file under the key of a tab.
Prefix(c, k) == [i \in 1 .. k |-> [key |-> c, chunk |-> i - 1]]
\* A request that has the temporary file, until its tab hears of it.
Active(q) ==
    q.at \in {"unlink", "append", "rename", "size"} \/ (q.at = "reply" /\ q.ok /\ q.chunk # LastChunk)
\* The lock is for the one request that has the temporary file.
Held(r) ==
    /\ lock /\ req[r].client = holder
    /\ \A x \in Requests : Active(req[x]) => x = r
    /\ ~req[r].heard => req[r].chunk = 0 /\ client[holder].chunk = 0
\* The chunks that are in the temporary file.
Stored(q) ==
    /\ q.at = "append" => tmp = Prefix(q.client, q.chunk)
    /\ q.at = "reply" => tmp = Prefix(q.client, q.chunk + 1)
    /\ q.at = "rename" => tmp = Whole(q.client)
\* Between two chunks they are those before the one its tab is at.
Between == lock => holder \in Clients /\
    ( /\ client[holder].phase \in {"sending", "waiting"} /\ client[holder].chunk > 0
      /\ \A r \in Requests : ~Active(req[r])
      => tmp = Prefix(holder, client[holder].chunk) )
Replacing == \A r \in Requests : Active(req[r]) => Held(r) /\ Stored(req[r])
Replaces == scars = {} => Replacing /\ Between /\ ContentWhole

\* No message was lost, no append failed, this tab ran once and no other did: then nothing
\* happened to the temporary file.
Alone(c) ==
    /\ faults.loss = 0 /\ faults.error = 0 /\ client[c].runs < 2
    /\ \A d \in Clients \ {c} : client[d].runs = 0
Clean == \A c \in Clients : Alone(c) => scars = {}
\* And no restart hid from the tab that it is done.
Quiet(c) == Alone(c) /\ ~(faults.crash > 0 /\ content = Whole(c))
\* Then the tab is refused a chunk after a restart only, and loses one attempt by it.
Spent(c) == client[c].attempt < faults.crash
TabExcused(c) ==
    /\ client[c].attempt <= faults.crash
    /\ client[c].phase = "failed" => faults.crash > MaxFileRetries
    /\ client[c].phase \in {"idle", "download", "failed"} => ~lock
    /\ client[c].phase = "sending" => (client[c].chunk = 0 => ~lock) /\ (client[c].chunk > 0 /\ ~lock => Spent(c))
RequestExcused(c, q) ==
    /\ q.at = "sent" => (q.chunk = 0 => ~lock) /\ (q.chunk > 0 /\ ~lock => Spent(c))
    /\ q.at = "reply" /\ ~q.ok => q.chunk > 0 /\ ~lock /\ Spent(c)
    /\ q.at # "free" => q.heard
Replaced(c) == content # Whole(OldKey) => client[c].phase = "done" \/ \E r \in Requests : Renewing(req[r])
Excused(c) == TabExcused(c) /\ (\A r \in Requests : RequestExcused(c, req[r])) /\ Replaced(c)
Excuses == \A c \in Clients : Quiet(c) => Excused(c)

-----------------------------------------------------------------------------
(* Numbers, records and sequences. *)

LEMMA Span ==
    /\ 0 \in Chunks /\ LastChunk \in Chunks /\ LastChunk + 1 = Total /\ Total \in Nat /\ Total > 0
    /\ Chunks \subseteq Nat /\ \A k \in Chunks : k <= LastChunk /\ (k # LastChunk => k + 1 \in Chunks)
BY SizeAssumption DEF Chunks, LastChunk

LEMMA FreeFields ==
    /\ Free \in Request
    /\ Free.client = NoClient /\ Free.chunk = 0 /\ Free.at = "free" /\ Free.heard = FALSE /\ Free.ok = FALSE
BY Span DEF Free, Request

LEMMA PieceType == ASSUME NEW c \in Keys, NEW k \in Chunks \cup {Torn} PROVE [key |-> c, chunk |-> k] \in Piece
BY DEF Piece

LEMMA PrefixFacts ==
    ASSUME NEW c \in Keys, NEW k \in 0 .. Total
    PROVE  /\ Prefix(c, k) \in Seq(Piece) /\ Len(Prefix(c, k)) = k /\ DOMAIN Prefix(c, k) = 1 .. k
           /\ \A i \in 1 .. k : Prefix(c, k)[i] = [key |-> c, chunk |-> i - 1]
<1>1. k \in Nat /\ \A i \in 1 .. k : i - 1 \in Chunks
  BY SizeAssumption DEF Chunks
<1>2. \A i \in 1 .. k : [key |-> c, chunk |-> i - 1] \in Piece
  BY <1>1, PieceType
<1>3. QED BY <1>1, <1>2 DEF Prefix

LEMMA PrefixGrows ==
    ASSUME NEW c \in Keys, NEW k \in Chunks
    PROVE  Append(Prefix(c, k), [key |-> c, chunk |-> k]) = Prefix(c, k + 1)
<1>1. k \in 0 .. Total /\ k + 1 \in 0 .. Total /\ k \in Nat
  BY Span DEF Chunks
<1> DEFINE e == [key |-> c, chunk |-> k]
           p == Prefix(c, k)
           a == Append(p, e)
           b == Prefix(c, k + 1)
<1>2. e \in Piece
  BY PieceType
<1>3. /\ p \in Seq(Piece) /\ Len(p) = k /\ \A i \in 1 .. k : p[i] = [key |-> c, chunk |-> i - 1]
  BY <1>1, PrefixFacts
<1>4. /\ b \in Seq(Piece) /\ Len(b) = k + 1 /\ \A i \in 1 .. k + 1 : b[i] = [key |-> c, chunk |-> i - 1]
  BY <1>1, PrefixFacts
<1>5. b[k + 1] = e
  BY <1>1, <1>4
<1> HIDE DEF e, p, b
<1>6. /\ a \in Seq(Piece) /\ Len(a) = k + 1 /\ a[k + 1] = e /\ \A i \in 1 .. k : a[i] = p[i]
  BY <1>2, <1>3, AppendProperties
<1>7. \A i \in 1 .. k : a[i] = b[i]
  BY <1>1, <1>3, <1>4, <1>6
<1> HIDE DEF a
<1>8. \A i \in 1 .. Len(a) : a[i] = b[i]
  BY <1>1, <1>5, <1>6, <1>7
<1>9. a = b
  BY <1>4, <1>6, <1>8, SeqEqual
<1>10. QED BY <1>9 DEF a, b, e, p

LEMMA WholeFacts ==
    ASSUME NEW c \in Keys
    PROVE  /\ Prefix(c, 0) = <<>> /\ Whole(c) = Prefix(c, Total)
           /\ Whole(c) \in Seq(Piece) /\ Whole(c) # <<>> /\ DOMAIN Whole(c) = 1 .. Total
           /\ \A i \in 1 .. Total : Whole(c)[i].key = c
           /\ \A d \in Keys : Whole(c) = Whole(d) => c = d
<1>1. Prefix(c, 0) = <<>>
  BY DEF Prefix
<1>2. \A d \in Keys : Whole(d) = Prefix(d, Total)
  BY DEF Whole, Prefix
<1>3. Total \in 0 .. Total /\ 1 \in 1 .. Total
  BY Span
<1>4. ASSUME NEW d \in Keys
      PROVE  /\ Whole(d) \in Seq(Piece) /\ DOMAIN Whole(d) = 1 .. Total /\ Len(Whole(d)) = Total
             /\ \A i \in 1 .. Total : Whole(d)[i].key = d
  <2>1. /\ Prefix(d, Total) \in Seq(Piece) /\ DOMAIN Prefix(d, Total) = 1 .. Total
        /\ Len(Prefix(d, Total)) = Total
        /\ \A i \in 1 .. Total : Prefix(d, Total)[i] = [key |-> d, chunk |-> i - 1]
    BY <1>3, PrefixFacts
  <2>2. \A i \in 1 .. Total : Prefix(d, Total)[i].key = d
    BY <2>1
  <2>3. QED BY <1>2, <2>1, <2>2
<1>5. \A d \in Keys : \A i \in 1 .. Total : Whole(d)[i].key = d
  BY <1>4
<1>6. Whole(c) # <<>>
  BY <1>4, Span
<1>7. QED BY <1>1, <1>2, <1>3, <1>4, <1>5, <1>6

-----------------------------------------------------------------------------
(* What the steps do to the requests and the tabs. *)

Others(r) == \A x \in Requests : x # r => req'[x] = req[x]
Kept(r) == req'[r].client = req[r].client /\ req'[r].chunk = req[r].chunk /\ req'[r].heard = req[r].heard
Goes(r, at) == Others(r) /\ Kept(r) /\ req'[r].at = at
Gone(r) == Others(r) /\ req'[r].at = "free" /\ req'[r].heard = FALSE
\* A handler that answers.
Ends(r, ok) == \/ req[r].heard /\ Goes(r, "reply") /\ req'[r].ok = ok
               \/ ~req[r].heard /\ Gone(r)

LEMMA Moved ==
    ASSUME TypeOK, NEW r \in Requests, NEW at \in {"unlink", "append", "rename", "size"},
           req' = [req EXCEPT ![r].at = at]
    PROVE  req' \in [Requests -> Request] /\ Goes(r, at)
<1> DEFINE q == [req[r] EXCEPT !.at = at]
<1>1. /\ q \in Request /\ q.at = at
      /\ q.client = req[r].client /\ q.chunk = req[r].chunk /\ q.heard = req[r].heard
  BY DEF TypeOK, Request
<1>2. req' = [req EXCEPT ![r] = q] /\ req \in [Requests -> Request]
  BY DEF TypeOK
<1> HIDE DEF q
<1>3. QED BY <1>1, <1>2 DEF Goes, Others, Kept

LEMMA Freed ==
    ASSUME TypeOK, NEW r \in Requests, req' = [req EXCEPT ![r] = Free]
    PROVE  req' \in [Requests -> Request] /\ Gone(r)
<1>1. req \in [Requests -> Request]
  BY DEF TypeOK
<1>2. QED BY <1>1, FreeFields DEF Gone, Others

LEMMA Answers ==
    ASSUME TypeOK, NEW r \in Requests, NEW ok \in BOOLEAN, req' = [req EXCEPT ![r] = Answered(@, ok)]
    PROVE  req' \in [Requests -> Request] /\ Ends(r, ok)
<1>1. CASE req[r].heard
  <2> DEFINE q == [req[r] EXCEPT !.at = "reply", !.ok = ok]
  <2>1. /\ q \in Request /\ q.at = "reply" /\ q.ok = ok
        /\ q.client = req[r].client /\ q.chunk = req[r].chunk /\ q.heard = req[r].heard
    BY DEF TypeOK, Request
  <2>2. req' = [req EXCEPT ![r] = q] /\ req \in [Requests -> Request]
    BY <1>1 DEF TypeOK, Answered
  <2> HIDE DEF q
  <2>3. QED BY <1>1, <2>1, <2>2 DEF Ends, Goes, Others, Kept
<1>2. CASE ~req[r].heard
  BY <1>2, Freed DEF Answered, Ends
<1>3. QED BY <1>1, <1>2

\* What a tab is after a chunk that failed, and after one that is stored.
Back(k, l) ==
    /\ l.runs = k.runs
    /\ \/ l.phase = "sending" /\ l.chunk = k.chunk /\ l.attempt = k.attempt
       \/ l.phase = "download" /\ l.chunk = 0 /\ l.attempt = k.attempt + 1 /\ k.attempt < MaxFileRetries
       \/ l.phase = "failed" /\ l.chunk = k.chunk /\ l.attempt = k.attempt /\ k.attempt = MaxFileRetries
Forth(k, l) ==
    /\ l.runs = k.runs /\ l.attempt = k.attempt
    /\ \/ k.chunk = LastChunk /\ l.phase = "done" /\ l.chunk = k.chunk
       \/ k.chunk # LastChunk /\ l.phase = "sending" /\ l.chunk = k.chunk + 1

LEMMA StartOverFacts == ASSUME NEW k \in Client PROVE StartOver(k) \in Client /\ Back(k, StartOver(k))
<1>1. CASE k.attempt < MaxFileRetries
  <2> DEFINE l == [k EXCEPT !.phase = "download", !.chunk = 0, !.retries = 0, !.attempt = k.attempt + 1]
  <2>1. k.attempt + 1 \in 0 .. MaxFileRetries /\ 0 \in Chunks /\ 0 \in 0 .. MaxRetries
    BY <1>1, Span, SizeAssumption DEF Client
  <2>2. l \in Client /\ l.phase = "download" /\ l.chunk = 0 /\ l.attempt = k.attempt + 1 /\ l.runs = k.runs
    BY <2>1 DEF Client
  <2>3. StartOver(k) = l
    BY <1>1 DEF StartOver
  <2> HIDE DEF l
  <2>4. QED BY <1>1, <2>2, <2>3 DEF Back
<1>2. CASE ~(k.attempt < MaxFileRetries)
  <2> DEFINE l == [k EXCEPT !.phase = "failed"]
  <2>1. l \in Client /\ l.phase = "failed" /\ l.chunk = k.chunk /\ l.attempt = k.attempt /\ l.runs = k.runs
    BY DEF Client
  <2>2. k.attempt = MaxFileRetries
    BY <1>2, SizeAssumption DEF Client
  <2>3. StartOver(k) = l
    BY <1>2 DEF StartOver
  <2> HIDE DEF l
  <2>4. QED BY <2>1, <2>2, <2>3 DEF Back
<1>3. QED BY <1>1, <1>2

LEMMA RetryFacts == ASSUME NEW k \in Client PROVE Retry(k) \in Client /\ Back(k, Retry(k))
<1>1. CASE k.retries < MaxRetries
  <2> DEFINE l == [k EXCEPT !.phase = "sending", !.retries = k.retries + 1]
  <2>1. k.retries + 1 \in 0 .. MaxRetries
    BY <1>1, SizeAssumption DEF Client
  <2>2. l \in Client /\ l.phase = "sending" /\ l.chunk = k.chunk /\ l.attempt = k.attempt /\ l.runs = k.runs
    BY <2>1 DEF Client
  <2>3. Retry(k) = l
    BY <1>1 DEF Retry
  <2> HIDE DEF l
  <2>4. QED BY <2>2, <2>3 DEF Back
<1>2. CASE ~(k.retries < MaxRetries)
  BY <1>2, StartOverFacts DEF Retry
<1>3. QED BY <1>1, <1>2

LEMMA ProgressFacts == ASSUME NEW k \in Client PROVE Progress(k) \in Client /\ Forth(k, Progress(k))
<1>1. CASE k.chunk = LastChunk
  <2> DEFINE l == [k EXCEPT !.phase = "done"]
  <2>1. l \in Client /\ l.phase = "done" /\ l.chunk = k.chunk /\ l.attempt = k.attempt /\ l.runs = k.runs
    BY DEF Client
  <2>2. Progress(k) = l
    BY <1>1 DEF Progress
  <2> HIDE DEF l
  <2>3. QED BY <1>1, <2>1, <2>2 DEF Forth
<1>2. CASE k.chunk # LastChunk
  <2> DEFINE l == [k EXCEPT !.phase = "sending", !.chunk = k.chunk + 1, !.retries = 0]
  <2>0. k.chunk \in Chunks
    BY DEF Client
  <2>1. k.chunk + 1 \in Chunks /\ 0 \in 0 .. MaxRetries
    <3>1. \A j \in Chunks : j # LastChunk => j + 1 \in Chunks
      BY Span
    <3>2. k.chunk + 1 \in Chunks
      BY <1>2, <2>0, <3>1
    <3>3. QED BY <3>2, SizeAssumption
  <2>2. l \in Client /\ l.phase = "sending" /\ l.chunk = k.chunk + 1 /\ l.attempt = k.attempt /\ l.runs = k.runs
    BY <2>1 DEF Client
  <2>3. Progress(k) = l
    BY <1>2 DEF Progress
  <2> HIDE DEF l
  <2>4. QED BY <1>2, <2>2, <2>3 DEF Forth
<1>3. QED BY <1>1, <1>2

LEMMA Faulted ==
    ASSUME TypeOK, NEW kind \in {"loss", "error", "crash"}, Fault(kind)
    PROVE  /\ faults' \in [loss : 0 .. MaxFaults, error : 0 .. MaxFaults, crash : 0 .. MaxFaults]
           /\ faults'.loss = IF kind = "loss" THEN faults.loss + 1 ELSE faults.loss
           /\ faults'.error = IF kind = "error" THEN faults.error + 1 ELSE faults.error
           /\ faults'.crash = IF kind = "crash" THEN faults.crash + 1 ELSE faults.crash
<1>1. /\ faults \in [loss : 0 .. MaxFaults, error : 0 .. MaxFaults, crash : 0 .. MaxFaults]
      /\ faults.loss + faults.error + faults.crash < MaxFaults
      /\ faults' = [faults EXCEPT ![kind] = faults[kind] + 1]
  BY DEF TypeOK, Fault
<1>2. CASE kind = "loss"
  BY <1>1, <1>2, SizeAssumption
<1>3. CASE kind = "error"
  BY <1>1, <1>3, SizeAssumption
<1>4. CASE kind = "crash"
  BY <1>1, <1>4, SizeAssumption
<1>5. QED BY <1>2, <1>3, <1>4

\* What the handlers do.
LEMMA Checked ==
    ASSUME TypeOK, NEW r \in Requests, Check(r)
    PROVE  /\ req' \in [Requests -> Request] /\ req[r].at = "sent" /\ UNCHANGED <<client, tmp, content, faults>>
           /\ \/ (lock <=> req[r].chunk = 0) /\ Ends(r, FALSE) /\ UNCHANGED <<lock, holder, scars>>
              \/ /\ req[r].chunk = 0 /\ ~lock /\ Goes(r, "unlink") /\ lock' = TRUE
                 /\ holder' = req[r].client /\ scars' = scars
              \/ /\ req[r].chunk # 0 /\ lock /\ Goes(r, "append") /\ UNCHANGED <<lock, holder>>
                 /\ scars' = IF req[r].client # holder THEN scars \cup {"intruder"} ELSE scars
<1>1. CASE req' = [req EXCEPT ![r] = Answered(@, FALSE)] /\ (lock = (req[r].chunk = 0)) /\ UNCHANGED <<lock, holder, scars>>
  BY <1>1, Answers DEF Check
<1>2. CASE req[r].chunk = 0 /\ ~lock /\ lock' = TRUE /\ holder' = req[r].client /\ scars' = scars
           /\ req' = [req EXCEPT ![r].at = "unlink"]
  BY <1>2, Moved DEF Check
<1>3. CASE req[r].chunk # 0 /\ lock /\ UNCHANGED <<lock, holder>> /\ req' = [req EXCEPT ![r].at = "append"]
           /\ scars' = IF req[r].client # holder THEN scars \cup {"intruder"} ELSE scars
  BY <1>3, Moved DEF Check
<1>4. QED BY <1>1, <1>2, <1>3 DEF Check

LEMMA Unlinked ==
    ASSUME TypeOK, NEW r \in Requests, RemoveStale(r)
    PROVE  /\ req' \in [Requests -> Request] /\ req[r].at = "unlink" /\ Goes(r, "append") /\ tmp' = <<>>
           /\ UNCHANGED <<client, lock, content, holder, faults, scars>>
BY Moved DEF RemoveStale

LEMMA Appended ==
    ASSUME TypeOK, NEW r \in Requests, AppendChunk(r)
    PROVE  /\ req' \in [Requests -> Request] /\ req[r].at = "append"
           /\ tmp' = Append(tmp, [key |-> req[r].client, chunk |-> req[r].chunk])
           /\ \/ req[r].chunk = LastChunk /\ Goes(r, "rename")
              \/ req[r].chunk # LastChunk /\ Ends(r, TRUE)
           /\ UNCHANGED <<client, lock, content, holder, faults, scars>>
<1>1. CASE req[r].chunk = LastChunk
  BY <1>1, Moved DEF AppendChunk, PieceOf
<1>2. CASE req[r].chunk # LastChunk
  <2>1. lock' = lock
    BY <1>2 DEF AppendChunk, Finish, TypeOK
  <2>2. req' = [req EXCEPT ![r] = Answered(@, TRUE)]
    BY <1>2 DEF AppendChunk, Finish
  <2>3. QED BY <1>2, <2>1, <2>2, Answers DEF AppendChunk, PieceOf
<1>3. QED BY <1>1, <1>2

LEMMA Renamed ==
    ASSUME TypeOK, NEW r \in Requests, Rename(r)
    PROVE  /\ req' \in [Requests -> Request] /\ req[r].at = "rename"
           /\ \/ /\ tmp = <<>> /\ Ends(r, FALSE) /\ UNCHANGED <<tmp, content>>
                 /\ lock' = (lock /\ req[r].chunk # LastChunk)
              \/ tmp # <<>> /\ Goes(r, "size") /\ content' = tmp /\ tmp' = <<>> /\ lock' = lock
           /\ UNCHANGED <<client, holder, faults, scars>>
BY Moved, Answers DEF Rename, Finish

LEMMA Sized ==
    ASSUME TypeOK, NEW r \in Requests, RecordSize(r)
    PROVE  /\ req' \in [Requests -> Request] /\ req[r].at = "size" /\ Ends(r, TRUE)
           /\ lock' = (lock /\ req[r].chunk # LastChunk)
           /\ UNCHANGED <<client, tmp, content, holder, faults, scars>>
BY Answers DEF RecordSize, Finish

LEMMA AppendFailed ==
    ASSUME TypeOK, NEW r \in Requests, AppendFails(r)
    PROVE  /\ req' \in [Requests -> Request] /\ req[r].at = "append" /\ Ends(r, FALSE)
           /\ lock' = (lock /\ req[r].chunk # LastChunk)
           /\ tmp' = tmp \/ tmp' = Append(tmp, [key |-> req[r].client, chunk |-> Torn])
           /\ scars \subseteq scars' /\ (req[r].chunk \notin {0, LastChunk} /\ tmp' # tmp => "torn" \in scars')
           /\ scars' \subseteq scars \cup {"torn"}
           /\ faults'.error = faults.error + 1 /\ Fault("error")
           /\ UNCHANGED <<client, content, holder>>
<1>1. faults'.error = faults.error + 1 /\ Fault("error")
  BY Faulted DEF AppendFails
<1>2. req' = [req EXCEPT ![r] = Answered(@, FALSE)] /\ lock' = (lock /\ req[r].chunk # LastChunk)
  BY DEF AppendFails, Finish
<1>3. req' \in [Requests -> Request] /\ Ends(r, FALSE)
  BY <1>2, Answers
<1>4. QED BY <1>1, <1>2, <1>3 DEF AppendFails, PieceOf

\* What the tabs do.
OtherTabs(c) == \A d \in Clients : d # c => client'[d] = client[d]

LEMMA Heard ==
    ASSUME Typed, NEW r \in Requests, Hear(r)
    PROVE  /\ req' \in [Requests -> Request] /\ req[r].at = "reply" /\ Gone(r)
           /\ client' \in [Clients -> Client] /\ req[r].client \in Clients /\ OtherTabs(req[r].client)
           /\ IF req[r].ok THEN Forth(client[req[r].client], client'[req[r].client])
                           ELSE Back(client[req[r].client], client'[req[r].client])
           /\ UNCHANGED <<lock, tmp, content, holder, faults, scars>>
<1> DEFINE c == req[r].client
           k == IF req[r].ok THEN Progress(client[c]) ELSE Retry(client[c])
<1>1. c \in Clients /\ req[r].at = "reply" /\ client[c] \in Client /\ TypeOK
  BY DEF Hear, Typed, TypeOK, RequestWhole
<1>2. k \in Client /\ IF req[r].ok THEN Forth(client[c], k) ELSE Back(client[c], k)
  BY <1>1, ProgressFacts, RetryFacts
<1>3. client' = [client EXCEPT ![c] = k] /\ client \in [Clients -> Client]
  BY <1>1 DEF Hear, TypeOK
<1>4. req' \in [Requests -> Request] /\ Gone(r)
  BY <1>1, Freed DEF Hear
<1> HIDE DEF c, k
<1>5. client' \in [Clients -> Client] /\ client'[c] = k /\ OtherTabs(c)
  BY <1>1, <1>2, <1>3 DEF OtherTabs
<1>6. QED BY <1>1, <1>2, <1>4, <1>5 DEF Hear, c, files

LEMMA Lost ==
    ASSUME Typed, NEW r \in Requests, Lose(r)
    PROVE  /\ req' \in [Requests -> Request] /\ req[r].heard
           /\ \/ /\ req[r].at \in {"unlink", "append", "rename", "size"}
                 /\ Others(r) /\ req'[r].client = req[r].client /\ req'[r].chunk = req[r].chunk
                 /\ req'[r].at = req[r].at /\ req'[r].heard = FALSE
                 /\ req[r].chunk # 0 => "unheard" \in scars'
              \/ /\ req[r].at \notin {"unlink", "append", "rename", "size"} /\ Gone(r)
                 /\ req[r].chunk # 0 /\ req[r].ok /\ req[r].chunk # LastChunk => "unheard" \in scars'
           /\ client' \in [Clients -> Client] /\ req[r].client \in Clients /\ OtherTabs(req[r].client)
           /\ Back(client[req[r].client], client'[req[r].client])
           /\ scars \subseteq scars' /\ scars' \subseteq scars \cup {"unheard"}
           /\ faults'.loss = faults.loss + 1 /\ Fault("loss")
           /\ UNCHANGED <<lock, tmp, content, holder>>
<1> DEFINE c == req[r].client
           k == Retry(client[c])
<1>1. c \in Clients /\ req[r].heard /\ client[c] \in Client /\ TypeOK
  BY DEF Lose, Typed, TypeOK, RequestWhole
<1>2. k \in Client /\ Back(client[c], k)
  BY <1>1, RetryFacts
<1>3. client' = [client EXCEPT ![c] = k] /\ client \in [Clients -> Client]
  BY <1>1 DEF Lose, TypeOK
<1>4. faults'.loss = faults.loss + 1 /\ Fault("loss")
  BY <1>1, Faulted DEF Lose
<1>5. CASE req[r].at \in {"unlink", "append", "rename", "size"}
  <2> DEFINE q == [req[r] EXCEPT !.heard = FALSE]
  <2>1. /\ q \in Request /\ q.heard = FALSE
        /\ q.client = req[r].client /\ q.chunk = req[r].chunk /\ q.at = req[r].at
    BY <1>1 DEF TypeOK, Request
  <2>2. req' = [req EXCEPT ![r] = q] /\ req \in [Requests -> Request]
    BY <1>1, <1>5 DEF Lose, Serving, TypeOK
  <2>3. req[r].chunk # 0 => "unheard" \in scars'
    BY <1>5 DEF Lose, Serving
  <2> HIDE DEF q, c, k
  <2>4. req' \in [Requests -> Request] /\ Others(r) /\ req'[r] = q
    BY <2>1, <2>2 DEF Others
  <2>5. client' \in [Clients -> Client] /\ client'[c] = k /\ OtherTabs(c)
    BY <1>1, <1>2, <1>3 DEF OtherTabs
  <2>6. QED BY <1>1, <1>2, <1>4, <1>5, <2>1, <2>3, <2>4, <2>5 DEF Lose, c, files
<1>6. CASE req[r].at \notin {"unlink", "append", "rename", "size"}
  <2>1. req' = [req EXCEPT ![r] = Free]
    BY <1>6 DEF Lose, Serving
  <2>2. req' \in [Requests -> Request] /\ Gone(r)
    BY <1>1, <2>1, Freed
  <2>3. req[r].chunk # 0 /\ req[r].ok /\ req[r].chunk # LastChunk => "unheard" \in scars'
    BY DEF Lose
  <2> HIDE DEF c, k
  <2>5. client' \in [Clients -> Client] /\ client'[c] = k /\ OtherTabs(c)
    BY <1>1, <1>2, <1>3 DEF OtherTabs
  <2>6. QED BY <1>1, <1>2, <1>4, <1>6, <2>2, <2>3, <2>5 DEF Lose, c, files
<1>7. QED BY <1>5, <1>6

LEMMA Crashed ==
    ASSUME TypeOK, Crash
    PROVE  /\ req' \in [Requests -> Request] /\ \A r \in Requests : req'[r].at = "free" /\ req'[r].heard = FALSE
           /\ client' \in [Clients -> Client]
           /\ \A c \in Clients : IF client[c].phase = "waiting" THEN Back(client[c], client'[c])
                                                                 ELSE client'[c] = client[c]
           /\ lock' = FALSE /\ faults'.crash = faults.crash + 1 /\ Fault("crash")
           /\ UNCHANGED <<tmp, content, holder, scars>>
<1>1. req' \in [Requests -> Request] /\ \A r \in Requests : req'[r].at = "free" /\ req'[r].heard = FALSE
  BY FreeFields DEF Crash
<1>2. \A c \in Clients : Retry(client[c]) \in Client /\ Back(client[c], Retry(client[c])) /\ client[c] \in Client
  BY RetryFacts DEF TypeOK
<1>3. client' = [c \in Clients |-> IF client[c].phase = "waiting" THEN Retry(client[c]) ELSE client[c]]
  BY DEF Crash
<1>4. /\ client' \in [Clients -> Client]
      /\ \A c \in Clients : IF client[c].phase = "waiting" THEN Back(client[c], client'[c])
                                                            ELSE client'[c] = client[c]
  BY <1>2, <1>3
<1>5. faults'.crash = faults.crash + 1 /\ Fault("crash")
  BY Faulted DEF Crash
<1>6. QED BY <1>1, <1>4, <1>5 DEF Crash

\* The steps of a tab alone.
LEMMA Started ==
    ASSUME TypeOK, NEW c \in Clients, Start(c)
    PROVE  /\ client' \in [Clients -> Client] /\ OtherTabs(c) /\ client[c].phase \in {"idle", "cancelled"}
           /\ client'[c].phase = "download" /\ client'[c].chunk = 0 /\ client'[c].attempt = 0
           /\ client'[c].runs = client[c].runs + 1
           /\ UNCHANGED <<req, lock, tmp, content, holder, faults, scars>>
<1>1. client[c].runs + 1 \in 0 .. MaxRuns /\ client[c].phase \in {"idle", "cancelled"}
  <2>1. client[c].runs \in 0 .. MaxRuns
    BY DEF TypeOK, Client
  <2>2. QED BY <2>1, SizeAssumption DEF Start
<1> DEFINE l == [phase |-> "download", chunk |-> 0, retries |-> 0, attempt |-> 0, runs |-> client[c].runs + 1]
<1>2. l \in Client
  BY <1>1, Span, SizeAssumption DEF Client
<1>3. client' = [client EXCEPT ![c] = l]
  BY DEF Start
<1>4. QED BY <1>1, <1>2, <1>3 DEF Start, OtherTabs, TypeOK, files

LEMMA Downloaded ==
    ASSUME TypeOK, NEW c \in Clients, Download(c)
    PROVE  /\ client' \in [Clients -> Client] /\ OtherTabs(c) /\ client[c].phase = "download"
           /\ \/ /\ ReadableWith(content, OldKey) /\ client'[c].phase = "sending" /\ client'[c].runs = client[c].runs
                 /\ client'[c].chunk = client[c].chunk /\ client'[c].attempt = client[c].attempt
              \/ /\ ~ReadableWith(content, OldKey) /\ Back(client[c], client'[c]) /\ client'[c].phase # "sending"
           /\ UNCHANGED <<req, lock, tmp, content, holder, faults, scars>>
<1> DEFINE l == [client[c] EXCEPT !.phase = "sending"]
           m == StartOver(client[c])
<1>0. client \in [Clients -> Client] /\ client[c] \in Client
  BY DEF TypeOK
<1>1. /\ l \in Client /\ l.phase = "sending" /\ l.runs = client[c].runs /\ l.chunk = client[c].chunk
      /\ l.attempt = client[c].attempt
  BY <1>0 DEF Client
<1>2. m \in Client /\ Back(client[c], m) /\ m.phase # "sending"
  <2>1. m.phase # "sending"
    BY <1>0 DEF StartOver, Client
  <2>2. QED BY <1>0, <2>1, StartOverFacts
<1>3. client' = [client EXCEPT ![c] = IF ReadableWith(content, OldKey) THEN l ELSE m]
  BY <1>0 DEF Download
<1> HIDE DEF l, m
<1>4. client' \in [Clients -> Client] /\ OtherTabs(c) /\ client'[c] = IF ReadableWith(content, OldKey) THEN l ELSE m
  BY <1>0, <1>1, <1>2, <1>3 DEF OtherTabs
<1>5. QED BY <1>1, <1>2, <1>4 DEF Download, files

LEMMA Turned ==
    ASSUME TypeOK, NEW c \in Clients, NEW phase \in {"waiting", "cancelled"}, client' = [client EXCEPT ![c].phase = phase]
    PROVE  /\ client' \in [Clients -> Client] /\ OtherTabs(c)
           /\ client'[c].phase = phase /\ client'[c].chunk = client[c].chunk
           /\ client'[c].runs = client[c].runs /\ client'[c].attempt = client[c].attempt
<1> DEFINE l == [client[c] EXCEPT !.phase = phase]
<1>1. client \in [Clients -> Client] /\ client[c] \in Client
  BY DEF TypeOK
<1>2. /\ l \in Client /\ l.phase = phase /\ l.chunk = client[c].chunk /\ l.runs = client[c].runs
      /\ l.attempt = client[c].attempt
  BY <1>1 DEF Client
<1>3. client' = [client EXCEPT ![c] = l]
  BY <1>1
<1> HIDE DEF l
<1>4. QED BY <1>1, <1>2, <1>3 DEF OtherTabs

LEMMA Cancelled ==
    ASSUME TypeOK, NEW c \in Clients, Cancel(c)
    PROVE  /\ client' \in [Clients -> Client] /\ OtherTabs(c) /\ client[c].phase \in {"download", "sending"}
           /\ client'[c].phase = "cancelled" /\ client'[c].chunk = client[c].chunk
           /\ client'[c].runs = client[c].runs /\ client'[c].attempt = client[c].attempt
           /\ UNCHANGED <<req, lock, tmp, content, holder, faults, scars>>
BY Turned DEF Cancel, files

LEMMA Sent ==
    ASSUME TypeOK, NEW c \in Clients, NEW r \in Requests, Send(c, r)
    PROVE  /\ client' \in [Clients -> Client] /\ OtherTabs(c) /\ client[c].phase = "sending"
           /\ client'[c].phase = "waiting" /\ client'[c].chunk = client[c].chunk
           /\ client'[c].runs = client[c].runs /\ client'[c].attempt = client[c].attempt
           /\ req' \in [Requests -> Request] /\ Others(r) /\ req[r].at = "free" /\ ~req[r].heard
           /\ req'[r].at = "sent" /\ req'[r].client = c /\ req'[r].chunk = client[c].chunk
           /\ req'[r].heard = TRUE /\ req'[r].ok = FALSE
           /\ UNCHANGED <<lock, tmp, content, holder, faults, scars>>
<1>1. req[r].at = "free" /\ ~req[r].heard
  BY FreeFields DEF Send
<1>2. client[c].chunk \in Chunks
  BY DEF TypeOK, Client
<1> DEFINE q == [Free EXCEPT !.client = c, !.chunk = client[c].chunk, !.at = "sent", !.heard = TRUE]
<1>3. /\ q \in Request /\ q.at = "sent" /\ q.client = c /\ q.chunk = client[c].chunk /\ q.heard = TRUE
      /\ q.ok = FALSE
  BY <1>2 DEF Free, Request
<1>4. req' = [req EXCEPT ![r] = q] /\ req \in [Requests -> Request]
  BY DEF Send, TypeOK
<1> HIDE DEF q
<1>5. req' \in [Requests -> Request] /\ Others(r) /\ req'[r] = q
  BY <1>3, <1>4 DEF Others
<1>6. QED BY <1>1, <1>3, <1>5, Turned DEF Send, files

-----------------------------------------------------------------------------
(* Type correctness. *)

LEMMA TypedInit == Init => Typed
<1> SUFFICES ASSUME Init PROVE Typed
  OBVIOUS
<1>1. content \in Seq(Piece) /\ tmp \in Seq(Piece)
  BY WholeFacts, EmptySeq DEF Init, Keys
<1>2. client \in [Clients -> Client]
  <2>1. [phase |-> "idle", chunk |-> 0, retries |-> 0, attempt |-> 0, runs |-> 0] \in Client
    BY Span, SizeAssumption DEF Client
  <2>2. QED BY <2>1 DEF Init
<1>3. faults \in [loss : 0 .. MaxFaults, error : 0 .. MaxFaults, crash : 0 .. MaxFaults]
  BY SizeAssumption DEF Init
<1>4. TypeOK
  BY <1>1, <1>2, <1>3, FreeFields DEF Init, TypeOK
<1>5. \A r \in Requests : RequestWhole(req[r])
  BY FreeFields DEF Init, RequestWhole
<1>6. \A c \in Clients : TabWhole(client[c])
  BY DEF Init, TabWhole
<1>7. QED BY <1>4, <1>5, <1>6 DEF Typed

\* A request that moves on, ends, or is free again is whole if it is where it can be.
LEMMA GoesWhole ==
    ASSUME Typed, NEW r \in Requests,
           \/ \E at \in {"unlink", "append", "rename", "size"} :
                /\ Goes(r, at) /\ req[r].at # "free"
                /\ at = "unlink" => req[r].chunk = 0
                /\ at \in {"rename", "size"} => req[r].chunk = LastChunk
           \/ \E ok \in BOOLEAN : Ends(r, ok) /\ req[r].at # "free"
           \/ Gone(r)
    PROVE  \A x \in Requests : RequestWhole(req'[x])
<1>1. Others(r)
  BY DEF Goes, Ends, Gone
<1>2. \A x \in Requests : RequestWhole(req[x])
  BY DEF Typed
<1>3. RequestWhole(req'[r])
  <2>1. ASSUME NEW at \in {"unlink", "append", "rename", "size"}, Goes(r, at), req[r].at # "free",
               at = "unlink" => req[r].chunk = 0, at \in {"rename", "size"} => req[r].chunk = LastChunk
        PROVE  RequestWhole(req'[r])
    BY <1>2, <2>1 DEF Goes, Kept, RequestWhole
  <2>2. ASSUME NEW ok \in BOOLEAN, Ends(r, ok), req[r].at # "free" PROVE RequestWhole(req'[r])
    <3>1. CASE Goes(r, "reply") /\ req[r].heard
      BY <1>2, <2>2, <3>1 DEF Goes, Kept, RequestWhole
    <3>2. CASE Gone(r)
      BY <3>2 DEF Gone, RequestWhole
    <3>3. QED BY <2>2, <3>1, <3>2 DEF Ends
  <2>3. CASE Gone(r)
    BY <2>3 DEF Gone, RequestWhole
  <2>4. QED BY <2>1, <2>2, <2>3
<1>4. QED BY <1>1, <1>2, <1>3 DEF Others

LEMMA TabsWhole ==
    ASSUME Typed, NEW c \in Clients, OtherTabs(c), TabWhole(client'[c])
    PROVE  \A d \in Clients : TabWhole(client'[d])
BY DEF OtherTabs, Typed

LEMMA BackWhole ==
    ASSUME NEW k \in Client, NEW l \in Client, TabWhole(k), k.phase # "idle", Back(k, l) \/ Forth(k, l)
    PROVE  TabWhole(l)
BY DEF TabWhole, Back, Forth

\* A tab that waits for a request has run.
LEMMA TypedServed ==
    ASSUME Typed, NEW r \in Requests, Serve(r)
    PROVE  Typed'
<1>0. TypeOK /\ req[r] \in Request /\ RequestWhole(req[r])
  BY DEF Typed, TypeOK
<1>1. CASE Check(r)
  <2>1. req' \in [Requests -> Request] /\ UNCHANGED <<client, tmp, content, faults>> /\ req[r].at = "sent"
    BY <1>0, <1>1, Checked
  <2>2. \A x \in Requests : RequestWhole(req'[x])
    BY <1>0, <1>1, Checked, GoesWhole
  <2>3. lock' \in BOOLEAN /\ holder' \in Clients \cup {NoClient} /\ scars' \subseteq {"intruder", "unheard", "torn"}
    BY <1>0, <1>1, Checked DEF TypeOK, RequestWhole
  <2>4. QED BY <2>1, <2>2, <2>3 DEF Typed, TypeOK
<1>2. CASE RemoveStale(r)
  <2>1. \A x \in Requests : RequestWhole(req'[x])
    BY <1>0, <1>2, Unlinked, GoesWhole
  <2>2. QED BY <1>0, <1>2, <2>1, Unlinked, EmptySeq DEF Typed, TypeOK
<1>3. CASE AppendChunk(r)
  <2>1. \A x \in Requests : RequestWhole(req'[x])
    BY <1>0, <1>3, Appended, GoesWhole
  <2>2. tmp' \in Seq(Piece)
    <3>1. req[r].client \in Keys /\ req[r].chunk \in Chunks \cup {Torn}
      BY <1>0, <1>3, Appended DEF RequestWhole, Request, Keys
    <3>2. [key |-> req[r].client, chunk |-> req[r].chunk] \in Piece
      BY <3>1, PieceType
    <3>3. tmp' = Append(tmp, [key |-> req[r].client, chunk |-> req[r].chunk]) /\ tmp \in Seq(Piece)
      BY <1>0, <1>3, Appended DEF TypeOK
    <3>4. QED BY <3>2, <3>3, AppendProperties
  <2>3. req' \in [Requests -> Request] /\ UNCHANGED <<client, lock, content, holder, faults, scars>>
    BY <1>0, <1>3, Appended
  <2>4. QED BY <2>1, <2>2, <2>3 DEF Typed, TypeOK
<1>4. CASE Rename(r)
  <2>1. \A x \in Requests : RequestWhole(req'[x])
    <3>1. req[r].at = "rename" /\ req[r].chunk = LastChunk /\ (Ends(r, FALSE) \/ Goes(r, "size"))
      BY <1>0, <1>4, Renamed DEF RequestWhole
    <3>2. QED BY <3>1, GoesWhole
  <2>2. tmp' \in Seq(Piece) /\ content' \in Seq(Piece) /\ lock' \in BOOLEAN
    BY <1>0, <1>4, Renamed, EmptySeq DEF TypeOK
  <2>3. req' \in [Requests -> Request] /\ UNCHANGED <<client, holder, faults, scars>>
    BY <1>0, <1>4, Renamed
  <2>4. QED BY <2>1, <2>2, <2>3 DEF Typed, TypeOK
<1>5. CASE RecordSize(r)
  <2>1. \A x \in Requests : RequestWhole(req'[x])
    BY <1>0, <1>5, Sized, GoesWhole
  <2>2. /\ req' \in [Requests -> Request] /\ lock' \in BOOLEAN
        /\ UNCHANGED <<client, tmp, content, holder, faults, scars>>
    BY <1>0, <1>5, Sized
  <2>3. QED BY <2>1, <2>2 DEF Typed, TypeOK
<1>6. QED BY <1>1, <1>2, <1>3, <1>4, <1>5 DEF Serve

LEMMA TypedHeard ==
    ASSUME Typed, NEW r \in Requests, Hear(r) \/ Lose(r), Waiting(req[r])
    PROVE  Typed'
<1>0. TypeOK /\ req[r].heard
  BY Lost DEF Typed, Hear, RequestWhole
<1>1. CASE Hear(r)
  <2>1. \A x \in Requests : RequestWhole(req'[x])
    BY <1>1, Heard, GoesWhole
  <2>2. \A c \in Clients : TabWhole(client'[c])
    <3>1. /\ req[r].client \in Clients /\ client' \in [Clients -> Client] /\ OtherTabs(req[r].client)
          /\ \/ Back(client[req[r].client], client'[req[r].client])
             \/ Forth(client[req[r].client], client'[req[r].client])
      BY <1>1, Heard
    <3>2. client[req[r].client] \in Client /\ TabWhole(client[req[r].client])
          /\ client[req[r].client].phase # "idle"
      BY <1>0, <3>1 DEF Typed, TypeOK, Waiting
    <3>3. TabWhole(client'[req[r].client])
      BY <3>1, <3>2, BackWhole
    <3>4. QED BY <3>1, <3>3, TabsWhole
  <2>3. QED BY <1>0, <1>1, <2>1, <2>2, Heard DEF Typed, TypeOK
<1>2. CASE Lose(r)
  <2>1. \A x \in Requests : RequestWhole(req'[x])
    <3>1. CASE Gone(r)
      BY <3>1, GoesWhole
    <3>2. CASE ~Gone(r)
      <4>1. /\ Others(r) /\ req[r].at \in {"unlink", "append", "rename", "size"}
            /\ req'[r].client = req[r].client /\ req'[r].chunk = req[r].chunk
            /\ req'[r].at = req[r].at /\ req'[r].heard = FALSE
        BY <1>2, <3>2, Lost
      <4>2. RequestWhole(req'[r])
        BY <4>1 DEF Typed, RequestWhole
      <4>3. QED BY <4>1, <4>2 DEF Others, Typed
    <3>3. QED BY <3>1, <3>2
  <2>2. \A c \in Clients : TabWhole(client'[c])
    <3>1. /\ req[r].client \in Clients /\ client' \in [Clients -> Client] /\ OtherTabs(req[r].client)
          /\ Back(client[req[r].client], client'[req[r].client])
      BY <1>2, Lost
    <3>2. client[req[r].client] \in Client /\ TabWhole(client[req[r].client])
          /\ client[req[r].client].phase # "idle"
      BY <1>0, <3>1 DEF Typed, TypeOK, Waiting
    <3>3. TabWhole(client'[req[r].client])
      BY <3>1, <3>2, BackWhole
    <3>4. QED BY <3>1, <3>3, TabsWhole
  <2>3. /\ req' \in [Requests -> Request] /\ client' \in [Clients -> Client]
        /\ scars' \subseteq {"intruder", "unheard", "torn"} /\ UNCHANGED <<lock, tmp, content, holder>>
    BY <1>0, <1>2, Lost DEF TypeOK
  <2>4. faults' \in [loss : 0 .. MaxFaults, error : 0 .. MaxFaults, crash : 0 .. MaxFaults]
    BY <1>0, <1>2, Lost, Faulted
  <2>5. QED BY <1>0, <2>1, <2>2, <2>3, <2>4 DEF Typed, TypeOK
<1>3. QED BY <1>1, <1>2

LEMMA TypedFailed ==
    ASSUME Typed, NEW r \in Requests, AppendFails(r)
    PROVE  Typed'
<1>0. TypeOK /\ req[r] \in Request /\ RequestWhole(req[r])
  BY DEF Typed, TypeOK
<1>1. \A x \in Requests : RequestWhole(req'[x])
  BY <1>0, AppendFailed, GoesWhole
<1>2. tmp' \in Seq(Piece)
  <2>1. req[r].client \in Keys
    BY <1>0, AppendFailed DEF RequestWhole, Keys
  <2>2. [key |-> req[r].client, chunk |-> Torn] \in Piece
    BY <2>1, PieceType
  <2>3. tmp \in Seq(Piece) /\ (tmp' = tmp \/ tmp' = Append(tmp, [key |-> req[r].client, chunk |-> Torn]))
    BY <1>0, AppendFailed DEF TypeOK
  <2>4. QED BY <2>2, <2>3, AppendProperties
<1>3. faults' \in [loss : 0 .. MaxFaults, error : 0 .. MaxFaults, crash : 0 .. MaxFaults]
  BY <1>0, AppendFailed, Faulted
<1>4. /\ req' \in [Requests -> Request] /\ lock' \in BOOLEAN /\ scars' \subseteq {"intruder", "unheard", "torn"}
      /\ UNCHANGED <<client, content, holder>>
  BY <1>0, AppendFailed DEF TypeOK
<1>5. QED BY <1>0, <1>1, <1>2, <1>3, <1>4 DEF Typed, TypeOK

LEMMA TypedTab ==
    ASSUME Typed, NEW c \in Clients, Start(c) \/ Download(c) \/ Cancel(c) \/ \E r \in Requests : Send(c, r)
    PROVE  Typed'
<1>0. TypeOK /\ client[c] \in Client /\ TabWhole(client[c])
  BY DEF Typed, TypeOK
<1>1. CASE Start(c)
  <2>1. TabWhole(client'[c])
    BY <1>0, <1>1, Started DEF TabWhole, Client
  <2>2. QED BY <1>0, <1>1, <2>1, Started, TabsWhole DEF Typed, TypeOK
<1>2. CASE Download(c)
  <2>1. TabWhole(client'[c])
    BY <1>0, <1>2, Downloaded, BackWhole DEF TabWhole
  <2>2. QED BY <1>0, <1>2, <2>1, Downloaded, TabsWhole DEF Typed, TypeOK
<1>3. CASE Cancel(c)
  <2>1. TabWhole(client'[c])
    BY <1>0, <1>3, Cancelled DEF TabWhole
  <2>2. QED BY <1>0, <1>3, <2>1, Cancelled, TabsWhole DEF Typed, TypeOK
<1>4. ASSUME NEW r \in Requests, Send(c, r) PROVE Typed'
  <2>1. TabWhole(client'[c])
    BY <1>0, <1>4, Sent DEF TabWhole
  <2>2. \A d \in Clients : TabWhole(client'[d])
    BY <1>0, <1>4, <2>1, Sent, TabsWhole
  <2>3. RequestWhole(req'[r])
    BY <1>0, <1>4, Sent DEF RequestWhole
  <2>4. \A x \in Requests : RequestWhole(req'[x])
    <3>1. Others(r)
      BY <1>0, <1>4, Sent
    <3>2. QED BY <2>3, <3>1 DEF Others, Typed
  <2>5. /\ client' \in [Clients -> Client] /\ req' \in [Requests -> Request]
        /\ UNCHANGED <<lock, tmp, content, holder, faults, scars>>
    BY <1>0, <1>4, Sent
  <2>6. QED BY <1>0, <2>2, <2>4, <2>5 DEF Typed, TypeOK
<1>5. QED BY <1>1, <1>2, <1>3, <1>4

LEMMA TypedNext == Typed /\ Waits /\ [Next]_vars => Typed'
<1> SUFFICES ASSUME Typed, Waits, [Next]_vars PROVE Typed'
  OBVIOUS
<1>1. CASE Crash
  <2>1. \A r \in Requests : RequestWhole(req'[r])
    BY <1>1, Crashed DEF Typed, RequestWhole
  <2>2. \A c \in Clients : TabWhole(client'[c])
    <3>1. ASSUME NEW c \in Clients PROVE TabWhole(client'[c])
      <4>1. client[c] \in Client /\ client'[c] \in Client /\ TabWhole(client[c])
        BY <1>1, Crashed DEF Typed, TypeOK
      <4>2. CASE client[c].phase = "waiting"
        BY <1>1, <4>1, <4>2, Crashed, BackWhole DEF Typed
      <4>3. CASE client[c].phase # "waiting"
        BY <1>1, <4>1, <4>3, Crashed DEF Typed
      <4>4. QED BY <4>2, <4>3
    <3>2. QED BY <3>1
  <2>3. faults' \in [loss : 0 .. MaxFaults, error : 0 .. MaxFaults, crash : 0 .. MaxFaults]
    BY <1>1, Crashed, Faulted DEF Typed
  <2>4. /\ req' \in [Requests -> Request] /\ client' \in [Clients -> Client] /\ lock' = FALSE
        /\ UNCHANGED <<tmp, content, holder, scars>>
    BY <1>1, Crashed DEF Typed
  <2>5. QED BY <2>1, <2>2, <2>3, <2>4 DEF Typed, TypeOK
<1>2. CASE UNCHANGED vars
  BY <1>2 DEF Typed, TypeOK, vars, files
<1>3. ASSUME NEW r \in Requests, Serve(r) \/ Hear(r) \/ Lose(r) \/ AppendFails(r) PROVE Typed'
  BY <1>3, TypedServed, TypedHeard, TypedFailed DEF Waits
<1>4. ASSUME NEW c \in Clients, Start(c) \/ Download(c) \/ Cancel(c) \/ \E r \in Requests : Send(c, r)
      PROVE  Typed'
  BY <1>4, TypedTab
<1>5. QED BY <1>1, <1>2, <1>3, <1>4 DEF Next

-----------------------------------------------------------------------------
(* The tab waits for one request. *)

LEMMA WaitsInit == Init => Waits
BY FreeFields DEF Init, Waits, Waiting, Single

\* What a step of the server leaves of a request.
Follows(r) == Others(r) /\ (req'[r].heard => req[r].heard /\ Kept(r))

LEMMA FollowsServed == ASSUME Typed, NEW r \in Requests, Serve(r) \/ AppendFails(r) PROVE client' = client /\ Follows(r)
<1>0. TypeOK
  BY DEF Typed
<1>1. \A at : Goes(r, at) => Follows(r)
  BY DEF Goes, Follows, Kept
<1>2. \A ok : Ends(r, ok) => Follows(r)
  BY <1>1 DEF Ends, Gone, Follows
<1>3. CASE Check(r)
  BY <1>0, <1>1, <1>2, <1>3, Checked
<1>4. CASE RemoveStale(r)
  BY <1>0, <1>1, <1>4, Unlinked
<1>5. CASE AppendChunk(r)
  BY <1>0, <1>1, <1>2, <1>5, Appended
<1>6. CASE Rename(r)
  BY <1>0, <1>1, <1>2, <1>6, Renamed
<1>7. CASE RecordSize(r)
  BY <1>0, <1>2, <1>7, Sized
<1>8. CASE AppendFails(r)
  BY <1>0, <1>2, <1>8, AppendFailed
<1>9. QED BY <1>3, <1>4, <1>5, <1>6, <1>7, <1>8 DEF Serve

LEMMA WaitsNext == Typed /\ Waits /\ [Next]_vars => Waits'
<1> SUFFICES ASSUME Typed, Waits, [Next]_vars PROVE Waits'
  OBVIOUS
<1>0. TypeOK
  BY DEF Typed
<1>1. ASSUME NEW r \in Requests, Serve(r) \/ AppendFails(r) PROVE Waits'
  BY <1>1, FollowsServed DEF Waits, Waiting, Single, Follows, Others, Kept
<1>2. ASSUME NEW r \in Requests, Hear(r) \/ Lose(r) PROVE Waits'
  <2>1. Others(r) /\ req'[r].heard = FALSE /\ OtherTabs(req[r].client) /\ req[r].heard
    BY <1>0, <1>2, Heard, Lost DEF Gone, Typed, RequestWhole
  <2>2. \A x \in Requests : req[x].heard /\ x # r => req[x].client # req[r].client
    BY <2>1 DEF Waits, Single
  <2>3. \A x \in Requests : req'[x].heard => x # r /\ req'[x] = req[x] /\ client'[req[x].client] = client[req[x].client]
    <3>1. \A x \in Requests : req[x].heard => req[x].client \in Clients
      BY DEF Typed, RequestWhole
    <3>2. QED BY <2>1, <2>2, <3>1 DEF Others, OtherTabs
  <2>4. QED BY <2>3 DEF Waits, Waiting, Single
<1>3. CASE Crash
  BY <1>0, <1>3, Crashed DEF Waits, Waiting, Single
<1>4. ASSUME NEW c \in Clients, Start(c) \/ Download(c) \/ Cancel(c) PROVE Waits'
  <2>1. client[c].phase # "waiting" /\ OtherTabs(c) /\ req' = req
    BY <1>0, <1>4, Started, Downloaded, Cancelled
  <2>2. \A x \in Requests : req[x].heard => req[x].client \in Clients /\ req[x].client # c
    BY <2>1 DEF Waits, Waiting, Typed, RequestWhole
  <2>3. QED BY <2>1, <2>2 DEF Waits, Waiting, Single, OtherTabs
<1>5. ASSUME NEW c \in Clients, NEW r \in Requests, Send(c, r) PROVE Waits'
  <2>1. /\ client[c].phase = "sending" /\ OtherTabs(c) /\ client'[c].phase = "waiting"
        /\ client'[c].chunk = client[c].chunk /\ Others(r) /\ req'[r].client = c /\ req'[r].chunk = client[c].chunk
    BY <1>0, <1>5, Sent
  <2>2. \A x \in Requests : req[x].heard => req[x].client \in Clients /\ req[x].client # c
    BY <2>1 DEF Waits, Waiting, Typed, RequestWhole
  <2>3. \A x \in Requests : x # r => req'[x] = req[x] /\ (req[x].heard => client'[req[x].client] = client[req[x].client])
    BY <2>1, <2>2 DEF Others, OtherTabs
  <2>4. \A x \in Requests : Waiting(req[x])'
    <3>1. Waiting(req[r])'
      BY <2>1 DEF Waiting
    <3>2. ASSUME NEW x \in Requests, x # r PROVE Waiting(req[x])'
      BY <2>3, <3>2 DEF Waits, Waiting
    <3>3. QED BY <3>1, <3>2
  <2>5. Single'
    BY <2>1, <2>2, <2>3 DEF Waits, Single
  <2>6. QED BY <2>4, <2>5 DEF Waits
<1>6. CASE UNCHANGED vars
  BY <1>6 DEF Waits, Waiting, Single, vars
<1>7. QED BY <1>1, <1>2, <1>3, <1>4, <1>5, <1>6 DEF Next

-----------------------------------------------------------------------------
(* Whose the stored chunks are. *)

LEMMA RenewsInit == Init => Renews
BY FreeFields DEF Init, Renews, Renewing

\* A tab that ran has run.
LEMMA RanStays == ASSUME Typed, [Next]_vars PROVE \A c \in Clients : client'[c].runs >= client[c].runs
<1>0. TypeOK /\ \A c \in Clients : client[c].runs \in Nat
  BY SizeAssumption DEF Typed, TypeOK, Client
<1>1. ASSUME NEW c \in Clients, OtherTabs(c), client'[c].runs >= client[c].runs
      PROVE  \A d \in Clients : client'[d].runs >= client[d].runs
  BY <1>0, <1>1 DEF OtherTabs
<1>2. \A k, l : Back(k, l) \/ Forth(k, l) => l.runs = k.runs
  BY DEF Back, Forth
<1>3. ASSUME NEW r \in Requests, Serve(r) \/ AppendFails(r) PROVE client' = client
  BY <1>3, FollowsServed
<1>4. ASSUME NEW r \in Requests, Hear(r) \/ Lose(r) PROVE \A d \in Clients : client'[d].runs >= client[d].runs
  <2>1. req[r].client \in Clients /\ OtherTabs(req[r].client)
        /\ (\/ Back(client[req[r].client], client'[req[r].client])
            \/ Forth(client[req[r].client], client'[req[r].client]))
    BY <1>4, Heard, Lost
  <2>2. QED BY <1>0, <1>1, <1>2, <2>1
<1>5. CASE Crash
  <2>1. \A d \in Clients : client'[d].runs = client[d].runs
    BY <1>0, <1>2, <1>5, Crashed
  <2>2. QED BY <1>0, <2>1
<1>6. ASSUME NEW c \in Clients, Start(c) \/ Download(c) \/ Cancel(c) \/ \E r \in Requests : Send(c, r)
      PROVE  \A d \in Clients : client'[d].runs >= client[d].runs
  <2>1. OtherTabs(c) /\ client'[c].runs >= client[c].runs
    <3>1. CASE Start(c)
      BY <1>0, <3>1, Started
    <3>2. CASE Download(c)
      <4>1. client'[c].runs = client[c].runs /\ OtherTabs(c)
        BY <1>0, <1>2, <3>2, Downloaded
      <4>2. QED BY <1>0, <4>1
    <3>3. CASE Cancel(c)
      BY <1>0, <3>3, Cancelled
    <3>4. ASSUME NEW r \in Requests, Send(c, r) PROVE OtherTabs(c) /\ client'[c].runs >= client[c].runs
      <4>1. client'[c].runs = client[c].runs /\ OtherTabs(c)
        BY <1>0, <3>4, Sent
      <4>2. QED BY <1>0, <4>1
    <3>5. QED BY <1>6, <3>1, <3>2, <3>3, <3>4
  <2>2. QED BY <1>1, <2>1
<1>7. CASE UNCHANGED vars
  BY <1>0, <1>7 DEF vars
<1>8. QED BY <1>0, <1>3, <1>4, <1>5, <1>6, <1>7 DEF Next

LEMMA RenewsNext == Typed /\ Waits /\ Renews /\ [Next]_vars => Renews'
<1> SUFFICES ASSUME Typed, Waits, Renews, [Next]_vars PROVE Renews'
  OBVIOUS
<1>0. TypeOK
  BY DEF Typed
<1>1. \A c : Ran(c) => Ran(c)'
  <2>1. \A c \in Clients : client'[c].runs >= client[c].runs /\ client[c].runs \in Nat /\ client'[c].runs \in Int
    <3>1. client \in [Clients -> Client] /\ client' \in [Clients -> Client]
      BY TypedNext DEF Typed, TypeOK
    <3>2. \A k \in Client : k.runs \in Nat
      BY SizeAssumption DEF Client
    <3>3. QED BY <3>1, <3>2, RanStays
  <2>2. QED BY <2>1 DEF Ran
<1>2. content' = content /\ Renewed => Renewed'
  BY <1>1 DEF Renewed
<1>3. \A c \in Clients : client[c].phase # "idle" => Ran(c)
  BY DEF Typed, TabWhole, Ran
\* What each part of Renews asks of a step.
<1> DEFINE Owned == \A r \in Requests : req'[r].at # "free" => Ran(req[r].client)'
           Filled == \A i \in DOMAIN tmp' : Ran(tmp[i].key)'
           Told == \A r \in Requests : Renewing(req'[r]) => Renewing(req[r])
           Done == \A c \in Clients : client'[c].phase = "done" =>
                        client[c].phase = "done" \/ \E r \in Requests : Renewing(req[r])
           Locked == lock' => Ran(holder)'
<1>4. Owned /\ Filled /\ Told /\ Done /\ Locked /\ content' = content => Renews'
  BY <1>1, <1>2 DEF Renews, Renewing
<1>5. tmp' = tmp \/ tmp' = <<>> => Filled
  <2>1. DOMAIN <<>> = {}
    BY EmptySeq, LenProperties
  <2>2. QED BY <1>1, <2>1 DEF Renews
<1>6. holder' = holder /\ (lock' => lock) => Locked
  BY <1>1 DEF Renews
<1>7. client' = client => Done
  OBVIOUS
<1>8. ASSUME NEW r \in Requests, Serve(r) \/ AppendFails(r) PROVE Renews'
  <2>1. client' = client /\ Others(r) /\ req[r].at # "free" /\ (req'[r].at # "free" => Kept(r))
    <3>1. \A at : Goes(r, at) => Others(r) /\ Kept(r)
      BY DEF Goes
    <3>2. \A ok : Ends(r, ok) => Others(r) /\ (req'[r].at # "free" => Kept(r))
      BY <3>1 DEF Ends, Gone
    <3>3. QED BY <1>0, <1>8, <3>1, <3>2, Checked, Unlinked, Appended, Renamed, Sized, AppendFailed DEF Serve
  <2>2. Ran(req[r].client)
    BY <2>1 DEF Renews
  <2>3. Owned
    BY <1>1, <2>1, <2>2 DEF Others, Kept, Renews
  <2>4. \A ok \in BOOLEAN : Ends(r, ok) => Others(r) /\ (Renewing(req'[r]) => ok /\ req[r].chunk = LastChunk)
    BY DEF Ends, Goes, Gone, Renewing, Kept
  <2>5. ASSUME Renewing(req'[r]) => Renewing(req[r]) PROVE Told
    BY <2>1, <2>5 DEF Others
  <2>6. ASSUME NEW k \in Chunks \cup {Torn}, tmp' = Append(tmp, [key |-> req[r].client, chunk |-> k]) PROVE Filled
    <3> DEFINE e == [key |-> req[r].client, chunk |-> k]
    <3>1. e \in Piece /\ e.key = req[r].client
      BY <2>2, PieceType DEF Ran, Keys
    <3>2. tmp \in Seq(Piece) /\ tmp' = Append(tmp, e)
      BY <1>0, <2>6 DEF TypeOK
    <3> HIDE DEF e
    <3>3. /\ DOMAIN tmp' = 1 .. Len(tmp) + 1 /\ DOMAIN tmp = 1 .. Len(tmp) /\ Len(tmp) \in Nat
          /\ tmp'[Len(tmp) + 1] = e /\ \A i \in 1 .. Len(tmp) : tmp'[i] = tmp[i]
      BY <3>1, <3>2, AppendProperties, LenProperties
    <3>4. QED BY <1>1, <2>2, <3>1, <3>3 DEF Renews
  <2>7. CASE Check(r)
    <3>1. Told
      <4>1. Ends(r, FALSE) \/ Goes(r, "unlink") \/ Goes(r, "append")
        BY <1>0, <2>7, Checked
      <4>2. ~Renewing(req'[r])
        BY <2>4, <4>1 DEF Goes, Renewing
      <4>3. QED BY <2>5, <4>2
    <3>2. Locked
      BY <1>0, <1>1, <2>2, <2>7, Checked DEF Renews
    <3>3. QED BY <1>0, <1>4, <1>5, <1>7, <2>1, <2>3, <2>7, <3>1, <3>2, Checked
  <2>8. CASE RemoveStale(r)
    <3>1. Told
      BY <1>0, <2>5, <2>8, Unlinked DEF Goes, Renewing
    <3>2. QED BY <1>0, <1>4, <1>5, <1>6, <1>7, <2>1, <2>3, <2>8, <3>1, Unlinked
  <2>9. CASE AppendChunk(r)
    <3>1. Told
      <4>1. ~Renewing(req'[r])
        BY <1>0, <2>4, <2>9, Appended DEF Goes, Renewing
      <4>2. QED BY <2>5, <4>1
    <3>2. Filled
      BY <1>0, <2>6, <2>9, Appended DEF TypeOK, Request
    <3>3. QED BY <1>0, <1>4, <1>6, <1>7, <2>1, <2>3, <2>9, <3>1, <3>2, Appended
  <2>10. CASE Rename(r)
    <3>1. CASE tmp = <<>>
      <4>1. Ends(r, FALSE) /\ tmp' = tmp /\ content' = content /\ holder' = holder /\ (lock' => lock)
        BY <1>0, <2>10, <3>1, Renamed
      <4>2. QED BY <1>4, <1>5, <1>6, <1>7, <2>1, <2>3, <2>4, <2>5, <4>1
    <3>2. CASE tmp # <<>>
      <4>1. Goes(r, "size") /\ content' = tmp /\ tmp' = <<>> /\ lock' = lock /\ holder' = holder
        BY <1>0, <2>10, <3>2, Renamed
      <4>2. Renewed'
        BY <1>1, <3>2, <4>1 DEF Renews, Renewed
      <4>3. QED BY <1>5, <1>6, <2>3, <4>1, <4>2 DEF Renews
    <3>3. QED BY <3>1, <3>2
  <2>11. CASE RecordSize(r)
    <3>1. Told
      BY <1>0, <2>5, <2>11, Sized DEF Renewing
    <3>2. QED BY <1>0, <1>4, <1>5, <1>6, <1>7, <2>1, <2>3, <2>11, <3>1, Sized
  <2>12. CASE AppendFails(r)
    <3>1. Told
      BY <1>0, <2>4, <2>5, <2>12, AppendFailed
    <3>2. Filled
      BY <1>0, <1>5, <2>6, <2>12, AppendFailed
    <3>3. QED BY <1>0, <1>4, <1>6, <1>7, <2>1, <2>3, <2>12, <3>1, <3>2, AppendFailed
  <2>13. QED BY <1>8, <2>7, <2>8, <2>9, <2>10, <2>11, <2>12 DEF Serve
<1>9. ASSUME NEW r \in Requests, Hear(r) \/ Lose(r) PROVE Renews'
  <2>1. /\ Others(r)
        /\ req'[r].at # "free" => req'[r].client = req[r].client /\ req'[r].at = req[r].at
        /\ req'[r].at \in {"free", "unlink", "append", "rename", "size"}
        /\ UNCHANGED <<lock, tmp, content, holder>> /\ OtherTabs(req[r].client)
    BY <1>9, Heard, Lost DEF Gone
  <2>2. Owned
    BY <1>1, <2>1 DEF Others, Renews
  <2>3. Told
    BY <2>1 DEF Others, Renewing
  <2>4. Done
    <3>1. ASSUME Hear(r), req[r].ok, client[req[r].client].chunk = LastChunk PROVE Renewing(req[r])
      BY <3>1, Heard DEF Renewing, Waits, Waiting, Typed, RequestWhole
    <3>2. ASSUME client'[req[r].client].phase = "done" PROVE Renewing(req[r])
      BY <1>9, <3>1, <3>2, Heard, Lost DEF Back, Forth
    <3>3. QED BY <2>1, <3>2 DEF OtherTabs
  <2>5. QED BY <1>4, <1>5, <1>6, <2>1, <2>2, <2>3, <2>4
<1>10. CASE Crash
  <2>1. \A c \in Clients : client'[c].phase = "done" => client[c].phase = "done"
    BY <1>0, <1>10, Crashed DEF Back
  <2>2. QED BY <1>0, <1>4, <1>5, <1>10, <2>1, Crashed DEF Renewing
<1>11. ASSUME NEW c \in Clients, Start(c) \/ Download(c) \/ Cancel(c) PROVE Renews'
  <2>1. OtherTabs(c) /\ client'[c].phase # "done" /\ UNCHANGED <<req, lock, tmp, content, holder>>
    BY <1>0, <1>11, Started, Downloaded, Cancelled DEF Back
  <2>2. Owned
    BY <1>1, <2>1 DEF Renews
  <2>3. Done
    BY <2>1 DEF OtherTabs
  <2>4. QED BY <1>4, <1>5, <1>6, <2>1, <2>2, <2>3
<1>12. ASSUME NEW c \in Clients, NEW r \in Requests, Send(c, r) PROVE Renews'
  <2>1. /\ OtherTabs(c) /\ client'[c].phase # "done" /\ UNCHANGED <<lock, tmp, content, holder>>
        /\ Others(r) /\ req'[r].at = "sent" /\ req'[r].client = c /\ client[c].phase # "idle"
    BY <1>0, <1>12, Sent
  <2>2. Owned
    BY <1>1, <1>3, <2>1 DEF Renews, Others
  <2>3. Done
    BY <2>1 DEF OtherTabs
  <2>4. Told
    BY <2>1 DEF Others, Renewing
  <2>5. QED BY <1>4, <1>5, <1>6, <2>1, <2>2, <2>3, <2>4
<1>13. CASE UNCHANGED vars
  BY <1>13 DEF vars, files, Renews, Ran, Renewed, Renewing
<1>14. QED BY <1>8, <1>9, <1>10, <1>11, <1>12, <1>13 DEF Next

-----------------------------------------------------------------------------
(* The file is whole. *)

LEMMA ReplacesInit == Init => Replaces
BY FreeFields DEF Init, Replaces, Replacing, Between, ContentWhole, Active, Keys

LEMMA ScarsGrow == Typed /\ [Next]_vars => scars \subseteq scars'
<1> SUFFICES ASSUME Typed, [Next]_vars PROVE scars \subseteq scars'
  OBVIOUS
<1>0. TypeOK
  BY DEF Typed
<1>1. ASSUME NEW r \in Requests, Serve(r) PROVE scars \subseteq scars'
  BY <1>0, <1>1, Checked, Unlinked, Appended, Renamed, Sized DEF Serve
<1>2. ASSUME NEW r \in Requests, Hear(r) \/ Lose(r) \/ AppendFails(r) PROVE scars \subseteq scars'
  BY <1>0, <1>2, Heard, Lost, AppendFailed
<1>3. ASSUME NEW c \in Clients, Start(c) \/ Download(c) \/ Cancel(c) \/ \E r \in Requests : Send(c, r)
      PROVE  scars \subseteq scars'
  BY <1>0, <1>3, Started, Downloaded, Cancelled, Sent
<1>4. CASE Crash
  BY <1>0, <1>4, Crashed
<1>5. CASE UNCHANGED vars
  BY <1>5 DEF vars
<1>6. QED BY <1>1, <1>2, <1>3, <1>4, <1>5 DEF Next

\* A step that leaves the requests with the temporary file as they are.
LEMMA ReplacingKept ==
    ASSUME Typed, Replacing, Between, UNCHANGED <<lock, tmp, holder>>,
           \A x \in Requests : (Active(req'[x]) => req'[x] = req[x]) /\ (Active(req[x]) => req'[x] = req[x]),
           \A c \in Clients :
               /\ client'[c].chunk = client[c].chunk \/ client'[c].chunk = 0
               /\ client'[c].phase \in {"sending", "waiting"} /\ client'[c].chunk > 0 =>
                    client[c].phase \in {"sending", "waiting"} /\ client'[c].chunk = client[c].chunk
    PROVE  Replacing' /\ Between'
<1>1. \A x \in Requests : Active(req'[x]) => Active(req[x]) /\ req'[x] = req[x]
  OBVIOUS
<1>2. \A x \in Requests : Active(req[x]) => Active(req'[x])
  OBVIOUS
<1>3. \A x \in Requests : Active(req[x]) => req[x].client \in Clients
  BY DEF Active, Typed, RequestWhole
<1>4. Replacing'
  <2>1. ASSUME NEW x \in Requests, Active(req'[x]) PROVE Held(x)' /\ Stored(req[x])'
    <3>1. Active(req[x]) /\ req'[x] = req[x] /\ Held(x) /\ Stored(req[x]) /\ holder \in Clients
      BY <1>1, <1>3, <2>1 DEF Replacing, Held
    <3>2. Stored(req[x])'
      BY <3>1 DEF Stored
    <3>3. Held(x)'
      BY <1>1, <3>1 DEF Held
    <3>4. QED BY <3>2, <3>3
  <2>2. QED BY <2>1 DEF Replacing
<1>5. Between'
  BY <1>2 DEF Between
<1>6. QED BY <1>4, <1>5

\* A step after which the temporary file is with one request, or between two chunks.
LEMMA ReplacingMoved ==
    ASSUME NEW r \in Requests,
           \A x \in Requests : Active(req'[x]) => x = r,
           lock' => holder' \in Clients,
           Active(req'[r]) =>
               /\ lock' /\ req'[r].client = holder' /\ Stored(req[r])'
               /\ ~req'[r].heard => req'[r].chunk = 0 /\ client'[holder'].chunk = 0,
           ~Active(req'[r]) =>
               \/ ~lock'
               \/ ~(client'[holder'].chunk > 0)
               \/ tmp' = Prefix(holder', client'[holder'].chunk)
    PROVE  Replacing' /\ Between'
<1>1. Replacing'
  BY DEF Replacing, Held
<1>2. Between'
  BY DEF Between
<1>3. QED BY <1>1, <1>2

LEMMA ReplacesNext == Typed /\ Waits /\ Replaces /\ [Next]_vars => Replaces'
<1> SUFFICES ASSUME Typed, Waits, Replaces, [Next]_vars, scars' = {} PROVE Replaces'
  BY DEF Replaces
<1>0. TypeOK /\ scars = {}
  BY ScarsGrow DEF Typed
<1>1. Replacing /\ Between /\ \E k \in Keys : content = Whole(k)
  BY <1>0 DEF Replaces, ContentWhole
<1>2. ASSUME content' = content, Replacing', Between' PROVE Replaces'
  BY <1>1, <1>2 DEF Replaces, ContentWhole
<1>3. \A r \in Requests : req[r].at # "free" => req[r].client \in Clients
  BY DEF Typed, RequestWhole
<1>4. \A r \in Requests : Active(req[r]) =>
        /\ lock /\ req[r].client = holder /\ holder \in Clients /\ Stored(req[r])
        /\ \A x \in Requests : Active(req[x]) => x = r
        /\ ~req[r].heard => req[r].chunk = 0 /\ client[holder].chunk = 0
  BY <1>1, <1>3 DEF Replacing, Held, Active
<1>5. \A r \in Requests : req[r].heard => client[req[r].client].phase = "waiting" /\ client[req[r].client].chunk = req[r].chunk
  BY DEF Waits, Waiting
<1>6. \A r \in Requests : req[r].chunk \in Chunks
  BY <1>0 DEF TypeOK, Request
<1>7. ASSUME NEW r \in Requests, Check(r) PROVE Replaces'
  <2>1. req[r].at = "sent" /\ req[r].heard /\ ~Active(req[r]) /\ UNCHANGED <<client, tmp, content>>
    BY <1>0, <1>7, Checked DEF Typed, RequestWhole, Active
  <2>2. CASE Ends(r, FALSE) /\ UNCHANGED <<lock, holder>>
    <3>1. Others(r) /\ ~Active(req'[r])
      BY <2>2 DEF Ends, Goes, Gone, Active
    <3>2. QED BY <1>1, <1>2, <2>1, <2>2, <3>1, ReplacingKept DEF Others
  <2>3. CASE req[r].chunk = 0 /\ ~lock /\ Goes(r, "unlink") /\ lock' = TRUE /\ holder' = req[r].client
    <3>1. \A x \in Requests : ~Active(req[x])
      BY <1>4, <2>3
    <3>2. \A x \in Requests : Active(req'[x]) => x = r
      BY <2>3, <3>1 DEF Goes, Others
    <3>3. req'[r].heard /\ req'[r].client = holder' /\ holder' \in Clients /\ req'[r].at = "unlink"
      BY <1>3, <2>1, <2>3 DEF Goes, Kept
    <3>4. Stored(req[r])' /\ Active(req'[r])
      BY <3>3 DEF Stored, Active
    <3>5. QED BY <1>2, <2>1, <2>3, <3>2, <3>3, <3>4, ReplacingMoved
  <2>4. CASE /\ req[r].chunk # 0 /\ lock /\ Goes(r, "append") /\ UNCHANGED <<lock, holder>>
             /\ req[r].client = holder
    <3>1. /\ client[holder].phase = "waiting" /\ client[holder].chunk = req[r].chunk
          /\ client[holder].chunk > 0
      BY <1>5, <1>6, <2>1, <2>4 DEF Chunks
    <3>2. ASSUME NEW x \in Requests, Active(req[x]) PROVE FALSE
      <4>1. req[x].client = holder /\ x # r
        BY <1>4, <2>1, <3>2
      <4>2. req[x].heard
        BY <1>4, <3>1, <3>2
      <4>3. QED BY <2>1, <2>4, <4>1, <4>2 DEF Waits, Single
    <3>3. tmp = Prefix(holder, req[r].chunk) /\ holder \in Clients
      BY <1>1, <2>4, <3>1, <3>2 DEF Between
    <3>4. /\ req'[r].at = "append" /\ req'[r].client = holder /\ req'[r].chunk = req[r].chunk /\ req'[r].heard
      BY <2>1, <2>4 DEF Goes, Kept
    <3>5. Stored(req[r])' /\ Active(req'[r])
      BY <2>1, <2>4, <3>3, <3>4 DEF Stored, Active
    <3>6. \A x \in Requests : Active(req'[x]) => x = r
      BY <2>4, <3>2 DEF Goes, Others
    <3>7. QED BY <1>2, <2>1, <2>4, <3>3, <3>4, <3>5, <3>6, ReplacingMoved
  <2>5. QED BY <1>0, <1>7, <2>2, <2>3, <2>4, Checked
<1>8. ASSUME NEW r \in Requests, RemoveStale(r) PROVE Replaces'
  <2>1. /\ req[r].at = "unlink" /\ req[r].chunk = 0 /\ Goes(r, "append") /\ tmp' = <<>>
        /\ UNCHANGED <<client, lock, content, holder>> /\ Active(req[r])
    BY <1>0, <1>8, Unlinked DEF Typed, RequestWhole, Active
  <2>2. \A x \in Requests : Active(req'[x]) => x = r
    BY <1>4, <2>1 DEF Goes, Others
  <2>3. /\ req'[r].at = "append" /\ req'[r].client = holder /\ req'[r].chunk = 0
        /\ req'[r].heard = req[r].heard /\ holder \in Clients /\ lock
    BY <1>4, <2>1 DEF Goes, Kept
  <2>4. tmp' = Prefix(holder, 0)
    BY <2>1, <2>3, WholeFacts DEF Keys
  <2>5. Stored(req[r])' /\ Active(req'[r])
    BY <2>1, <2>3, <2>4 DEF Stored, Active
  <2>6. ~req'[r].heard => client'[holder].chunk = 0
    BY <1>4, <2>1, <2>3
  <2>7. QED BY <1>2, <2>1, <2>2, <2>3, <2>5, <2>6, ReplacingMoved
<1>9. ASSUME NEW r \in Requests, AppendChunk(r) PROVE Replaces'
  <2>1. /\ req[r].at = "append" /\ UNCHANGED <<client, lock, content, holder>> /\ Active(req[r])
        /\ tmp' = Append(tmp, [key |-> req[r].client, chunk |-> req[r].chunk])
    BY <1>0, <1>9, Appended DEF Active
  <2>2. req[r].client = holder /\ holder \in Clients /\ lock /\ tmp = Prefix(holder, req[r].chunk)
    BY <1>4, <2>1 DEF Stored
  <2>3. tmp' = Prefix(holder, req[r].chunk + 1)
    BY <1>6, <2>1, <2>2, PrefixGrows DEF Keys
  <2>4. CASE req[r].chunk = LastChunk /\ Goes(r, "rename")
    <3>1. \A x \in Requests : Active(req'[x]) => x = r
      BY <1>4, <2>1, <2>4 DEF Goes, Others
    <3>2. /\ req'[r].at = "rename" /\ req'[r].client = holder /\ req'[r].chunk = req[r].chunk
          /\ req'[r].heard = req[r].heard
      BY <2>2, <2>4 DEF Goes, Kept
    <3>3. tmp' = Whole(holder)
      BY <2>2, <2>3, <2>4, Span, WholeFacts DEF Keys
    <3>4. Stored(req[r])' /\ Active(req'[r])
      BY <2>1, <3>2, <3>3 DEF Stored, Active
    <3>5. ~req'[r].heard => req'[r].chunk = 0 /\ client'[holder].chunk = 0
      BY <1>4, <2>1, <3>2
    <3>6. QED BY <1>2, <2>1, <2>2, <3>1, <3>2, <3>4, <3>5, ReplacingMoved
  <2>5. CASE req[r].chunk # LastChunk /\ req[r].heard /\ Goes(r, "reply") /\ req'[r].ok = TRUE
    <3>1. \A x \in Requests : Active(req'[x]) => x = r
      BY <1>4, <2>1, <2>5 DEF Goes, Others
    <3>2. /\ req'[r].at = "reply" /\ req'[r].client = holder /\ req'[r].chunk = req[r].chunk /\ req'[r].heard
      BY <2>2, <2>5 DEF Goes, Kept
    <3>3. Stored(req[r])' /\ Active(req'[r])
      BY <2>1, <2>3, <2>5, <3>2 DEF Stored, Active
    <3>4. QED BY <1>2, <2>1, <2>2, <3>1, <3>2, <3>3, ReplacingMoved
  <2>6. CASE ~req[r].heard /\ Gone(r)
    <3>1. \A x \in Requests : ~Active(req'[x])
      BY <1>4, <2>1, <2>6 DEF Gone, Others, Active
    <3>2. client'[holder].chunk = 0
      BY <1>4, <2>1, <2>6
    <3>3. QED BY <1>2, <2>1, <2>2, <3>1, <3>2, ReplacingMoved
  <2>7. QED BY <1>0, <1>9, <2>4, <2>5, <2>6, Appended DEF Ends
<1>10. ASSUME NEW r \in Requests, Rename(r) PROVE Replaces'
  <2>1. req[r].at = "rename" /\ req[r].chunk = LastChunk /\ UNCHANGED <<client, holder>> /\ Active(req[r])
    BY <1>0, <1>10, Renamed DEF Typed, RequestWhole, Active
  <2>2. req[r].client = holder /\ holder \in Clients /\ lock /\ tmp = Whole(holder)
    BY <1>4, <2>1 DEF Stored
  <2>3. tmp # <<>>
    BY <2>2, WholeFacts DEF Keys
  <2>4. Goes(r, "size") /\ content' = Whole(holder) /\ tmp' = <<>> /\ lock' = lock
    BY <1>0, <1>10, <2>2, <2>3, Renamed
  <2>5. \A x \in Requests : Active(req'[x]) => x = r
    BY <1>4, <2>1, <2>4 DEF Goes, Others
  <2>6. /\ req'[r].at = "size" /\ req'[r].client = holder /\ req'[r].chunk = req[r].chunk
        /\ req'[r].heard = req[r].heard
    BY <2>2, <2>4 DEF Goes, Kept
  <2>7. Stored(req[r])' /\ Active(req'[r])
    BY <2>6 DEF Stored, Active
  <2>8. ~req'[r].heard => req'[r].chunk = 0 /\ client'[holder].chunk = 0
    BY <1>4, <2>1, <2>6
  <2>9. Replacing' /\ Between'
    BY <2>1, <2>2, <2>4, <2>5, <2>6, <2>7, <2>8, ReplacingMoved
  <2>10. QED BY <2>2, <2>4, <2>9 DEF Replaces, ContentWhole, Keys
<1>11. ASSUME NEW r \in Requests, RecordSize(r) PROVE Replaces'
  <2>1. /\ req[r].at = "size" /\ req[r].chunk = LastChunk /\ Ends(r, TRUE) /\ ~lock'
        /\ UNCHANGED <<client, tmp, content, holder>> /\ Active(req[r])
    BY <1>0, <1>11, Sized DEF Typed, RequestWhole, Active
  <2>2. \A x \in Requests : ~Active(req'[x])
    <3>1. Others(r) /\ ~Active(req'[r])
      BY <2>1 DEF Ends, Goes, Gone, Kept, Active
    <3>2. QED BY <1>4, <2>1, <3>1 DEF Others
  <2>3. QED BY <1>2, <2>1, <2>2, ReplacingMoved
<1>12. ASSUME NEW r \in Requests, AppendFails(r) PROVE Replaces'
  <2>1. /\ req[r].at = "append" /\ Ends(r, FALSE) /\ lock' = (lock /\ req[r].chunk # LastChunk)
        /\ req[r].chunk \notin {0, LastChunk} => tmp' = tmp
        /\ UNCHANGED <<client, content, holder>> /\ Active(req[r])
    BY <1>0, <1>12, AppendFailed DEF Active
  <2>2. \A x \in Requests : ~Active(req'[x])
    <3>1. Others(r) /\ ~Active(req'[r])
      BY <2>1 DEF Ends, Goes, Gone, Active
    <3>2. QED BY <1>4, <2>1, <3>1 DEF Others
  <2>3. req[r].client = holder /\ holder \in Clients /\ tmp = Prefix(holder, req[r].chunk)
    BY <1>4, <2>1 DEF Stored
  <2>4. \/ ~lock' \/ ~(client'[holder'].chunk > 0) \/ tmp' = Prefix(holder', client'[holder'].chunk)
    <3>1. CASE ~req[r].heard \/ req[r].chunk = 0
      <4>1. client[holder].chunk = 0
        BY <1>4, <1>5, <2>1, <2>3, <3>1
      <4>2. QED BY <2>1, <4>1
    <3>2. CASE req[r].heard /\ req[r].chunk # 0
      <4>1. client[holder].chunk = req[r].chunk
        BY <1>5, <2>3, <3>2
      <4>2. QED BY <2>1, <2>3, <3>2, <4>1
    <3>3. QED BY <3>1, <3>2
  <2>5. QED BY <1>2, <2>1, <2>2, <2>3, <2>4, ReplacingMoved
<1>13. ASSUME NEW r \in Requests, Hear(r) PROVE Replaces'
  <2>1. /\ req[r].at = "reply" /\ req[r].heard /\ Gone(r) /\ OtherTabs(req[r].client)
        /\ UNCHANGED <<lock, tmp, content, holder>> /\ req[r].client \in Clients
    BY <1>13, Heard DEF Typed, RequestWhole
  <2>2. /\ client[req[r].client].phase = "waiting" /\ client[req[r].client].chunk = req[r].chunk
    BY <1>5, <2>1
  <2>3. Others(r) /\ ~Active(req'[r])
    BY <2>1 DEF Gone, Active
  <2>4. CASE Active(req[r])
    <3>1. req[r].client = holder /\ req[r].ok /\ req[r].chunk # LastChunk /\ tmp = Prefix(holder, req[r].chunk + 1)
      BY <1>4, <2>1, <2>4 DEF Active, Stored
    <3>2. client'[holder].chunk = req[r].chunk + 1
      BY <1>13, <2>2, <3>1, Heard DEF Forth
    <3>3. \A x \in Requests : ~Active(req'[x])
      BY <1>4, <2>3, <2>4 DEF Others
    <3>4. QED BY <1>2, <2>1, <3>1, <3>2, <3>3, ReplacingMoved
  <2>5. CASE ~Active(req[r])
    <3>1. \/ Back(client[req[r].client], client'[req[r].client])
          \/ /\ client'[req[r].client].phase = "done"
             /\ client'[req[r].client].chunk = client[req[r].client].chunk
      <4>1. ~req[r].ok \/ req[r].chunk = LastChunk
        BY <2>1, <2>5 DEF Active
      <4>2. QED BY <1>13, <2>2, <4>1, Heard DEF Forth
    <3>2. \A c \in Clients :
               /\ client'[c].chunk = client[c].chunk \/ client'[c].chunk = 0
               /\ client'[c].phase \in {"sending", "waiting"} /\ client'[c].chunk > 0 =>
                    client[c].phase \in {"sending", "waiting"} /\ client'[c].chunk = client[c].chunk
      BY <2>1, <2>2, <3>1 DEF OtherTabs, Back
    <3>3. QED BY <1>1, <1>2, <2>1, <2>3, <2>5, <3>2, ReplacingKept DEF Others
  <2>6. QED BY <2>4, <2>5
<1>14. ASSUME NEW r \in Requests, Lose(r) PROVE Replaces'
  <2>1. /\ req[r].heard /\ OtherTabs(req[r].client) /\ req[r].client \in Clients
        /\ UNCHANGED <<lock, tmp, content, holder>>
        /\ Back(client[req[r].client], client'[req[r].client])
    BY <1>14, Lost
  <2>2. /\ client[req[r].client].phase = "waiting" /\ client[req[r].client].chunk = req[r].chunk
    BY <1>5, <2>1
  <2>3. CASE Active(req[r])
    <3>1. req[r].client = holder /\ req[r].chunk = 0
      BY <1>4, <1>14, <2>3, Lost DEF Active
    <3>2. client'[holder].chunk = 0
      BY <2>1, <2>2, <3>1 DEF Back
    <3>3. Others(r)
      BY <1>14, Lost DEF Gone
    <3>4. \A x \in Requests : Active(req'[x]) => x = r
      BY <1>4, <2>3, <3>3 DEF Others
    <3>5. ASSUME Active(req'[r])
          PROVE  req'[r].client = holder /\ req'[r].chunk = 0 /\ req'[r].at = req[r].at
                 /\ req[r].at \in {"unlink", "append", "rename", "size"}
      BY <1>14, <3>1, <3>5, Lost DEF Gone, Active
    <3>6. Active(req'[r]) => Stored(req[r])'
      BY <1>4, <2>1, <2>3, <3>1, <3>5 DEF Stored
    <3>7. lock /\ holder \in Clients
      BY <1>4, <2>3
    <3>8. QED BY <1>2, <2>1, <3>2, <3>4, <3>5, <3>6, <3>7, ReplacingMoved
  <2>4. CASE ~Active(req[r])
    <3>1. Others(r) /\ ~Active(req'[r])
      BY <1>14, <2>4, Lost DEF Gone, Active
    <3>2. \A c \in Clients :
               /\ client'[c].chunk = client[c].chunk \/ client'[c].chunk = 0
               /\ client'[c].phase \in {"sending", "waiting"} /\ client'[c].chunk > 0 =>
                    client[c].phase \in {"sending", "waiting"} /\ client'[c].chunk = client[c].chunk
      BY <2>1, <2>2 DEF OtherTabs, Back
    <3>3. QED BY <1>1, <1>2, <2>1, <2>4, <3>1, <3>2, ReplacingKept DEF Others
  <2>5. QED BY <2>3, <2>4
<1>15. CASE Crash
  <2>1. (\A r \in Requests : ~Active(req'[r])) /\ ~lock' /\ content' = content
    BY <1>0, <1>15, Crashed DEF Active
  <2>2. Replacing' /\ Between'
    BY <2>1 DEF Replacing, Between
  <2>3. QED BY <1>2, <2>1, <2>2
<1>16. ASSUME NEW c \in Clients, Start(c) \/ Download(c) \/ Cancel(c) \/ \E r \in Requests : Send(c, r)
       PROVE  Replaces'
  <2>1. /\ OtherTabs(c) /\ UNCHANGED <<lock, tmp, content, holder>>
        /\ \/ client'[c].chunk = 0
           \/ client'[c].chunk = client[c].chunk /\ client'[c].phase \notin {"sending", "waiting"}
           \/ client'[c].chunk = client[c].chunk /\ client[c].phase \in {"sending", "waiting"}
    <3>1. client[c].phase = "download" => client[c].chunk = 0
      BY DEF Typed, TabWhole
    <3>2. CASE Start(c)
      BY <1>0, <3>2, Started
    <3>3. CASE Download(c)
      BY <1>0, <3>1, <3>3, Downloaded DEF Back
    <3>4. CASE Cancel(c)
      BY <1>0, <3>4, Cancelled
    <3>5. ASSUME NEW r \in Requests, Send(c, r)
          PROVE  /\ OtherTabs(c) /\ UNCHANGED <<lock, tmp, content, holder>>
                 /\ client'[c].chunk = client[c].chunk /\ client[c].phase \in {"sending", "waiting"}
      BY <1>0, <3>5, Sent
    <3>6. QED BY <1>16, <3>2, <3>3, <3>4, <3>5
  <2>2. \A x \in Requests : (Active(req'[x]) => req'[x] = req[x]) /\ (Active(req[x]) => req'[x] = req[x])
    <3>1. CASE Start(c) \/ Download(c) \/ Cancel(c)
      BY <1>0, <3>1, Started, Downloaded, Cancelled
    <3>2. ASSUME NEW r \in Requests, Send(c, r)
          PROVE  \A x \in Requests : (Active(req'[x]) => req'[x] = req[x]) /\ (Active(req[x]) => req'[x] = req[x])
      <4>1. Others(r) /\ req'[r].at = "sent" /\ req[r].at = "free"
        BY <1>0, <3>2, Sent
      <4>2. QED BY <4>1 DEF Others, Active
    <3>3. QED BY <1>16, <3>1, <3>2
  <2>3. \A d \in Clients :
            /\ client'[d].chunk = client[d].chunk \/ client'[d].chunk = 0
            /\ client'[d].phase \in {"sending", "waiting"} /\ client'[d].chunk > 0 =>
                 client[d].phase \in {"sending", "waiting"} /\ client'[d].chunk = client[d].chunk
    BY <2>1 DEF OtherTabs
  <2>4. QED BY <1>1, <1>2, <2>1, <2>2, <2>3, ReplacingKept
<1>17. CASE UNCHANGED vars
  <2>1. Replacing' /\ Between' /\ content' = content
    BY <1>1, <1>17 DEF vars, files, Replacing, Between, Held, Stored
  <2>2. QED BY <1>2, <2>1
<1>18. QED BY <1>7, <1>8, <1>9, <1>10, <1>11, <1>12, <1>13, <1>14, <1>15, <1>16, <1>17 DEF Next, Serve

-----------------------------------------------------------------------------
(* Why a tab gives the file up. *)

LEMMA FaultsGrow ==
    ASSUME Typed, [Next]_vars
    PROVE  /\ faults.loss \in Nat /\ faults.error \in Nat /\ faults.crash \in Nat
           /\ faults'.loss >= faults.loss /\ faults'.error >= faults.error /\ faults'.crash >= faults.crash
<1>0. TypeOK /\ faults.loss \in Nat /\ faults.error \in Nat /\ faults.crash \in Nat
  BY SizeAssumption DEF Typed, TypeOK
<1>1. ASSUME NEW kind \in {"loss", "error", "crash"}, Fault(kind)
      PROVE  faults'.loss >= faults.loss /\ faults'.error >= faults.error /\ faults'.crash >= faults.crash
  BY <1>0, <1>1, Faulted
<1>2. ASSUME NEW r \in Requests, Serve(r) \/ Hear(r) PROVE faults' = faults
  BY <1>0, <1>2, Heard, Checked, Unlinked, Appended, Renamed, Sized DEF Serve
<1>3. ASSUME NEW r \in Requests, Lose(r) \/ AppendFails(r) PROVE Fault("loss") \/ Fault("error")
  BY <1>0, <1>3, Lost, AppendFailed
<1>4. ASSUME NEW c \in Clients, Start(c) \/ Download(c) \/ Cancel(c) \/ \E r \in Requests : Send(c, r)
      PROVE  faults' = faults
  BY <1>0, <1>4, Started, Downloaded, Cancelled, Sent
<1>5. Crash => Fault("crash")
  BY <1>0, Crashed
<1>6. UNCHANGED vars => faults' = faults
  BY DEF vars
<1>7. CASE faults' = faults
  BY <1>0, <1>7
<1>8. QED BY <1>0, <1>1, <1>2, <1>3, <1>4, <1>5, <1>6, <1>7 DEF Next

LEMMA AloneWas ==
    ASSUME Typed, Waits, [Next]_vars, NEW c \in Clients, Alone(c)'
    PROVE  Alone(c) /\ faults'.loss = faults.loss /\ faults'.error = faults.error
<1>1. \A d \in Clients : client'[d].runs >= client[d].runs /\ client[d].runs \in Nat /\ client'[d].runs \in Nat
  <2>1. client \in [Clients -> Client] /\ client' \in [Clients -> Client]
    BY TypedNext DEF Typed, TypeOK
  <2>2. \A k \in Client : k.runs \in Nat
    BY SizeAssumption DEF Client
  <2>3. QED BY <2>1, <2>2, RanStays
<1>2. faults.loss = 0 /\ faults.error = 0 /\ faults'.loss = 0 /\ faults'.error = 0
  BY FaultsGrow DEF Alone
<1>3. client[c].runs < 2
  BY <1>1 DEF Alone
<1>4. \A d \in Clients \ {c} : client[d].runs = 0
  BY <1>1 DEF Alone
<1>5. QED BY <1>2, <1>3, <1>4 DEF Alone

LEMMA CleanInit == Init => Clean
BY DEF Init, Clean

LEMMA CleanNext == Typed /\ Waits /\ Renews /\ Clean /\ [Next]_vars => Clean'
<1> SUFFICES ASSUME Typed, Waits, Renews, Clean, [Next]_vars, NEW c \in Clients, Alone(c)'
             PROVE  scars' = {}
  BY DEF Clean
<1>0. TypeOK
  BY DEF Typed
<1>1. /\ Alone(c) /\ scars = {} /\ faults'.loss = faults.loss /\ faults'.error = faults.error
      /\ faults.loss \in Nat /\ faults.error \in Nat
  BY AloneWas, FaultsGrow DEF Clean
<1>2. \A d : Ran(d) => d = c
  BY <1>1 DEF Ran, Alone
<1>3. ASSUME NEW r \in Requests, Check(r) PROVE scars' = {}
  <2>1. Ran(req[r].client) /\ (lock => Ran(holder))
    BY <1>0, <1>3, Checked DEF Renews
  <2>2. lock => req[r].client = holder
    BY <1>2, <2>1
  <2>3. QED BY <1>0, <1>1, <1>3, <2>2, Checked
<1>4. ASSUME NEW r \in Requests, RemoveStale(r) \/ AppendChunk(r) \/ Rename(r) \/ RecordSize(r) \/ Hear(r)
      PROVE  scars' = {}
  BY <1>0, <1>1, <1>4, Unlinked, Appended, Renamed, Sized, Heard
<1>5. ASSUME NEW r \in Requests, Lose(r) \/ AppendFails(r) PROVE FALSE
  <2>1. faults'.loss = faults.loss + 1 \/ faults'.error = faults.error + 1
    <3>1. Lose(r) => faults'.loss = faults.loss + 1
      BY Lost
    <3>2. AppendFails(r) => faults'.error = faults.error + 1
      BY <1>0, AppendFailed
    <3>3. QED BY <1>5, <3>1, <3>2
  <2>2. QED BY <1>1, <2>1
<1>6. ASSUME NEW d \in Clients, Start(d) \/ Download(d) \/ Cancel(d) \/ \E r \in Requests : Send(d, r)
      PROVE  scars' = {}
  BY <1>0, <1>1, <1>6, Started, Downloaded, Cancelled, Sent
<1>7. CASE Crash
  BY <1>0, <1>1, <1>7, Crashed
<1>8. CASE UNCHANGED vars
  BY <1>1, <1>8 DEF vars
<1>9. QED BY <1>3, <1>4, <1>5, <1>6, <1>7, <1>8 DEF Next, Serve

LEMMA ExcusesInit == Init => Excuses
<1> SUFFICES ASSUME Init, NEW c \in Clients PROVE Excused(c)
  BY DEF Excuses
<1>1. TabExcused(c)
  BY DEF Init, TabExcused
<1>2. \A r \in Requests : RequestExcused(c, req[r])
  BY FreeFields DEF Init, RequestExcused
<1>3. Replaced(c)
  BY DEF Init, Replaced
<1>4. QED BY <1>1, <1>2, <1>3 DEF Excused

LEMMA ContentMoves ==
    ASSUME Typed, [Next]_vars
    PROVE  content' = content \/ \E r \in Requests : req[r].at = "rename" /\ content' = tmp
<1>0. TypeOK
  BY DEF Typed
<1>1. ASSUME NEW r \in Requests, Serve(r)
      PROVE  content' = content \/ (req[r].at = "rename" /\ content' = tmp)
  BY <1>0, <1>1, Checked, Unlinked, Appended, Renamed, Sized DEF Serve
<1>2. ASSUME NEW r \in Requests, Hear(r) \/ Lose(r) \/ AppendFails(r) PROVE content' = content
  BY <1>0, <1>2, Heard, Lost, AppendFailed
<1>3. ASSUME NEW c \in Clients, Start(c) \/ Download(c) \/ Cancel(c) \/ \E r \in Requests : Send(c, r)
      PROVE  content' = content
  BY <1>0, <1>3, Started, Downloaded, Cancelled, Sent
<1>4. Crash \/ UNCHANGED vars => content' = content
  BY <1>0, Crashed DEF vars, files
<1>5. QED BY <1>1, <1>2, <1>3, <1>4 DEF Next

LEMMA ExcusesNext == Typed /\ Waits /\ Renews /\ Replaces /\ Clean /\ Excuses /\ [Next]_vars => Excuses'
<1> SUFFICES ASSUME Typed, Waits, Renews, Replaces, Clean, Excuses, [Next]_vars, NEW c \in Clients, Quiet(c)'
             PROVE  Excused(c)'
  BY DEF Excuses
<1>0. TypeOK /\ client[c] \in Client /\ TabWhole(client[c]) /\ c \in Keys
  BY DEF Typed, TypeOK, Keys
<1>1. /\ Alone(c) /\ scars = {} /\ Alone(c)'
      /\ faults'.loss = faults.loss /\ faults'.error = faults.error /\ faults'.crash >= faults.crash
      /\ faults.loss \in Nat /\ faults.error \in Nat /\ faults.crash \in Nat
  BY AloneWas, FaultsGrow DEF Clean, Quiet
<1>2. \A d : Ran(d) => d = c
  BY <1>1 DEF Ran, Alone
<1>3. \A r \in Requests : req[r].at # "free" => req[r].client = c
  BY <1>2 DEF Renews
<1>4. \A r \in Requests : req[r].at = "rename" => tmp = Whole(c) /\ tmp # <<>>
  BY <1>0, <1>1, <1>3, WholeFacts DEF Replaces, Replacing, Active, Stored
<1>5. Quiet(c)
  <2> SUFFICES ASSUME faults.crash > 0, content = Whole(c) PROVE FALSE
    BY <1>1 DEF Quiet
  <2>1. content' = Whole(c) /\ faults'.crash > 0
    <3>1. content' = Whole(c)
      BY <1>4, ContentMoves
    <3>2. faults'.crash \in Nat
      BY TypedNext, SizeAssumption DEF Typed, TypeOK
    <3>3. QED BY <1>1, <3>1, <3>2
  <2>2. QED BY <2>1 DEF Quiet
<1>6. TabExcused(c) /\ (\A r \in Requests : RequestExcused(c, req[r])) /\ Replaced(c)
  BY <1>5 DEF Excuses, Excused
<1>7. \A r, x \in Requests : req[r].at # "free" /\ req[x].at # "free" => r = x
  BY <1>3, <1>6 DEF RequestExcused, Waits, Single
<1>8. \A r \in Requests : req[r].at # "free" =>
        req[r].heard /\ client[c].phase = "waiting" /\ client[c].chunk = req[r].chunk
  BY <1>3, <1>6 DEF RequestExcused, Waits, Waiting
<1>9. content = Whole(OldKey) \/ content = Whole(c)
  <2>1. PICK k \in Keys : content = Whole(k)
    BY <1>1 DEF Replaces, ContentWhole
  <2>2. CASE k \in Clients
    <3>1. content # Whole(OldKey)
      BY <2>1, <2>2, WholeFacts, NullAssumption DEF Keys
    <3>2. Renewed /\ 1 \in DOMAIN content /\ content[1].key = k
      BY <2>1, <3>1, Span, WholeFacts DEF Renews
    <3>3. QED BY <1>2, <2>1, <3>2 DEF Renewed
  <2>3. QED BY <2>1, <2>2 DEF Keys
<1>10. client[c].chunk \in Nat /\ client[c].attempt \in 0 .. MaxFileRetries /\ client[c].runs \in Nat
  <2>1. client[c].chunk \in Chunks /\ client[c].attempt \in 0 .. MaxFileRetries /\ client[c].runs \in 0 .. MaxRuns
    BY <1>0 DEF Client
  <2>2. client[c].chunk \in Nat
    BY <2>1, Span
  <2>3. client[c].runs \in Nat
    BY <2>1, SizeAssumption
  <2>4. QED BY <2>1, <2>2, <2>3
<1>11. \A r \in Requests : req[r].chunk \in Nat
  BY <1>0, Span DEF TypeOK, Request
\* The steps of the server on the one request there is.
<1>12. ASSUME NEW r \in Requests, Serve(r) PROVE Excused(c)'
  <2>1. /\ req[r].at # "free" /\ client' = client /\ faults' = faults /\ Follows(r)
    BY <1>0, <1>12, FollowsServed, Checked, Unlinked, Appended, Renamed, Sized DEF Serve
  <2>2. TabExcused(c)'
    BY <1>6, <1>8, <2>1 DEF TabExcused
  <2>3. req[r].heard /\ client[c].phase = "waiting" /\ \A x \in Requests : x # r => req[x].at = "free" /\ req'[x].at = "free"
    BY <1>7, <1>8, <2>1 DEF Follows, Others
  <2>4. content # Whole(OldKey) => Renewing(req[r])
    BY <1>6, <2>3 DEF Replaced, Renewing
  <2>5. ASSUME RequestExcused(c, req[r])', content' # Whole(OldKey) => Renewing(req[r])' PROVE Excused(c)'
    BY <2>2, <2>3, <2>5 DEF Excused, RequestExcused, Replaced
  <2>6. CASE Check(r)
    <3>1. content' = Whole(OldKey)
      BY <1>0, <2>4, <2>6, Checked DEF Renewing
    <3>2. RequestExcused(c, req[r])
      BY <1>6
    <3>3. CASE Ends(r, FALSE) /\ (lock <=> req[r].chunk = 0) /\ lock' = lock
      <4>1. Goes(r, "reply")
        BY <2>3, <3>3 DEF Ends
      <4>2. req[r].at = "sent" /\ req'[r].chunk = req[r].chunk /\ req'[r].at = "reply" /\ req'[r].heard
        BY <1>0, <2>3, <2>6, <4>1, Checked DEF Goes, Kept
      <4>3. req[r].chunk > 0 /\ ~lock /\ Spent(c)
        BY <1>11, <3>2, <3>3, <4>2 DEF RequestExcused
      <4>4. RequestExcused(c, req[r])'
        BY <2>1, <3>3, <4>2, <4>3 DEF RequestExcused, Spent
      <4>5. QED BY <2>5, <3>1, <4>4
    <3>4. CASE Goes(r, "unlink") \/ Goes(r, "append")
      <4>1. RequestExcused(c, req[r])'
        BY <2>3, <3>4 DEF RequestExcused, Goes, Kept
      <4>2. QED BY <2>5, <3>1, <4>1
    <3>5. QED BY <1>0, <2>6, <3>3, <3>4, Checked
  <2>7. CASE RemoveStale(r) \/ AppendChunk(r)
    <3>1. content' = Whole(OldKey)
      BY <1>0, <2>4, <2>7, Unlinked, Appended DEF Renewing
    <3>2. Goes(r, "append") \/ Goes(r, "rename") \/ (Goes(r, "reply") /\ req'[r].ok)
      BY <1>0, <2>3, <2>7, Unlinked, Appended DEF Ends
    <3>3. RequestExcused(c, req[r])'
      BY <2>3, <3>2 DEF RequestExcused, Goes, Kept
    <3>4. QED BY <2>5, <3>1, <3>3
  <2>8. CASE Rename(r)
    <3>1. Goes(r, "size")
      BY <1>0, <1>4, <2>8, Renamed
    <3>2. RequestExcused(c, req[r])' /\ Renewing(req[r])'
      BY <2>3, <3>1 DEF RequestExcused, Renewing, Goes, Kept
    <3>3. QED BY <2>5, <3>2
  <2>9. CASE RecordSize(r)
    <3>1. Goes(r, "reply") /\ req'[r].ok = TRUE /\ req[r].chunk = LastChunk
      BY <1>0, <2>3, <2>9, Sized DEF Ends, Typed, RequestWhole
    <3>2. RequestExcused(c, req[r])' /\ Renewing(req[r])'
      BY <2>3, <3>1 DEF RequestExcused, Renewing, Goes, Kept
    <3>3. QED BY <2>5, <3>2
  <2>10. QED BY <1>12, <2>6, <2>7, <2>8, <2>9 DEF Serve
\* Then the tab hears of it.
<1>13. ASSUME NEW r \in Requests, Hear(r) PROVE Excused(c)'
  <2>1. /\ req[r].at = "reply" /\ Gone(r) /\ req[r].client = c /\ client[c].chunk = req[r].chunk
        /\ UNCHANGED <<lock, content, faults>>
        /\ IF req[r].ok THEN Forth(client[c], client'[c]) ELSE Back(client[c], client'[c])
    BY <1>3, <1>8, <1>13, Heard
  <2>2. \A x \in Requests : req'[x].at = "free"
    BY <1>7, <2>1 DEF Gone, Others
  <2>3. \A x \in Requests : RequestExcused(c, req[x])'
    BY <2>2 DEF RequestExcused
  <2>4. content # Whole(OldKey) => Renewing(req[r])
    BY <1>6, <1>7, <1>8, <2>1 DEF Replaced, Renewing
  <2>5. Replaced(c)'
    <3>1. Renewing(req[r]) => client'[c].phase = "done"
      BY <2>1 DEF Renewing, Forth
    <3>2. QED BY <2>1, <2>4, <3>1 DEF Replaced
  <2>6. TabExcused(c)'
    <3>1. CASE req[r].ok
      <4>1. CASE client[c].chunk = LastChunk
        BY <1>6, <2>1, <3>1, <4>1 DEF TabExcused, Forth
      <4>2. CASE client[c].chunk # LastChunk
        <5>1. lock
          BY <1>1, <2>1, <3>1, <4>2 DEF Replaces, Replacing, Active, Held
        <5>2. client'[c].phase = "sending" /\ client'[c].chunk > 0 /\ client'[c].attempt = client[c].attempt
          BY <1>10, <2>1, <3>1, <4>2 DEF Forth
        <5>3. QED BY <1>6, <2>1, <5>1, <5>2 DEF TabExcused
      <4>3. QED BY <4>1, <4>2
    <3>2. CASE ~req[r].ok
      <4>1. req[r].chunk > 0 /\ ~lock /\ client[c].attempt < faults.crash
        BY <1>6, <2>1, <3>2 DEF RequestExcused, Spent
      <4>2. Back(client[c], client'[c])
        BY <2>1, <3>2
      <4>3. client'[c].phase = "failed" => faults.crash > MaxFileRetries
        BY <4>1, <4>2 DEF Back
      <4>4. client'[c].attempt <= faults.crash /\ (client'[c].phase = "sending" => client'[c].attempt < faults.crash)
        BY <1>1, <1>10, <4>1, <4>2 DEF Back
      <4>5. client'[c].phase = "sending" => client'[c].chunk > 0
        BY <2>1, <4>1, <4>2 DEF Back
      <4>6. QED BY <1>10, <2>1, <4>1, <4>3, <4>4, <4>5 DEF TabExcused, Spent
    <3>3. QED BY <3>1, <3>2
  <2>7. QED BY <2>3, <2>5, <2>6 DEF Excused
<1>14. ASSUME NEW r \in Requests, Lose(r) \/ AppendFails(r) PROVE FALSE
  <2>1. faults'.loss = faults.loss + 1 \/ faults'.error = faults.error + 1
    <3>1. Lose(r) => faults'.loss = faults.loss + 1
      BY Lost
    <3>2. AppendFails(r) => faults'.error = faults.error + 1
      BY <1>0, AppendFailed
    <3>3. QED BY <1>14, <3>1, <3>2
  <2>2. QED BY <1>1, <2>1
<1>15. CASE Crash
  <2>1. /\ \A x \in Requests : req'[x].at = "free"
        /\ lock' = FALSE /\ faults'.crash = faults.crash + 1 /\ content' = content
        /\ IF client[c].phase = "waiting" THEN Back(client[c], client'[c]) ELSE client'[c] = client[c]
    BY <1>0, <1>15, Crashed
  <2>2. \A x \in Requests : RequestExcused(c, req[x])'
    BY <2>1 DEF RequestExcused
  <2>3. Replaced(c)'
    <3>1. faults'.crash > 0
      BY <1>1, <2>1
    <3>2. content # Whole(c)
      BY <2>1, <3>1 DEF Quiet
    <3>3. QED BY <1>9, <2>1, <3>2 DEF Replaced
  <2>4. TabExcused(c)'
    <3>1. client[c].attempt <= faults.crash
      BY <1>6 DEF TabExcused
    <3>2. CASE client[c].phase = "waiting"
      <4>1. Back(client[c], client'[c])
        BY <2>1, <3>2
      <4>2. client'[c].attempt <= faults'.crash /\ (client'[c].phase = "sending" => client'[c].attempt < faults'.crash)
        BY <1>1, <1>10, <2>1, <3>1, <4>1, SizeAssumption DEF Back
      <4>3. client'[c].phase = "failed" => faults'.crash > MaxFileRetries
        BY <1>1, <2>1, <3>1, <4>1, SizeAssumption DEF Back
      <4>4. QED BY <2>1, <4>2, <4>3 DEF TabExcused, Spent
    <3>3. CASE client[c].phase # "waiting"
      <4>1. client'[c] = client[c]
        BY <2>1, <3>3
      <4>2. client'[c].attempt <= faults'.crash /\ client'[c].attempt < faults'.crash
        BY <1>1, <1>10, <2>1, <3>1, <4>1
      <4>3. client'[c].phase = "failed" => faults'.crash > MaxFileRetries
        BY <1>1, <1>6, <2>1, <4>1, SizeAssumption DEF TabExcused
      <4>4. QED BY <2>1, <4>2, <4>3 DEF TabExcused, Spent
    <3>4. QED BY <3>2, <3>3
  <2>5. QED BY <2>2, <2>3, <2>4 DEF Excused
\* Only this tab is at work.
<1>16. ASSUME NEW d \in Clients, Start(d) \/ Download(d) \/ Cancel(d) \/ \E r \in Requests : Send(d, r) PROVE d = c
  <2>1. CASE Start(d)
    <3>1. client'[d].runs = client[d].runs + 1
      BY <1>0, <2>1, Started
    <3>2. client[d] \in Client
      BY <1>0 DEF TypeOK
    <3>3. client[d].runs \in 0 .. MaxRuns
      BY <3>2 DEF Client
    <3>4. client'[d].runs # 0
      BY <3>1, <3>3, SizeAssumption
    <3>5. QED BY <1>1, <3>4 DEF Alone
  <2>2. CASE ~Start(d)
    <3>1. client[d].phase # "idle"
      BY <1>0, <1>16, <2>2, Downloaded, Cancelled, Sent
    <3>2. QED BY <1>2, <3>1 DEF Typed, TabWhole, Ran
  <2>3. QED BY <2>1, <2>2
<1>17. ASSUME Start(c) \/ Download(c) \/ Cancel(c) PROVE Excused(c)'
  <2>1. UNCHANGED <<req, lock, content, faults>> /\ client[c].phase \notin {"waiting", "done"}
    BY <1>0, <1>17, Started, Downloaded, Cancelled
  <2>2. content = Whole(OldKey)
    <3>1. \A x \in Requests : req[x].at = "free"
      BY <1>8, <2>1
    <3>2. QED BY <1>6, <2>1, <3>1 DEF Replaced, Renewing
  <2>3. client'[c].attempt <= client[c].attempt /\ client'[c].attempt \in Nat =>
            \A x \in Requests : RequestExcused(c, req[x])'
    <3>1. \A x \in Requests : req[x].at = "free"
      BY <1>8, <2>1
    <3>2. QED BY <2>1, <3>1 DEF RequestExcused
  <2>4. TabExcused(c)' /\ client'[c].attempt <= client[c].attempt /\ client'[c].attempt \in Nat
    <3>1. CASE Start(c)
      <4>1. client[c].phase = "idle"
        <5>1. client[c].runs = 0
          BY <1>0, <1>1, <1>10, <3>1, Started DEF Alone
        <5>2. QED BY <1>0, <5>1 DEF TabWhole
      <4>2. client'[c].phase = "download" /\ client'[c].attempt = 0 /\ ~lock
        BY <1>0, <1>6, <3>1, <4>1, Started DEF TabExcused
      <4>3. QED BY <1>1, <1>10, <2>1, <4>2 DEF TabExcused
    <3>2. CASE Download(c)
      <4>1. ReadableWith(content, OldKey)
        BY <2>2, WholeFacts DEF ReadableWith, Keys
      <4>2. client[c].phase = "download" /\ client[c].chunk = 0 /\ ~lock
        BY <1>0, <1>6, <3>2, Downloaded DEF TabWhole, TabExcused
      <4>3. client'[c].phase = "sending" /\ client'[c].chunk = 0 /\ client'[c].attempt = client[c].attempt
        BY <1>0, <3>2, <4>1, <4>2, Downloaded
      <4>4. QED BY <1>6, <1>10, <2>1, <4>2, <4>3 DEF TabExcused
    <3>3. CASE Cancel(c)
      <4>1. client'[c].phase = "cancelled" /\ client'[c].attempt = client[c].attempt
        BY <1>0, <3>3, Cancelled
      <4>2. QED BY <1>6, <1>10, <2>1, <4>1 DEF TabExcused
    <3>4. QED BY <1>17, <3>1, <3>2, <3>3
  <2>5. QED BY <2>1, <2>2, <2>3, <2>4 DEF Excused, Replaced
<1>18. ASSUME NEW r \in Requests, Send(c, r) PROVE Excused(c)'
  <2>1. /\ client[c].phase = "sending" /\ client'[c].phase = "waiting" /\ client'[c].attempt = client[c].attempt
        /\ Others(r) /\ req'[r].at = "sent" /\ req'[r].chunk = client[c].chunk /\ req'[r].heard
        /\ UNCHANGED <<lock, content, faults>>
    BY <1>0, <1>18, Sent
  <2>2. \A x \in Requests : req[x].at = "free"
    BY <1>8, <2>1
  <2>3. Replaced(c)'
    BY <1>6, <2>1, <2>2 DEF Replaced, Renewing
  <2>4. TabExcused(c)'
    BY <1>6, <2>1 DEF TabExcused
  <2>5. RequestExcused(c, req[r])'
    BY <1>6, <2>1 DEF RequestExcused, TabExcused, Spent
  <2>6. \A x \in Requests : RequestExcused(c, req[x])'
    BY <2>1, <2>2, <2>5 DEF Others, RequestExcused
  <2>7. QED BY <2>3, <2>4, <2>6 DEF Excused
<1>19. CASE UNCHANGED vars
  BY <1>6, <1>19 DEF vars, files, Excused, TabExcused, RequestExcused, Replaced, Spent, Renewing
<1>20. QED BY <1>12, <1>13, <1>14, <1>15, <1>16, <1>17, <1>18, <1>19 DEF Next

-----------------------------------------------------------------------------
(* The theorems. *)

IInv == Typed /\ Waits /\ Renews /\ Replaces /\ Clean /\ Excuses

\* The inductive invariant: what the requests and the tabs are, whose the stored chunks
\* are, and where they are while the lock is held.
THEOREM Invariants == Spec => []IInv
<1>1. Init => IInv
  BY TypedInit, WaitsInit, RenewsInit, ReplacesInit, CleanInit, ExcusesInit DEF IInv
<1>2. IInv /\ [Next]_vars => IInv'
  BY TypedNext, WaitsNext, RenewsNext, ReplacesNext, CleanNext, ExcusesNext DEF IInv
<1>3. QED BY <1>1, <1>2, PTL DEF Spec

\* Type correctness: the tabs, the requests, the temporary file and the file are of their
\* types, a tab never retrying or starting over more often than reencryptAll allows.
THEOREM TypeCorrect == Spec => []TypeOK
<1>1. IInv => TypeOK
  BY DEF IInv, Typed
<1>2. QED BY <1>1, Invariants, PTL

\* replaceFileContent: the file is whole and under one key, unless an appended chunk went
\* unheard, was torn, or was of a tab that did not hold the lock.
THEOREM ContentCorrect == Spec => []ContentWhole
<1>1. IInv => ContentWhole
  BY DEF IInv, Replaces, ContentWhole
<1>2. QED BY <1>1, Invariants, PTL

\* reencryptAll: a tab that reports success left nothing under the old key, and the whole
\* file under its own if no other tab took part.
THEOREM DoneCorrect == Spec => []DoneReencrypted
<1>1. IInv => DoneReencrypted
  <2> SUFFICES ASSUME IInv, NEW c \in Clients, client[c].phase = "done"
               PROVE  /\ ~ReadableWith(content, OldKey)
                      /\ scars = {} /\ (\A d \in Clients \ {c} : client[d].runs = 0) => content = Whole(c)
    BY DEF DoneReencrypted
  <2>1. Renewed /\ content \in Seq(Piece)
    BY DEF IInv, Renews, Typed, TypeOK
  <2>2. 1 \in DOMAIN content /\ content[1].key \in Clients /\ client[content[1].key].runs > 0
    <3>1. Len(content) \in Nat \ {0} /\ DOMAIN content = 1 .. Len(content)
      BY <2>1, EmptySeq, LenProperties DEF Renewed
    <3>2. 1 \in DOMAIN content
      BY <3>1
    <3>3. QED BY <2>1, <3>2 DEF Renewed, Ran
  <2>3. ~ReadableWith(content, OldKey)
    BY <2>2, NullAssumption DEF ReadableWith
  <2>4. ASSUME scars = {}, \A d \in Clients \ {c} : client[d].runs = 0 PROVE content = Whole(c)
    <3>1. content[1].key = c
      BY <2>2, <2>4
    <3>2. PICK k \in Keys : content = Whole(k)
      BY <2>4 DEF IInv, Replaces, ContentWhole
    <3>3. content[1].key = k
      BY <3>2, Span, WholeFacts
    <3>4. QED BY <3>1, <3>2, <3>3
  <2>5. QED BY <2>3, <2>4
<1>2. QED BY <1>1, Invariants, PTL

\* reencryptAll: a tab gives the file up only for a reason it can be given.
THEOREM FailsCorrect == Spec => []FailsForReason
<1>1. IInv => FailsForReason
  <2> SUFFICES ASSUME IInv, NEW c \in Clients, client[c].phase = "failed",
                      ~(faults.loss + faults.error > 0), ~(client[c].runs > 1),
                      ~(faults.crash > 0 /\ content = Whole(c)),
                      ~(\E d \in Clients \ {c} : client[d].runs > 0)
               PROVE  faults.crash > MaxFileRetries
    BY DEF FailsForReason
  <2>1. faults.loss \in Nat /\ faults.error \in Nat /\ \A d \in Clients : client[d].runs \in Nat
    <3>1. TypeOK
      BY DEF IInv, Typed
    <3>2. faults.loss \in Nat /\ faults.error \in Nat
      BY <3>1, SizeAssumption DEF TypeOK
    <3>3. \A k \in Client : k.runs \in Nat
      BY SizeAssumption DEF Client
    <3>4. QED BY <3>1, <3>2, <3>3 DEF TypeOK
  <2>2. Quiet(c)
    BY <2>1 DEF Quiet, Alone
  <2>3. QED BY <2>2 DEF IInv, Excuses, Excused, TabExcused
<1>2. QED BY <1>1, Invariants, PTL

===============================================================================
