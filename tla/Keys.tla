--------------------------------- MODULE Keys ---------------------------------
(***************************************************************************)
(* The encryption key of one user: made in a tab and kept there, known to  *)
(* the server by a hash, written down or printed as shards, entered in     *)
(* another tab, changed with everything that was encrypted with it.  The   *)
(* key opens the user's shares and wraps the keys of the reverse shares.   *)
(* Tabs work at the same time and close, and answers get lost.             *)
(*                                                                         *)
(* A hash stands for its key.  A file is replaced at once here (Reencrypt  *)
(* has its chunks), a share has one file, and no share is deleted.         *)
(***************************************************************************)
EXTENDS Sskr, SequencesExt

CONSTANTS
    Tabs,
    Shares,
    Links,          \* reverse shares
    Randoms,        \* coefficients the random generator may give
    Thresholds,     \* of the shards the user asks for
    Total,          \* shards per print
    MaxKeys,        \* bound: keys that are made
    MaxPrints,      \* bound: prints of shards
    MaxFileRetries, \* a file is tried again this often
    MaxFaults       \* bound: lost requests and answers, reloads, closed tabs

ASSUME KeyAssumption == MaxKeys \in Nat /\ MaxKeys <= Order
ASSUME PrintAssumption == Total \in Nat /\ Total <= Order /\ Thresholds \subseteq 2 .. Total
                          /\ Randoms \subseteq Bytes
ASSUME BoundAssumption == MaxPrints \in Nat /\ MaxFileRetries \in Nat /\ MaxFaults \in Nat

\* Keys are made in the order of their numbers; 0 is no key.
NoKey == 0
Keys == 1 .. MaxKeys
MaybeKey == 0 .. Order

VARIABLES
    hash,       \* encryptionKeyHash, and whether it is one of the old kind
    key,        \* sessionStorage of a tab
    sync,       \* the key whose hash a tab is about to register again
    job,        \* what a tab is doing
    file,       \* the key a share's file is encrypted with, and whether the share is open
    wrap,       \* the key a reverse share's key is wrapped with
    prints,     \* keys the user wrote down and the shards printed with them
    made,       \* the number of keys made
    faults,     \* history: faults so far
    scars       \* history: what crossed

vars == <<hash, key, sync, job, file, wrap, prints, made, faults, scars>>

Hash == [key : MaybeKey, legacy : BOOLEAN]
HashOf(k) == [key |-> k, legacy |-> FALSE]
NoHash == HashOf(NoKey)

\* register: of a new key (old: the one it takes the place of); enroll: of the key of a
\* first upload (old: of the account); migrate: of a key whose old hash was verified;
\* files and links: of a re-encryption, success: of one that says so.
Job == [at : {"idle", "register", "enroll", "migrate", "files", "links", "success"},
        old : MaybeKey, new : MaybeKey,
        todo : SUBSET Shares, read : SUBSET Shares, attempt : 0 .. MaxFileRetries,
        links : [Links -> MaybeKey], failed : BOOLEAN, listed : SUBSET Shares,
        relisted : SUBSET Links]
NoLinks == [l \in Links |-> NoKey]
Idle == [at |-> "idle", old |-> NoKey, new |-> NoKey, todo |-> {}, read |-> {}, attempt |-> 0,
         links |-> NoLinks, failed |-> FALSE, listed |-> {}, relisted |-> {}]

Printed == [secret : Keys, shards : SUBSET Shard]

AllPrints == {[secret |-> k, shards |-> splitKey(k, coins, Total)] :
                 k \in Keys, coins \in UNION {[1 .. n - 1 -> Randoms] : n \in Thresholds}}

Init ==
    /\ \/ hash = NoHash /\ made = 0 /\ prints = {}
       \/ /\ \E legacy \in BOOLEAN : hash = [key |-> 1, legacy |-> legacy]
          /\ \E p \in AllPrints : p.secret = 1 /\ prints = {p}
          /\ made = 1
    /\ key = [t \in Tabs |-> NoKey]
    /\ sync = [t \in Tabs |-> NoKey]
    /\ job = [t \in Tabs |-> Idle]
    /\ file = [s \in Shares |-> [key |-> NoKey, open |-> FALSE]]
    /\ wrap = NoLinks
    /\ faults = 0 /\ scars = {}

server == <<file, wrap>>

-----------------------------------------------------------------------------
(* The hash. *)

Fault == faults < MaxFaults /\ faults' = faults + 1
Free(t) == job[t].at \in {"idle", "success"}
Fresh == made < MaxKeys /\ made' = made + 1

Crossed(t) == \E u \in Tabs \ {t} : job[u].at \in {"files", "links", "success"}

\* A request that writes the hash: done and answered, done, or lost.
Outcomes == {"answered", "done", "lost"}
Write(t, h, o, scar) ==
    /\ hash' = IF o = "lost" THEN hash ELSE h
    /\ IF o = "answered" THEN UNCHANGED faults ELSE Fault
    /\ scars' = scars \cup scar \cup (IF Crossed(t) THEN {"other"} ELSE {})

\* The effect that runs when the user is loaded registers the key the tab has then (in
\* one tab at a time here).
BeginSync(t) ==
    /\ key[t] # NoKey /\ \A u \in Tabs : sync[u] = NoKey
    /\ sync' = [sync EXCEPT ![t] = key[t]]
    /\ UNCHANGED <<hash, key, job, server, prints, made, faults, scars>>

EndSync(t) == \E o \in {"answered", "lost"} :
    /\ sync[t] # NoKey
    /\ Write(t, HashOf(sync[t]), o, IF sync[t] # key[t] THEN {"late"} ELSE {})
    /\ sync' = [sync EXCEPT ![t] = NoKey]
    /\ UNCHANGED <<key, job, server, prints, made>>

\* handleGenerate up to the request.
Generate(t) ==
    /\ Free(t) /\ Fresh
    /\ job' = [job EXCEPT ![t] = [Idle EXCEPT !.at = "register", !.old = key[t], !.new = made']]
    /\ UNCHANGED <<hash, key, sync, server, prints, faults, scars>>

\* The key is kept when the hash was answered; an old one starts a re-encryption, which
\* lists the shares that are completed and the reverse shares.
Listed == {s \in Shares : file[s].key # NoKey /\ ~file[s].open}
Register(t) == \E o \in Outcomes :
    /\ job[t].at = "register"
    /\ Write(t, HashOf(job[t].new), o,
             CASE o = "done" -> {"thrown"} [] o = "lost" -> {}
               [] o = "answered" -> IF Crossed(t) THEN {"race"} ELSE {})
    /\ IF o = "answered"
       THEN /\ key' = [key EXCEPT ![t] = job[t].new]
            /\ job' = [job EXCEPT ![t] =
                IF @.old = NoKey THEN Idle
                ELSE [@ EXCEPT !.at = "files", !.todo = Listed, !.listed = Listed, !.links = wrap]]
       ELSE key' = key /\ job' = [job EXCEPT ![t] = Idle]
    /\ UNCHANGED <<sync, server, prints, made>>

\* Mutant: the key is kept when the hash is registered.
FirstUploadLate(t) ==
    /\ Free(t) /\ key[t] = NoKey /\ Fresh
    /\ job' = [job EXCEPT ![t] = [Idle EXCEPT !.at = "enroll", !.old = hash.key, !.new = made']]
    /\ UNCHANGED <<hash, key, sync, server, prints, faults, scars>>

\* A first upload makes a key and keeps it, then registers it.
FirstUpload(t) ==
    /\ Free(t) /\ key[t] = NoKey /\ Fresh
    /\ key' = [key EXCEPT ![t] = made']
    /\ job' = [job EXCEPT ![t] = [Idle EXCEPT !.at = "enroll", !.old = hash.key, !.new = made']]
    /\ UNCHANGED <<hash, sync, server, prints, faults, scars>>

Enroll(t) == \E o \in Outcomes :
    /\ job[t].at = "enroll"
    /\ Write(t, HashOf(job[t].new), o, {})
    /\ job' = [job EXCEPT ![t] = Idle]
    /\ UNCHANGED <<key, sync, server, prints, made>>

Revoke(t) == \E o \in Outcomes :
    /\ Free(t) /\ key[t] # NoKey
    /\ Write(t, NoHash, o, {})
    /\ key' = IF o = "answered" THEN [key EXCEPT ![t] = NoKey] ELSE key
    /\ job' = [job EXCEPT ![t] = Idle]
    /\ UNCHANGED <<sync, server, prints, made>>

-----------------------------------------------------------------------------
(* Entering a key. *)

PrintShards(t) ==
    /\ key[t] # NoKey /\ Cardinality(prints) < MaxPrints
    /\ \E p \in AllPrints \ prints : p.secret = key[t] /\ prints' = prints \cup {p}
    /\ UNCHANGED <<hash, key, sync, job, server, made, faults, scars>>

\* What the user makes of as many shards as the first one asks for, of one print or of
\* several, for all the prints there can be.
CombinedOf(P) ==
    LET kept(n) == {s \in UNION {p.shards : p \in P} : s.threshold = n}
    IN  UNION {{combineShards(q) : q \in [1 .. n -> kept(n)]} : n \in Thresholds}
Combinations == {[prints |-> P, keys |-> CombinedOf(P)] : P \in SUBSET AllPrints}
Combined == (CHOOSE c \in Combinations : c.prints = prints).keys
Backed == {p.secret : p \in prints}

\* Mutant: any key is taken.
EnterAny(t, k) ==
    /\ key' = [key EXCEPT ![t] = k]
    /\ UNCHANGED <<hash, sync, job, server, prints, made, faults, scars>>

\* verifyAndStore, handleImport and handleRecoverFromShards: the key is kept when the
\* server knows its hash; an old hash is replaced first.
Enter(t, k) ==
    /\ hash.key = k
    /\ IF hash.legacy
       THEN key' = key /\ job' = [job EXCEPT ![t] = [Idle EXCEPT !.at = "migrate", !.new = k]]
       ELSE key' = [key EXCEPT ![t] = k] /\ UNCHANGED job
    /\ UNCHANGED <<hash, sync, server, prints, made, faults, scars>>

EnterKey(t) ==
    /\ Free(t) /\ key[t] = NoKey
    /\ \E k \in Backed \cup Combined : k > 0 /\ Enter(t, k)

Migrate(t) == \E o \in Outcomes :
    /\ job[t].at = "migrate"
    /\ Write(t, HashOf(job[t].new), o, {})
    /\ key' = IF o = "answered" THEN [key EXCEPT ![t] = job[t].new] ELSE key
    /\ job' = [job EXCEPT ![t] = Idle]
    /\ UNCHANGED <<sync, server, prints, made>>

-----------------------------------------------------------------------------
(* What the key is for. *)

Upload(t, s) ==
    /\ Free(t) /\ key[t] # NoKey /\ file[s].key = NoKey
    /\ file' = [file EXCEPT ![s] = [key |-> key[t], open |-> TRUE]]
    /\ UNCHANGED <<hash, key, sync, job, wrap, prints, made, faults, scars>>

\* complete, or revertComplete when the share is edited.
Toggle(s) ==
    /\ file[s].key # NoKey
    /\ file' = [file EXCEPT ![s].open = ~@]
    /\ UNCHANGED <<hash, key, sync, job, wrap, prints, made, faults, scars>>

CreateLink(t, l) ==
    /\ Free(t) /\ key[t] # NoKey /\ wrap[l] = NoKey
    /\ wrap' = [wrap EXCEPT ![l] = key[t]]
    /\ UNCHANGED <<hash, key, sync, job, file, prints, made, faults, scars>>

-----------------------------------------------------------------------------
(* reencryptAll. *)

Pass(t, s, failed) == [job EXCEPT ![t] = [@ EXCEPT !.todo = @ \ {s}, !.read = {}, !.attempt = 0,
                                                   !.failed = @ \/ failed]]
\* A file that failed is tried again, or given up.
TryAgain(t, s) ==
    IF job[t].attempt < MaxFileRetries
    THEN job' = [job EXCEPT ![t] = [@ EXCEPT !.read = {}, !.attempt = @ + 1]]
    ELSE job' = Pass(t, s, TRUE)

\* The file is there as it is now; only the old key opens it.
Download(t) == \E s \in job[t].todo :
    /\ job[t].at = "files" /\ job[t].read = {}
    /\ s = CHOOSE x \in job[t].todo : TRUE
    /\ \/ /\ file[s].key = job[t].old
          /\ job' = [job EXCEPT ![t].read = {s}]
          /\ UNCHANGED faults
       \/ file[s].key # job[t].old /\ TryAgain(t, s) /\ UNCHANGED faults
       \/ Fault /\ TryAgain(t, s)
    /\ UNCHANGED <<hash, key, sync, server, prints, made, scars>>

Replace(t) == \E s \in job[t].read : \E o \in Outcomes :
    /\ job[t].at = "files"
    /\ file' = IF o = "lost" THEN file ELSE [file EXCEPT ![s].key = job[t].new]
    /\ IF o = "answered" THEN UNCHANGED faults /\ job' = Pass(t, s, FALSE)
       ELSE Fault /\ TryAgain(t, s)
    /\ UNCHANGED <<hash, key, sync, wrap, prints, made, scars>>

\* The reverse shares are listed anew; when that fails, those listed at first are used.
Relist(t) ==
    /\ job[t].at = "files" /\ job[t].todo = {}
    /\ \E links \in {wrap, job[t].links} :
        /\ IF links = wrap THEN UNCHANGED faults ELSE Fault
        /\ job' = [job EXCEPT ![t].at = "links", ![t].links = links,
                              ![t].relisted = {l \in Links : links[l] # NoKey}]
    /\ UNCHANGED <<hash, key, sync, server, prints, made, scars>>

\* A key that the old one does not unwrap, or that is refused in the end, is a failure.
Rewrap(t) == \E l \in Links : \E o \in Outcomes :
    LET done == [job EXCEPT ![t].links[l] = NoKey] IN
    /\ job[t].at = "links" /\ job[t].links[l] # NoKey
    /\ IF job[t].links[l] # job[t].old
       THEN /\ o = "answered" /\ job' = [done EXCEPT ![t].failed = TRUE]
            /\ UNCHANGED <<wrap, faults>>
       ELSE /\ wrap' = IF o = "lost" THEN wrap ELSE [wrap EXCEPT ![l] = job[t].new]
            /\ IF o = "answered" THEN UNCHANGED faults /\ job' = done
               ELSE Fault /\ job' = [done EXCEPT ![t].failed = TRUE]
    /\ UNCHANGED <<hash, key, sync, file, prints, made, scars>>

\* Mutant: reverse shares that failed are not looked at.
FinishFiles(t) ==
    /\ job[t].at = "links" /\ job[t].links = NoLinks
    /\ job' = [job EXCEPT ![t] = [@ EXCEPT !.at = "success", !.old = NoKey, !.failed = FALSE]]
    /\ UNCHANGED <<hash, key, sync, server, prints, made, faults, scars>>

\* When something failed the dialogue closes all the same, and the old key is gone.
Finish(t) ==
    /\ job[t].at = "links" /\ job[t].links = NoLinks
    /\ job' = [job EXCEPT ![t] = IF @.failed THEN Idle
                                 ELSE [@ EXCEPT !.at = "success", !.old = NoKey]]
    /\ UNCHANGED <<hash, key, sync, server, prints, made, faults, scars>>

\* The re-encryption is cancelled or one of its lists fails, or the tab is reloaded: its
\* storage outlives that, and goes with the tab.
Stop(t) ==
    /\ job[t] # Idle /\ Fault
    /\ job' = [job EXCEPT ![t] = Idle]
    /\ UNCHANGED <<hash, key, sync, server, prints, made, scars>>

Close(t) ==
    /\ key[t] # NoKey /\ Fault
    /\ key' = [key EXCEPT ![t] = NoKey]
    /\ job' = [job EXCEPT ![t] = Idle]
    /\ scars' = IF key[t] \in Backed THEN scars ELSE scars \cup {"closed"}
    /\ UNCHANGED <<hash, sync, server, prints, made>>

Next ==
    \/ \E t \in Tabs :
        \/ BeginSync(t) \/ EndSync(t) \/ Generate(t) \/ Register(t)
        \/ FirstUpload(t) \/ Enroll(t) \/ Revoke(t)
        \/ PrintShards(t) \/ EnterKey(t) \/ Migrate(t)
        \/ Download(t) \/ Replace(t) \/ Relist(t) \/ Rewrap(t) \/ Finish(t)
        \/ Stop(t) \/ Close(t)
        \/ \E s \in Shares : Upload(t, s)
        \/ \E l \in Links : CreateLink(t, l)
    \/ \E s \in Shares : Toggle(s)

Spec == Init /\ [][Next]_vars

-----------------------------------------------------------------------------
(* Properties. *)

\* The types of the state; tabs, files and reverse shares have keys that were made: a key
\* that is entered is verified, whichever shards it was combined from.
TypeOK ==
    /\ hash \in Hash /\ hash.key \in 0 .. made
    /\ key \in [Tabs -> 0 .. made] /\ sync \in [Tabs -> 0 .. made]
    /\ job \in [Tabs -> Job]
    /\ file \in [Shares -> [key : 0 .. made, open : BOOLEAN]]
    /\ wrap \in [Links -> 0 .. made]
    /\ prints \subseteq Printed
    /\ scars \subseteq {"other", "race", "late", "closed", "thrown"}

\* As many shards as the threshold, in any order, give back the key they were printed of.
Recovers == [k \in Keys |->
    \A n \in 2 .. Total : \A coins \in [1 .. n - 1 -> Bytes] :
        \A S \in kSubset(n, splitKey(k, coins, Total)) :
            \A q \in SetToSeqs(S) : combineShards(q) = k]

\* One shard less says nothing of the key: with other coefficients it is a shard of any
\* other one.
Prints == [n \in 2 .. Total |-> [k \in Bytes |->
              {splitKey(k, coins, Total) : coins \in [1 .. n - 1 -> Bytes]}]]
Hides == [k \in Keys |->
    \A n \in 2 .. Total : \A P \in Prints[n][k] : \A S \in kSubset(n - 1, P) :
        \A other \in Bytes : \E Q \in Prints[n][other] : S \subseteq Q]

\* A print is as good as the key to who has the threshold of its shards, and no help to
\* who has fewer, whatever the random generator gave.
ShardsShare == \A p \in prints : Recovers[p.secret] /\ Hides[p.secret]

\* When a change of the key reports success, every file and every reverse share it listed
\* is under the new key, and the server knows the new key, unless another tab changed
\* the key, or registered the one it has, meanwhile.
RotationComplete == \A t \in Tabs : job[t].at = "success" =>
    /\ "race" \notin scars =>
        /\ \A s \in job[t].listed : file[s].key = job[t].new
        /\ \A l \in job[t].relisted : wrap[l] = job[t].new
    /\ scars \cap {"other", "late"} = {} => hash = HashOf(job[t].new)

\* The account's key is one that somebody has: a tab, or the user's papers.  But for a
\* tab that is closed before the key is written down, a new key that was registered
\* without an answer, and a registration overtaken by a change of the key.
Known == {key[t] : t \in Tabs} \cup Backed
AccountKeyKnown == scars \cap {"closed", "thrown", "late"} = {} => hash.key \in Known \cup {NoKey}
===============================================================================
