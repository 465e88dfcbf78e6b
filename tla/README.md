# A formal model of the share server

PrivCloud Sharing (a fork of Pingvin Share) is a file sharing service: a NestJS
backend with a SQLite database and a directory per share (or an S3 bucket), and a
Next.js frontend that cuts files into chunks, optionally encrypts them, and sends
them from a web worker. This directory holds TLA+ specifications of its core, TLC
configurations that check them on small instances, and proofs for TLAPS.

Paths below are relative to the repository. `BE` is `src/backend/src`, `FE` is
`src/frontend`.

## The system

The backend is **one process**. A handler runs without interruption between two
`await`s, and each Prisma call, each file-system call takes effect at one moment in
between, so the unit of interleaving is the awaited call. There are no transactions
around the calls of a handler and no locks; the only mutual exclusion is what the
database gives (primary keys, foreign keys with `ON DELETE CASCADE`, `update` and
`delete` that throw when the row is gone). Cron jobs run in the same process, and
some work (archives, virus scans, push messages) is started and not awaited.

| Component | State | Operations | Hard part | What makes it correct |
| --- | --- | --- | --- | --- |
| Share lifecycle, `BE/share/share.service.ts` | `Share` rows (`uploadLocked`, `createdAt`, `expiration`, `isZipReady`, `views`), a directory per share | create, complete, revertComplete, remove, the owner's page, tokens and views | each operation is several awaited steps; ids can be chosen again after a removal | files and rows stay together, a closed share is complete |
| Local storage, `BE/file/local.service.ts`, `file.service.ts` | `File` rows, `<id>.tmp-chunk`, `<id>`, `<id>.tmp-reencrypt`, `archive.zip` | create (a chunk), remove, replace, deleteAllFiles | the size of the partial file decides which chunk is next; nothing reserves it | a recorded file is whole |
| Jobs, `BE/jobs/jobs.service.ts` | none of their own | expired, reverse and unfinished shares, temporary files, tokens, S3 multiparts | work from a list that ages while they run; one exception ends a run | what should go goes in the end, nothing else does |
| Reverse shares, `BE/reverseShare` | `ReverseShare` rows, `remainingUses` | create, update, isValid, remove | remove deletes rows before files; uses checked and counted in different places | no orphans, uses respected |
| Archive and scan, `share.service.ts`, `BE/clamscan` | `archive.zip`, `isZipReady`, `removedReason` | createZip, checkAndRemove | run on after complete answers, and are not stopped by anything | the archive is the share's, infected files go |
| Upload worker, `FE/public/upload-worker.js`, `FE/src/utils/upload.util.ts`, `FE/src/pages/upload/index.tsx` | the chunk, the file id, the retry counter | send, retry, give up; complete | lost answers, a five-minute time-out that the server does not notice | every file arrives once and whole, or its failure is told |
| Re-encryption, `FE/src/utils/reencrypt.util.ts` | the set of files locked by the server | replace chunk by chunk | a retry of a stored chunk; a lock released by the last chunk only | a file is readable with one key |
| S3 storage, `BE/file/s3.service.ts` | map of multipart uploads, last activity | create, complete, abort, cleanup | map lost on restart, cleanup while an upload is slow | uploads end, parts are freed |
| Share access, guards and tokens | `views`, share tokens in cookies | getShareToken, verify, count a view | read and write of `views` are two steps | the visitor limit |
| Accounts, `BE/auth`, `BE/user`, `BE/oauth` | users, refresh tokens, login tokens, reset tokens | sign-up, sign-in, TOTP, refresh, reset, delete | counts and flags checked and changed in two steps | one first and at least one last administrator |
| Configuration, mail, push, captcha | a cached table; nothing | | external services | |
| Browser state, `api.service.ts`, `EditableUpload.tsx` | a refresh in flight; the edit in progress | refresh, save | several requests at once; a save that fails half-way | the share is closed again |
| Cryptography, `crypto.util.ts`, `sskr.util.ts` | none | encrypt, decrypt, split and combine a key | framing, GF(256) | what was split is what is combined |

Requests reach the backend over HTTP from the worker and the pages; the components of
the backend call each other directly and share the database and the disk. The full
list, with what is modelled of each part, is `components` in `PROJECT.json`, and
`hazards` there lists the places where the code is hard to test.

Eight modules model the parts one at a time (`ShareStore`, `LocalUpload`, `Completion`,
`Reencrypt`, `S3Upload`, `Accounts`, `Access`, `Editing`), `Keys` models the browser's keys
over the operators of `Sskr`, and `Delivery` is what an upload promises. They meet in what
they share: the life of a share is `ShareStore`'s, and appears as much coarser steps in
the modules that need a share to be opened, closed or deleted under them.

## The modules

### ShareStore

Rows, files and directories under every operation that creates, fills, completes,
reverts and deletes shares, and the three jobs that delete them. A *task* is a
request or job in progress; `task[t].at` is the awaited call it is at, and its other
fields are what it has read so far (`todo` the shares a job has found, `seen` which
incarnation of a share id it found). Each action is one awaited call:

| Code | Actions |
| --- | --- |
| `ShareService.create` | `CreateCheck`, `CreateDirectory` (mkdir), `CreateInsert`, `CreateConnect` (tie to the reverse share) |
| `LocalFileService.create` | `UploadCheck`, `UploadAppend`, `UploadRename`, `UploadRecord` |
| `LocalFileService.remove` | `RemoveFileFind`, `RemoveFileUnlink`, `RemoveFileForget` |
| `ShareService.complete`, `revertComplete` | `CompleteRead`, `CompleteCheck`, `CompleteLock`; `Revert` |
| `ShareService.remove`, `deleteExpiredShares`, `deleteUnfinishedShares` | `RemoveFind`, `SweepExpired`, `SweepUnfinished`; then `DeleteFiles`, `DeleteRow` per share |
| `ReverseShareService.remove`, `deleteExpiredReverseShares` | `LinkFind`, `LinkDeleteRow`, `LinkDeleteFiles`, `LinkClose` |
| `UserSevice.delete` | `AccountFind`, `AccountFiles` (one directory of the `Promise.all`), `AccountErase` (the row and its cascade) |
| environment | `Tick`, `Crash`, and an `rm` that fails half-way (`RmHalfway`) |

A file is one chunk here. There is one user, with at most one reverse share (`account`,
`link`); a share is the user's own, came through the reverse share, or neither, since other
users' shares and anonymous ones are all alike to that user's deletion. `scars` is a history
variable: it names, per share id, the five ways in which rows and files can come apart in
this code, so that the invariants can say that there is no sixth:

- *fault*: a failed `rm`, or a crash between two steps of a deletion or a create;
- *stale*: a task acts on a share that was deleted and created again under its id;
- *collision*: a create makes the directory of an id that another create just took;
- *cascade*: a share tied to a reverse share after its removal listed the shares;
- *account*: the cascade of a user's deletion takes the row of a share whose directory the
  deletion had not emptied: one that came through the user's reverse share, or that was
  created after the deletion listed the user's shares.

### LocalUpload and Delivery

`LocalUpload` is the chunk protocol: the worker's state (`client`), requests on their
way or being served (`req`), and the server's check, append, rename and record. The
check reads the lock, the size of the partial file and the sizes of the recorded
files; the append happens later. A lost request or answer is `Lose`; `Timeout` is the
worker's abort after five minutes, which leaves the handler running on the server;
`Crash` is a restart; `Purge` is `deleteTemporaryFiles`.

The guard and the worker's renewals are modelled for a share with a signed-in owner.
`cookie` is the access token's cookie and `session` what the server knows: the token can be
renewed (*live*), cannot (*ended*), or its user is gone (*deleted*). A request without the
cookie is answered 403, one whose token names no user 401 (`CreateShareGuard`). After a 401
the worker calls `POST /auth/token` and sends the chunk again **without counting**; after a
403 it does so at most `MaxRefreshes` times for a chunk, and ends. What ends a worker whose
user is deleted is `Lapse`: the cookie's maxAge (13 minutes) is shorter than the token's life
(15), it is not given anew, and the uncounted 401 becomes a counted 403. `Challenge` is the
firewall's answer (468, or a 403 with its page): the worker sends the chunk again, or gives
up at its limit, which is abstracted to a choice. A user's deletion has only this effect
here; that the share's row goes with it is `ShareStore`'s. The worker's branch for a 500 with
"session not found" is about S3 (and is never taken, see below); its branch for a quota in a
403 is for an answer no handler of the backend gives. `Delivery` is the promise in its simplest form: a
file is stored whole, then the uploader is told, and then the share is closed.
`LocalUpload` implements it under the mapping in `Delivered`.

### Completion

What `complete` starts: the use of the link, the archive, the scan. A slot is one call
with what it left running (`at`, `zip`, `scan` advance independently). The scanner may fail
at a file, which the code takes for clean. Uploads and
removals of files are there as far as the archive and the scan see them. History
variables say why the last scan may have missed a file (`missed`), whose files changed
after an archive listed them (`changed`), and whose archive was overtaken by a revert or
a second call, or was ready in a share not yet closed when the server stopped
(`overtaken`). `missed` has four causes: a restart, a scan that threw, a scanner that failed
at every infected file (*unscanned*), and a file that came after the list.

### Reencrypt

A change of key, for one file: the browser's two loops of retries (`client`: a chunk,
then the whole file from its download on), the requests (`req`), the server's set of
files being re-encrypted (`lock`), the temporary file and the file itself, both as
sequences of pieces with the key they are under. `Lose` breaks a connection while its
handler may go on, `AppendFails` is an append that throws, perhaps half done, `Crash` a
restart that forgets the set, `Cancel` and `Start` are the buttons of the dialog. The
history `scars` names the three ways in which the temporary file can go wrong:

- *unheard*: a chunk after the first is stored and its client never hears of it;
- *torn*: an append leaves a part of a chunk and the chunk is sent again;
- *intruder*: a chunk of a client that did not take the lock, which the server lets pass.

Outside these the file is whole and under one key at every moment (`ContentWhole`).

### S3Upload

The same two operations as `LocalUpload` and `Reencrypt`, with a bucket in place of the
disk: a chunk is a part of a multipart upload, `session` is the map `multipartUploads`
(its key, its upload, how long it was idle), `multi` what S3 holds open, `bucket` its
objects, `rows` the recorded sizes. A part is who wrote it and which chunk it is. `lock` is
`reencryptingFiles` for the one recorded file: the tab that put it there, or `Nobody`.

| Code | Actions |
| --- | --- |
| `FileService.create`, `replaceFileContent`, `S3FileService.create`, `replace` | `Check`, `InitUpload`, `UploadPart`, `CompleteUpload`, `Record`; `Catch` aborts and rethrows |
| `cleanupAbandonedUploads` (the map's timer) | `TimerStart`, `TimerLook`, `TimerAbort`, `TimerDrop` |
| `cleanupStaleS3Multiparts` (the job) | `StaleAbort`, for each upload the bucket lists |
| `S3FileService.remove`, `deleteAllFiles` with the rows after them | `RemoveStart`, `RemoveObject`, `RemoveRow`; `RemoveUploads`, `RemoveObjects`, `RemoveShare` |
| upload worker | `Send`, `Hear` with `SendAgain`: a chunk, `MaxRetries` times |
| re-encrypting tab | `Download`, `Send`, `Hear` with `RekeyAgain`, `StartOver`: the chunk, then the file from its download on |
| environment | `Lose`, `Timeout`, `Crash`, `Tick`, and a branch of each call to S3 that fails |

S3 itself is external: a call applies when it is answered or not at all, except that a
completion whose answer is lost has made the object. `scars` holds the kinds of fault so
far and four things that need no fault at that moment:

- *idle*: the timer ended an upload that really paused;
- *stale*: the job ended an upload, active or not (comments in the code say it does not);
- *intruder*: a tab went on with a re-encryption another tab has the lock of;
- *dropped*: the timer dropped a map entry that had become another upload's.

Two names stand in the properties: `Late`, the recorded file once a request was given up or
a tab intruded, and `Crowd`, a tab that is not the only one to re-encrypt the file.

### Accounts

Users, passwords, sessions, one-time tokens and the second factor. A handler's first
step has the guard and the first read; then one step per statement:

| Code | Actions |
| --- | --- |
| `AuthService.signUp`, `signIn` | `SignUp`, `SignUpCreate`; `SignIn`; then `CreateSession` or `CreateLogin` |
| `AuthTotpService.signInTotp` | `SignInTotp`, `UseLogin`, `TotpSession` |
| `requestResetPassword`, `resetPassword` | `Forgot`, `ForgotDrop`, `ForgotMail`; `Reset`, `ResetDrop`, `ResetStore` |
| `updatePassword` | `Password`, `PurgeSessions`, `StorePassword`, `CreateSession` |
| `enableTotp`, `verifyTotp`, `disableTotp` | `Enable`, `CheckCode`; `WriteTotp` |
| `UserSevice.delete`, `update`, `create` | `Delete`, `CountAdmins`, `Erase`; `AdminUpdate`; `AdminCreate` |
| `refreshAccessToken`, `signOut`, `deleteExpiredTokens` and expiry | `Refresh`; `SignOut`; `Expire`, `Lapse` |

A token is the serial number of the request that made it. Every mix of users (members,
administrators, with or without a second factor) is an initial state, with up to `AtFirst`
browsers signed in. `scars` names the kinds of request that overlapped with one of their
kind.

### Access

Who is served what. One share id; the shares that had it are numbered, and a request in
progress keeps the number, settings and views its guard read.

| Code | Actions |
| --- | --- |
| `ShareTokenSecurity`, `getShareToken`, `generateShareToken`, `increaseViewCount` | `AskToken`, `Sign`, `Count` |
| `FileSecurityGuard` without a share token | `AskFile`, `Count` |
| `ShareSecurityGuard`, `verifyShareToken`, the handler behind it | `AskGuarded`, `Verify`, `Read` |
| `ShareOwnerGuard`, `getForOwner` (`GET /shares/:id/from-owner`) | `AskOwner`, `Read` |
| the owner and time | `Create`, `Complete`, `Revert`, `Remove`, `Expire`; `Forget` (a cookie) |

A refusal changes nothing and is left out. A share is anonymous or has `Owner` as its
creator. The owner's page asks for no password and no expiration, so `ContentKept` says of it
apart who may get it (`Allowed`). `createdAt` is a number of seconds that an edit
raises or, within one second, does not. `scars`: *overlap* (two requests that count
at once), *replaced* (another share under the id while a request runs), *second* (an edit
or a new share within the second of the one before) and *admin* (a direct download by
an administrator).

### Keys and Sskr

`Sskr` has the finite field, the polynomial and the two directions of sharing as
operators; the program's field is GF(2^8), the operators are for any. `Keys` has the
tabs of one user (`key` is `sessionStorage`), the hash at the server, the shares' files and
the reverse shares' wrapped keys, and what the user wrote down or printed:

| Code | Actions |
| --- | --- |
| `handleGenerate` (account page) | `Generate`, `Register` |
| the first-use branch of the upload page | `FirstUpload`, `Enroll` |
| `handleRevoke`; printing of shards | `Revoke`; `PrintShards` |
| `verifyAndStore`, `handleImport`, `handleRecoverFromShards` | `EnterKey`, `Migrate` |
| the effect of `_app.tsx` that registers the tab's hash | `BeginSync`, `EndSync` |
| `reencryptAll` and its dialogue | `Download`, `Replace`, `Relist`, `Rewrap`, `Finish`; `Stop` |
| uses of the key | `Upload`, `CreateLink`; `Toggle` opens and closes a share |

`Close` closes a tab. A file is replaced in one step here; its chunks are `Reencrypt`'s.
`scars`: *other* (another tab wrote the hash while one re-encrypts), *race* (two
re-encryptions), *late* (a registration of a key the tab no longer has), *closed* (a tab
closed before its key was written down), *thrown* (a new key registered without an answer).

### Editing

`EditableUpload`'s save in several tabs, with the API client between it and the server.

| Code | Actions |
| --- | --- |
| `save`: revert, uploads, removals, complete, the completion after a failure | `Save`, `UploadEnds`, `Render`, `UploadsOver`, `KeyMissing`, and `Resolve`/`Reject` when a call ends |
| the server's answer to a call, or its loss | `Answer`, `Lose` |
| `api.service.ts`: 401, the shared refresh, the second try, the redirect | `Deny`, `Refresh`, `RefreshFails` |
| environment | `Close`, `Lapse` (a token ends), `Tick`, `DeleteUnfinished` (the job) |

A failed upload is told by a state update that React runs at once or later, so that
`failed` and `pending` are two sets. `scars` names what excuses a share that stays open:
*unheard* (the revert's answer was lost), *left* (the page went away), *emptied* (no file
is left), *missing* (a file to remove was gone), *keyless*; or what the other property
excepts: *unrendered* (a failure not seen in time), *again* (a save repeated), *long* (a
save of more than a day).

`MC*` modules add a symmetry set. Symmetry is not used where liveness is checked.

## The runs

| Run | Question | Result |
| --- | --- | --- |
| `share_store` | do rows, files and directories stay together? | `RecordedContentOnDisk` and `DirectoriesOwned` hold but for the five causes |
| `share_store_live` | do the jobs reach every share in the end? | `DoomedSharesGo` holds, for expired and for abandoned shares |
| `upload` | what survives lost, repeated and overlapping requests? | recorded files are whole unless the server was still at a chunk the worker had given up (`RecordedFilesWhole`); a file is recorded once (`RecordedOnce`); success is never reported in vain (`DoneFilesRecorded`) |
| `upload_delivery` | is an upload without overlapping requests correct? | it implements `Delivery` (`DeliversFiles`) and every worker ends (`UploadsEnd`) |
| `completion` | are uses, archive and scan right whatever happens meanwhile? | `UsesCounted`, `ReadyArchiveWhole`, `InfectedFilesGo` and `RemovedSharesStayEmpty` hold, with the exceptions their history variables name |
| `reencrypt` | what does a change of key leave of a file when it is refused, cut short, or done twice at once? | whole under one key but for three causes (`ContentWhole`), success reported only then (`DoneReencrypted`), given up only for the reasons of `FailsForReason` |
| `s3_upload` | do bucket, map, rows and workers agree, whichever call fails? | `ObjectsMatchRows`, `WorkersTellTrue` and `OpenUploadsKnown` hold, but for the named faults and the hole `Late` names |
| `s3_upload_ends` | do S3's parts and the map's sessions go in the end? | `UploadsEnd` holds |
| `accounts` | administrators, second factors, sessions and tokens when requests overlap? | `OneFounderOneLeft`, `FactorChecked`, `SessionsOfPassword`, `TokensSpentOnce`; each says which overlap breaks it |
| `access` | who is served, how often, with which token? | `ContentKept` (with the owner's page, which no password guards), `ViewsBounded`, `TokensOfEdition` |
| `keys` | who has the account's key, and what does a change of it reach? | `ShardsShare`, `RotationComplete`, `AccountKeyKnown` |
| `editing` | is an edited share closed again, and is the report of a save true? | `ShareKept`, `EditsTrue` |

Every run but `share_store_live`, `upload_delivery` and `s3_upload_ends` checks the
module's `TypeOK` too. Deadlock is checked in the S3 runs, where time can always pass.
It is not in the others: a server nobody calls waits, and the bounds stop the rest.

An exception in a property is a weakness of the code as it is, and is there because TLC
found a behaviour that needs it: the property says that there is no other.

**Bounds.** `share_store`: one share id and one file, two request slots beside the
three jobs and three tasks at a time (`FewTasks`), the user and a reverse share, two
incarnations, and one fault; every pairwise interaction of operations on one share, with a
third task between them, and of two incarnations of an id, is within that. The clock has two
values; shares ask for no expiration, and a day and the retention are no time at all, so
that after one tick the jobs find shares that are abandoned or past their retention. Shares
do not touch one another's state except through the list of a job or of a user's deletion, so
the liveness run has two shares, a clock of three values so that an expiration and a day
pass, no files, no user and no reverse share.
`upload`: two files of two chunks with a short last one, three requests, three
faults, four ids: the smallest instance in which a chunk is stored twice, an id is
lost, and two files compete for the limit. The worker gives up after 3 instead of 5 attempts,
2 in `upload_delivery`, and renews its token after a 403 once instead of three times; that
run takes the ids in their order, since no two of them differ (`IdsInOrder`). `completion`: two shares, two files one of
which is infected, two calls, two uploads, one revert, two restarts and a link with one use.
`reencrypt`: two tabs, a file of three chunks (a first, a middle and a last one: the
handler treats them differently), two faults, two runs per tab, one repetition of a chunk
and of the file instead of three and two.
`s3_upload`: one worker, with a new file or with a new key for the recorded one
(`AtOnce`: the two have different keys in the map and different ids), two parts, two
attempts at a part and two at a re-encrypted file, two requests (one given up and its repetition), two uploads, two
faults of five kinds, a time-to-live of one tick and a stale age of two, in the order
of the program's half hour and hour. The properties were also
checked with three parts. Two tabs at once, which is where *intruder* and `Crowd` come from,
are more than TLC finishes in minutes; the proof covers them. `s3_upload_ends` has one fault, and no "loss", which
is a timeout at a moment when the server is not at the request; two faults of the safety
run are beyond what TLC's liveness check does in minutes.
`accounts`: two browsers, one of them signed in at first or none, two users, three
requests: two to overlap and one to prepare or to look. `access`: one visitor (of four kinds) with two requests at once, two shares under
the id (anonymous or not), two creations and edits, two requests that count, a limit of one view;
administrators' access is on. Visitors touch each other only by the counter, which the
two requests of one visitor reach as well. `keys`: the field of four elements (the operators
are the same for every width; in it TLC can ask about all coefficients), two tabs,
one share, one reverse share, three keys, two prints of two shards out of three, one
fault (one repetition and the old key's failure to open a file follow from one). `editing`: two tabs, two old and two new files, two saves, two faults: one fault
is what the page handles, and two show what it does not.
Bounds (`MaxClock`, `MaxBirths`, `MaxFaults`, `MaxUploads`, `MaxRequests`, ...) appear as
guards of the actions that would exceed them and nowhere else, but for the two constraints
named above (`FewTasks`, `IdsInOrder`); the supply of ids bounds `Check`.

**Fairness.** In `share_store_live`, weak fairness on each task's next step (an awaited
call returns) and on the two sweeps (the scheduler starts them again and again; a sweep
with nothing to do is no step). No request is ever required to be made, and crashes and
failures are not fair. In `upload_delivery`, weak fairness on the server's step of each
request, on hearing an answer and on each worker's next send: the worker's loop does
not stop by itself, and answers that are lost are the other branch of the fault. The cookie
of the token lapses (`Lapse`) unless it is given anew: browsers drop a cookie at its maxAge.
In `s3_upload_ends`, weak fairness on the timer (`setInterval` of the service), on the job's
abort of each upload that is old enough (a job every six hours, for as long as the server
runs) and on time; none on handlers, workers or deletions, which may stop anywhere.

## What the code does that a reader may not expect

Where a comment in the code says otherwise, `findings` in `PROJECT.json` quotes it.

*Shares.* `revertComplete` resets a share's age, and with it the retention that
`jobs.service.ts:32` calls hard: a share reverted again and again is kept, and
`DoomedSharesGo` speaks of a share only until its next revert. A user's deletion leaves on
disk what others uploaded through the user's reverse shares (`user.service.ts:91-113`): the
rows go by the cascade, the directories stay, and no job looks for them. `complete` reads its guard before mails, scan and uses, so two calls at once
do all of it twice, and two shares may be counted on one last use. A `.tmp-chunk` in a
share's directory has no row and makes the scan throw, and a file the scanner fails at counts
as clean (`InfectedFilesGo` excepts both).

*Local uploads.* The server answers an unexpected chunk with 400, the worker resumes on
422: one lost answer to a stored chunk is enough to make a file fail. Files sent at the same
time are not counted against each other's part of the size limit. A 401 is retried without a
count, and only the cookie's shorter life ends it.

*Re-encryption of a file.* A failed chunk that is not the last one leaves the server's lock
in place, although the comment at `file.service.ts:168` has it released "on last chunk or on
error", and whoever starts the file over is refused until the server restarts.

*S3.* A first chunk of a re-encryption that its tab gave up, and that the server checks
only after the tab's later chunk failed, starts an upload that the last chunk can complete without the
others: nothing compares the list of parts with the number of chunks (`Late`). The same
befalls a tab that goes on while another has the lock, since the lock has no owner. The timer deletes a map
entry by its key after an await, even if another upload has the key by then. The job,
every six hours, aborts every upload that began more than an hour ago, active or not, and sees the
first page of the bucket's list only: the comments at `s3.service.ts:44-47` (uploads of many
hours are safe while chunks keep arriving) and 615-617 (only what the application no longer
references) say otherwise. The worker means to end at once when its session is gone, but the
server's `catch` answers every failure with the same 500, and the worker repeats the
chunk until its attempts are spent.

*Accounts.* The count of users and of administrators is read in a statement of its own,
so that overlapping first sign-ups make two administrators and overlapping deletions leave none;
an administrator may also demote the last one. A login token is marked, not taken: two sign-ins
with it may both pass. Sign-out after a change of password deletes the session the access
token names, which is the old one. A reset token works until the hourly job has come.

*Access.* A view is written as one more than the guard read. A token carries the creation time in
whole seconds. A guard that passed reads on in whatever share has the id by then. The page of
`GET /shares/:id/from-owner` asks for no password and no expiration: administrators (whatever
`allowAdminAccessAllShares` says), both creators and, if the share is anonymous, everybody
get the list of its files, although `shareSecurity.guard.ts:60-62` says that the password
is always enforced. The files themselves are behind `FileSecurityGuard`.

*Keys.* A tab registers the hash of the key it has whenever its user is loaded, so a tab
left open undoes a change of key made in another. A registration that succeeds without an
answer leaves the account with a key nobody has. When a re-encryption fails its dialogue
closes, the old key is gone, and its "retry" cannot be reached. Open and expired shares are not
re-encrypted. A first upload in a tab without a key makes a new one, whatever key the
account has.

*Editing.* The comment at `EditableUpload.tsx:233` wants the share closed in any case;
a revert that happened but was not answered, and the redirect of a session that ended,
leave it open. A save of more than a day is overtaken by the job. A share whose files were
all removed cannot be completed. Saving again after a partial failure uploads the stored files once more, and
asks to remove files that are gone, which fails for ever. Whether an upload failed is read
from state that may not be updated yet.

## The proofs

The theorems hold for every value of the constants that the modules' assumptions allow:
any number of shares, files, users, requests and faults, and whatever the bounds. Every
assumption is about the model and not the code: null values are outside the sets they
stand beside, slots are not jobs, bounds are natural numbers, `NoRow` is no number and
`Absent` no content, and the shares and calls of `Completion` are finitely many, since
uses are counted over them. TLC evaluates all of them on the instances of the runs.

None of the invariants of the runs is inductive. Each proof module starts with the
strengthenings it needs, which TLC checked as invariants on a small instance before they
were proved, and then shows what each action does to each of them.

`ShareStore_proofs` proves `TypeCorrect`, `Spec => []TypeOK`, and then
the two safety invariants of `share_store`. That a file's content is
there when its row is written needs that the upload's file is its own
(`UploadsOwnFiles`) and that content already under its final name is still there unless
the share is being deleted (`UploadedContentOnDisk`); that a directory is gone when its
row goes needs `DeletedDirectoriesGone` and `LinkRowsGone`, which speak of the
incarnation a task has seen and so need `SeenBounded` (a new row is unlike any seen
before). `FilesHaveShares` is the foreign key, `RemovalsNameOwner` ties a removal to
its share. For a user's deletion, `AccountListsOwn` says that what is on its list is the
user's own, `DrainsMarked` that a deletion with a failed `rm` has named its shares, and
`OwnSharesHaveUser` is the user's foreign key. Their conjunction `IInv` is `StoreInvariant`.

`LocalUpload_proofs` proves all three safety properties of `upload` and the refinement.

- `Typed` adds to the types what a request and a worker are at each of their steps, and
  that an id no upload has names nothing. `Waits` says that a worker waits for the one
  request it still hears, for the chunk it is at, and that a later chunk carries the id
  the worker was told.
- `Told`: a file of several chunks is recorded under the id its worker knows, and an
  answer to the last chunk tells of a row that is there. `DoneFilesRecorded` and
  `RecordedOnce` follow.
- `FilesGood`: for an upload that is not in `raced`, the server is at one of its
  requests at a time, and the partial file is absent or the first chunks of the file,
  those before the chunk being appended. The step that needs arithmetic is `PrefixExpected`:
  the quotient the server computes from the size of the partial file is the number of its
  chunks, for every size of file and chunk; with the exception the code meets by its order,
  that a whole partial file of a short last chunk asks for a chunk that does not exist.
  `RecordedFilesWhole` follows.
- `DeliveryCorrect`: if the faults include neither time-outs nor the cleanup of partial
  files, `raced` stays empty (`Unraced`), every row is of a whole file, and each step is one
  of `Delivery` or a stutter: `Record` stores, an answer to the last chunk tells,
  `Complete` closes. That nothing is stored in a closed share is `Closed` (all workers are
  done) with `Waits` (the server is at no request of a worker that is done).

`Completion_proofs` proves the four properties of `completion`. `Counted` relates the
shares closed with the cookie to the uses left by the slots between the two steps; it
sums over shares and calls, by the cardinalities of the sets of each. `Placed` says which
slot may touch a share's directory, `Archived` what an archive holds at each step of
writing it, `InfectedFound` where an infected file that the scan did not miss is to be
found while a scan runs. TLC found the strengthening false with two restarts at first,
and with it `ReadyArchiveWhole` as it was: a server that stops after an archive became
ready, and before the share was closed, leaves a share that is completed again, and if it
stops again while `archive.zip` is being written, the flag stays with half an archive. The
run now has two restarts and `overtaken` names this cause.

`Accounts_proofs` proves the four properties of `accounts`, each with an invariant of its
own: `AdminLeft` and `OneFounder` (what a pending sign-up or deletion knows of the
administrators there are), `SecretKept` (a change of the second factor still sees the secret
it read), `SessionsPurged` (between the purge and the new password there is no session
of the old one), `IdsOwn`, `MailedOnce`, `LoginsOwn` and `OpenedOnce` (where a one-time
token is between its two statements).

`Access_proofs` proves the three properties of `access`: `TokensFresh` (no token or request
is from a second to come, and editions of one second are named), `ContentGuarded` (what a
request still has to read, and from which share its guard let it), `ViewsRead` (what a
request that counts read is what it will overwrite).

`Reencrypt_proofs` proves the four properties of `reencrypt`, for any number of tabs,
requests, chunks, retries and faults.

- `Typed` is the types, with what a request and a tab are at each of their steps; `Waits`,
  as for `LocalUpload`, ties a tab to the one request it still hears.
- `Renews` holds whatever went wrong: only tabs that ran have written to the temporary
  file, so what a rename puts in place has nothing under the old key. With it comes that a
  tab hears of its last chunk only after a rename.
- `Replaces` is about the temporary file while no cause in `scars` has struck. The lock is
  for the one request that has the temporary file; the file holds the chunks before the
  one being appended, in order and under the key of the lock's tab, and between two
  requests those before the chunk the tab is at. It is whole when it is renamed.
  `ContentWhole` is its last conjunct, and `DoneReencrypted` follows from both.
- `FailsForReason` speaks of a tab on its own, with no loss and no failed append. Then no
  cause strikes at all (`Clean`), and every refusal is one after a restart: `Excuses`
  bounds the attempts a tab has used by the restarts there were (`Spent`: one less while
  a refusal is still on its way), and says that nobody holds the lock when a tab
  starts over.

`S3Upload_proofs` proves the four invariants of `s3_upload` from one inductive invariant,
`Invariants`. The difficulty is that a handler notes the upload of its key, awaits S3, and
goes on with it, while the timer, the job, a deletion and other handlers end uploads and
reuse keys.

- `Typed` and `Waits`, as for the other two upload models, say what a request is at each of
  its awaits and which one its worker still hears.
- `Linked`: every request, session and timer entry that knows an upload that is still open
  means the upload's own file, and no two keys have one upload. `Owned`: the id
  of a new file has one worker and at most one upload, all of whose parts are that worker's.
- `Stored`: while the upload of a new file is open it has every chunk its worker was told of.
  So a completion finds all chunks (none is missing), and S3 takes only a list that ascends
  (none is twice): `Lines` turns the two into a whole object.
- `Alones` is the same for the recorded file, where one key serves every tab: until a
  request was given up or a tab intruded (`Late`), the one tab that has the lock has the
  session, the parts and the only request.
- `Stocked` and `Told` carry that to the bucket, the rows and the workers' reports;
  `Removed` says that what is missing was removed. `ObjectsMatchRows` and the first half of
  `WorkersTellTrue` follow.
- `Known` is `OpenUploadsKnown`, and needs `Dropping`: the timer forgets an entry after S3
  has aborted its upload.
- `Calm` is about a behaviour in which nothing went wrong. Then a worker is exactly where its
  requests say (`OnCourse`): the parts are those it sent, in order, the lock is its own, and it
  is never refused. The timer is the one threat, and `Timed` says that what the map counts
  as idle is the time since the last chunk, so it aborts only what paused. The
  second half of `WorkersTellTrue` follows: the timer alone ends no active upload; that the
  job does is a cause the property names.

The proof changed the model and two properties. With two tabs the first invariant was false:
a second tab's later chunks pass the lock, so a part has to carry its writer, and `Late` and
`Crowd` have to name this. That the timer may drop another upload's entry is now a cause of its own
(*dropped*), and an upload that paused no longer excuses one the map has forgotten.

`Editing_proofs` proves the three invariants of `editing` from `Invariants`.

- `Typed` adds what never changes on a page: the files it was asked to remove, which its
  removals are about, and the new files, which no two pages share. `Waits`: a page that
  saves waits for a request of its own, unless it uploads.
- `Kept`: an open share has a page that will close it, and a page that closes it
  after a failure does so after some trouble. `Lapsed` counts: what is known of the two tokens
  took as many faults, so a session that ended is two, and a request that was denied and
  tried again is one. `ShareKept`, which excuses two faults but not one, follows.
- `Stored`, `Ordered` and `Thorough` hold while the share is there: each new file is stored,
  on its way, or failed; removals are asked for when the new files are there; each old file a
  page was asked to remove is gone or its removal is awaited. `EditsTrue` follows.

Here the proof found an operator that was not well defined: the cases of `Resolve`
overlapped for an answer that the page no longer waits for. They exclude each other now.

Model-checked only: liveness (`DoomedSharesGo` and the two `UploadsEnd`), which needs
`ENABLED`, and the four invariants of `keys`: `Keys` and
`Sskr` compute with bits, which the prover does not reach. What
they say of sharing a key is checked for every key and every coefficient of a small field.

## Not modelled

- OAuth and LDAP sign-in: calls of external services. What they leave behind is a user
  and a session, as in `Accounts`.
- Configuration: one table, cached in one process and reloaded after a write; what the
  models depend on are constants. Switching the storage provider is left out with it
  (`FileService.remove`, `deleteAllFiles` and `getZip` ask the provider that is on, `get`
  the share's own: the files of an older share stay behind).
- Mail, push messages (with the subscription a share keeps), captcha: output, or
  stateless checks that delay a request. Of the firewall's challenges (468) the upload
  worker's outcome is modelled, not its counters.
- AES-GCM, the framing of encrypted chunks, and the text of a shard: conversions of data
  the models keep as values; the listings of shares and links, which only read.
- Pages, components, translations, styles, the configuration's seed, documents,
  deployment. They are most of the repository's lines, and hold no state of the system
  but what `Editing`, `Keys` and the two upload models take from the pages that act.
