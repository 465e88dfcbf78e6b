-------------------------------- MODULE Access --------------------------------
(***************************************************************************)
(* Who gets to see a share: the guards in front of its page and its files, *)
(* share tokens and the view counter, while the owner edits the share, it  *)
(* expires, is removed and another share takes its id.  A guard reads the  *)
(* share, awaits (a password hash, the token's check, the next statement)  *)
(* and goes on with what it read.                                          *)
(*                                                                         *)
(* There is one id; the shares that had it are numbered.  What a share     *)
(* holds is known by its number.  A refusal changes nothing and is left    *)
(* out: an action is a request that passes.                                *)
(***************************************************************************)
EXTENDS Integers, FiniteSets

CONSTANTS
    Guests,         \* visitors who are nobody in particular
    Owner,          \* the creator of a share that is not anonymous
    Host,           \* the creator of the reverse share
    Admin,
    AdminAccess,    \* share.allowAdminAccessAllShares
    AtOnce,         \* bound: visitors in a behaviour
    Requests,       \* slots for requests being served
    MaxShares,      \* bound: shares under the id
    MaxEditions,    \* bound: creations and edits
    MaxOpens        \* bound: token and file requests

Visitors == Guests \cup {Owner, Host, Admin}

ASSUME VisitorAssumption == Cardinality(Guests \cup {Owner, Host, Admin}) = Cardinality(Guests) + 3
ASSUME BoundAssumption == /\ MaxShares \in Nat \ {0} /\ MaxEditions \in Nat /\ MaxOpens \in Nat /\ AtOnce \in Nat
                          /\ AdminAccess \in BOOLEAN

VARIABLES
    share,      \* the Share row, its security and its reverse share
    cookie,     \* the share token of a visitor
    req,        \* requests
    edition,    \* history: creations and edits so far
    typed,      \* history: the visitors who typed the password of the share there is
    opens,      \* history: requests that counted for the share there is
    begun,      \* history: requests that count, begun
    scars       \* history: what overlapped

history == <<edition, typed, opens, begun, scars>>
vars == <<share, cookie, req, history>>

\* mode: not of a reverse share, of one with publicAccess, or without.  A share of a
\* reverse share has no limit of views (create strips it).  max 0 is no limit.  An
\* anonymous share has no creatorId.
Settings == {s \in [password : BOOLEAN, mode : {"plain", "public", "private"}, max : 0 .. 1,
                    anonymous : BOOLEAN] : s.mode = "plain" \/ s.max = 0}
NoSettings == [password |-> FALSE, mode |-> "plain", max |-> 0, anonymous |-> FALSE]

Share == [there : BOOLEAN, n : 0 .. MaxShares, born : 0 .. MaxEditions, set : Settings, views : Nat,
          locked : BOOLEAN, expired : BOOLEAN]
Token == [born : 0 .. MaxEditions, edition : Nat]
NoToken == [born |-> 0, edition |-> 0]
\* n, set and views are what a guard has read of the share and still needs.
Request == [by : Visitors, kind : {"free", "token", "file", "page", "owner"},
            at : {"", "sign", "count", "verify", "read"}, n : 0 .. MaxShares, set : Settings,
            views : Nat, token : Token, edition : Nat]
Free == [by |-> Owner, kind |-> "free", at |-> "", n |-> 0, set |-> NoSettings, views |-> 0,
         token |-> NoToken, edition |-> 0]
NoShare(n, born) == [there |-> FALSE, n |-> n, born |-> born, set |-> NoSettings, views |-> 0,
               locked |-> FALSE, expired |-> FALSE]

Init ==
    /\ share = NoShare(0, 0)
    /\ \E V \in SUBSET Visitors : Cardinality(V) = AtOnce /\ cookie = [v \in V |-> NoToken]
    /\ req = [r \in Requests |-> Free]
    /\ edition = 0
    /\ typed = {} /\ scars = {}
    /\ opens = 0 /\ begun = 0

-----------------------------------------------------------------------------
(* The owner and time. *)

Busy == \E r \in Requests : req[r] # Free

\* createdAt becomes now, in seconds where tokens carry it: a later one than before, or
\* the same one.
Redate(born) ==
    /\ edition < MaxEditions /\ edition' = edition + 1
    /\ born \in {share.born, share.born + 1} \ {0}

Create ==
    /\ ~share.there /\ share.n < MaxShares
    /\ \E s \in Settings, born \in 1 .. MaxEditions :
        /\ Redate(born)
        /\ share' = [NoShare(share.n + 1, born) EXCEPT !.there = TRUE, !.set = s]
        /\ scars' = scars \cup (IF Busy THEN {"replaced"} ELSE {})
                          \cup (IF born = share.born THEN {"second"} ELSE {})
    /\ UNCHANGED <<cookie, req, typed, opens, begun>>

Complete ==
    /\ share.there /\ ~share.locked
    /\ share' = [share EXCEPT !.locked = TRUE]
    /\ UNCHANGED <<cookie, req, history>>

\* revertComplete sets createdAt, which share tokens carry.
Revert ==
    /\ share.there /\ share.locked
    /\ \E born \in 1 .. MaxEditions :
        /\ Redate(born)
        /\ share' = [share EXCEPT !.locked = FALSE, !.born = born]
        /\ scars' = IF born = share.born THEN scars \cup {"second"} ELSE scars
    /\ UNCHANGED <<cookie, req, typed, opens, begun>>

Remove ==
    /\ share.there
    /\ share' = NoShare(share.n, share.born)
    /\ typed' = {} /\ opens' = 0
    /\ scars' = scars \cap {"replaced", "second"}
    /\ UNCHANGED <<cookie, req, edition, begun>>

Expire ==
    /\ share.there /\ ~share.expired
    /\ share' = [share EXCEPT !.expired = TRUE]
    /\ UNCHANGED <<cookie, req, history>>

\* The cookie of a token goes.
Forget(v) ==
    /\ cookie[v] # NoToken
    /\ cookie' = [cookie EXCEPT ![v] = NoToken]
    /\ UNCHANGED <<share, req, history>>

-----------------------------------------------------------------------------
(* Requests. *)

Visible == share.there /\ ~share.expired
Begin(r, q) == req[r] = Free /\ req' = [req EXCEPT ![r] = [q EXCEPT !.n = share.n]]
End(r) == req' = [req EXCEPT ![r] = Free]

\* A request that will count a view, of the share as it was read.
BeginCounted(r, q) ==
    /\ begun < MaxOpens /\ begun' = begun + 1
    /\ scars' = scars
        \cup (IF \E c \in Requests : req[c].at \in {"sign", "count"} THEN {"overlap"} ELSE {})
        \cup (IF q.by = Admin /\ q.kind = "file" THEN {"admin"} ELSE {})
    /\ Begin(r, q)

\* Mutant: the limit is passed by one.
Exhausted1(s) == s.set.max # 0 /\ s.set.max < s.views
Exhausted(s) == s.set.max # 0 /\ s.set.max <= s.views

\* ShareTokenSecurity and what getShareToken checks: the password, if any, is typed.
AskToken(v, r) ==
    /\ Visible /\ ~Exhausted(share)
    /\ BeginCounted(r, [Free EXCEPT !.by = v, !.kind = "token", !.at = "sign",
                            !.views = share.views])
    /\ typed' = IF share.set.password THEN typed \cup {v} ELSE typed
    /\ UNCHANGED <<share, cookie, edition, opens>>

\* Mutant: createdAt is rounded up to a second.
SignRounded(r) ==
    /\ req[r].at = "sign"
    /\ IF share.there
       THEN req' = [req EXCEPT ![r].at = "count",
                               ![r].token = [born |-> share.born + 1, edition |-> edition]]
       ELSE End(r)
    /\ UNCHANGED <<share, cookie, history>>

\* generateShareToken reads the share again.
Sign(r) ==
    /\ req[r].at = "sign"
    /\ IF share.there
       THEN req' = [req EXCEPT ![r].at = "count",
                               ![r].token = [born |-> share.born, edition |-> edition]]
       ELSE End(r)
    /\ UNCHANGED <<share, cookie, history>>

\* increaseViewCount writes one more than was read; then the token is answered, or the
\* file is read.
Count(r) ==
    LET q == req[r] IN
    /\ q.at = "count"
    /\ IF share.there
       THEN /\ share' = [share EXCEPT !.views = q.views + 1]
            /\ opens' = opens + 1
            /\ IF q.kind = "token"
               THEN cookie' = [cookie EXCEPT ![q.by] = q.token] /\ End(r)
               ELSE UNCHANGED cookie /\ req' = [req EXCEPT ![r].at = "read", ![r].views = 0]
       ELSE End(r) /\ UNCHANGED <<share, cookie, opens>>
    /\ UNCHANGED <<edition, typed, begun, scars>>

\* Of a share, or of what was read of one.
Theirs(v, s) == (v = Owner /\ ~s.set.anonymous) \/ (v = Host /\ s.set.mode # "plain")

\* FileSecurityGuard of a visitor without a share token.
AskFile(v, r) ==
    /\ cookie[v] = NoToken /\ Visible
    /\ \/ AdminAccess /\ v = Admin
       \/ /\ ~share.set.password /\ ~Exhausted(share)
          /\ share.set.mode = "private" => Theirs(v, share)
    /\ BeginCounted(r, [Free EXCEPT !.by = v, !.kind = "file", !.at = "count",
                            !.views = share.views])
    /\ UNCHANGED <<share, cookie, edition, typed, opens>>

\* ShareSecurityGuard, in front of the page and of a file when there is a share token.
AskGuarded(v, r) == \E kind \in {"page", "file"} :
    /\ Visible /\ (kind = "file" => cookie[v] # NoToken)
    /\ Begin(r, [Free EXCEPT !.by = v, !.kind = kind, !.at = "verify", !.token = cookie[v],
                            !.set = share.set])
    /\ UNCHANGED <<share, cookie, history>>

\* ShareOwnerGuard lets anybody to an anonymous share, and looks neither at the password
\* nor at the expiration.
OwnerPass(v, s) == v = Admin \/ s.set.anonymous \/ Theirs(v, s)

\* The owner's page: what the guard read decides, getForOwner reads the share again.
AskOwner(v, r) ==
    /\ share.there /\ OwnerPass(v, share)
    /\ Begin(r, [Free EXCEPT !.by = v, !.kind = "owner", !.at = "read", !.edition = edition])
    /\ UNCHANGED <<share, cookie, history>>

\* Mutant: a token is one for the id.
ValidForId(t) == t # NoToken
\* verifyShareToken reads the share once more.
Valid(t) == t # NoToken /\ t.born = share.born

\* Mutant: an upload through a private link is everybody's who has a token.
PassPrivate(q) ==
    \/ Theirs(q.by, q) /\ ~q.set.password
    \/ Valid(q.token)

\* A token is asked of everybody when there is a password, and of those the share is
\* not from when there is none.
Pass(q) ==
    \/ Theirs(q.by, q) /\ ~q.set.password
    \/ /\ Valid(q.token)
       /\ \/ Theirs(q.by, q)
          \/ AdminAccess /\ q.by = Admin
          \/ q.set.mode # "private"

Verify(r) ==
    LET q == req[r] IN
    /\ q.at = "verify"
    /\ IF share.there /\ Pass(q)
       THEN req' = [req EXCEPT ![r].at = "read", ![r].edition = edition,
                               ![r].set = NoSettings]
       ELSE End(r)
    /\ UNCHANGED <<share, cookie, history>>

\* The page is the share's that has the id now, when it is completed, the owner's page
\* also while it is edited; a file is the one that was asked for, or there is none.
Found(q) ==
    /\ share.there
    /\ q.kind = "page" => share.locked
    /\ q.kind = "file" => share.n = q.n

\* What is found is sent.
Read(r) ==
    /\ req[r].at = "read" /\ End(r)
    /\ UNCHANGED <<share, cookie, history>>

Next ==
    \/ Create \/ Complete \/ Revert \/ Remove \/ Expire
    \/ \E v \in DOMAIN cookie :
        \/ Forget(v)
        \/ \E r \in Requests :
            AskToken(v, r) \/ AskFile(v, r) \/ AskGuarded(v, r) \/ AskOwner(v, r)
    \/ \E r \in Requests : Sign(r) \/ Count(r) \/ Verify(r) \/ Read(r)

Spec == Init /\ [][Next]_vars

-----------------------------------------------------------------------------
(* Properties. *)

\* The types of the state; no token is of a share to come.
TypeOK ==
    /\ share \in Share
    /\ \A v \in DOMAIN cookie : cookie[v] \in Token /\ cookie[v].born <= share.born
    /\ req \in [Requests -> Request]
    /\ typed \subseteq Visitors

Served == {r \in Requests : req[r].at = "read" /\ Found(req[r])}
Privileged(v) == AdminAccess /\ v = Admin

\* The page and the files of a share with a password go to those who typed its password,
\* its creator included, and what came through a private reverse share to its creators,
\* whatever shares had the id before; or to an administrator with access to everything.
\* The page of GET /shares/:id/from-owner, which asks for no password, goes to the
\* creators and the administrators, and of an anonymous share to anybody.  But for a
\* share that is replaced while a request is served, or within the second it was
\* created in.
Entitled(v) ==
    /\ share.set.password => v \in typed
    /\ share.set.mode = "private" => Theirs(v, share)
Allowed(q) ==
    IF q.kind = "owner" THEN q.by = Admin \/ share.set.anonymous \/ Theirs(q.by, share)
                        ELSE Entitled(q.by) \/ Privileged(q.by)
ContentKept == scars \cap {"replaced", "second"} = {} => \A r \in Served : Allowed(req[r])

\* The counter says how often the share was opened, and the share is not opened more
\* often than it may be, unless two such requests overlapped or the share was replaced
\* under one.  (An administrator's direct downloads count, and are not limited.)
ViewsBounded == share.there /\ scars \cap {"overlap", "replaced"} = {} =>
    /\ share.views = opens
    /\ share.set.max # 0 /\ "admin" \notin scars => opens <= share.set.max

\* A token lets nobody in after the owner edited the share, or after another share took
\* its id, unless within one second.
TokensOfEdition == "second" \notin scars =>
    \A r \in Requests : LET q == req[r] IN
        q.at = "read" /\ q.token # NoToken /\ q.by \notin {Owner, Host} => q.token.edition = q.edition
===============================================================================
