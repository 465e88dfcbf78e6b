------------------------------- MODULE Accounts -------------------------------
(***************************************************************************)
(* Users, their passwords, sessions and second factor: AuthService,        *)
(* AuthTotpService, UserService and the job that deletes expired tokens.   *)
(* A handler reads, awaits (a hash, a code, the next statement) and writes *)
(* what it decided from what it read; the steps of two browsers interleave *)
(* in between.  A step below is one awaited statement, the first of a      *)
(* handler with the guard in front of it.  A refusal that changes nothing  *)
(* (a wrong password or code) is left out.                                 *)
(***************************************************************************)
EXTENDS Integers, FiniteSets

CONSTANTS
    Browsers,       \* each with its cookies and at most one request
    Users,          \* a user that was deleted does not come back: the next one is another
    Passwords,
    Secrets,        \* TOTP secrets
    Nobody,         \* the user of no token
    NoSecret,       \* totpSecret NULL
    AtFirst,        \* bound: browsers that are signed in at first
    MaxRequests     \* bound: requests in a behaviour

ASSUME NullAssumption == Nobody \notin Users /\ NoSecret \notin Secrets
ASSUME SomeAssumption == Passwords # {} /\ Secrets # {} /\ IsFiniteSet(Users)
ASSUME BoundAssumption == MaxRequests \in Nat /\ AtFirst \in Nat

\* A token is the serial number of the request that created it; 0 is no token.
Serials == 1 .. MaxRequests
Tokens == 0 .. MaxRequests

VARIABLES
    users,      \* User rows
    refresh,    \* RefreshToken rows
    login,      \* LoginToken rows
    reset,      \* ResetPasswordToken rows, at most one of a user
    browser,    \* cookies
    req,        \* the request a browser waits for
    app,        \* the secrets a person's authenticator has
    sent,       \* the number of requests
    checked,    \* history: secrets a code was checked against before they counted
    founders,   \* history: users that a sign-up made administrators
    resets,     \* history: how often a token set a password
    opened,     \* history: how many sessions a login token opened
    scars       \* history: kinds of requests that overlapped, and demotions

tokens == <<refresh, login, reset>>
history == <<checked, founders, resets, opened, scars>>
vars == <<users, tokens, browser, req, app, sent, history>>

Row == [is : {"absent", "member", "admin", "gone"}, password : Passwords, enabled : BOOLEAN,
        verified : BOOLEAN, secret : Secrets \cup {NoSecret},
        changed : {"new", "update", "reset", "admin"}]
New(is, p) == [is |-> is, password |-> p, enabled |-> FALSE, verified |-> FALSE,
               secret |-> NoSecret, changed |-> "new"]
Exists(u) == u \in Users /\ users[u].is \in {"member", "admin"}
Admins == {u \in Users : users[u].is = "admin"}

Session == [user : Users \cup {Nobody}, password : Passwords, via : {"password", "totp"}]
Login == [user : Users \cup {Nobody}, password : Passwords, used : BOOLEAN]
NoPassword == CHOOSE p \in Passwords : TRUE
NoSession == [user |-> Nobody, password |-> NoPassword, via |-> "password"]
NoLogin == [user |-> Nobody, password |-> NoPassword, used |-> FALSE]

Kinds == {"none", "signUp", "signIn", "signInTotp", "forgot", "reset", "password", "enable",
          "verify", "disable", "delete"}
Steps == {"", "create", "session", "login", "use", "drop", "mail", "store", "purge", "write",
          "count", "erase"}
Request == [kind : Kinds, at : Steps, user : Users \cup {Nobody}, id : Tokens, token : Tokens,
            flag : BOOLEAN, word : Passwords, secret : Secrets \cup {NoSecret}]
Idle == [kind |-> "none", at |-> "", user |-> Nobody, id |-> 0, token |-> 0, flag |-> FALSE,
         word |-> NoPassword, secret |-> NoSecret]

\* The cookies: the access token (whose user and session), the refresh token; and the
\* login token the sign-in page keeps.
Cookies == [user : Users \cup {Nobody}, session : Tokens, refresh : Tokens, login : Tokens]
NoCookies == [user |-> Nobody, session |-> 0, refresh |-> 0, login |-> 0]

\* A user with a second factor, and the secrets in the order they are made up.
NextSecrets(u) == IF Secrets = app[u] THEN {} ELSE {CHOOSE s \in Secrets : s \notin app[u]}
WithFactor(is) == [New(is, NoPassword) EXCEPT !.enabled = TRUE, !.verified = TRUE,
                                              !.secret = CHOOSE s \in Secrets : TRUE]

\* Any legitimate users, some of them signed in (with an access token whose session is
\* gone by now, or not).
Init ==
    /\ users \in [Users -> {New(is, NoPassword) : is \in {"absent", "member", "admin"}}
                          \cup {WithFactor(is) : is \in {"member", "admin"}}]
    /\ (\E u \in Users : Exists(u)) => Admins # {}
    /\ app = [u \in Users |-> {users[u].secret} \ {NoSecret}]
    /\ checked = app
    /\ refresh = [t \in Serials |-> NoSession]
    /\ login = [t \in Serials |-> NoLogin]
    /\ reset = [u \in Users |-> 0]
    /\ browser \in [Browsers -> {[NoCookies EXCEPT !.user = u] : u \in {Nobody} \cup {v \in Users : Exists(v)}}]
    /\ Cardinality({b \in Browsers : browser[b].user # Nobody}) <= AtFirst
    /\ req = [b \in Browsers |-> Idle]
    /\ sent = 0
    /\ founders = {} /\ scars = {}
    /\ resets = [t \in Serials |-> 0] /\ opened = [t \in Serials |-> 0]

-----------------------------------------------------------------------------
(* Handlers. *)

\* Kinds whose reads and writes concern the same data.
Class(kind) ==
    CASE kind \in {"signIn", "password"} -> "password"
      [] kind \in {"enable", "verify", "disable"} -> "totp"
      [] OTHER -> kind
Overlaps(b, q) == \E c \in Browsers \ {b} :
    \/ Class(req[c].kind) = Class(q.kind)
       /\ (req[c].user = q.user \/ q.kind \in {"signUp", "delete"})
    \/ Class(q.kind) = "password" /\ req[c].kind = "signUp" /\ req[c].user = q.user

\* A handler starts, with what its first statement reads.
Begin(b, q) ==
    /\ req[b].kind = "none" /\ sent < MaxRequests
    /\ sent' = sent + 1
    /\ req' = [req EXCEPT ![b] = [q EXCEPT !.id = sent + 1]]
    /\ scars' = IF Overlaps(b, q) THEN scars \cup {Class(q.kind)} ELSE scars
    /\ UNCHANGED <<users, tokens, browser, app, checked, founders, resets, opened>>

Goto(b, at) == req' = [req EXCEPT ![b].at = at]
End(b) == req' = [req EXCEPT ![b] = Idle]
At(b, kind, at) == req[b].kind = kind /\ req[b].at = at

\* JwtStrategy: the access token's user is read from its row; its session is not.
Me(b) == browser[b].user
SignedIn(b) == Exists(Me(b))

\* createRefreshToken, which needs the user's row, and the cookies.  updatePassword
\* leaves the access token as it is.
OpenSession(b, via) ==
    LET q == req[b] IN
    /\ End(b)
    /\ IF Exists(q.user)
       THEN /\ refresh' = [refresh EXCEPT ![q.id] = [NoSession EXCEPT !.user = q.user,
                                                     !.password = q.word, !.via = via]]
            /\ browser' = [browser EXCEPT ![b].refresh = q.id,
                    ![b].user = IF q.kind = "password" THEN @ ELSE q.user,
                    ![b].session = IF q.kind = "password" THEN @ ELSE q.id]
       ELSE UNCHANGED <<refresh, browser>>

\* The count of the users is read before the password is hashed.
SignUp(b) == \E u \in {v \in Users : users[v].is # "gone"} :
    Begin(b, [Idle EXCEPT !.kind = "signUp", !.at = "create", !.user = u,
                          !.flag = \A v \in Users : ~Exists(v)])

\* The row, unless the name is taken.
SignUpCreate(b) ==
    LET q == req[b] IN
    /\ At(b, "signUp", "create")
    /\ IF users[q.user].is # "absent"
       THEN End(b) /\ UNCHANGED <<users, founders>>
       ELSE /\ users' = [users EXCEPT ![q.user] = New(IF q.flag THEN "admin" ELSE "member", q.word)]
            /\ founders' = IF q.flag THEN founders \cup {q.id} ELSE founders
            /\ Goto(b, "session")
    /\ UNCHANGED <<tokens, browser, app, sent, checked, resets, opened, scars>>

\* The password is right by the row that was read, which also says whether a second
\* factor is asked for.
SignIn(b) == \E u \in Users :
    /\ Exists(u)
    /\ Begin(b, [Idle EXCEPT !.kind = "signIn", !.at = IF users[u].verified THEN "login" ELSE "session",
                             !.user = u, !.word = users[u].password])

CreateLogin(b) ==
    LET q == req[b] IN
    /\ At(b, "signIn", "login")
    /\ End(b)
    /\ IF Exists(q.user)
       THEN /\ login' = [login EXCEPT ![q.id] = [NoLogin EXCEPT !.user = q.user, !.password = q.word]]
            /\ browser' = [browser EXCEPT ![b].login = q.id]
       ELSE UNCHANGED <<login, browser>>
    /\ UNCHANGED <<users, refresh, reset, app, sent, history>>

CreateSession(b) ==
    /\ req[b].at = "session" /\ req[b].kind # "signInTotp"
    /\ OpenSession(b, "password")
    /\ UNCHANGED <<users, login, reset, app, sent, history>>

\* The login token is there, not used and not expired; the code is one of the app's
\* for the secret the row has now.
SignInTotp(b) ==
    LET t == browser[b].login IN
    /\ t # 0 /\ login[t].user # Nobody /\ ~login[t].used
    /\ users[login[t].user].secret \in app[login[t].user]
    /\ Begin(b, [Idle EXCEPT !.kind = "signInTotp", !.at = "use", !.user = login[t].user,
                             !.token = t, !.word = login[t].password])

UseLogin(b) ==
    LET t == req[b].token IN
    /\ At(b, "signInTotp", "use")
    /\ IF login[t].user = Nobody
       THEN End(b) /\ UNCHANGED login
       ELSE login' = [login EXCEPT ![t].used = TRUE] /\ Goto(b, "session")
    /\ UNCHANGED <<users, refresh, reset, browser, app, sent, history>>

TotpSession(b) ==
    /\ At(b, "signInTotp", "session")
    /\ OpenSession(b, "totp")
    /\ opened' = [opened EXCEPT ![req[b].token] = IF Exists(req[b].user) THEN @ + 1 ELSE @]
    /\ UNCHANGED <<users, login, reset, app, sent, checked, founders, resets, scars>>

-----------------------------------------------------------------------------
(* Passwords. *)

\* requestResetPassword reads the user's token, if any, and deletes it first.
Forgot(b) == \E u \in Users :
    /\ Exists(u)
    /\ Begin(b, [Idle EXCEPT !.kind = "forgot", !.user = u, !.token = reset[u],
                             !.at = IF reset[u] = 0 THEN "mail" ELSE "drop"])

\* A token that is gone by now fails the request.
ForgotDrop(b) ==
    LET q == req[b] IN
    /\ At(b, "forgot", "drop")
    /\ IF reset[q.user] = q.token
       THEN reset' = [reset EXCEPT ![q.user] = 0] /\ Goto(b, "mail")
       ELSE End(b) /\ UNCHANGED reset
    /\ UNCHANGED <<users, refresh, login, browser, app, sent, history>>

\* A user has one token: creating another fails.
ForgotMail(b) ==
    LET q == req[b] IN
    /\ At(b, "forgot", "mail")
    /\ End(b)
    /\ IF Exists(q.user) /\ reset[q.user] = 0
       THEN reset' = [reset EXCEPT ![q.user] = q.id]
       ELSE UNCHANGED reset
    /\ UNCHANGED <<users, refresh, login, browser, app, sent, history>>

\* resetPassword takes any token that is still there: expired ones are the job's.
Reset(b) == \E u \in Users, p \in Passwords :
    /\ reset[u] # 0
    /\ Begin(b, [Idle EXCEPT !.kind = "reset", !.at = "drop", !.user = u, !.token = reset[u],
                             !.word = p])

\* Mutant: the token is deleted in the end, and may be gone by then.
ResetDropLate(b) ==
    /\ At(b, "reset", "drop") /\ Goto(b, "store")
    /\ UNCHANGED <<users, tokens, browser, app, sent, history>>

ResetDrop(b) ==
    LET q == req[b] IN
    /\ At(b, "reset", "drop")
    /\ IF reset[q.user] = q.token
       THEN reset' = [reset EXCEPT ![q.user] = 0] /\ Goto(b, "store")
       ELSE End(b) /\ UNCHANGED reset
    /\ UNCHANGED <<users, refresh, login, browser, app, sent, history>>

ResetStore(b) ==
    LET q == req[b] IN
    /\ At(b, "reset", "store")
    /\ End(b)
    /\ users' = IF Exists(q.user)
                THEN [users EXCEPT ![q.user].password = q.word, ![q.user].changed = "reset"] ELSE users
    /\ resets' = [resets EXCEPT ![q.token] = @ + 1]
    /\ UNCHANGED <<tokens, browser, app, sent, checked, founders, opened, scars>>

\* updatePassword: the old password is right by the row the guard read.
Password(b) == \E p \in Passwords :
    /\ SignedIn(b)
    /\ Begin(b, [Idle EXCEPT !.kind = "password", !.at = "purge", !.user = Me(b), !.word = p])

\* Mutant: the other sessions of the user stay.
PurgeNothing(b) ==
    /\ At(b, "password", "purge") /\ Goto(b, "store")
    /\ UNCHANGED <<users, tokens, browser, app, sent, history>>

PurgeSessions(b) ==
    /\ At(b, "password", "purge") /\ Goto(b, "store")
    /\ refresh' = [t \in Serials |-> IF refresh[t].user = req[b].user THEN NoSession ELSE refresh[t]]
    /\ UNCHANGED <<users, login, reset, browser, app, sent, history>>

StorePassword(b) ==
    LET q == req[b] IN
    /\ At(b, "password", "store")
    /\ IF Exists(q.user)
       THEN /\ users' = [users EXCEPT ![q.user].password = q.word, ![q.user].changed = "update"]
            /\ Goto(b, "session")
       ELSE End(b) /\ UNCHANGED users
    /\ UNCHANGED <<tokens, browser, app, sent, history>>

-----------------------------------------------------------------------------
(* The second factor.  The password these requests carry is not waited for. *)

\* Mutant: a secret may be made while one counts.
EnableAnytime(b) ==
    /\ SignedIn(b)
    /\ \E s \in NextSecrets(Me(b)) :
        Begin(b, [Idle EXCEPT !.kind = "enable", !.at = "write", !.user = Me(b), !.secret = s])

Enable(b) ==
    /\ SignedIn(b) /\ ~users[Me(b)].verified
    /\ \E s \in NextSecrets(Me(b)) :
        Begin(b, [Idle EXCEPT !.kind = "enable", !.at = "write", !.user = Me(b), !.secret = s])

\* verifyTotp and disableTotp check a code against the secret they read.
CheckCode(b, kind) ==
    /\ SignedIn(b) /\ users[Me(b)].secret \in app[Me(b)]
    /\ Begin(b, [Idle EXCEPT !.kind = kind, !.at = "write", !.user = Me(b),
                             !.secret = users[Me(b)].secret])

\* The update, when the user still exists; enabling shows the secret to the app.
WriteTotp(b) ==
    LET q == req[b]
        row == users[q.user]
    IN
    /\ q.at = "write" /\ End(b)
    /\ IF ~Exists(q.user) THEN UNCHANGED <<users, app, checked>> ELSE
        \/ /\ q.kind = "enable"
           /\ users' = [users EXCEPT ![q.user] = [row EXCEPT !.enabled = TRUE, !.secret = q.secret]]
           /\ app' = [app EXCEPT ![q.user] = @ \cup {q.secret}]
           /\ UNCHANGED checked
        \/ /\ q.kind = "verify"
           /\ users' = [users EXCEPT ![q.user] = [row EXCEPT !.verified = TRUE]]
           /\ checked' = [checked EXCEPT ![q.user] = @ \cup {q.secret}]
           /\ UNCHANGED app
        \/ /\ q.kind = "disable"
           /\ users' = [users EXCEPT ![q.user] = [row EXCEPT !.enabled = FALSE, !.verified = FALSE,
                                                            !.secret = NoSecret]]
           /\ UNCHANGED <<app, checked>>
    /\ UNCHANGED <<tokens, browser, sent, founders, resets, opened, scars>>

-----------------------------------------------------------------------------
(* Users, by themselves and by administrators. *)

\* The row of the user to be deleted: one's own, or any for an administrator.
Delete(b) == \E u \in Users :
    /\ SignedIn(b) /\ Exists(u) /\ (u = Me(b) \/ Me(b) \in Admins)
    /\ Begin(b, [Idle EXCEPT !.kind = "delete", !.user = u,
                             !.at = IF u \in Admins THEN "count" ELSE "erase"])

\* Mutant: any administrator may go.
CountNothing(b) ==
    /\ At(b, "delete", "count") /\ Goto(b, "erase")
    /\ UNCHANGED <<users, tokens, browser, app, sent, history>>

\* The last administrator stays.
CountAdmins(b) ==
    /\ At(b, "delete", "count")
    /\ IF Cardinality(Admins) = 1 THEN End(b) ELSE Goto(b, "erase")
    /\ UNCHANGED <<users, tokens, browser, app, sent, history>>

\* Mutant: the tokens stay behind.
EraseRow(b) ==
    LET u == req[b].user IN
    /\ At(b, "delete", "erase") /\ End(b)
    /\ users' = [users EXCEPT ![u] = New("gone", NoPassword)]
    /\ UNCHANGED <<tokens, browser, app, sent, history>>

\* After the files, the row; the tokens of the user go with it.
Erase(b) ==
    LET u == req[b].user IN
    /\ At(b, "delete", "erase") /\ End(b)
    /\ users' = [users EXCEPT ![u] = New("gone", NoPassword)]
    /\ refresh' = [t \in Serials |-> IF refresh[t].user = u THEN NoSession ELSE refresh[t]]
    /\ login' = [t \in Serials |-> IF login[t].user = u THEN NoLogin ELSE login[t]]
    /\ reset' = [reset EXCEPT ![u] = 0]
    /\ browser' = IF Me(b) = u /\ Exists(u) THEN [browser EXCEPT ![b] = [NoCookies EXCEPT !.login = browser[b].login]]
                  ELSE browser
    /\ UNCHANGED <<app, sent, history>>

\* UserService.update by an administrator, in one statement: nothing counts them.
AdminUpdate(b) == \E u \in Users :
    /\ SignedIn(b) /\ Me(b) \in Admins /\ Exists(u) /\ req[b].kind = "none" /\ sent < MaxRequests
    /\ sent' = sent + 1
    /\ \/ \E is \in {"member", "admin"} : users' = [users EXCEPT ![u].is = is]
       \/ \E p \in Passwords :
            users' = [users EXCEPT ![u].password = p, ![u].changed = "admin"]
    /\ scars' = IF /\ \E v \in Admins : users'[v].is = "member"
                   /\ Cardinality(Admins) = 1 \/ \E c \in Browsers : req[c].kind = "delete"
                THEN scars \cup {"demoted"} ELSE scars
    /\ UNCHANGED <<tokens, browser, req, app, checked, founders, resets, opened>>

AdminCreate(b) == \E u \in Users, is \in {"member", "admin"} :
    /\ SignedIn(b) /\ Me(b) \in Admins /\ users[u].is = "absent" /\ req[b].kind = "none" /\ sent < MaxRequests
    /\ sent' = sent + 1
    /\ users' = [users EXCEPT ![u] = New(is, NoPassword)]
    /\ UNCHANGED <<tokens, browser, req, app, history>>

-----------------------------------------------------------------------------
(* Sessions, in one statement each, and time. *)

\* refreshAccessToken
Refresh(b) ==
    LET t == browser[b].refresh IN
    /\ t # 0 /\ refresh[t].user # Nobody
    /\ browser' = [browser EXCEPT ![b].user = refresh[t].user, ![b].session = t]
    /\ UNCHANGED <<users, tokens, req, app, sent, history>>

\* The session to delete is the access token's; without one the cookies go all the same.
SignOut(b) ==
    LET t == browser[b].session IN
    /\ browser[b] # NoCookies /\ req[b].kind = "none"
    /\ refresh' = IF t = 0 THEN refresh ELSE [refresh EXCEPT ![t] = NoSession]
    /\ browser' = [browser EXCEPT ![b] = [NoCookies EXCEPT !.login = browser[b].login]]
    /\ UNCHANGED <<users, login, reset, req, app, sent, history>>

\* The access token's cookie goes after 13 minutes.
Lapse(b) ==
    /\ Me(b) # Nobody
    /\ browser' = [browser EXCEPT ![b].user = Nobody, ![b].session = 0]
    /\ UNCHANGED <<users, tokens, req, app, sent, history>>

\* A token expires.  An expired refresh or login token is refused until the hourly job
\* deletes it, so that the two are one step; a reset token works until the job came.
Expire ==
    /\ \/ \E t \in Serials : /\ refresh[t] # NoSession
                             /\ refresh' = [refresh EXCEPT ![t] = NoSession]
                             /\ UNCHANGED <<login, reset>>
       \/ \E t \in Serials : /\ login[t] # NoLogin
                             /\ login' = [login EXCEPT ![t] = NoLogin]
                             /\ UNCHANGED <<refresh, reset>>
       \/ \E u \in Users : /\ reset[u] # 0
                           /\ reset' = [reset EXCEPT ![u] = 0]
                           /\ UNCHANGED <<refresh, login>>
    /\ UNCHANGED <<users, browser, req, app, sent, history>>

Serve(b) ==
    \/ SignUpCreate(b) \/ CreateLogin(b) \/ CreateSession(b) \/ UseLogin(b) \/ TotpSession(b)
    \/ ForgotDrop(b) \/ ForgotMail(b) \/ ResetDrop(b) \/ ResetStore(b)
    \/ PurgeSessions(b) \/ StorePassword(b) \/ WriteTotp(b) \/ CountAdmins(b) \/ Erase(b)

Next ==
    \/ \E b \in Browsers :
        \/ SignUp(b) \/ SignIn(b) \/ SignInTotp(b) \/ Forgot(b) \/ Reset(b) \/ Password(b)
        \/ Enable(b) \/ CheckCode(b, "verify") \/ CheckCode(b, "disable") \/ Delete(b)
        \/ AdminUpdate(b) \/ AdminCreate(b) \/ Refresh(b) \/ SignOut(b) \/ Lapse(b)
        \/ Serve(b)
    \/ Expire

Spec == Init /\ [][Next]_vars

-----------------------------------------------------------------------------
(* Properties. *)

\* The types of the state; tokens are of users that exist.
TypeOK ==
    /\ users \in [Users -> Row]
    /\ refresh \in [Serials -> Session] /\ login \in [Serials -> Login]
    /\ reset \in [Users -> Tokens]
    /\ \A t \in Serials : \A u \in {refresh[t].user, login[t].user} : Exists(u) \/ u = Nobody
    /\ \A u \in Users : Exists(u) \/ reset[u] = 0
    /\ browser \in [Browsers -> Cookies]
    /\ req \in [Browsers -> Request]
    /\ app \in [Users -> SUBSET Secrets] /\ checked \in [Users -> SUBSET Secrets]
    /\ sent \in Tokens /\ founders \subseteq Serials
    /\ resets \in [Serials -> Nat] /\ opened \in [Serials -> Nat]
    /\ scars \subseteq Kinds \cup {"totp", "demoted"}

\* While there are users there is an administrator, unless two deletions overlapped
\* (each found the other's administrator) or administrators took the right themselves.
\* And one sign-up at most made an administrator of its user, unless sign-ups overlapped
\* too (both found no user).
OneFounderOneLeft ==
    /\ (\E u \in Users : Exists(u)) => Admins # {} \/ scars \cap {"delete", "demoted"} # {}
    /\ Cardinality(founders) <= 1 \/ scars \cap {"signUp", "delete", "demoted"} # {}

\* A second factor that is asked for has a secret that a code was checked against: a
\* user is never locked out by a secret nobody scanned, unless two changes overlapped.
FactorChecked == \A u \in Users : users[u].verified /\ "totp" \notin scars =>
    users[u].enabled /\ users[u].secret \in checked[u]

\* After a change of one's password, the sessions are those of the new password, unless
\* a sign-in overlapped, or one was half done: login tokens outlive the change.
SessionsOfPassword == \A t \in Serials :
    LET u == refresh[t].user IN
    u # Nobody /\ refresh[t].via = "password" /\ "password" \notin scars /\ users[u].changed = "update"
        => refresh[t].password = users[u].password

\* A token is spent once: a mailed one sets one password, however requests overlap
\* (whoever deletes it goes on), and a login token opens one session, unless two
\* sign-ins with it overlapped (it is only marked).
TokensSpentOnce == \A t \in Serials :
    /\ resets[t] <= 1
    /\ opened[t] <= 1 \/ "signInTotp" \in scars
===============================================================================
