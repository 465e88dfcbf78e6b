--------------------------- MODULE Accounts_proofs ---------------------------
(***************************************************************************)
(* Theorems about Accounts, for any number of browsers, users and          *)
(* requests.  Each invariant below is inductive on top of Typed.           *)
(***************************************************************************)
EXTENDS Accounts, FiniteSetTheorems, TLAPS

-----------------------------------------------------------------------------
(* Inductive invariants. *)

\* The awaited statements a request of each kind goes through.
Awaits ==
    {<<"none", "">>} \cup ({"signUp"} \X {"create", "session"}) \cup ({"signIn"} \X {"login", "session"})
    \cup ({"signInTotp"} \X {"use", "session"}) \cup ({"forgot"} \X {"drop", "mail"})
    \cup ({"reset"} \X {"drop", "store"}) \cup ({"password"} \X {"purge", "store", "session"})
    \cup ({"enable", "verify", "disable"} \X {"write"}) \cup ({"delete"} \X {"count", "erase"})

\* A request waits at a statement of its handler, for a user; a secret to be written is one.
RequestsWhole == \A b \in Browsers :
    /\ <<req[b].kind, req[b].at>> \in Awaits
    /\ req[b].kind # "none" => req[b].user \in Users /\ req[b].id \in Serials
    /\ req[b].kind \in {"enable", "verify"} => req[b].secret \in Secrets

Typed == TypeOK /\ RequestsWhole

\* Why an administrator is left: a deletion that counted them found another one than its
\* user, and is the only deletion; a sign-up that does not make one found users.
AdminLeft == scars \cap {"delete", "demoted"} = {} =>
    /\ (\E u \in Users : Exists(u)) => Admins # {}
    /\ \A b \in Browsers : At(b, "signUp", "create") /\ ~req[b].flag => Admins # {}
    /\ \A b \in Browsers : At(b, "delete", "count") => req[b].user \in Admins
    /\ \A b \in Browsers : At(b, "delete", "erase") => \E v \in Admins : v # req[b].user
    /\ \A b, c \in Browsers : req[b].kind = "delete" /\ req[c].kind = "delete" => b = c

\* Why one sign-up founds: the only one there is found no user, so none founded before.
OneFounder == scars \cap {"signUp", "delete", "demoted"} = {} =>
    /\ \A b, c \in Browsers : req[b].kind = "signUp" /\ req[c].kind = "signUp" => b = c
    /\ founders # {} => Admins # {}
    /\ \A b \in Browsers : At(b, "signUp", "create") /\ req[b].flag => founders = {}
    /\ \A x, y \in founders : x = y

\* Why the secret that counts was checked: it is still the one the request read.
SecretKept == "totp" \notin scars =>
    /\ \A u \in Users : users[u].verified => users[u].secret \in checked[u]
    /\ \A u \in Users : users[u].secret # NoSecret => users[u].enabled
    /\ \A b \in Browsers : Class(req[b].kind) = "totp" =>
        /\ users[req[b].user].is # "absent"
        /\ req[b].kind = "verify" /\ Exists(req[b].user) => users[req[b].user].secret = req[b].secret
        /\ req[b].kind = "enable" /\ Exists(req[b].user) => ~users[req[b].user].verified
        /\ \A c \in Browsers : Class(req[c].kind) = "totp" /\ req[c].user = req[b].user => b = c

\* Why the sessions are of the new password: the old ones are gone before it is stored,
\* and no request that read the old one is left.
SessionsPurged == "password" \notin scars =>
    /\ SessionsOfPassword
    /\ \A b \in Browsers : req[b].at = "session" /\ req[b].kind # "signInTotp"
                           /\ users[req[b].user].changed = "update"
            => req[b].word = users[req[b].user].password
    /\ \A b \in Browsers : At(b, "password", "store") =>
        \A t \in Serials : refresh[t].user = req[b].user => refresh[t].via # "password"
    /\ \A b \in Browsers : Class(req[b].kind) = "password" =>
        /\ users[req[b].user].is # "absent"
        /\ \A c \in Browsers \ {b} : req[c].user = req[b].user =>
            Class(req[c].kind) # "password" /\ ~At(c, "signUp", "session")

\* The serial numbers of the requests are their own.
IdsOwn ==
    /\ \A b \in Browsers : req[b].kind # "none" => req[b].id \in 1 .. sent
    /\ \A b, c \in Browsers : req[b].kind # "none" /\ req[c].kind # "none" /\ req[b].id = req[c].id => b = c

\* Why a mailed token sets one password: it is in its row, or in the hands of the one
\* request that deleted the row, or was never there or spent.
MailedOnce ==
    /\ \A u \in Users : reset[u] \in 0 .. sent
    /\ \A u, v \in Users : reset[u] = reset[v] /\ reset[u] # 0 => u = v
    /\ \A t \in Serials : resets[t] <= 1 /\ (resets[t] # 0 => t <= sent)
    /\ \A u \in Users : reset[u] # 0 =>
        /\ resets[reset[u]] = 0
        /\ \A b \in Browsers : At(b, "reset", "store") => req[b].token # reset[u]
    /\ \A b \in Browsers : req[b].kind = "forgot" =>
        /\ \A u \in Users : reset[u] # req[b].id
        /\ resets[req[b].id] = 0
        /\ \A c \in Browsers : req[c].kind = "reset" => req[c].token # req[b].id
    /\ \A b \in Browsers : req[b].kind = "reset" => req[b].token \in 1 .. sent
    /\ \A b \in Browsers : At(b, "reset", "store") =>
        /\ resets[req[b].token] = 0
        /\ \A c \in Browsers : At(c, "reset", "store") /\ req[c].token = req[b].token => b = c

\* A login token is its user's from the end of the sign-in on.
LoginsOwn ==
    /\ \A t \in Serials : t > sent => login[t].user = Nobody /\ opened[t] = 0
    /\ \A b \in Browsers : req[b].kind = "signIn" =>
        /\ login[req[b].id].user = Nobody /\ opened[req[b].id] = 0
        /\ \A c \in Browsers : req[c].kind = "signInTotp" => req[c].token # req[b].id
    /\ \A b \in Browsers : req[b].kind = "signInTotp" =>
        /\ req[b].token \in 1 .. sent
        /\ login[req[b].token].user \in {Nobody, req[b].user}

\* Why a login token opens one session: it is marked before, by the one request with it.
OpenedOnce == "signInTotp" \notin scars =>
    /\ \A t \in Serials : opened[t] <= 1 /\ (opened[t] # 0 => login[t].used \/ login[t].user = Nobody)
    /\ \A b \in Browsers : req[b].kind = "signInTotp" =>
        /\ opened[req[b].token] = 0
        /\ req[b].at = "session" => login[req[b].token].used \/ login[req[b].token].user = Nobody
        /\ \A c \in Browsers : req[c].kind = "signInTotp" /\ req[c].token = req[b].token => b = c

-----------------------------------------------------------------------------
(* What the parts of a handler do to the requests. *)

LEMMA Defaults ==
    /\ NoPassword \in Passwords /\ NoSession \in Session /\ NoLogin \in Login
    /\ Idle \in Request /\ NoCookies \in Cookies
<1>1. NoPassword \in Passwords
  BY SomeAssumption DEF NoPassword
<1>2. 0 \in Tokens
  BY BoundAssumption DEF Tokens
<1>3. NoSession \in Session /\ NoLogin \in Login
  BY <1>1 DEF NoSession, NoLogin, Session, Login
<1>4. NoCookies \in Cookies
  BY <1>2 DEF NoCookies, Cookies
<1>5. Idle \in Request
  BY <1>1, <1>2 DEF Idle, Request, Kinds, Steps
<1>6. QED BY <1>1, <1>3, <1>4, <1>5

LEMMA IdsType == ASSUME sent \in Tokens PROVE
    /\ Serials \subseteq Tokens /\ Tokens \subseteq Nat
    /\ \A t \in Tokens : t # 0 => t \in Serials
    /\ sent < MaxRequests => sent + 1 \in Serials /\ sent + 1 \in Tokens
BY BoundAssumption DEF Serials, Tokens

LEMMA Begun ==
    ASSUME TypeOK, NEW b \in Browsers, NEW q \in Request, Begin(b, q)
    PROVE  /\ req' \in [Browsers -> Request]
           /\ \A c \in Browsers \ {b} : req'[c] = req[c]
           /\ req[b].kind = "none"
           /\ req'[b].kind = q.kind /\ req'[b].at = q.at /\ req'[b].user = q.user
           /\ req'[b].token = q.token /\ req'[b].flag = q.flag /\ req'[b].word = q.word
           /\ req'[b].secret = q.secret /\ req'[b].id = sent + 1
           /\ sent + 1 \in Serials /\ sent' = sent + 1 /\ sent' \in Tokens
<1>1. sent + 1 \in Serials /\ sent + 1 \in Tokens
  BY IdsType DEF Begin, TypeOK
<1>2. [q EXCEPT !.id = sent + 1] \in Request
  BY <1>1 DEF Request
<1>3. QED BY <1>1, <1>2 DEF Begin, TypeOK, Request

LEMMA Went ==
    ASSUME TypeOK, NEW b \in Browsers, NEW at \in Steps, Goto(b, at)
    PROVE  /\ req' \in [Browsers -> Request]
           /\ \A c \in Browsers \ {b} : req'[c] = req[c]
           /\ req'[b].at = at
           /\ req'[b].kind = req[b].kind /\ req'[b].user = req[b].user /\ req'[b].id = req[b].id
           /\ req'[b].token = req[b].token /\ req'[b].flag = req[b].flag
           /\ req'[b].word = req[b].word /\ req'[b].secret = req[b].secret
<1>1. [req[b] EXCEPT !.at = at] \in Request
  BY DEF TypeOK, Request
<1>2. req' = [req EXCEPT ![b] = [req[b] EXCEPT !.at = at]]
  BY DEF Goto
<1>3. QED BY <1>1, <1>2 DEF TypeOK, Request

LEMMA Ended ==
    ASSUME TypeOK, NEW b \in Browsers, End(b)
    PROVE  /\ req' \in [Browsers -> Request]
           /\ \A c \in Browsers \ {b} : req'[c] = req[c]
           /\ req'[b] = Idle /\ req'[b].kind = "none" /\ req'[b].at = "" /\ req'[b].id = 0
BY Defaults DEF End, TypeOK, Idle

LEMMA IdleIsWhole == <<Idle.kind, Idle.at>> \in Awaits /\ Idle.kind = "none"
BY DEF Idle, Awaits

\* A request that begins is whole if it waits at a first statement.
LEMMA BegunWhole ==
    ASSUME Typed, NEW b \in Browsers, NEW q \in Request, Begin(b, q),
           <<q.kind, q.at>> \in Awaits, q.user \in Users,
           q.kind \in {"enable", "verify"} => q.secret \in Secrets
    PROVE  RequestsWhole'
<1>1. /\ \A c \in Browsers \ {b} : req'[c] = req[c]
      /\ req'[b].kind = q.kind /\ req'[b].at = q.at /\ req'[b].user = q.user
      /\ req'[b].secret = q.secret /\ req'[b].id \in Serials
  BY Begun DEF Typed
<1>2. <<req'[b].kind, req'[b].at>> \in Awaits
  BY <1>1
<1>3. QED BY <1>1, <1>2 DEF Typed, RequestsWhole

LEMMA WentWhole ==
    ASSUME Typed, NEW b \in Browsers, NEW at \in Steps, Goto(b, at), <<req[b].kind, at>> \in Awaits
    PROVE  RequestsWhole'
<1>1. /\ \A c \in Browsers \ {b} : req'[c] = req[c]
      /\ req'[b].kind = req[b].kind /\ req'[b].at = at /\ req'[b].user = req[b].user
      /\ req'[b].secret = req[b].secret /\ req'[b].id = req[b].id
  BY Went DEF Typed
<1>2. <<req'[b].kind, req'[b].at>> \in Awaits
  BY <1>1
<1>3. QED BY <1>1, <1>2 DEF Typed, RequestsWhole

LEMMA EndedWhole == ASSUME Typed, NEW b \in Browsers, End(b) PROVE RequestsWhole'
BY Ended, IdleIsWhole DEF Typed, RequestsWhole

LEMMA ScarsType ==
    ASSUME TypeOK, NEW b \in Browsers, NEW q \in Request, Begin(b, q)
    PROVE  scars' \subseteq Kinds \cup {"totp", "demoted"}
<1>1. Class(q.kind) \in Kinds \cup {"totp"}
  BY DEF Class, Request, Kinds
<1>2. QED BY <1>1 DEF Begin, TypeOK

\* A step that only begins a request.
LEMMA BeginTyped ==
    ASSUME Typed, NEW b \in Browsers, NEW q \in Request, Begin(b, q),
           <<q.kind, q.at>> \in Awaits, q.user \in Users,
           q.kind \in {"enable", "verify"} => q.secret \in Secrets
    PROVE  Typed'
<1>1. RequestsWhole'
  BY BegunWhole
<1>2. scars' \subseteq Kinds \cup {"totp", "demoted"}
  BY ScarsType DEF Typed
<1>3. req' \in [Browsers -> Request] /\ sent' \in Tokens
  BY Begun DEF Typed
<1>4. QED BY <1>1, <1>2, <1>3 DEF Begin, Typed, TypeOK, Exists, tokens

-----------------------------------------------------------------------------
(* Type correctness. *)

LEMMA RowType ==
    ASSUME TypeOK, NEW u \in Users
    PROVE  /\ users[u] \in Row
           /\ \A is \in {"absent", "member", "admin", "gone"}, p \in Passwords : New(is, p) \in Row
BY DEF TypeOK, New, Row

LEMMA TypedInit == Init => Typed
<1> SUFFICES ASSUME Init PROVE Typed
  OBVIOUS
<1>1. \A is \in {"absent", "member", "admin"} : New(is, NoPassword) \in Row
  BY Defaults DEF New, Row
<1>2. \A is \in {"member", "admin"} : WithFactor(is) \in Row
  <2>1. (CHOOSE s \in Secrets : TRUE) \in Secrets
    BY SomeAssumption
  <2>2. QED BY <2>1, Defaults DEF WithFactor, New, Row
<1>3. users \in [Users -> Row]
  BY <1>1, <1>2 DEF Init
<1>4. app \in [Users -> SUBSET Secrets]
  BY <1>3 DEF Init, Row
<1>5. 0 \in Tokens /\ 0 \in Nat
  BY BoundAssumption DEF Tokens
<1>6. ASSUME NEW c \in Cookies, NEW u \in Users \cup {Nobody} PROVE [c EXCEPT !.user = u] \in Cookies
  BY DEF Cookies
<1>7. browser \in [Browsers -> Cookies]
  <2>1. \A u \in Users \cup {Nobody} : [NoCookies EXCEPT !.user = u] \in Cookies
    BY <1>6, Defaults
  <2> DEFINE C == {[NoCookies EXCEPT !.user = u] : u \in {Nobody} \cup {v \in Users : Exists(v)}}
  <2>2. C \subseteq Cookies
    BY <2>1
  <2>3. browser \in [Browsers -> C]
    BY DEF Init
  <2> HIDE DEF C
  <2>4. QED BY <2>2, <2>3
<1>8. \A t \in Serials : refresh[t].user = Nobody /\ login[t].user = Nobody
  <2>1. NoSession.user = Nobody /\ NoLogin.user = Nobody
    BY DEF NoSession, NoLogin
  <2>2. QED BY <2>1 DEF Init
<1>9. TypeOK
  BY <1>3, <1>4, <1>5, <1>7, <1>8, Defaults DEF Init, TypeOK
<1>10. RequestsWhole
  BY IdleIsWhole DEF Init, RequestsWhole
<1>11. QED BY <1>9, <1>10 DEF Typed

-----------------------------------------------------------------------------
(* The request each handler begins with. *)

LEMMA SignUpBegins ==
    ASSUME Typed, NEW b \in Browsers, SignUp(b)
    PROVE  \E q \in Request :
               /\ Begin(b, q) /\ q.kind = "signUp" /\ q.at = "create" /\ q.user \in Users
               /\ q.flag <=> \A v \in Users : ~Exists(v)
<1> DEFINE Q(u) == [Idle EXCEPT !.kind = "signUp", !.at = "create", !.user = u,
                                !.flag = \A v \in Users : ~Exists(v)]
<1>1. PICK u \in Users : Begin(b, Q(u))
  BY DEF SignUp
<1>2. Q(u) \in Request /\ Q(u).kind = "signUp" /\ Q(u).at = "create" /\ Q(u).user = u
  BY Defaults DEF Request, Kinds, Steps
<1>3. Q(u).flag <=> \A v \in Users : ~Exists(v)
  BY DEF Idle
<1> HIDE DEF Q
<1>4. QED BY <1>1, <1>2, <1>3

LEMMA SignInBegins ==
    ASSUME Typed, NEW b \in Browsers, SignIn(b)
    PROVE  \E q \in Request :
               /\ Begin(b, q) /\ q.kind = "signIn" /\ q.at \in {"login", "session"}
               /\ q.user \in Users /\ Exists(q.user) /\ q.word = users[q.user].password
<1> DEFINE Q(u) == [Idle EXCEPT !.kind = "signIn", !.at = IF users[u].verified THEN "login" ELSE "session",
                                !.user = u, !.word = users[u].password]
<1>1. PICK u \in Users : Exists(u) /\ Begin(b, Q(u))
  BY DEF SignIn
<1>2. users[u].password \in Passwords
  BY RowType DEF Row, Typed
<1>3. /\ Q(u) \in Request /\ Q(u).kind = "signIn" /\ Q(u).at \in {"login", "session"}
      /\ Q(u).user = u /\ Q(u).word = users[u].password
  BY <1>2, Defaults DEF Request, Kinds, Steps
<1> HIDE DEF Q
<1>4. QED BY <1>1, <1>3

LEMMA SignInTotpBegins ==
    ASSUME Typed, NEW b \in Browsers, SignInTotp(b)
    PROVE  \E q \in Request :
               /\ Begin(b, q) /\ q.kind = "signInTotp" /\ q.at = "use" /\ q.user \in Users
               /\ q.token \in Serials /\ q.user = login[q.token].user /\ ~login[q.token].used
<1> DEFINE t == browser[b].login
           q == [Idle EXCEPT !.kind = "signInTotp", !.at = "use", !.user = login[t].user,
                             !.token = t, !.word = login[t].password]
<1>1. t \in Serials /\ login[t].user # Nobody /\ ~login[t].used /\ Begin(b, q)
  BY IdsType DEF SignInTotp, Typed, TypeOK, Cookies
<1>2. login[t].user \in Users /\ login[t].password \in Passwords /\ t \in Tokens
  BY <1>1, IdsType DEF Typed, TypeOK, Login
<1>3. /\ q \in Request /\ q.kind = "signInTotp" /\ q.at = "use" /\ q.user = login[t].user
      /\ q.token = t
  BY <1>2, Defaults DEF Request, Kinds, Steps
<1> HIDE DEF q
<1>4. QED BY <1>1, <1>2, <1>3

LEMMA ForgotBegins ==
    ASSUME Typed, NEW b \in Browsers, Forgot(b)
    PROVE  \E q \in Request :
               Begin(b, q) /\ q.kind = "forgot" /\ q.at \in {"drop", "mail"} /\ q.user \in Users
<1> DEFINE Q(u) == [Idle EXCEPT !.kind = "forgot", !.user = u, !.token = reset[u],
                                !.at = IF reset[u] = 0 THEN "mail" ELSE "drop"]
<1>1. PICK u \in Users : Begin(b, Q(u))
  BY DEF Forgot
<1>2. reset[u] \in Tokens
  BY DEF Typed, TypeOK
<1>3. Q(u) \in Request /\ Q(u).kind = "forgot" /\ Q(u).at \in {"drop", "mail"} /\ Q(u).user = u
  BY <1>2, Defaults DEF Request, Kinds, Steps
<1> HIDE DEF Q
<1>4. QED BY <1>1, <1>3

LEMMA ResetBegins ==
    ASSUME Typed, NEW b \in Browsers, Reset(b)
    PROVE  \E q \in Request :
               /\ Begin(b, q) /\ q.kind = "reset" /\ q.at = "drop" /\ q.user \in Users
               /\ q.token = reset[q.user] /\ reset[q.user] # 0
<1> DEFINE Q(u, p) == [Idle EXCEPT !.kind = "reset", !.at = "drop", !.user = u, !.token = reset[u],
                                   !.word = p]
<1>1. PICK u \in Users, p \in Passwords : reset[u] # 0 /\ Begin(b, Q(u, p))
  BY DEF Reset
<1>2. reset[u] \in Tokens
  BY DEF Typed, TypeOK
<1>3. /\ Q(u, p) \in Request /\ Q(u, p).kind = "reset" /\ Q(u, p).at = "drop"
      /\ Q(u, p).user = u /\ Q(u, p).token = reset[u]
  BY <1>2, Defaults DEF Request, Kinds, Steps
<1> HIDE DEF Q
<1>4. QED BY <1>1, <1>3

LEMMA PasswordBegins ==
    ASSUME Typed, NEW b \in Browsers, Password(b)
    PROVE  \E q \in Request :
               /\ Begin(b, q) /\ q.kind = "password" /\ q.at = "purge"
               /\ q.user \in Users /\ Exists(q.user)
<1> DEFINE Q(p) == [Idle EXCEPT !.kind = "password", !.at = "purge", !.user = Me(b), !.word = p]
<1>1. PICK p \in Passwords : Begin(b, Q(p))
  BY DEF Password
<1>2. Me(b) \in Users /\ Exists(Me(b))
  BY DEF Password, SignedIn, Exists
<1>3. Q(p) \in Request /\ Q(p).kind = "password" /\ Q(p).at = "purge" /\ Q(p).user = Me(b)
  BY <1>2, Defaults DEF Request, Kinds, Steps
<1> HIDE DEF Q
<1>4. QED BY <1>1, <1>2, <1>3

LEMMA EnableBegins ==
    ASSUME Typed, NEW b \in Browsers, Enable(b)
    PROVE  \E q \in Request :
               /\ Begin(b, q) /\ q.kind = "enable" /\ q.at = "write" /\ q.secret \in Secrets
               /\ q.user \in Users /\ Exists(q.user) /\ ~users[q.user].verified
<1> DEFINE Q(s) == [Idle EXCEPT !.kind = "enable", !.at = "write", !.user = Me(b), !.secret = s]
<1>1. PICK s \in NextSecrets(Me(b)) : Begin(b, Q(s))
  BY DEF Enable
<1>2. Me(b) \in Users /\ Exists(Me(b)) /\ ~users[Me(b)].verified
  BY DEF Enable, SignedIn, Exists
<1>3. s \in Secrets
  BY <1>1, <1>2 DEF NextSecrets, Typed, TypeOK
<1>4. Q(s) \in Request /\ Q(s).kind = "enable" /\ Q(s).at = "write" /\ Q(s).user = Me(b) /\ Q(s).secret = s
  BY <1>2, <1>3, Defaults DEF Request, Kinds, Steps
<1> HIDE DEF Q
<1>5. QED BY <1>1, <1>2, <1>3, <1>4

LEMMA CheckCodeBegins ==
    ASSUME Typed, NEW b \in Browsers, NEW k \in {"verify", "disable"}, CheckCode(b, k)
    PROVE  \E q \in Request :
               /\ Begin(b, q) /\ q.kind = k /\ q.at = "write" /\ q.secret \in Secrets
               /\ q.user \in Users /\ Exists(q.user) /\ q.secret = users[q.user].secret
<1> DEFINE q == [Idle EXCEPT !.kind = k, !.at = "write", !.user = Me(b), !.secret = users[Me(b)].secret]
<1>1. Me(b) \in Users /\ Exists(Me(b)) /\ Begin(b, q) /\ users[Me(b)].secret \in app[Me(b)]
  BY DEF CheckCode, SignedIn, Exists
<1>2. users[Me(b)].secret \in Secrets
  BY <1>1 DEF Typed, TypeOK
<1>3. q \in Request /\ q.kind = k /\ q.at = "write" /\ q.user = Me(b) /\ q.secret = users[Me(b)].secret
  BY <1>1, <1>2, Defaults DEF Request, Kinds, Steps
<1> HIDE DEF q
<1>4. QED BY <1>1, <1>2, <1>3

LEMMA DeleteBegins ==
    ASSUME Typed, NEW b \in Browsers, Delete(b)
    PROVE  \E q \in Request :
               /\ Begin(b, q) /\ q.kind = "delete" /\ q.user \in Users /\ Exists(q.user)
               /\ q.at = IF q.user \in Admins THEN "count" ELSE "erase"
<1> DEFINE Q(u) == [Idle EXCEPT !.kind = "delete", !.user = u,
                                !.at = IF u \in Admins THEN "count" ELSE "erase"]
<1>1. PICK u \in Users : Exists(u) /\ Begin(b, Q(u))
  BY DEF Delete
<1>2. /\ Q(u) \in Request /\ Q(u).kind = "delete" /\ Q(u).user = u
      /\ Q(u).at = IF u \in Admins THEN "count" ELSE "erase"
  BY Defaults DEF Request, Kinds, Steps
<1> HIDE DEF Q
<1>3. QED BY <1>1, <1>2

Starts(b) ==
    \/ SignUp(b) \/ SignIn(b) \/ SignInTotp(b) \/ Forgot(b) \/ Reset(b) \/ Password(b)
    \/ Enable(b) \/ CheckCode(b, "verify") \/ CheckCode(b, "disable") \/ Delete(b)

-----------------------------------------------------------------------------
(* Type correctness of the steps. *)

LEMMA TypedBegin == ASSUME Typed, NEW b \in Browsers, Starts(b) PROVE Typed'
<1>1. ASSUME SignUp(b) PROVE Typed'
  BY <1>1, SignUpBegins, BeginTyped DEF Awaits
<1>2. ASSUME SignIn(b) PROVE Typed'
  BY <1>2, SignInBegins, BeginTyped DEF Awaits
<1>3. ASSUME SignInTotp(b) PROVE Typed'
  BY <1>3, SignInTotpBegins, BeginTyped DEF Awaits
<1>4. ASSUME Forgot(b) PROVE Typed'
  BY <1>4, ForgotBegins, BeginTyped DEF Awaits
<1>5. ASSUME Reset(b) PROVE Typed'
  BY <1>5, ResetBegins, BeginTyped DEF Awaits
<1>6. ASSUME Password(b) PROVE Typed'
  BY <1>6, PasswordBegins, BeginTyped DEF Awaits
<1>7. ASSUME Enable(b) PROVE Typed'
  BY <1>7, EnableBegins, BeginTyped DEF Awaits
<1>8. ASSUME NEW k \in {"verify", "disable"}, CheckCode(b, k) PROVE Typed'
  BY <1>8, CheckCodeBegins, BeginTyped DEF Awaits
<1>9. ASSUME Delete(b) PROVE Typed'
  BY <1>9, DeleteBegins, BeginTyped DEF Awaits
<1>10. QED BY <1>1, <1>2, <1>3, <1>4, <1>5, <1>6, <1>7, <1>8, <1>9 DEF Starts

\* No user goes: the tokens stay those of users that exist.
LEMMA UsersStay ==
    ASSUME TypeOK, UNCHANGED tokens, \A u \in Users : Exists(u) => Exists(u)'
    PROVE  /\ (\A t \in Serials : \A u \in {refresh[t].user, login[t].user} : Exists(u) \/ u = Nobody)'
           /\ (\A u \in Users : Exists(u) \/ reset[u] = 0)'
<1>1. \A u : Exists(u) => u \in Users
  BY DEF Exists
<1>2. QED BY <1>1 DEF TypeOK, tokens

LEMMA OpenTyped ==
    ASSUME Typed, NEW b \in Browsers, NEW via \in {"password", "totp"}, OpenSession(b, via),
           req[b].kind # "none", UNCHANGED users
    PROVE  /\ req' \in [Browsers -> Request] /\ RequestsWhole'
           /\ refresh' \in [Serials -> Session] /\ browser' \in [Browsers -> Cookies]
           /\ \A t \in Serials : Exists(refresh'[t].user) \/ refresh'[t].user = Nobody
<1> DEFINE q == req[b]
           s == [NoSession EXCEPT !.user = q.user, !.password = q.word, !.via = via]
           k == [browser[b] EXCEPT !.refresh = q.id,
                    !.user = IF q.kind = "password" THEN @ ELSE q.user,
                    !.session = IF q.kind = "password" THEN @ ELSE q.id]
<1>1. q.user \in Users /\ q.word \in Passwords /\ q.id \in Tokens
  BY DEF Typed, RequestsWhole, TypeOK, Request
<1>2. s \in Session /\ s.user = q.user
  BY <1>1, Defaults DEF Session
<1>3. k \in Cookies
  BY <1>1 DEF Cookies, Typed, TypeOK
<1>4. /\ \/ refresh' = [refresh EXCEPT ![q.id] = s] /\ Exists(q.user)
         \/ UNCHANGED refresh
      /\ browser' = [browser EXCEPT ![b] = k] \/ UNCHANGED browser
  BY DEF OpenSession, Typed, TypeOK
<1>5. req' \in [Browsers -> Request] /\ RequestsWhole'
  BY Ended, EndedWhole DEF OpenSession, Typed
<1> HIDE DEF s, k
<1>6. refresh' \in [Serials -> Session] /\ browser' \in [Browsers -> Cookies]
  BY <1>2, <1>3, <1>4 DEF Typed, TypeOK
<1>7. ASSUME NEW t \in Serials PROVE Exists(refresh'[t].user) \/ refresh'[t].user = Nobody
  <2>1. Exists(refresh[t].user) \/ refresh[t].user = Nobody
    BY DEF Typed, TypeOK
  <2>2. \/ refresh'[t] = refresh[t]
        \/ refresh'[t] = s /\ Exists(q.user)
    BY <1>4 DEF Typed, TypeOK
  <2>3. QED BY <1>2, <2>1, <2>2
<1>8. QED BY <1>5, <1>6, <1>7

LEMMA TypedSignUpCreate == ASSUME Typed, NEW b \in Browsers, SignUpCreate(b) PROVE Typed'
<1> DEFINE q == req[b]
<1>0. /\ TypeOK /\ q.user \in Users /\ q.word \in Passwords /\ q.id \in Serials
      /\ q.kind = "signUp" /\ q.at = "create"
  BY DEF SignUpCreate, At, Typed, RequestsWhole, TypeOK, Request, Tokens, Serials
<1>1. CASE users[q.user].is # "absent"
  BY <1>0, <1>1, Ended, EndedWhole DEF SignUpCreate, Typed, TypeOK, tokens, Exists
<1>2. CASE users[q.user].is = "absent"
  <2>1. Goto(b, "session") /\ RequestsWhole' /\ req' \in [Browsers -> Request]
    BY <1>0, <1>2, WentWhole, Went DEF SignUpCreate, Steps, Awaits
  <2>2. PICK r \in Row : /\ users' = [users EXCEPT ![q.user] = r]
                         /\ r.is \in {"admin", "member"}
    <3>1. ASSUME NEW is \in {"admin", "member"} PROVE New(is, q.word) \in Row /\ New(is, q.word).is = is
      BY <1>0 DEF New, Row
    <3>2. QED BY <1>2, <3>1 DEF SignUpCreate
  <2>3. users' \in [Users -> Row] /\ \A u \in Users : Exists(u) => Exists(u)'
    BY <1>0, <2>2 DEF TypeOK, Exists
  <2>4. founders' \subseteq Serials
    BY <1>0, <1>2 DEF SignUpCreate, TypeOK
  <2>5. QED BY <1>0, <1>2, <2>1, <2>3, <2>4, UsersStay DEF SignUpCreate, Typed, TypeOK, tokens
<1>3. QED BY <1>1, <1>2

LEMMA TypedSessions ==
    ASSUME Typed, NEW b \in Browsers, CreateSession(b) \/ TotpSession(b)
    PROVE  Typed'
<1>1. CASE CreateSession(b)
  <2>1. req[b].kind # "none"
    BY <1>1 DEF CreateSession, Typed, RequestsWhole, Awaits
  <2>2. QED BY <1>1, <2>1, OpenTyped DEF CreateSession, history, Typed, TypeOK, Exists
<1>2. CASE TotpSession(b)
  <2> DEFINE k == req[b].token
             n == IF Exists(req[b].user) THEN opened[k] + 1 ELSE opened[k]
  <2>1. opened' = [opened EXCEPT ![k] = n]
    BY <1>2 DEF TotpSession
  <2>2. k \in Serials => n \in Nat
    BY DEF Typed, TypeOK
  <2> HIDE DEF n
  <2>3. opened' \in [Serials -> Nat]
    BY <2>1, <2>2 DEF Typed, TypeOK
  <2>4. QED BY <1>2, <2>3, OpenTyped DEF TotpSession, At, Typed, TypeOK, Exists
<1>3. QED BY <1>1, <1>2

LEMMA TypedLogins ==
    ASSUME Typed, NEW b \in Browsers, CreateLogin(b) \/ UseLogin(b)
    PROVE  Typed'
<1> DEFINE q == req[b]
<1>0. TypeOK
  BY DEF Typed
<1>1. CASE CreateLogin(b)
  <2> DEFINE l == [NoLogin EXCEPT !.user = q.user, !.password = q.word]
             k == [browser[b] EXCEPT !.login = q.id]
  <2>1. q.user \in Users /\ q.word \in Passwords /\ q.id \in Tokens
    BY <1>1 DEF CreateLogin, At, Typed, RequestsWhole, TypeOK, Request
  <2>2. l \in Login /\ l.user = q.user /\ k \in Cookies
    BY <1>0, <2>1, Defaults DEF Login, Cookies, TypeOK
  <2>3. \/ Exists(q.user) /\ login' = [login EXCEPT ![q.id] = l] /\ browser' = [browser EXCEPT ![b] = k]
        \/ UNCHANGED <<login, browser>>
    BY <1>0, <1>1 DEF CreateLogin, TypeOK
  <2>4. req' \in [Browsers -> Request] /\ RequestsWhole'
    BY <1>0, <1>1, Ended, EndedWhole DEF CreateLogin
  <2> HIDE DEF l, k
  <2>5. login' \in [Serials -> Login] /\ browser' \in [Browsers -> Cookies]
    BY <1>0, <2>2, <2>3 DEF TypeOK
  <2>6. \A t \in Serials : Exists(login'[t].user) \/ login'[t].user = Nobody
    BY <1>0, <2>2, <2>3 DEF TypeOK
  <2>7. QED BY <1>0, <1>1, <2>4, <2>5, <2>6 DEF CreateLogin, history, Typed, TypeOK, Exists
<1>2. CASE UseLogin(b)
  <2>1. req' \in [Browsers -> Request] /\ RequestsWhole'
    BY <1>0, <1>2, Ended, EndedWhole, Went, WentWhole DEF UseLogin, At, Awaits, Steps
  <2>2. login' \in [Serials -> Login] /\ \A t \in Serials : login'[t].user = login[t].user
    <3> DEFINE l == [login[q.token] EXCEPT !.used = TRUE]
    <3>1. \/ login' = [login EXCEPT ![q.token] = l]
          \/ UNCHANGED login
      BY <1>2 DEF UseLogin
    <3>2. q.token \in Serials => l \in Login /\ l.user = login[q.token].user
      BY <1>0 DEF TypeOK, Login
    <3> HIDE DEF l
    <3>3. QED BY <1>0, <3>1, <3>2 DEF TypeOK
  <2>3. QED BY <1>0, <1>2, <2>1, <2>2 DEF UseLogin, history, Typed, TypeOK, Exists
<1>3. QED BY <1>1, <1>2

LEMMA TypedMailed ==
    ASSUME Typed, NEW b \in Browsers, ForgotDrop(b) \/ ForgotMail(b) \/ ResetDrop(b) \/ ResetStore(b)
    PROVE  Typed'
<1> DEFINE q == req[b]
<1>00. TypeOK /\ q.kind # "none"
  BY DEF ForgotDrop, ForgotMail, ResetDrop, ResetStore, At, Typed
<1>01. 0 \in Tokens
  BY BoundAssumption DEF Tokens
<1>0. TypeOK /\ q.user \in Users /\ q.id \in Tokens /\ q.word \in Passwords /\ 0 \in Tokens
  BY <1>00, <1>01 DEF Typed, RequestsWhole, TypeOK, Request
<1>1. CASE ForgotDrop(b) \/ ForgotMail(b) \/ ResetDrop(b)
  <2>1. req' \in [Browsers -> Request] /\ RequestsWhole'
    BY <1>0, <1>1, Ended, EndedWhole, Went, WentWhole
    DEF ForgotDrop, ForgotMail, ResetDrop, At, Awaits, Steps
  <2>2. \/ Exists(q.user) /\ reset' = [reset EXCEPT ![q.user] = q.id]
        \/ reset' = [reset EXCEPT ![q.user] = 0]
        \/ UNCHANGED reset
    BY <1>1 DEF ForgotDrop, ForgotMail, ResetDrop
  <2>3. reset' \in [Users -> Tokens] /\ \A u \in Users : Exists(u) \/ reset'[u] = 0
    BY <1>0, <2>2 DEF TypeOK
  <2>4. QED BY <1>0, <1>1, <2>1, <2>3
            DEF ForgotDrop, ForgotMail, ResetDrop, history, Typed, TypeOK, Exists
<1>2. CASE ResetStore(b)
  <2>1. req' \in [Browsers -> Request] /\ RequestsWhole'
    BY <1>0, <1>2, Ended, EndedWhole DEF ResetStore
  <2>2. users' \in [Users -> Row] /\ \A u \in Users : Exists(u) => Exists(u)'
    <3> DEFINE r == [users[q.user] EXCEPT !.password = q.word, !.changed = "reset"]
    <3>1. users[q.user] \in Row
      BY <1>0 DEF TypeOK
    <3>11. r \in Row /\ r.is = users[q.user].is
      BY <1>0, <3>1 DEF Row
    <3>2. \/ users' = [users EXCEPT ![q.user] = r]
          \/ UNCHANGED users
      BY <1>0, <1>2 DEF ResetStore, TypeOK
    <3> HIDE DEF r
    <3>3. QED BY <1>0, <3>11, <3>2 DEF TypeOK, Exists
  <2>3. resets' \in [Serials -> Nat]
    <3> DEFINE n == resets[q.token] + 1
    <3>1. resets' = [resets EXCEPT ![q.token] = n]
      BY <1>2 DEF ResetStore
    <3>2. q.token \in Serials => n \in Nat
      BY <1>0 DEF TypeOK
    <3> HIDE DEF n
    <3>3. QED BY <1>0, <3>1, <3>2 DEF TypeOK
  <2>4. QED BY <1>0, <1>2, <2>1, <2>2, <2>3, UsersStay DEF ResetStore, tokens, Typed, TypeOK
<1>3. QED BY <1>1, <1>2

\* A row with another password, and so on; the rest of it stays.
LEMMA NewPassword ==
    ASSUME TypeOK, NEW u \in Users, NEW p \in Passwords, NEW c \in {"update", "reset", "admin"},
           users' = [users EXCEPT ![u].password = p, ![u].changed = c]
    PROVE  /\ users' \in [Users -> Row] /\ \A v \in Users : Exists(v) <=> Exists(v)'
           /\ \A v \in Users : users'[v] = IF v = u THEN [users[u] EXCEPT !.password = p, !.changed = c]
                                           ELSE users[v]
<1> DEFINE r == [users[u] EXCEPT !.password = p, !.changed = c]
<1>1. users[u] \in Row
  BY DEF TypeOK
<1>2. r \in Row /\ r.is = users[u].is
  BY <1>1 DEF Row
<1>3. users' = [users EXCEPT ![u] = r]
  BY DEF TypeOK
<1> HIDE DEF r
<1>4. users' \in [Users -> Row] /\ \A v \in Users : users'[v] = IF v = u THEN r ELSE users[v]
  BY <1>2, <1>3 DEF TypeOK
<1>5. \A v \in Users : Exists(v) <=> Exists(v)'
  BY <1>2, <1>4 DEF Exists
<1>6. QED BY <1>4, <1>5 DEF r

LEMMA TypedPasswords ==
    ASSUME Typed, NEW b \in Browsers, PurgeSessions(b) \/ StorePassword(b)
    PROVE  Typed'
<1> DEFINE q == req[b]
<1>1. TypeOK /\ q.user \in Users /\ q.word \in Passwords
  BY DEF PurgeSessions, StorePassword, At, Typed, RequestsWhole, TypeOK, Request
<1>2. req' \in [Browsers -> Request] /\ RequestsWhole'
  BY <1>1, Ended, EndedWhole, Went, WentWhole DEF PurgeSessions, StorePassword, At, Awaits, Steps
<1>3. CASE PurgeSessions(b)
  <2>1. refresh' \in [Serials -> Session]
    BY <1>1, <1>3, Defaults DEF PurgeSessions, TypeOK
  <2>2. \A t \in Serials : Exists(refresh'[t].user) \/ refresh'[t].user = Nobody
    BY <1>1, <1>3 DEF PurgeSessions, TypeOK, NoSession
  <2>3. QED BY <1>1, <1>2, <1>3, <2>1, <2>2 DEF PurgeSessions, history, Typed, TypeOK, Exists
<1>4. CASE StorePassword(b)
  <2>1. users' \in [Users -> Row] /\ \A v \in Users : Exists(v) => Exists(v)'
    BY <1>1, <1>4, NewPassword DEF StorePassword, TypeOK, Exists
  <2>2. QED BY <1>1, <1>2, <1>4, <2>1, UsersStay DEF StorePassword, tokens, history, Typed, TypeOK
<1>5. QED BY <1>3, <1>4

LEMMA TypedWriteTotp == ASSUME Typed, NEW b \in Browsers, WriteTotp(b) PROVE Typed'
<1> DEFINE q == req[b]
           row == users[q.user]
<1>1. q.kind \in {"enable", "verify", "disable"}
  BY DEF WriteTotp, Typed, RequestsWhole, Awaits
<1>2. TypeOK /\ q.user \in Users /\ (q.kind # "disable" => q.secret \in Secrets)
  BY <1>1 DEF Typed, RequestsWhole
<1>3. row \in Row
  BY <1>2 DEF TypeOK
<1>4. \/ UNCHANGED users
      \/ \E r \in Row : users' = [users EXCEPT ![q.user] = r] /\ r.is = row.is
  <2>1. [row EXCEPT !.enabled = FALSE, !.verified = FALSE, !.secret = NoSecret] \in Row
    BY <1>3 DEF Row
  <2>2. [row EXCEPT !.verified = TRUE] \in Row
    BY <1>3 DEF Row
  <2>3. q.kind = "enable" => [row EXCEPT !.enabled = TRUE, !.secret = q.secret] \in Row
    BY <1>2, <1>3 DEF Row
  <2>4. /\ [row EXCEPT !.enabled = FALSE, !.verified = FALSE, !.secret = NoSecret].is = row.is
        /\ [row EXCEPT !.verified = TRUE].is = row.is
        /\ [row EXCEPT !.enabled = TRUE, !.secret = q.secret].is = row.is
    BY <1>3 DEF Row
  <2>5. QED BY <2>1, <2>2, <2>3, <2>4 DEF WriteTotp
<1>5. users' \in [Users -> Row] /\ \A v \in Users : Exists(v) => Exists(v)'
  BY <1>2, <1>4 DEF TypeOK, Exists
<1>6. app' \in [Users -> SUBSET Secrets] /\ checked' \in [Users -> SUBSET Secrets]
  BY <1>1, <1>2 DEF WriteTotp, TypeOK
<1>7. req' \in [Browsers -> Request] /\ RequestsWhole'
  BY <1>2, Ended, EndedWhole DEF WriteTotp
<1>8. QED BY <1>2, <1>5, <1>6, <1>7, UsersStay DEF WriteTotp, tokens, Typed, TypeOK

LEMMA TypedDeletion == ASSUME Typed, NEW b \in Browsers, CountAdmins(b) \/ Erase(b) PROVE Typed'
<1> DEFINE u == req[b].user
<1>00. req[b].kind = "delete" /\ 0 \in Tokens
  BY BoundAssumption DEF CountAdmins, Erase, At, Tokens
<1>1. TypeOK /\ u \in Users /\ 0 \in Tokens
  BY <1>00 DEF Typed, RequestsWhole
<1>2. req' \in [Browsers -> Request] /\ RequestsWhole'
  BY <1>1, Ended, EndedWhole, Went, WentWhole DEF CountAdmins, Erase, At, Awaits, Steps
<1>3. CASE CountAdmins(b)
  BY <1>1, <1>2, <1>3 DEF CountAdmins, tokens, history, Typed, TypeOK, Exists
<1>4. CASE Erase(b)
  <2>1. New("gone", NoPassword) \in Row
    BY <1>1, RowType, Defaults
  <2>2. users' \in [Users -> Row] /\ \A v \in Users \ {u} : Exists(v) => Exists(v)'
    BY <1>1, <1>4, <2>1 DEF Erase, TypeOK, Exists
  <2>3. refresh' \in [Serials -> Session] /\ login' \in [Serials -> Login] /\ reset' \in [Users -> Tokens]
    BY <1>1, <1>4, Defaults DEF Erase, TypeOK
  <2>4. \A t \in Serials : \A v \in {refresh'[t].user, login'[t].user} : v = Nobody \/ (v # u /\ Exists(v))
    BY <1>1, <1>4 DEF Erase, TypeOK, NoSession, NoLogin
  <2>5. \A v \in Users \ {u} : Exists(v) \/ reset[v] = 0
    BY <1>1 DEF TypeOK
  <2>6. \A v \in Users : Exists(v)' \/ reset'[v] = 0
    BY <1>1, <1>4, <2>2, <2>5 DEF Erase, TypeOK
  <2>7. browser' \in [Browsers -> Cookies]
    <3> DEFINE k == [NoCookies EXCEPT !.login = browser[b].login]
    <3>1. k \in Cookies
      BY <1>1, Defaults DEF Cookies, TypeOK
    <3>2. browser' = [browser EXCEPT ![b] = k] \/ UNCHANGED browser
      BY <1>4 DEF Erase
    <3> HIDE DEF k
    <3>3. QED BY <1>1, <3>1, <3>2 DEF TypeOK
  <2>8. \A t \in Serials : \A v \in {refresh'[t].user, login'[t].user} : v = Nobody \/ Exists(v)'
    BY <2>2, <2>4 DEF Exists
  <2>9. QED BY <1>1, <1>2, <1>4, <2>2, <2>3, <2>6, <2>7, <2>8 DEF Erase, history, Typed, TypeOK
<1>5. QED BY <1>3, <1>4

LEMMA TypedAdmin == ASSUME Typed, NEW b \in Browsers, AdminUpdate(b) \/ AdminCreate(b) PROVE Typed'
<1>1. TypeOK /\ UNCHANGED <<tokens, browser, req, app, checked, founders, resets, opened>>
  BY DEF AdminUpdate, AdminCreate, history, Typed
<1>2. sent' \in Tokens
  BY <1>1, IdsType DEF AdminUpdate, AdminCreate, TypeOK
<1>3. scars' \subseteq Kinds \cup {"totp", "demoted"}
  BY <1>1 DEF AdminUpdate, AdminCreate, history, TypeOK
<1>4. users' \in [Users -> Row] /\ \A v \in Users : Exists(v) => Exists(v)'
  <2>1. ASSUME NEW u \in Users, NEW is \in {"member", "admin"}, users' = [users EXCEPT ![u].is = is]
        PROVE  users' \in [Users -> Row] /\ \A v \in Users : Exists(v) => Exists(v)'
    <3>1. users[u] \in Row
      BY <1>1 DEF TypeOK
    <3>2. [users[u] EXCEPT !.is = is] \in Row /\ [users[u] EXCEPT !.is = is].is = is
      BY <3>1 DEF Row
    <3>3. users' = [users EXCEPT ![u] = [users[u] EXCEPT !.is = is]]
      BY <2>1
    <3>4. QED BY <1>1, <3>2, <3>3 DEF TypeOK, Exists
  <2>2. ASSUME NEW u \in Users, NEW p \in Passwords,
               users' = [users EXCEPT ![u].password = p, ![u].changed = "admin"]
        PROVE  users' \in [Users -> Row] /\ \A v \in Users : Exists(v) => Exists(v)'
    BY <1>1, <2>2, NewPassword
  <2>3. ASSUME NEW u \in Users, NEW is \in {"member", "admin"},
               users' = [users EXCEPT ![u] = New(is, NoPassword)]
        PROVE  users' \in [Users -> Row] /\ \A v \in Users : Exists(v) => Exists(v)'
    <3>1. New(is, NoPassword) \in Row /\ New(is, NoPassword).is = is
      BY Defaults DEF New, Row
    <3>2. QED BY <1>1, <2>3, <3>1 DEF TypeOK, Exists
  <2>4. QED BY <2>1, <2>2, <2>3 DEF AdminUpdate, AdminCreate
<1>5. RequestsWhole'
  BY <1>1 DEF Typed, RequestsWhole
<1>6. QED BY <1>1, <1>2, <1>3, <1>4, <1>5, UsersStay DEF Typed, TypeOK, tokens

LEMMA TypedCookies ==
    ASSUME Typed, NEW b \in Browsers, Refresh(b) \/ SignOut(b) \/ Lapse(b)
    PROVE  Typed'
<1>1. TypeOK /\ UNCHANGED <<users, login, reset, req, app, sent, history>>
  BY DEF Refresh, SignOut, Lapse, tokens, Typed
<1>2. RequestsWhole'
  BY <1>1 DEF Typed, RequestsWhole
<1>3. browser[b] \in Cookies /\ 0 \in Tokens
  BY <1>1, BoundAssumption DEF TypeOK, Tokens
<1>4. refresh' \in [Serials -> Session]
      /\ \A t \in Serials : Exists(refresh'[t].user) \/ refresh'[t].user = Nobody
  BY <1>1, Defaults DEF Refresh, SignOut, Lapse, tokens, TypeOK, NoSession
<1>5. \E k \in Cookies : browser' = [browser EXCEPT ![b] = k]
  <2>1. CASE Refresh(b)
    <3> DEFINE t == browser[b].refresh
    <3>1. t \in Serials /\ t \in Tokens
      BY <1>1, <1>3, <2>1, IdsType DEF Refresh, Cookies, TypeOK
    <3>2. refresh[t].user \in Users \cup {Nobody}
      BY <1>1, <3>1 DEF TypeOK, Session
    <3>3. [browser[b] EXCEPT !.user = refresh[t].user, !.session = t] \in Cookies
      BY <1>3, <3>1, <3>2 DEF Cookies
    <3>4. browser' = [browser EXCEPT ![b] = [browser[b] EXCEPT !.user = refresh[t].user, !.session = t]]
      BY <1>1, <2>1 DEF Refresh, TypeOK
    <3>5. QED BY <3>3, <3>4
  <2>2. CASE SignOut(b)
    BY <1>3, <2>2, Defaults DEF SignOut, Cookies
  <2>3. CASE Lapse(b)
    <3>1. [browser[b] EXCEPT !.user = Nobody, !.session = 0] \in Cookies
      BY <1>3 DEF Cookies
    <3>2. browser' = [browser EXCEPT ![b] = [browser[b] EXCEPT !.user = Nobody, !.session = 0]]
      BY <1>1, <2>3 DEF Lapse, TypeOK
    <3>3. QED BY <3>1, <3>2
  <2>4. QED BY <2>1, <2>2, <2>3
<1>6. browser' \in [Browsers -> Cookies]
  BY <1>1, <1>5 DEF TypeOK
<1>7. QED BY <1>1, <1>2, <1>4, <1>6 DEF history, Typed, TypeOK, Exists

LEMMA TypedExpire == ASSUME Typed, Expire PROVE Typed'
<1>1. TypeOK /\ UNCHANGED <<users, browser, req, app, sent, history>>
  BY DEF Expire, Typed
<1>2. RequestsWhole'
  BY <1>1 DEF Typed, RequestsWhole
<1>3. 0 \in Tokens
  BY BoundAssumption DEF Tokens
<1>4. refresh' \in [Serials -> Session] /\ login' \in [Serials -> Login] /\ reset' \in [Users -> Tokens]
  BY <1>1, <1>3, Defaults DEF Expire, TypeOK
<1>5. /\ \A t \in Serials : \A u \in {refresh'[t].user, login'[t].user} : Exists(u) \/ u = Nobody
      /\ \A u \in Users : Exists(u) \/ reset'[u] = 0
  BY <1>1 DEF Expire, TypeOK, NoSession, NoLogin
<1>6. QED BY <1>1, <1>2, <1>4, <1>5 DEF history, Typed, TypeOK, Exists

LEMMA TypedNext == Typed /\ [Next]_vars => Typed'
<1> SUFFICES ASSUME Typed, [Next]_vars PROVE Typed'
  OBVIOUS
<1>1. CASE UNCHANGED vars
  BY <1>1 DEF vars, tokens, history, Typed, TypeOK, RequestsWhole, Exists
<1>2. ASSUME NEW b \in Browsers, Serve(b) PROVE Typed'
  BY <1>2, TypedSignUpCreate, TypedSessions, TypedLogins, TypedMailed, TypedPasswords, TypedWriteTotp,
     TypedDeletion DEF Serve
<1>3. QED BY <1>1, <1>2, TypedBegin, TypedAdmin, TypedCookies, TypedExpire DEF Next, Starts

\* Tokens are those of users that exist, and every request waits at a statement of its
\* handler.
THEOREM TypeCorrect == Spec => []TypeOK
<1>1. Typed => TypeOK
  BY DEF Typed
<1>2. QED BY TypedInit, TypedNext, <1>1, PTL DEF Spec

-----------------------------------------------------------------------------
(* What a step does to the requests, for the invariants about them. *)

\* A request that begins, by what its first statement read.
StartsAs(b, q) ==
    /\ Begin(b, q) /\ q \in Request /\ q.user \in Users /\ <<q.kind, q.at>> \in Awaits /\ q.kind # "none"
    /\ q.kind = "signUp" => q.at = "create" /\ (q.flag <=> \A v \in Users : ~Exists(v))
    /\ q.kind = "signIn" => Exists(q.user) /\ q.word = users[q.user].password
    /\ q.kind = "signInTotp" => /\ q.at = "use" /\ q.token \in Serials
                                /\ q.user = login[q.token].user /\ ~login[q.token].used
    /\ q.kind = "reset" => q.at = "drop" /\ q.token = reset[q.user] /\ q.token # 0
    /\ q.kind = "password" => q.at = "purge" /\ Exists(q.user)
    /\ q.kind \in {"enable", "verify", "disable"} => Exists(q.user) /\ q.at = "write"
    /\ q.kind = "enable" => ~users[q.user].verified
    /\ q.kind = "verify" => q.secret = users[q.user].secret
    /\ q.kind = "delete" => Exists(q.user) /\ q.at = IF q.user \in Admins THEN "count" ELSE "erase"

LEMMA Started == ASSUME Typed, NEW b \in Browsers, Starts(b) PROVE \E q : StartsAs(b, q)
<1> USE DEF StartsAs
<1>1. CASE SignUp(b) BY <1>1, SignUpBegins DEF Awaits
<1>2. CASE SignIn(b) BY <1>2, SignInBegins DEF Awaits
<1>3. CASE SignInTotp(b) BY <1>3, SignInTotpBegins DEF Awaits
<1>4. CASE Forgot(b) BY <1>4, ForgotBegins DEF Awaits
<1>5. CASE Reset(b) BY <1>5, ResetBegins DEF Awaits
<1>6. CASE Password(b) BY <1>6, PasswordBegins DEF Awaits
<1>7. CASE Enable(b) BY <1>7, EnableBegins DEF Awaits
<1>8. CASE CheckCode(b, "verify") BY <1>8, CheckCodeBegins DEF Awaits
<1>9. CASE CheckCode(b, "disable") BY <1>9, CheckCodeBegins DEF Awaits
<1>10. CASE Delete(b) BY <1>10, DeleteBegins DEF Awaits
<1>11. QED BY <1>1, <1>2, <1>3, <1>4, <1>5, <1>6, <1>7, <1>8, <1>9, <1>10 DEF Starts

\* A request that is served: it ends, or goes on to the next statement of its handler.
Moves(kind, at, next) ==
    \/ kind = "signUp" /\ at = "create" /\ next = "session"
    \/ kind = "signInTotp" /\ at = "use" /\ next = "session"
    \/ kind = "forgot" /\ at = "drop" /\ next = "mail"
    \/ kind = "reset" /\ at = "drop" /\ next = "store"
    \/ kind = "password" /\ at = "purge" /\ next = "store"
    \/ kind = "password" /\ at = "store" /\ next = "session"
    \/ kind = "delete" /\ at = "count" /\ next = "erase"

ServesAs(b) ==
    /\ req[b].kind # "none" /\ req[b].user \in Users /\ sent' = sent /\ scars' = scars
    /\ \A c \in Browsers \ {b} : req'[c] = req[c]
    /\ \/ req'[b].kind = "none" /\ req'[b].at = "" /\ req'[b].id = 0
       \/ /\ Moves(req[b].kind, req[b].at, req'[b].at)
          /\ req'[b].kind = req[b].kind /\ req'[b].user = req[b].user /\ req'[b].id = req[b].id
          /\ req'[b].token = req[b].token /\ req'[b].flag = req[b].flag /\ req'[b].word = req[b].word

LEMMA Served == ASSUME Typed, NEW b \in Browsers, Serve(b) PROVE ServesAs(b)
<1>0. TypeOK
  BY DEF Typed
<1>1. req[b].kind # "none"
  BY DEF Serve, SignUpCreate, CreateLogin, CreateSession, UseLogin, TotpSession, ForgotDrop, ForgotMail,
         ResetDrop, ResetStore, PurgeSessions, StorePassword, WriteTotp, CountAdmins, Erase, At,
         Typed, RequestsWhole, Awaits
<1>2. sent' = sent /\ scars' = scars
  BY DEF Serve, SignUpCreate, CreateLogin, CreateSession, UseLogin, TotpSession, ForgotDrop, ForgotMail,
         ResetDrop, ResetStore, PurgeSessions, StorePassword, WriteTotp, CountAdmins, Erase, history
<1>3. \/ End(b)
      \/ \E at \in Steps : Goto(b, at) /\ Moves(req[b].kind, req[b].at, at)
  <2>1. CASE CreateLogin(b) \/ CreateSession(b) \/ TotpSession(b) \/ ForgotMail(b) \/ ResetStore(b)
             \/ WriteTotp(b) \/ Erase(b)
    BY <2>1 DEF CreateLogin, CreateSession, TotpSession, OpenSession, ForgotMail, ResetStore, WriteTotp, Erase
  <2>2. CASE SignUpCreate(b)
    BY <2>2 DEF SignUpCreate, At, Moves, Steps
  <2>3. CASE UseLogin(b)
    BY <2>3 DEF UseLogin, At, Moves, Steps
  <2>4. CASE ForgotDrop(b)
    BY <2>4 DEF ForgotDrop, At, Moves, Steps
  <2>5. CASE ResetDrop(b)
    BY <2>5 DEF ResetDrop, At, Moves, Steps
  <2>6. CASE PurgeSessions(b)
    BY <2>6 DEF PurgeSessions, At, Moves, Steps
  <2>7. CASE StorePassword(b)
    BY <2>7 DEF StorePassword, At, Moves, Steps
  <2>8. CASE CountAdmins(b)
    BY <2>8 DEF CountAdmins, At, Moves, Steps
  <2>9. QED BY <2>1, <2>2, <2>3, <2>4, <2>5, <2>6, <2>7, <2>8 DEF Serve
<1>4. ASSUME End(b) PROVE ServesAs(b)
  BY <1>0, <1>1, <1>2, <1>4, Ended DEF ServesAs, Typed, RequestsWhole
<1>5. ASSUME NEW at \in Steps, Goto(b, at), Moves(req[b].kind, req[b].at, at)
      PROVE  ServesAs(b)
  BY <1>0, <1>1, <1>2, <1>5, Went DEF ServesAs, Typed, RequestsWhole
<1>6. QED BY <1>3, <1>4, <1>5

\* The statement each step is.
TurnsAs(b) ==
    \/ SignUpCreate(b) /\ At(b, "signUp", "create")
    \/ CreateLogin(b) /\ At(b, "signIn", "login")
    \/ CreateSession(b) /\ req[b].at = "session" /\ req[b].kind # "signInTotp"
    \/ UseLogin(b) /\ At(b, "signInTotp", "use")
    \/ TotpSession(b) /\ At(b, "signInTotp", "session")
    \/ ForgotDrop(b) /\ At(b, "forgot", "drop")
    \/ ForgotMail(b) /\ At(b, "forgot", "mail")
    \/ ResetDrop(b) /\ At(b, "reset", "drop")
    \/ ResetStore(b) /\ At(b, "reset", "store")
    \/ PurgeSessions(b) /\ At(b, "password", "purge")
    \/ StorePassword(b) /\ At(b, "password", "store")
    \/ WriteTotp(b) /\ req[b].at = "write"
    \/ CountAdmins(b) /\ At(b, "delete", "count")
    \/ Erase(b) /\ At(b, "delete", "erase")

LEMMA Turns == ASSUME NEW b, Serve(b) PROVE TurnsAs(b)
<1> USE DEF TurnsAs
<1>1. CASE SignUpCreate(b) BY <1>1 DEF SignUpCreate
<1>2. CASE CreateLogin(b) BY <1>2 DEF CreateLogin
<1>3. CASE CreateSession(b) BY <1>3 DEF CreateSession
<1>4. CASE UseLogin(b) BY <1>4 DEF UseLogin
<1>5. CASE TotpSession(b) BY <1>5 DEF TotpSession
<1>6. CASE ForgotDrop(b) BY <1>6 DEF ForgotDrop
<1>7. CASE ForgotMail(b) BY <1>7 DEF ForgotMail
<1>8. CASE ResetDrop(b) BY <1>8 DEF ResetDrop
<1>9. CASE ResetStore(b) BY <1>9 DEF ResetStore
<1>10. CASE PurgeSessions(b) BY <1>10 DEF PurgeSessions
<1>11. CASE StorePassword(b) BY <1>11 DEF StorePassword
<1>12. CASE WriteTotp(b) BY <1>12 DEF WriteTotp
<1>13. CASE CountAdmins(b) BY <1>13 DEF CountAdmins
<1>14. CASE Erase(b) BY <1>14 DEF Erase
<1>15. QED BY <1>1, <1>2, <1>3, <1>4, <1>5, <1>6, <1>7, <1>8, <1>9, <1>10, <1>11, <1>12, <1>13, <1>14
           DEF Serve

\* The steps of browsers that wait for nothing, and of time, leave the requests alone.
LEMMA NextSteps ==
    ASSUME [Next]_vars
    PROVE  \/ \E b \in Browsers : Starts(b) \/ Serve(b) \/ AdminUpdate(b) \/ AdminCreate(b)
           \/ /\ UNCHANGED <<users, req, app, sent, history>>
              /\ Expire \/ (UNCHANGED tokens) \/ \E b \in Browsers : SignOut(b)
<1>1. CASE UNCHANGED vars
  BY <1>1 DEF vars, history, tokens
<1>2. CASE Next
  BY <1>2 DEF Next, Starts, Refresh, SignOut, Lapse, Expire
<1>3. QED BY <1>1, <1>2

-----------------------------------------------------------------------------
(* While there are users there is an administrator. *)

LEMMA OverlapScars ==
    ASSUME TypeOK, NEW b \in Browsers, NEW q \in Request, Begin(b, q)
    PROVE  scars \subseteq scars' /\ (Class(q.kind) \notin scars' => ~Overlaps(b, q))
BY DEF Begin

LEMMA OneAdmin == ASSUME NEW u, Admins = {u} PROVE Cardinality(Admins) = 1
BY FS_Singleton

\* Which users there are, and which are administrators, changes in four statements.
UsersSame ==
    /\ \A u \in Users : Exists(u)' <=> Exists(u)
    /\ Admins' = Admins /\ founders' = founders

\* A password that is stored changes nothing else of the rows.
LEMMA PasswordStored ==
    ASSUME users \in [Users -> Row], NEW u \in Users, NEW p, NEW how,
           users' = [users EXCEPT ![u].password = p, ![u].changed = how]
    PROVE  \A v \in Users :
               /\ users'[v].is = users[v].is /\ users'[v].enabled = users[v].enabled
               /\ users'[v].verified = users[v].verified /\ users'[v].secret = users[v].secret
<1> DEFINE r == [users[u] EXCEPT !.password = p, !.changed = how]
<1>1. users[u] \in Row
  OBVIOUS
<1>2. /\ r.is = users[u].is /\ r.enabled = users[u].enabled
      /\ r.verified = users[u].verified /\ r.secret = users[u].secret
  BY <1>1 DEF Row
<1>3. users'[u] = r /\ \A v \in Users : v # u => users'[v] = users[v]
  OBVIOUS
<1> HIDE DEF r
<1>4. QED BY <1>2, <1>3

LEMMA RowsStay ==
    ASSUME Typed, NEW b \in Browsers, Serve(b), ~SignUpCreate(b), ~Erase(b)
    PROVE  UsersSame
<1>1. \A u \in Users : users'[u].is = users[u].is
  <2>1. CASE ResetStore(b)
    <3>1. UNCHANGED users \/ users' = [users EXCEPT ![req[b].user].password = req[b].word,
                                                  ![req[b].user].changed = "reset"]
      BY <2>1 DEF ResetStore
    <3>2. users \in [Users -> Row] /\ req[b].user \in Users
      BY Served DEF ServesAs, Typed, TypeOK
    <3>3. QED BY <3>1, <3>2, PasswordStored
  <2>2. CASE StorePassword(b)
    <3>1. UNCHANGED users \/ users' = [users EXCEPT ![req[b].user].password = req[b].word,
                                                  ![req[b].user].changed = "update"]
      BY <2>2 DEF StorePassword
    <3>2. users \in [Users -> Row] /\ req[b].user \in Users
      BY Served DEF ServesAs, Typed, TypeOK
    <3>3. QED BY <3>1, <3>2, PasswordStored
  <2>3. CASE WriteTotp(b)
    <3> DEFINE row == users[req[b].user]
    <3>1. row \in Row
      BY <2>3, Served DEF ServesAs, Typed, TypeOK
    <3>2. /\ [row EXCEPT !.enabled = FALSE, !.verified = FALSE, !.secret = NoSecret].is = row.is
          /\ [row EXCEPT !.verified = TRUE].is = row.is
          /\ [row EXCEPT !.enabled = TRUE, !.secret = req[b].secret].is = row.is
      BY <3>1 DEF Row
    <3>3. UNCHANGED users \/ \E r : users' = [users EXCEPT ![req[b].user] = r] /\ r.is = row.is
      BY <2>3, <3>2 DEF WriteTotp
    <3>4. QED BY <3>3 DEF Typed, TypeOK
  <2>4. CASE ~ResetStore(b) /\ ~StorePassword(b) /\ ~WriteTotp(b)
    BY <2>4 DEF Serve, CreateLogin, CreateSession, UseLogin, TotpSession, ForgotDrop, ForgotMail,
                ResetDrop, PurgeSessions, CountAdmins
  <2>5. QED BY <2>1, <2>2, <2>3, <2>4
<1>2. founders' = founders
  BY DEF Serve, CreateLogin, CreateSession, UseLogin, TotpSession, ForgotDrop, ForgotMail,
         ResetDrop, ResetStore, PurgeSessions, StorePassword, WriteTotp, CountAdmins, history
<1>3. QED BY <1>1, <1>2 DEF Exists, Admins, UsersSame

\* A sign-up makes one of a user that was not there.
FoundsAs(b) ==
    /\ ServesAs(b) /\ At(b, "signUp", "create")
    /\ \/ users' = users /\ founders' = founders /\ req'[b].kind = "none"
       \/ /\ users[req[b].user].is = "absent" /\ req'[b].at = "session"
          /\ founders' = IF req[b].flag THEN founders \cup {req[b].id} ELSE founders
          /\ Admins' = IF req[b].flag THEN Admins \cup {req[b].user} ELSE Admins
          /\ \A u \in Users : Exists(u) => Exists(u)'

LEMMA Founded == ASSUME Typed, NEW b \in Browsers, SignUpCreate(b) PROVE FoundsAs(b)
<1>0. ServesAs(b)
  BY Served DEF Serve
<1>1. TypeOK /\ req[b].user \in Users
  BY <1>0 DEF ServesAs, Typed
<1>2. CASE users[req[b].user].is # "absent"
  BY <1>0, <1>1, <1>2, Ended DEF SignUpCreate, FoundsAs
<1>3. CASE users[req[b].user].is = "absent"
  <2>1. Goto(b, "session") /\ req'[b].at = "session"
    BY <1>1, <1>3, Went DEF SignUpCreate, Steps
  <2>2. users' = [users EXCEPT ![req[b].user] = New(IF req[b].flag THEN "admin" ELSE "member", req[b].word)]
    BY <1>3 DEF SignUpCreate
  <2>3. users'[req[b].user].is = IF req[b].flag THEN "admin" ELSE "member"
    BY <1>1, <2>2 DEF New, TypeOK
  <2>4. \A u \in Users : u # req[b].user => users'[u] = users[u]
    BY <1>1, <2>2 DEF TypeOK
  <2>5. QED BY <1>0, <1>1, <1>3, <2>1, <2>3, <2>4 DEF SignUpCreate, Admins, Exists, FoundsAs
<1>4. QED BY <1>2, <1>3

ErasesAs(b) ==
    /\ ServesAs(b) /\ At(b, "delete", "erase") /\ founders' = founders /\ req'[b].kind = "none"
    /\ Admins' = Admins \ {req[b].user}
    /\ users'[req[b].user].is = "gone" /\ \A u \in Users \ {req[b].user} : users'[u] = users[u]

LEMMA Erased == ASSUME Typed, NEW b \in Browsers, Erase(b) PROVE ErasesAs(b)
<1>0. ServesAs(b)
  BY Served DEF Serve
<1>1. TypeOK /\ req[b].user \in Users
  BY <1>0 DEF ServesAs, Typed
<1>2. users' = [users EXCEPT ![req[b].user] = New("gone", NoPassword)]
  BY DEF Erase
<1>3. users'[req[b].user].is = "gone"
  BY <1>1, <1>2 DEF New, TypeOK
<1>4. \A u \in Users \ {req[b].user} : users'[u] = users[u]
  BY <1>1, <1>2 DEF TypeOK
<1>5. req'[b].kind = "none"
  BY <1>1, Ended DEF Erase
<1>6. QED BY <1>0, <1>1, <1>3, <1>4, <1>5 DEF Erase, Admins, history, ErasesAs

\* Administrators change rows of users that exist, and make new ones.
AdministersAs(b) ==
    /\ Me(b) \in Admins /\ req' = req /\ founders' = founders /\ scars \subseteq scars'
    /\ \A u \in Users : Exists(u) => Exists(u)'
    /\ "demoted" \notin scars' => \/ Admins \subseteq Admins'
                                  \/ /\ Admins' # {}
                                     /\ \A c \in Browsers : req[c].kind # "delete"

LEMMA Administered ==
    ASSUME Typed, NEW b \in Browsers, AdminUpdate(b) \/ AdminCreate(b)
    PROVE  AdministersAs(b)
<1>1. Me(b) \in Admins /\ UNCHANGED <<req, founders>> /\ scars \subseteq scars' /\ TypeOK
  BY DEF AdminUpdate, AdminCreate, history, Typed
<1>2. CASE AdminCreate(b)
  <2>1. PICK u \in Users, is \in {"member", "admin"} :
            users[u].is = "absent" /\ users' = [users EXCEPT ![u] = New(is, NoPassword)]
    BY <1>2 DEF AdminCreate
  <2>2. \A v \in Users : v # u => users'[v] = users[v]
    BY <1>1, <2>1 DEF TypeOK
  <2>3. users'[u].is = is
    BY <1>1, <2>1 DEF TypeOK, New
  <2>4. QED BY <1>1, <2>1, <2>2, <2>3 DEF Admins, Exists, AdministersAs
<1>3. CASE AdminUpdate(b)
  <2>1. PICK u \in Users :
            /\ Exists(u)
            /\ \/ \E is \in {"member", "admin"} : users' = [users EXCEPT ![u].is = is]
               \/ \E p \in Passwords : users' = [users EXCEPT ![u].password = p, ![u].changed = "admin"]
            /\ scars' = IF /\ \E v \in Admins : users'[v].is = "member"
                           /\ Cardinality(Admins) = 1 \/ \E c \in Browsers : req[c].kind = "delete"
                        THEN scars \cup {"demoted"} ELSE scars
    BY <1>3 DEF AdminUpdate
  <2>2. \A v \in Users : v # u => users'[v] = users[v]
    BY <1>1, <2>1 DEF TypeOK
  <2>3. users'[u].is = users[u].is \/ users'[u].is \in {"member", "admin"}
    <3>0. users \in [Users -> Row]
      BY <1>1 DEF TypeOK
    <3>1. CASE \E is \in {"member", "admin"} : users' = [users EXCEPT ![u].is = is]
      <4>1. PICK is \in {"member", "admin"} : users' = [users EXCEPT ![u].is = is]
        BY <3>1
      <4>2. users'[u] = [users[u] EXCEPT !.is = is]
        BY <3>0, <4>1
      <4>3. users[u] \in Row
        BY <3>0
      <4> DEFINE r == [users[u] EXCEPT !.is = is]
      <4>4. r.is = is
        BY <4>3 DEF Row
      <4>5. users'[u] = r
        BY <4>2
      <4> HIDE DEF r
      <4>6. users'[u].is = is
        BY <4>4, <4>5
      <4>7. QED BY <4>1, <4>6
    <3>2. CASE \E p \in Passwords : users' = [users EXCEPT ![u].password = p, ![u].changed = "admin"]
      BY <3>0, <3>2, PasswordStored
    <3>3. QED BY <2>1, <3>1, <3>2
  <2>4. ASSUME NEW v \in Users, Exists(v) PROVE Exists(v)'
    <3>1. CASE v = u
      <4>1. users'[v].is \in {"member", "admin"}
        BY <2>3, <2>4, <3>1 DEF Exists
      <4>2. QED BY <4>1 DEF Exists
    <3>2. CASE v # u
      BY <2>2, <2>4, <3>2 DEF Exists
    <3>3. QED BY <3>1, <3>2
  <2>5. ASSUME "demoted" \notin scars', ~(Admins \subseteq Admins')
        PROVE  Admins' # {} /\ \A c \in Browsers : req[c].kind # "delete"
    <3>1. u \in Admins /\ users'[u].is = "member"
      BY <2>1, <2>2, <2>3, <2>5 DEF Admins, Exists
    <3>2. Cardinality(Admins) # 1 /\ \A c \in Browsers : req[c].kind # "delete"
      BY <2>1, <2>5, <3>1
    <3>3. PICK v \in Admins : v # u
      BY <3>1, <3>2, OneAdmin
    <3>4. v \in Admins'
      BY <2>2, <3>3 DEF Admins
    <3>5. QED BY <3>2, <3>4
  <2>6. QED BY <1>1, <2>4, <2>5 DEF AdministersAs
<1>4. QED BY <1>2, <1>3

LEMMA AdminLeftInit == Init => AdminLeft
BY IdleIsWhole DEF Init, AdminLeft, At

LEMMA AdminLeftNext == Typed /\ AdminLeft /\ [Next]_vars => AdminLeft'
<1> SUFFICES ASSUME Typed, AdminLeft, [Next]_vars, scars' \cap {"delete", "demoted"} = {}
             PROVE  AdminLeft'
  BY DEF AdminLeft
<1> DEFINE Left == /\ (\E u \in Users : Exists(u)) => Admins # {}
                   /\ \A b \in Browsers : At(b, "signUp", "create") /\ ~req[b].flag => Admins # {}
                   /\ \A b \in Browsers : At(b, "delete", "count") => req[b].user \in Admins
                   /\ \A b \in Browsers : At(b, "delete", "erase") => \E v \in Admins : v # req[b].user
                   /\ \A b, c \in Browsers : req[b].kind = "delete" /\ req[c].kind = "delete" => b = c
<1> USE DEF At
<1>1. scars \subseteq scars' => Left
  BY DEF AdminLeft
<1>2. Left' => AdminLeft'
  BY DEF AdminLeft
<1>3. ASSUME NEW b \in Browsers, Starts(b)
      PROVE  AdminLeft'
  <2>1. PICK q : StartsAs(b, q)
    BY <1>3, Started
  <2>2. scars \subseteq scars' /\ (Class(q.kind) \notin scars' => ~Overlaps(b, q))
    BY <2>1, OverlapScars DEF Typed, StartsAs
  <2>3. q.kind = "delete" => \A c \in Browsers \ {b} : req[c].kind # "delete"
    BY <2>2 DEF Class, Overlaps
  <2>4. (\A u \in Users : Exists(u)' <=> Exists(u)) /\ Admins' = Admins
    BY <2>1 DEF StartsAs, Begin, Exists, Admins
  <2>5. /\ \A c \in Browsers \ {b} : req'[c] = req[c]
        /\ req'[b].kind = q.kind /\ req'[b].at = q.at /\ req'[b].user = q.user /\ req'[b].flag = q.flag
    BY <2>1, Begun DEF Typed, StartsAs
  <2>6. Left
    BY <1>1, <2>2
  <2>7. q.kind = "delete" => IF q.at = "count" THEN q.user \in Admins ELSE \E v \in Admins : v # q.user
    BY <2>1, <2>6 DEF StartsAs
  <2>8. q.kind = "signUp" /\ ~q.flag => Admins # {}
    BY <2>1, <2>6 DEF StartsAs
  <2>9. QED BY <1>2, <2>3, <2>4, <2>5, <2>6, <2>7, <2>8
<1>4. ASSUME NEW b \in Browsers, Serve(b), ~SignUpCreate(b), ~Erase(b)
      PROVE  AdminLeft'
  <2>1. UsersSame /\ ServesAs(b)
    BY <1>4, RowsStay, Served
  <2>2. Left
    BY <1>1, <2>1 DEF ServesAs
  <2>3. At(b, "delete", "count") => CountAdmins(b)
    <3>1. TurnsAs(b)
      BY <1>4, Turns
    <3>2. QED BY <1>4, <3>1 DEF TurnsAs
  <2>4. At(b, "delete", "count") /\ req'[b].kind # "none" => Cardinality(Admins) # 1
    BY <2>3, Ended DEF CountAdmins, Typed
  <2>5. At(b, "delete", "count") /\ req'[b].kind # "none" => \E v \in Admins : v # req[b].user
    <3> SUFFICES ASSUME At(b, "delete", "count"), req'[b].kind # "none", ~\E v \in Admins : v # req[b].user
                 PROVE  FALSE
      OBVIOUS
    <3>1. req[b].user \in Admins
      BY <2>2
    <3>2. Admins = {req[b].user}
      BY <3>1
    <3>3. QED BY <2>4, <3>2, OneAdmin
  <2>6. /\ \A c \in Browsers \ {b} : req'[c] = req[c]
        /\ \/ req'[b].kind = "none"
           \/ /\ req'[b].kind = req[b].kind /\ req'[b].user = req[b].user
              /\ req'[b].at # "create" /\ req'[b].at # "count"
              /\ At(b, "delete", "erase")' => At(b, "delete", "count")
    BY <2>1 DEF ServesAs, Moves
  <2>7. Left'
    BY <2>1, <2>2, <2>5, <2>6 DEF UsersSame
  <2>8. QED BY <1>2, <2>7
<1>5. ASSUME NEW b \in Browsers, SignUpCreate(b)
      PROVE  AdminLeft'
  <2>1. FoundsAs(b)
    BY <1>5, Founded
  <2>2. Left
    BY <1>1, <2>1 DEF FoundsAs, ServesAs
  <2>3. Admins \subseteq Admins' /\ ((\E u \in Users : Exists(u)') => Admins' # {})
    <3>1. Admins \subseteq Admins'
      BY <2>1 DEF FoundsAs, Admins
    <3>2. CASE users' = users
      BY <2>2, <3>2 DEF Exists, Admins
    <3>3. CASE users' # users
      <4>1. req[b].flag \/ Admins # {}
        BY <2>1, <2>2 DEF FoundsAs
      <4>2. req[b].flag => Admins' # {}
        BY <2>1, <3>3 DEF FoundsAs
      <4>3. QED BY <3>1, <4>1, <4>2
    <3>4. QED BY <3>1, <3>2, <3>3
  <2>4. /\ \A c \in Browsers \ {b} : req'[c] = req[c]
        /\ req'[b].kind = "none" \/ (req'[b].kind = "signUp" /\ req'[b].at = "session")
    BY <2>1 DEF FoundsAs, ServesAs, Moves
  <2>5. Left'
    BY <2>2, <2>3, <2>4
  <2>6. QED BY <1>2, <2>5
<1>6. ASSUME NEW b \in Browsers, Erase(b)
      PROVE  AdminLeft'
  <2>1. ErasesAs(b)
    BY <1>6, Erased
  <2>2. Left
    BY <1>1, <2>1 DEF ErasesAs, ServesAs
  <2>3. Admins' # {} /\ \A c \in Browsers : req'[c].kind # "delete"
    <3>1. \E v \in Admins : v # req[b].user
      BY <2>1, <2>2 DEF ErasesAs
    <3>2. Admins' # {}
      BY <2>1, <3>1 DEF ErasesAs
    <3>3. req[b].kind = "delete" /\ req'[b].kind = "none" /\ \A c \in Browsers \ {b} : req'[c] = req[c]
      BY <2>1 DEF ErasesAs, ServesAs
    <3>4. \A c \in Browsers \ {b} : req[c].kind # "delete"
      BY <2>2, <3>3
    <3>5. QED BY <3>2, <3>3, <3>4
  <2>4. Left'
    BY <2>3
  <2>5. QED BY <1>2, <2>4
<1>7. ASSUME NEW b \in Browsers, AdminUpdate(b) \/ AdminCreate(b)
      PROVE  AdminLeft'
  <2>1. AdministersAs(b)
    BY <1>7, Administered
  <2>2. Left
    BY <1>1, <2>1 DEF AdministersAs
  <2>3. QED BY <1>2, <2>1, <2>2 DEF AdministersAs
<1>8. ASSUME UNCHANGED <<users, req, app, sent, history>>
      PROVE  AdminLeft'
  BY <1>1, <1>2, <1>8 DEF Exists, Admins, history
<1>9. QED BY <1>3, <1>4, <1>5, <1>6, <1>7, <1>8, NextSteps

LEMMA OneFounderInit == Init => OneFounder
BY IdleIsWhole DEF Init, OneFounder, At

LEMMA OneFounderNext == Typed /\ AdminLeft /\ OneFounder /\ [Next]_vars => OneFounder'
<1> SUFFICES ASSUME Typed, AdminLeft, OneFounder, [Next]_vars, scars' \cap {"signUp", "delete", "demoted"} = {}
             PROVE  OneFounder'
  BY DEF OneFounder
<1> DEFINE One == /\ \A b, c \in Browsers : req[b].kind = "signUp" /\ req[c].kind = "signUp" => b = c
                  /\ founders # {} => Admins # {}
                  /\ \A b \in Browsers : At(b, "signUp", "create") /\ req[b].flag => founders = {}
                  /\ \A x, y \in founders : x = y
<1> USE DEF At
<1>1. scars \subseteq scars' => One
  BY DEF OneFounder
<1>2. One' => OneFounder'
  BY DEF OneFounder
<1>3. ASSUME NEW b \in Browsers, Starts(b)
      PROVE  OneFounder'
  <2>1. PICK q : StartsAs(b, q)
    BY <1>3, Started
  <2>2. scars \subseteq scars' /\ (Class(q.kind) \notin scars' => ~Overlaps(b, q))
    BY <2>1, OverlapScars DEF Typed, StartsAs
  <2>3. q.kind = "signUp" => \A c \in Browsers \ {b} : req[c].kind # "signUp"
    BY <2>2 DEF Class, Overlaps
  <2>4. q.kind = "signUp" /\ q.flag => Admins = {}
    BY <2>1 DEF Admins, Exists, StartsAs
  <2>5. Admins' = Admins /\ founders' = founders
    BY <2>1 DEF Begin, Admins, StartsAs
  <2>6. /\ \A c \in Browsers \ {b} : req'[c] = req[c]
        /\ req'[b].kind = q.kind /\ req'[b].at = q.at /\ req'[b].user = q.user /\ req'[b].flag = q.flag
    BY <2>1, Begun DEF Typed, StartsAs
  <2>7. One
    BY <1>1, <2>2
  <2>8. QED BY <1>2, <2>3, <2>4, <2>5, <2>6, <2>7
<1>4. ASSUME NEW b \in Browsers, Serve(b), ~SignUpCreate(b), ~Erase(b)
      PROVE  OneFounder'
  <2>1. UsersSame /\ ServesAs(b)
    BY <1>4, RowsStay, Served
  <2>2. One
    BY <1>1, <2>1 DEF ServesAs
  <2>3. /\ \A c \in Browsers \ {b} : req'[c] = req[c]
        /\ req'[b].kind = "none" \/ (req'[b].kind = req[b].kind /\ req'[b].at # "create")
    BY <2>1 DEF ServesAs, Moves
  <2>4. One'
    BY <2>1, <2>2, <2>3 DEF UsersSame
  <2>5. QED BY <1>2, <2>4
<1>5. ASSUME NEW b \in Browsers, SignUpCreate(b)
      PROVE  OneFounder'
  <2>1. FoundsAs(b)
    BY <1>5, Founded
  <2>2. One
    BY <1>1, <2>1 DEF FoundsAs, ServesAs
  <2>3. \A c \in Browsers : req'[c].kind = "signUp" => c = b /\ req'[c].at = "session"
    BY <2>1, <2>2 DEF FoundsAs, ServesAs, Moves
  <2>4. CASE users' = users /\ founders' = founders
    BY <1>2, <2>2, <2>3, <2>4 DEF Admins
  <2>5. CASE ~(users' = users /\ founders' = founders)
    <3>1. /\ founders' = IF req[b].flag THEN founders \cup {req[b].id} ELSE founders
          /\ Admins' = IF req[b].flag THEN Admins \cup {req[b].user} ELSE Admins
          /\ req[b].kind = "signUp" /\ req[b].at = "create"
      BY <2>1, <2>5 DEF FoundsAs
    <3>2. req[b].flag => founders = {}
      BY <2>2, <3>1
    <3>3. (founders' # {} => Admins' # {}) /\ \A x, y \in founders' : x = y
      <4>1. CASE req[b].flag
        BY <3>1, <3>2, <4>1
      <4>2. CASE ~req[b].flag
        BY <2>2, <3>1, <4>2
      <4>3. QED BY <4>1, <4>2
    <3>4. One'
      BY <2>3, <3>3
    <3>5. QED BY <1>2, <3>4
  <2>6. QED BY <2>4, <2>5
<1>6. ASSUME NEW b \in Browsers, Erase(b)
      PROVE  OneFounder'
  <2>1. ErasesAs(b)
    BY <1>6, Erased
  <2>2. One
    BY <1>1, <2>1 DEF ErasesAs, ServesAs
  <2>3. \E v \in Admins : v # req[b].user
    BY <2>1 DEF AdminLeft, ErasesAs, ServesAs
  <2>4. Admins' # {} /\ founders' = founders
    BY <2>1, <2>3 DEF ErasesAs
  <2>5. \A c \in Browsers : req'[c].kind = "signUp" => req'[c] = req[c]
    <3>1. req'[b].kind = "none" /\ \A c \in Browsers \ {b} : req'[c] = req[c]
      BY <2>1 DEF ErasesAs, ServesAs
    <3>2. QED BY <3>1
  <2>6. One'
    BY <2>2, <2>4, <2>5
  <2>7. QED BY <1>2, <2>6
<1>7. ASSUME NEW b \in Browsers, AdminUpdate(b) \/ AdminCreate(b)
      PROVE  OneFounder'
  <2>1. AdministersAs(b)
    BY <1>7, Administered
  <2>2. One
    BY <1>1, <2>1 DEF AdministersAs
  <2>3. QED BY <1>2, <2>1, <2>2 DEF AdministersAs
<1>8. ASSUME UNCHANGED <<users, req, app, sent, history>>
      PROVE  OneFounder'
  BY <1>1, <1>2, <1>8 DEF Admins, history
<1>9. QED BY <1>3, <1>4, <1>5, <1>6, <1>7, <1>8, NextSteps

\* While there are users there is an administrator, unless two deletions overlapped or
\* administrators took the right themselves; and one sign-up at most founds, unless two
\* of them overlapped as well.
THEOREM LeftOver == Spec => []OneFounderOneLeft
<1>1. AdminLeft /\ OneFounder => OneFounderOneLeft
  <2> SUFFICES ASSUME AdminLeft, OneFounder PROVE OneFounderOneLeft
    OBVIOUS
  <2>1. (\E u \in Users : Exists(u)) => Admins # {} \/ scars \cap {"delete", "demoted"} # {}
    BY DEF AdminLeft
  <2>2. ASSUME scars \cap {"signUp", "delete", "demoted"} = {} PROVE Cardinality(founders) <= 1
    <3>1. CASE founders = {}
      BY <3>1, FS_EmptySet
    <3>2. CASE founders # {}
      <4>1. PICK x : x \in founders
        BY <3>2
      <4>2. founders = {x}
        BY <2>2, <4>1 DEF OneFounder
      <4>3. Cardinality(founders) = 1
        BY <4>2, FS_Singleton
      <4>4. QED BY <4>3
    <3>3. QED BY <3>1, <3>2
  <2>3. QED BY <2>1, <2>2 DEF OneFounderOneLeft
<1>2. QED BY TypedInit, TypedNext, AdminLeftInit, AdminLeftNext, OneFounderInit, OneFounderNext, <1>1, PTL
          DEF Spec

-----------------------------------------------------------------------------
(* A second factor that is asked for has a secret that was checked. *)

LEMMA Classes ==
    \A k \in Kinds : /\ Class(k) = "totp" <=> k \in {"enable", "verify", "disable"}
                     /\ Class(k) = "password" <=> k \in {"signIn", "password"}
                     /\ Class(k) = "signInTotp" <=> k = "signInTotp"
BY DEF Class, Kinds

LEMMA KindsType == ASSUME Typed, NEW b \in Browsers PROVE req[b].kind \in Kinds
BY DEF Typed, TypeOK, Request

\* What a step makes of the second factors: nothing, or a new row's none.
FactorSame(u) ==
    /\ users'[u].is = users[u].is /\ users'[u].enabled = users[u].enabled
    /\ users'[u].verified = users[u].verified /\ users'[u].secret = users[u].secret
FactorNone(u, is) ==
    /\ users'[u].is = is /\ ~users'[u].enabled /\ ~users'[u].verified /\ users'[u].secret = NoSecret

LEMMA FactorsStay ==
    ASSUME Typed, NEW b \in Browsers, Serve(b), req[b].at # "write"
    PROVE  /\ checked' = checked
           /\ \/ \A u \in Users : FactorSame(u)
              \/ /\ \A u \in Users \ {req[b].user} : FactorSame(u)
                 /\ \/ /\ At(b, "signUp", "create") /\ users[req[b].user].is = "absent"
                       /\ \E is \in {"member", "admin"} : FactorNone(req[b].user, is)
                    \/ At(b, "delete", "erase") /\ FactorNone(req[b].user, "gone")
<1>0. TurnsAs(b) /\ TypeOK /\ req[b].user \in Users
  BY Turns, Served DEF ServesAs, Typed
<1>1. checked' = checked
  BY <1>0 DEF TurnsAs, SignUpCreate, CreateLogin, CreateSession, UseLogin, TotpSession, ForgotDrop, ForgotMail,
         ResetDrop, ResetStore, PurgeSessions, StorePassword, CountAdmins, Erase, history
<1>2. CASE SignUpCreate(b)
  <2>1. UNCHANGED users \/ \E is, p : is \in {"member", "admin"} /\ users' = [users EXCEPT ![req[b].user] = New(is, p)]
    BY <1>2 DEF SignUpCreate
  <2>2. ~UNCHANGED users => users[req[b].user].is = "absent"
    BY <1>2 DEF SignUpCreate
  <2>3. CASE UNCHANGED users
    BY <1>1, <2>3 DEF FactorSame
  <2>4. CASE ~UNCHANGED users
    <3>1. PICK is, p : is \in {"member", "admin"} /\ users' = [users EXCEPT ![req[b].user] = New(is, p)]
      BY <2>1, <2>4
    <3>2. \A u \in Users \ {req[b].user} : users'[u] = users[u]
      BY <1>0, <3>1 DEF TypeOK
    <3>3. users'[req[b].user] = New(is, p)
      BY <1>0, <3>1 DEF TypeOK
    <3>4. FactorNone(req[b].user, is)
      BY <3>3 DEF New, FactorNone
    <3>5. At(b, "signUp", "create")
      BY <1>2 DEF SignUpCreate
    <3>6. \A u \in Users \ {req[b].user} : FactorSame(u)
      BY <3>2 DEF FactorSame
    <3>7. \E i \in {"member", "admin"} : FactorNone(req[b].user, i)
      BY <3>1, <3>4
    <3>8. users[req[b].user].is = "absent"
      BY <2>2, <2>4
    <3>9. QED BY <1>1, <3>5, <3>6, <3>7, <3>8
  <2>5. QED BY <2>3, <2>4
<1>3. CASE Erase(b)
  <2>1. users' = [users EXCEPT ![req[b].user] = New("gone", NoPassword)] /\ At(b, "delete", "erase")
    BY <1>3 DEF Erase
  <2>2. \A u \in Users \ {req[b].user} : users'[u] = users[u]
    BY <1>0, <2>1 DEF TypeOK
  <2>3. users'[req[b].user] = New("gone", NoPassword)
    BY <1>0, <2>1 DEF TypeOK
  <2>4. FactorNone(req[b].user, "gone")
    BY <2>3 DEF New, FactorNone
  <2>5. QED BY <1>1, <2>1, <2>2, <2>4 DEF FactorSame, At
<1>4. CASE ResetStore(b)
  <2>1. UNCHANGED users \/ users' = [users EXCEPT ![req[b].user].password = req[b].word,
                                                ![req[b].user].changed = "reset"]
    BY <1>4 DEF ResetStore
  <2>2. users \in [Users -> Row]
    BY <1>0 DEF TypeOK
  <2>3. \A u \in Users : FactorSame(u)
    BY <1>0, <2>1, <2>2, PasswordStored DEF FactorSame
  <2>4. QED BY <1>1, <2>3
<1>5. CASE StorePassword(b)
  <2>1. UNCHANGED users \/ users' = [users EXCEPT ![req[b].user].password = req[b].word,
                                                ![req[b].user].changed = "update"]
    BY <1>5 DEF StorePassword
  <2>2. users \in [Users -> Row]
    BY <1>0 DEF TypeOK
  <2>3. \A u \in Users : FactorSame(u)
    BY <1>0, <2>1, <2>2, PasswordStored DEF FactorSame
  <2>4. QED BY <1>1, <2>3
<1>6. CASE ~SignUpCreate(b) /\ ~Erase(b) /\ ~ResetStore(b) /\ ~StorePassword(b)
  <2>1. users' = users
    BY <1>0, <1>6 DEF TurnsAs, CreateLogin, CreateSession, UseLogin, TotpSession, ForgotDrop, ForgotMail,
         ResetDrop, PurgeSessions, CountAdmins
  <2>2. QED BY <1>1, <2>1 DEF FactorSame
<1>7. QED BY <1>2, <1>3, <1>4, <1>5, <1>6

LEMMA FactorsAdmin ==
    ASSUME Typed, NEW b \in Browsers, AdminUpdate(b) \/ AdminCreate(b)
    PROVE  /\ req' = req /\ checked' = checked /\ scars \subseteq scars'
           /\ \E u \in Users :
               /\ \A v \in Users \ {u} : FactorSame(v)
               /\ \/ /\ Exists(u) /\ users'[u].is # "absent" /\ users'[u].enabled = users[u].enabled
                     /\ users'[u].verified = users[u].verified /\ users'[u].secret = users[u].secret
                  \/ /\ users[u].is = "absent"
                     /\ \E is \in {"member", "admin"} : FactorNone(u, is)
<1>0. TypeOK /\ req' = req /\ checked' = checked /\ scars \subseteq scars'
  BY DEF AdminUpdate, AdminCreate, history, Typed
<1>1. CASE AdminUpdate(b)
  <2>1. PICK u \in Users :
            /\ Exists(u)
            /\ \/ \E is \in {"member", "admin"} : users' = [users EXCEPT ![u].is = is]
               \/ \E p \in Passwords : users' = [users EXCEPT ![u].password = p, ![u].changed = "admin"]
    BY <1>1 DEF AdminUpdate
  <2>2. \A v \in Users \ {u} : users'[v] = users[v]
    BY <1>0, <2>1 DEF TypeOK
  <2>3. users[u] \in Row
    BY <1>0 DEF TypeOK
  <2>4. /\ users'[u].is # "absent" /\ users'[u].enabled = users[u].enabled
        /\ users'[u].verified = users[u].verified /\ users'[u].secret = users[u].secret
    <3>1. \/ \E is \in {"member", "admin"} : users'[u] = [users[u] EXCEPT !.is = is]
          \/ \E p \in Passwords : users'[u] = [users[u] EXCEPT !.password = p, !.changed = "admin"]
      BY <1>0, <2>1 DEF TypeOK
    <3>2. QED BY <2>1, <2>3, <3>1 DEF Row, Exists
  <2>5. QED BY <1>0, <2>1, <2>2, <2>4 DEF FactorSame
<1>2. CASE AdminCreate(b)
  <2>1. PICK u \in Users, is \in {"member", "admin"} :
            users[u].is = "absent" /\ users' = [users EXCEPT ![u] = New(is, NoPassword)]
    BY <1>2 DEF AdminCreate
  <2>2. \A v \in Users \ {u} : users'[v] = users[v]
    BY <1>0, <2>1 DEF TypeOK
  <2>3. users'[u] = New(is, NoPassword)
    BY <1>0, <2>1 DEF TypeOK
  <2>4. FactorNone(u, is)
    BY <2>3 DEF New, FactorNone
  <2>5. QED BY <1>0, <2>1, <2>2, <2>4 DEF FactorSame
<1>3. QED BY <1>1, <1>2

LEMMA SecretKeptInit == Init => SecretKept
<1> SUFFICES ASSUME Init PROVE SecretKept
  OBVIOUS
<1>1. \A u \in Users :
          /\ users[u].verified => users[u].secret # NoSecret
          /\ users[u].secret # NoSecret => users[u].enabled
  <2>1. ASSUME NEW u \in Users
        PROVE  \/ \E is : users[u] = New(is, NoPassword)
               \/ \E is : users[u] = WithFactor(is)
    BY DEF Init
  <2>2. ASSUME NEW is PROVE ~New(is, NoPassword).verified /\ New(is, NoPassword).secret = NoSecret
    BY DEF New
  <2>3. ASSUME NEW is PROVE WithFactor(is).enabled /\ WithFactor(is).secret # NoSecret
    BY SomeAssumption, NullAssumption DEF New, WithFactor
  <2>4. QED BY <2>1, <2>2, <2>3
<1>2. \A u \in Users : users[u].verified => users[u].secret \in checked[u]
  BY <1>1 DEF Init
<1>3. \A b \in Browsers : Class(req[b].kind) = "none"
  BY DEF Init, Idle, Class
<1>4. QED BY <1>1, <1>2, <1>3 DEF SecretKept

LEMMA SecretKeptNext == Typed /\ SecretKept /\ [Next]_vars => SecretKept'
<1> SUFFICES ASSUME Typed, SecretKept, [Next]_vars, "totp" \notin scars'
             PROVE  SecretKept'
  BY DEF SecretKept
<1> DEFINE InTotp(q) == q.kind \in {"enable", "verify", "disable"}
           RowKept(u) == /\ users[u].verified => users[u].secret \in checked[u]
                         /\ users[u].secret # NoSecret => users[u].enabled
           ReqKept(b) == /\ users[req[b].user].is # "absent"
                         /\ req[b].kind = "verify" /\ Exists(req[b].user) =>
                              users[req[b].user].secret = req[b].secret
                         /\ req[b].kind = "enable" /\ Exists(req[b].user) => ~users[req[b].user].verified
                         /\ \A c \in Browsers : InTotp(req[c]) /\ req[c].user = req[b].user => b = c
           Kept == /\ \A u \in Users : RowKept(u)
                   /\ \A b \in Browsers : InTotp(req[b]) => ReqKept(b)
<1>0. TypeOK /\ Typed'
  BY TypedNext DEF Typed
<1>1. scars \subseteq scars' => Kept
  BY KindsType, Classes DEF SecretKept
<1>2. Kept' => SecretKept'
  <2>1. \A b \in Browsers : req'[b].kind \in Kinds
    BY <1>0 DEF Typed, TypeOK, Request
  <2>2. QED BY <2>1, Classes DEF SecretKept
<1>3. ASSUME NEW b \in Browsers, Starts(b)
      PROVE  SecretKept'
  <2>1. PICK q : StartsAs(b, q)
    BY <1>3, Started
  <2>2. scars \subseteq scars' /\ (Class(q.kind) \notin scars' => ~Overlaps(b, q))
    BY <2>1, OverlapScars DEF Typed, StartsAs
  <2>3. Kept
    BY <1>1, <2>2
  <2>4. InTotp(q) => \A c \in Browsers \ {b} : InTotp(req[c]) => req[c].user # q.user
    BY <2>1, <2>2, KindsType, Classes DEF Overlaps, StartsAs, Request
  <2>5. users' = users /\ checked' = checked
    BY <2>1 DEF StartsAs, Begin
  <2>6. /\ \A c \in Browsers \ {b} : req'[c] = req[c]
        /\ req'[b].kind = q.kind /\ req'[b].user = q.user /\ req'[b].secret = q.secret
    BY <2>1, Begun DEF Typed, StartsAs
  <2>7. InTotp(q) => /\ users[q.user].is # "absent"
                     /\ q.kind = "verify" => users[q.user].secret = q.secret
                     /\ q.kind = "enable" => ~users[q.user].verified
    BY <2>1 DEF StartsAs, Exists
  <2>8. \A u \in Users : RowKept(u)'
    BY <2>3, <2>5
  <2>9. ASSUME NEW c \in Browsers, InTotp(req[c])' PROVE ReqKept(c)'
    BY <2>3, <2>4, <2>5, <2>6, <2>7, <2>9 DEF Exists
  <2>10. QED BY <1>2, <2>8, <2>9
<1>4. ASSUME NEW b \in Browsers, Serve(b), req[b].at # "write"
      PROVE  SecretKept'
  <2>1. ServesAs(b) /\ ~InTotp(req[b]) /\ ~InTotp(req'[b])
    BY <1>4, Served DEF ServesAs, Typed, RequestsWhole, Awaits, Moves
  <2>2. Kept
    BY <1>1, <2>1 DEF ServesAs
  <2>3. checked' = checked /\ \A c \in Browsers \ {b} : req'[c] = req[c]
    BY <1>4, <2>1, FactorsStay DEF ServesAs
  <2>4. CASE \A u \in Users : FactorSame(u)
    <3>1. \A u \in Users : RowKept(u)'
      BY <2>2, <2>3, <2>4 DEF FactorSame
    <3>2. \A c \in Browsers : InTotp(req'[c]) => req[c].user \in Users /\ req'[c] = req[c]
      BY <2>1, <2>3 DEF Typed, RequestsWhole
    <3>3. ASSUME NEW c \in Browsers, InTotp(req[c])' PROVE ReqKept(c)'
      BY <2>2, <2>4, <3>2, <3>3 DEF Exists, FactorSame
    <3>4. QED BY <1>2, <3>1, <3>3
  <2>5. CASE /\ \A u \in Users \ {req[b].user} : FactorSame(u)
             /\ \/ /\ At(b, "signUp", "create") /\ users[req[b].user].is = "absent"
                   /\ \E is \in {"member", "admin"} : FactorNone(req[b].user, is)
                \/ At(b, "delete", "erase") /\ FactorNone(req[b].user, "gone")
    <3>1. \A u \in Users : RowKept(u)'
      BY <2>2, <2>3, <2>5 DEF FactorSame, FactorNone
    <3>2. \A c \in Browsers : InTotp(req'[c]) => req[c].user \in Users /\ req'[c] = req[c]
      BY <2>1, <2>3 DEF Typed, RequestsWhole
    <3>3. ASSUME NEW c \in Browsers, InTotp(req[c])' PROVE ReqKept(c)'
      <4>1. CASE req[c].user # req[b].user
        BY <2>2, <2>5, <3>2, <3>3, <4>1 DEF Exists, FactorSame
      <4>2. CASE req[c].user = req[b].user
        <5>1. FactorNone(req[b].user, "gone")
          BY <2>2, <2>5, <3>2, <3>3, <4>2
        <5>2. req'[c].user \in Users /\ ~Exists(req[c].user)' /\ req'[c].user = req[c].user
          BY <3>2, <3>3, <4>2, <5>1 DEF Exists, FactorNone
        <5>3. users'[req'[c].user].is # "absent" /\ ~Exists(req[c].user)'
          BY <3>2, <3>3, <4>2, <5>1, <5>2 DEF FactorNone
        <5>4. QED BY <2>2, <3>2, <3>3, <5>3
      <4>3. QED BY <4>1, <4>2
    <3>4. QED BY <1>2, <3>1, <3>3
  <2>6. QED BY <1>4, <2>4, <2>5, FactorsStay
<1>5. ASSUME NEW b \in Browsers, Serve(b), req[b].at = "write"
      PROVE  SecretKept'
  <2>1. ServesAs(b) /\ WriteTotp(b)
    BY <1>5, Served, Turns DEF TurnsAs, At
  <2>2. Kept
    BY <1>1, <2>1 DEF ServesAs
  <2>20. PICK u \in Users : u = req[b].user
    BY <2>1 DEF ServesAs
  <2> DEFINE q == req[b]
             row == users[u]
  <2>3. u = q.user /\ row \in Row /\ InTotp(q) /\ ReqKept(b)
    BY <1>5, <2>1, <2>2, <2>20 DEF ServesAs, Typed, TypeOK, RequestsWhole, Awaits
  <2>4. q.kind \in {"enable", "verify"} => q.secret \in Secrets /\ q.secret # NoSecret
    BY NullAssumption DEF Typed, RequestsWhole
  <2>5. \A c \in Browsers : InTotp(req'[c]) => c # b /\ req'[c] = req[c] /\ req[c].user # u /\ req[c].user \in Users
    BY <2>1, <2>2, <2>3 DEF ServesAs, Moves, Typed, RequestsWhole
  <2>6. \A v \in Users \ {u} : users'[v] = users[v] /\ checked'[v] = checked[v]
    BY <1>0, <2>1, <2>3 DEF WriteTotp, TypeOK
  <2>7. RowKept(u)'
    <3>1. CASE ~Exists(u)
      BY <1>0, <2>1, <2>2, <2>3, <3>1 DEF WriteTotp
    <3>2. CASE Exists(u) /\ q.kind = "enable"
      <4>1. users'[u] = [row EXCEPT !.enabled = TRUE, !.secret = q.secret]
        BY <1>0, <2>1, <2>3, <3>2 DEF WriteTotp, TypeOK
      <4>2. users'[u].enabled /\ ~users'[u].verified
        BY <2>3, <3>2, <4>1 DEF Row
      <4>3. QED BY <4>2
    <3>3. CASE Exists(u) /\ q.kind = "verify"
      <4>1. users'[u] = [row EXCEPT !.verified = TRUE] /\ q.secret \in checked'[u]
        BY <1>0, <2>1, <2>3, <3>3 DEF WriteTotp, TypeOK
      <4>2. users'[u].enabled = row.enabled /\ users'[u].secret = row.secret
        BY <2>3, <4>1 DEF Row
      <4>3. row.secret = q.secret
        BY <2>3, <3>3
      <4>4. QED BY <2>2, <2>3, <4>1, <4>2, <4>3
    <3>4. CASE Exists(u) /\ q.kind = "disable"
      <4>1. users'[u] = [row EXCEPT !.enabled = FALSE, !.verified = FALSE, !.secret = NoSecret]
        BY <1>0, <2>1, <2>3, <3>4 DEF WriteTotp, TypeOK
      <4>2. ~users'[u].verified /\ users'[u].secret = NoSecret
        BY <2>3, <4>1 DEF Row
      <4>3. QED BY <4>2
    <3>5. QED BY <2>3, <3>1, <3>2, <3>3, <3>4
  <2>8. \A v \in Users : RowKept(v)'
    BY <2>2, <2>6, <2>7
  <2>9. ASSUME NEW c \in Browsers, InTotp(req[c])' PROVE ReqKept(c)'
    BY <2>2, <2>5, <2>6, <2>9 DEF Exists
  <2>10. QED BY <1>2, <2>8, <2>9
<1>6. ASSUME NEW b \in Browsers, AdminUpdate(b) \/ AdminCreate(b)
      PROVE  SecretKept'
  <2>1. PICK u \in Users :
            /\ \A v \in Users \ {u} : FactorSame(v)
            /\ \/ /\ Exists(u) /\ users'[u].is # "absent" /\ users'[u].enabled = users[u].enabled
                  /\ users'[u].verified = users[u].verified /\ users'[u].secret = users[u].secret
               \/ /\ users[u].is = "absent"
                  /\ \E is \in {"member", "admin"} : FactorNone(u, is)
    BY <1>6, FactorsAdmin
  <2>2. Kept /\ req' = req /\ checked' = checked
    BY <1>1, <1>6, FactorsAdmin
  <2>3. \A v \in Users : RowKept(v)'
    BY <2>1, <2>2 DEF FactorSame, FactorNone
  <2>4. \A c \in Browsers : InTotp(req'[c]) => req[c].user \in Users
    BY <2>2 DEF Typed, RequestsWhole
  <2>5. ASSUME NEW c \in Browsers, InTotp(req[c])' PROVE ReqKept(c)'
    <3>1. CASE req[c].user # u
      BY <2>1, <2>2, <2>4, <2>5, <3>1 DEF Exists, FactorSame
    <3>2. CASE req[c].user = u
      <4>1. /\ Exists(u) /\ users'[u].is # "absent" /\ users'[u].enabled = users[u].enabled
            /\ users'[u].verified = users[u].verified /\ users'[u].secret = users[u].secret
        BY <2>1, <2>2, <2>5, <3>2
      <4>2. QED BY <2>2, <2>5, <3>2, <4>1
    <3>3. QED BY <3>1, <3>2
  <2>6. QED BY <1>2, <2>3, <2>5
<1>7. ASSUME UNCHANGED <<users, req, app, sent, history>>
      PROVE  SecretKept'
  BY <1>1, <1>2, <1>7 DEF Exists, history
<1>8. QED BY <1>3, <1>4, <1>5, <1>6, <1>7, NextSteps

\* A second factor that is asked for has a secret that a code was checked against,
\* unless two changes of it overlapped.
THEOREM FactorCorrect == Spec => []FactorChecked
<1>1. Typed /\ SecretKept => FactorChecked
  <2> SUFFICES ASSUME Typed, SecretKept, NEW u \in Users, users[u].verified, "totp" \notin scars
               PROVE  users[u].enabled /\ users[u].secret \in checked[u]
    BY DEF FactorChecked
  <2>1. users[u].secret \in checked[u]
    BY DEF SecretKept
  <2>2. users[u].secret # NoSecret
    BY <2>1, NullAssumption DEF Typed, TypeOK
  <2>3. QED BY <2>1, <2>2 DEF SecretKept
<1>2. QED BY TypedInit, TypedNext, SecretKeptInit, SecretKeptNext, <1>1, PTL DEF Spec

-----------------------------------------------------------------------------
(* After a change of the password, the sessions are those of the new one. *)

\* What a step makes of a row's password: nothing, or another than by the user's change.
PasswordSame(u) ==
    /\ users'[u].is = "absent" => users[u].is = "absent"
    /\ users'[u].changed = "update" =>
           users[u].changed = "update" /\ users'[u].password = users[u].password
RefreshLess == \A t \in Serials : refresh'[t] = refresh[t] \/ refresh'[t].user = Nobody

LEMMA PasswordsStay ==
    ASSUME Typed, NEW b \in Browsers, Serve(b), ~StorePassword(b)
    PROVE  \A u \in Users : PasswordSame(u)
<1>1. TurnsAs(b) /\ TypeOK
  BY Turns DEF Typed
<1>2. PICK u \in Users : u = req[b].user
  BY Served DEF ServesAs
<1>3. users[u] \in Row
  BY <1>1 DEF TypeOK
<1>4. ASSUME NEW r, users' = [users EXCEPT ![u] = r], r.is # "absent",
             r.changed = "update" => users[u].changed = "update" /\ r.password = users[u].password
      PROVE  \A v \in Users : PasswordSame(v)
  BY <1>1, <1>4 DEF TypeOK, PasswordSame
<1>5. CASE users' = users
  BY <1>5 DEF PasswordSame
<1>6. CASE SignUpCreate(b) /\ users' # users
  <2>1. ASSUME NEW is \in {"member", "admin"}, NEW p
        PROVE  New(is, p).is # "absent" /\ New(is, p).changed # "update"
    BY DEF New
  <2>2. \E is, p : is \in {"member", "admin"} /\ users' = [users EXCEPT ![u] = New(is, p)]
    BY <1>2, <1>6 DEF SignUpCreate
  <2>3. QED BY <1>4, <2>1, <2>2
<1>7. CASE Erase(b)
  <2>1. New("gone", NoPassword).is # "absent" /\ New("gone", NoPassword).changed # "update"
    BY DEF New
  <2>2. QED BY <1>2, <1>4, <1>7, <2>1 DEF Erase
<1>8. CASE ResetStore(b) /\ users' # users
  <2> DEFINE r == [users[u] EXCEPT !.password = req[b].word, !.changed = "reset"]
  <2>1. users' = [users EXCEPT ![u] = r] /\ Exists(u)
    BY <1>1, <1>2, <1>8 DEF ResetStore, TypeOK
  <2>2. r.is # "absent" /\ r.changed # "update"
    BY <1>3, <2>1 DEF Row, Exists
  <2> HIDE DEF r
  <2>3. QED BY <1>4, <2>1, <2>2
<1>9. CASE WriteTotp(b) /\ users' # users
  <2> DEFINE row == users[u]
             En == [row EXCEPT !.enabled = TRUE, !.secret = req[b].secret]
             Ve == [row EXCEPT !.verified = TRUE]
             Di == [row EXCEPT !.enabled = FALSE, !.verified = FALSE, !.secret = NoSecret]
  <2>1. Exists(u) /\ \E r \in {En, Ve, Di} : users' = [users EXCEPT ![u] = r]
    BY <1>2, <1>9 DEF WriteTotp
  <2>2. \A r \in {En, Ve, Di} : r.is = row.is /\ r.changed = row.changed /\ r.password = row.password
    BY <1>3 DEF Row
  <2> HIDE DEF En, Ve, Di
  <2>3. QED BY <1>4, <2>1, <2>2 DEF Exists
<1>10. CASE ~SignUpCreate(b) /\ ~Erase(b) /\ ~ResetStore(b) /\ ~WriteTotp(b)
  <2>1. users' = users
    BY <1>1, <1>10 DEF TurnsAs, CreateLogin, CreateSession, UseLogin, TotpSession, ForgotDrop, ForgotMail,
         ResetDrop, PurgeSessions, CountAdmins
  <2>2. QED BY <1>5, <2>1
<1>11. QED BY <1>5, <1>6, <1>7, <1>8, <1>9, <1>10

LEMMA PasswordsAdmin ==
    ASSUME Typed, NEW b \in Browsers, AdminUpdate(b) \/ AdminCreate(b)
    PROVE  \A u \in Users : PasswordSame(u)
<1>1. TypeOK
  BY DEF Typed
<1>2. PICK u \in Users :
          \/ /\ Exists(u)
             /\ \/ \E is \in {"member", "admin"} : users' = [users EXCEPT ![u].is = is]
                \/ \E p \in Passwords : users' = [users EXCEPT ![u].password = p, ![u].changed = "admin"]
          \/ \E is \in {"member", "admin"} : users' = [users EXCEPT ![u] = New(is, NoPassword)]
  BY DEF AdminUpdate, AdminCreate
<1>3. \A v \in Users \ {u} : users'[v] = users[v]
  BY <1>1, <1>2 DEF TypeOK
<1>4. users[u] \in Row
  BY <1>1 DEF TypeOK
<1>5. \/ /\ Exists(u)
         /\ \/ \E is \in {"member", "admin"} : users'[u] = [users[u] EXCEPT !.is = is]
            \/ \E p \in Passwords : users'[u] = [users[u] EXCEPT !.password = p, !.changed = "admin"]
      \/ \E is \in {"member", "admin"} : users'[u] = New(is, NoPassword)
  BY <1>1, <1>2 DEF TypeOK
<1>6. PasswordSame(u)
  <2>1. ASSUME Exists(u), NEW is \in {"member", "admin"}, users'[u] = [users[u] EXCEPT !.is = is]
        PROVE  PasswordSame(u)
    BY <1>4, <2>1 DEF Row, PasswordSame
  <2>2. ASSUME Exists(u), NEW p \in Passwords, users'[u] = [users[u] EXCEPT !.password = p, !.changed = "admin"]
        PROVE  PasswordSame(u)
    BY <1>4, <2>2 DEF Row, Exists, PasswordSame
  <2>3. ASSUME NEW is \in {"member", "admin"}, users'[u] = New(is, NoPassword)
        PROVE  PasswordSame(u)
    BY <2>3 DEF New, PasswordSame
  <2>4. QED BY <1>5, <2>1, <2>2, <2>3
<1>7. QED BY <1>3, <1>6 DEF PasswordSame

\* Tokens only go, but for the sessions that are opened.
LEMMA RefreshGoes ==
    ASSUME Typed, NEW b \in Browsers, Serve(b), req[b].at # "session"
    PROVE  RefreshLess
<1>1. TurnsAs(b) /\ TypeOK
  BY Turns DEF Typed
<1>2. NoSession.user = Nobody
  BY DEF NoSession
<1>3. CASE Erase(b) \/ PurgeSessions(b)
  BY <1>1, <1>2, <1>3 DEF Erase, PurgeSessions, RefreshLess, TypeOK
<1>4. CASE ~Erase(b) /\ ~PurgeSessions(b)
  <2>1. refresh' = refresh
    BY <1>1, <1>4 DEF TurnsAs, At, SignUpCreate, CreateLogin, UseLogin, ForgotDrop, ForgotMail, ResetDrop,
         ResetStore, StorePassword, WriteTotp, CountAdmins, tokens
  <2>2. QED BY <2>1 DEF RefreshLess
<1>5. QED BY <1>3, <1>4

LEMMA RefreshExpires ==
    ASSUME Typed, Expire \/ (UNCHANGED tokens) \/ \E b \in Browsers : SignOut(b)
    PROVE  RefreshLess
<1>1. NoSession.user = Nobody /\ TypeOK
  BY DEF NoSession, Typed
<1>2. QED BY <1>1 DEF Expire, tokens, SignOut, RefreshLess, TypeOK

\* A session is one more row, with what the request has.
LEMMA SessionOpens ==
    ASSUME Typed, NEW b \in Browsers, NEW via \in {"password", "totp"}, OpenSession(b, via), req[b].kind # "none"
    PROVE  \A t \in Serials :
               \/ refresh'[t] = refresh[t]
               \/ /\ refresh'[t].user = req[b].user /\ refresh'[t].password = req[b].word
                  /\ refresh'[t].via = via
<1> DEFINE q == req[b]
           s == [NoSession EXCEPT !.user = q.user, !.password = q.word, !.via = via]
<1>1. refresh' = [refresh EXCEPT ![q.id] = s] \/ refresh' = refresh
  BY DEF OpenSession
<1>2. s.user = q.user /\ s.password = q.word /\ s.via = via
  BY DEF NoSession
<1> HIDE DEF s
<1>3. QED BY <1>1, <1>2 DEF Typed, TypeOK

LEMMA SessionsPurgedInit == Init => SessionsPurged
<1> SUFFICES ASSUME Init PROVE SessionsPurged
  OBVIOUS
<1>1. \A t \in Serials : refresh[t].user = Nobody
  BY DEF Init, NoSession
<1>2. \A b \in Browsers : req[b].at = "" /\ req[b].kind = "none" /\ Class(req[b].kind) = "none"
  BY DEF Init, Idle, Class
<1>3. QED BY <1>1, <1>2 DEF SessionsPurged, SessionsOfPassword, At

LEMMA SessionsPurgedNext == Typed /\ SessionsPurged /\ [Next]_vars => SessionsPurged'
<1> SUFFICES ASSUME Typed, SessionsPurged, [Next]_vars, "password" \notin scars'
             PROVE  SessionsPurged'
  BY DEF SessionsPurged
<1> DEFINE InPass(q) == q.kind \in {"signIn", "password"}
           Opens(q) == q.at = "session" /\ q.kind \in {"signIn", "password", "signUp"}
           Rows == \A t \in Serials :
                       refresh[t].user # Nobody /\ refresh[t].via = "password"
                       /\ users[refresh[t].user].changed = "update"
                           => refresh[t].password = users[refresh[t].user].password
           Words == \A b \in Browsers : Opens(req[b]) /\ users[req[b].user].changed = "update"
                        => req[b].word = users[req[b].user].password
           Stores == \A b \in Browsers : req[b].kind = "password" /\ req[b].at = "store" =>
                         \A t \in Serials : refresh[t].user = req[b].user => refresh[t].via # "password"
           Lone == \A b \in Browsers : InPass(req[b]) =>
                       /\ users[req[b].user].is # "absent"
                       /\ \A c \in Browsers \ {b} : req[c].user = req[b].user => ~InPass(req[c]) /\ ~Opens(req[c])
           Purged == Rows /\ Words /\ Stores /\ Lone
<1>0. TypeOK /\ Typed'
  BY TypedNext DEF Typed
<1>1. \A b \in Browsers :
          /\ (req[b].at = "session" /\ req[b].kind # "signInTotp") <=> Opens(req[b])
          /\ InPass(req[b]) <=> Class(req[b].kind) = "password"
  BY KindsType, Classes DEF Typed, RequestsWhole, Awaits
<1>2. \A b \in Browsers :
          /\ (req'[b].at = "session" /\ req'[b].kind # "signInTotp") <=> Opens(req'[b])
          /\ InPass(req'[b]) <=> Class(req'[b].kind) = "password"
  <2>1. \A b \in Browsers : req'[b].kind \in Kinds
    BY <1>0 DEF Typed, TypeOK, Request
  <2>2. QED BY <1>0, <2>1, Classes DEF Typed, RequestsWhole, Awaits
<1>3. scars \subseteq scars' => Purged
  <2> SUFFICES ASSUME scars \subseteq scars' PROVE Purged
    OBVIOUS
  <2>1. Rows
    BY DEF SessionsPurged, SessionsOfPassword
  <2>2. Words /\ Stores
    BY <1>1 DEF SessionsPurged, At
  <2>3. Lone
    BY <1>1 DEF SessionsPurged, At
  <2>4. QED BY <2>1, <2>2, <2>3
<1>4. Purged' => SessionsPurged'
  <2> SUFFICES ASSUME Purged' PROVE SessionsPurged'
    OBVIOUS
  <2>1. SessionsOfPassword'
    BY DEF SessionsOfPassword
  <2>2. QED BY <1>2, <2>1 DEF SessionsPurged, At
<1>5. ASSUME NEW b \in Browsers, Starts(b)
      PROVE  SessionsPurged'
  <2>1. PICK q : StartsAs(b, q)
    BY <1>5, Started
  <2>2. scars \subseteq scars' /\ (Class(q.kind) \notin scars' => ~Overlaps(b, q))
    BY <2>1, OverlapScars DEF Typed, StartsAs
  <2>3. Purged
    BY <1>3, <2>2
  <2>4. users' = users /\ refresh' = refresh
    BY <2>1 DEF StartsAs, Begin, tokens
  <2>5. /\ \A c \in Browsers \ {b} : req'[c] = req[c]
        /\ req'[b].kind = q.kind /\ req'[b].user = q.user /\ req'[b].word = q.word /\ req'[b].at = q.at
    BY <2>1, Begun DEF Typed, StartsAs
  <2>6. InPass(q) => \A c \in Browsers \ {b} : req[c].user = q.user => ~InPass(req[c]) /\ ~Opens(req[c])
    <3>1. InPass(q) => Class(q.kind) = "password"
      BY Classes DEF Kinds
    <3>2. InPass(q) => \A c \in Browsers \ {b} : req[c].user = q.user =>
                           Class(req[c].kind) # "password" /\ req[c].kind # "signUp"
      BY <2>2, <3>1 DEF Overlaps
    <3>3. QED BY <1>1, <3>2
  <2>7. InPass(q) => users[q.user].is # "absent"
    BY <2>1 DEF StartsAs, Exists
  <2>8. Opens(q) => InPass(q) /\ q.word = users[q.user].password
    BY <2>1 DEF StartsAs
  <2>9. ~(q.kind = "password" /\ q.at = "store")
    BY <2>1 DEF StartsAs
  <2>10. Rows' /\ Words' /\ Stores'
    BY <2>3, <2>4, <2>5, <2>8, <2>9
  <2>11. Lone'
    BY <2>3, <2>4, <2>5, <2>6, <2>7, <2>8
  <2>12. QED BY <1>4, <2>10, <2>11
<1>6. ASSUME NEW b \in Browsers, Serve(b), req[b].at = "session"
      PROVE  SessionsPurged'
  <2>1. ServesAs(b) /\ TurnsAs(b)
    BY <1>6, Served, Turns
  <2>2. Purged
    BY <1>3, <2>1 DEF ServesAs
  <2>3. req'[b].kind = "none" /\ \A c \in Browsers \ {b} : req'[c] = req[c]
    BY <1>6, <2>1 DEF ServesAs, Moves
  <2>4. PICK via \in {"password", "totp"} :
            OpenSession(b, via) /\ users' = users /\ (via = "password" => Opens(req[b]))
    BY <1>1, <1>6, <2>1 DEF TurnsAs, At, CreateSession, TotpSession
  <2>5. \A t \in Serials :
            \/ refresh'[t] = refresh[t]
            \/ /\ refresh'[t].user = req[b].user /\ refresh'[t].password = req[b].word
               /\ refresh'[t].via = via
    BY <2>1, <2>4, SessionOpens DEF ServesAs
  <2>6. Rows'
    BY <2>2, <2>4, <2>5
  <2>7. \A c \in Browsers : Opens(req[b]) /\ req'[c].kind = "password" => req'[c].user # req[b].user
    BY <2>2, <2>3
  <2>8. Stores'
    BY <2>2, <2>3, <2>4, <2>5, <2>7
  <2>9. Words' /\ Lone'
    BY <2>2, <2>3, <2>4
  <2>10. QED BY <1>4, <2>6, <2>8, <2>9
<1>7. ASSUME NEW b \in Browsers, StorePassword(b)
      PROVE  SessionsPurged'
  <2>1. ServesAs(b) /\ At(b, "password", "store")
    BY <1>7, Served DEF Serve, StorePassword
  <2>2. Purged
    BY <1>3, <2>1 DEF ServesAs
  <2>20. PICK u \in Users : u = req[b].user
    BY <2>1 DEF ServesAs
  <2>3. refresh' = refresh /\ \A c \in Browsers \ {b} : req'[c] = req[c]
    BY <1>7, <2>1 DEF StorePassword, tokens, ServesAs
  <2>4. CASE ~Exists(u)
    <3>1. users' = users /\ req'[b].kind = "none"
      BY <1>0, <1>7, <2>20, <2>4, Ended DEF StorePassword
    <3>2. Rows' /\ Words' /\ Stores' /\ Lone'
      BY <2>2, <2>3, <3>1
    <3>3. QED BY <1>4, <3>2
  <2>5. CASE Exists(u)
    <3>1. /\ users' = [users EXCEPT ![u].password = req[b].word, ![u].changed = "update"]
          /\ Goto(b, "session") /\ req[b].word \in Passwords
      BY <1>0, <1>7, <2>20, <2>5 DEF StorePassword, TypeOK, Request
    <3>2. /\ \A v \in Users \ {u} : users'[v] = users[v]
          /\ users'[u] = [users[u] EXCEPT !.password = req[b].word, !.changed = "update"]
      BY <1>0, <3>1 DEF TypeOK
    <3>3. users'[u].password = req[b].word /\ users'[u].is = users[u].is
      BY <1>0, <3>2 DEF TypeOK, Row
    <3>4. req'[b].kind = "password" /\ req'[b].at = "session" /\ req'[b].user = u /\ req'[b].word = req[b].word
      BY <1>0, <2>1, <2>20, <3>1, Went DEF At, Steps
    <3>5. \A t \in Serials : refresh[t].user = u => refresh[t].via # "password"
      BY <2>1, <2>2, <2>20 DEF At
    <3>6. \A t \in Serials : refresh[t].user \in Users \cup {Nobody}
      BY <1>0 DEF TypeOK, Session
    <3>7. Rows'
      BY <2>2, <2>3, <3>2, <3>5, <3>6
    <3>8. \A c \in Browsers \ {b} : req[c].user = u => ~InPass(req[c]) /\ ~Opens(req[c])
      BY <2>1, <2>2, <2>20 DEF At
    <3>9. \A c \in Browsers \ {b} : Opens(req[c]) \/ InPass(req[c]) => req[c].user \in Users
      BY DEF Typed, RequestsWhole
    <3>10. Words' /\ Stores'
      <4>1. ASSUME NEW c \in Browsers, c # b, Opens(req[c]) PROVE users'[req[c].user] = users[req[c].user]
        BY <3>2, <3>8, <3>9, <4>1
      <4>2. Words'
        BY <2>2, <2>3, <3>3, <3>4, <4>1
      <4>3. Stores'
        BY <2>2, <2>3, <3>4
      <4>4. QED BY <4>2, <4>3
    <3>11. Lone'
      <4>1. ASSUME NEW c \in Browsers, InPass(req'[c])
            PROVE  InPass(req[c]) /\ req'[c].user = req[c].user /\ req[c].user \in Users
        BY <2>1, <2>3, <2>20, <3>4, <3>9, <4>1 DEF At
      <4>2. \A v \in Users : users'[v].is = users[v].is
        BY <3>2, <3>3
      <4>3. ASSUME NEW c \in Browsers, InPass(req'[c]), NEW d \in Browsers \ {c}, req'[d].user = req'[c].user
            PROVE  ~InPass(req'[d]) /\ ~Opens(req'[d])
        <5>1. CASE d = b
          BY <2>3, <3>4, <3>8, <4>1, <4>3, <5>1
        <5>2. CASE d # b
          BY <2>2, <2>3, <4>1, <4>3, <5>2
        <5>3. QED BY <5>1, <5>2
      <4>4. QED BY <2>2, <4>1, <4>2, <4>3
    <3>12. QED BY <1>4, <3>7, <3>10, <3>11
  <2>6. QED BY <2>4, <2>5
<1>8. ASSUME NEW b \in Browsers, Serve(b), ~StorePassword(b), req[b].at # "session"
      PROVE  SessionsPurged'
  <2>1. ServesAs(b) /\ TurnsAs(b) /\ RefreshLess /\ \A u \in Users : PasswordSame(u)
    BY <1>8, Served, Turns, RefreshGoes, PasswordsStay
  <2>2. Purged
    BY <1>3, <2>1 DEF ServesAs
  <2>3. \A t \in Serials : refresh[t].user \in Users \cup {Nobody}
    BY <1>0 DEF TypeOK, Session
  <2>4. \A c \in Browsers : Opens(req[c]) \/ InPass(req[c]) => req[c].user \in Users
    BY DEF Typed, RequestsWhole
  <2>5. Rows'
    BY <2>1, <2>2, <2>3 DEF RefreshLess, PasswordSame
  <2>6. Opens(req'[b]) => SignUpCreate(b)
    BY <1>8, <2>1 DEF ServesAs, TurnsAs, Moves, At
  <2>7. Opens(req'[b]) => users[req[b].user].is = "absent" /\ users'[req[b].user].changed # "update"
                          /\ req'[b].user = req[b].user
    <3> SUFFICES ASSUME Opens(req'[b])
                 PROVE  users[req[b].user].is = "absent" /\ users'[req[b].user].changed # "update"
                        /\ req'[b].user = req[b].user
      OBVIOUS
    <3>1. SignUpCreate(b) /\ req[b].user \in Users /\ req'[b].user = req[b].user
      BY <2>1, <2>6 DEF ServesAs
    <3>2. users[req[b].user].is = "absent"
      BY <1>0, <3>1, Ended DEF SignUpCreate
    <3>3. users' = [users EXCEPT ![req[b].user] = New(IF req[b].flag THEN "admin" ELSE "member", req[b].word)]
      BY <3>1, <3>2 DEF SignUpCreate
    <3>4. users'[req[b].user].changed # "update"
      BY <1>0, <3>1, <3>3 DEF New, TypeOK
    <3>5. QED BY <3>1, <3>2, <3>4
  <2>8. \A c \in Browsers \ {b} : req'[c] = req[c]
    BY <2>1 DEF ServesAs
  <2>9. Words'
    BY <2>1, <2>2, <2>4, <2>7, <2>8 DEF PasswordSame
  <2>10. req'[b].kind = "password" /\ req'[b].at = "store" => PurgeSessions(b) /\ req'[b].user = req[b].user
    BY <1>8, <2>1 DEF ServesAs, TurnsAs, Moves, At
  <2>11. Stores'
    <3>1. \A c \in Browsers \ {b} : req'[c] = req[c]
      BY <2>8
    <3>2. PurgeSessions(b) => \A t \in Serials : refresh'[t].user # req[b].user
      <4>1. req[b].user # Nobody /\ NoSession.user = Nobody
        BY <2>1, NullAssumption DEF ServesAs, NoSession
      <4>2. QED BY <1>0, <4>1 DEF PurgeSessions, TypeOK
    <3>3. ASSUME NEW c \in Browsers \ {b}, req[c].kind = "password", NEW t \in Serials,
                 refresh'[t].user = req[c].user, req[c].at = "store"
          PROVE  refresh'[t].via # "password"
      <4>1. req[c].user # Nobody
        BY <3>3, NullAssumption DEF Typed, RequestsWhole
      <4>2. refresh'[t] = refresh[t]
        BY <2>1, <3>3, <4>1 DEF RefreshLess
      <4>3. QED BY <2>2, <3>3, <4>2
    <3>4. QED BY <2>10, <3>1, <3>2, <3>3
  <2>12. Lone'
    <3>1. InPass(req'[b]) => InPass(req[b]) /\ req'[b].user = req[b].user
      BY <2>1 DEF ServesAs
    <3>2. ASSUME NEW c \in Browsers, InPass(req'[c]) PROVE InPass(req[c]) /\ req'[c].user = req[c].user
      BY <2>8, <3>1, <3>2
    <3>3. ASSUME NEW c \in Browsers, InPass(req'[c])
          PROVE  users'[req'[c].user].is # "absent"
      BY <2>1, <2>2, <2>4, <3>2, <3>3 DEF PasswordSame
    <3>4. ASSUME NEW c \in Browsers, InPass(req'[c]), NEW d \in Browsers \ {c}, req'[d].user = req'[c].user
          PROVE  ~InPass(req'[d]) /\ ~Opens(req'[d])
      <4>1. CASE d # b
        BY <2>2, <2>8, <3>2, <3>4, <4>1
      <4>2. CASE d = b
        <5>1. ~Opens(req'[b])
          BY <2>2, <2>7, <3>2, <3>4, <4>2
        <5>2. ~InPass(req'[b])
          BY <2>2, <3>1, <3>2, <3>4, <4>2
        <5>3. QED BY <4>2, <5>1, <5>2
      <4>3. QED BY <4>1, <4>2
    <3>5. QED BY <3>3, <3>4
  <2>13. QED BY <1>4, <2>5, <2>9, <2>11, <2>12
<1>9. ASSUME NEW b \in Browsers, AdminUpdate(b) \/ AdminCreate(b)
      PROVE  SessionsPurged'
  <2>1. req' = req /\ scars \subseteq scars' /\ refresh' = refresh /\ \A u \in Users : PasswordSame(u)
    BY <1>9, PasswordsAdmin DEF AdminUpdate, AdminCreate, history, tokens
  <2>2. Purged
    BY <1>3, <2>1
  <2>3. \A t \in Serials : refresh[t].user \in Users \cup {Nobody}
    BY <1>0 DEF TypeOK, Session
  <2>4. \A c \in Browsers : Opens(req[c]) \/ InPass(req[c]) => req[c].user \in Users
    BY DEF Typed, RequestsWhole
  <2>5. Rows' /\ Words' /\ Stores' /\ Lone'
    BY <2>1, <2>2, <2>3, <2>4 DEF PasswordSame
  <2>6. QED BY <1>4, <2>5
<1>10. ASSUME UNCHANGED <<users, req, app, sent, history>>, RefreshLess
      PROVE  SessionsPurged'
  <2>1. Purged
    BY <1>3, <1>10 DEF history
  <2>2. Rows'
    BY <1>10, <2>1 DEF RefreshLess
  <2>3. \A c \in Browsers : req[c].kind # "none" => req[c].user # Nobody
    BY NullAssumption DEF Typed, RequestsWhole
  <2>4. Stores'
    BY <1>10, <2>1, <2>3 DEF RefreshLess
  <2>5. Words' /\ Lone'
    BY <1>10, <2>1
  <2>6. QED BY <1>4, <2>2, <2>4, <2>5
<1>11. QED BY <1>5, <1>6, <1>7, <1>8, <1>9, <1>10, NextSteps, RefreshExpires

\* After a change of one's password, the sessions of a password are those of the new
\* one, unless a sign-in or another change overlapped.
THEOREM SessionsCorrect == Spec => []SessionsOfPassword
<1>1. SessionsPurged => SessionsOfPassword
  BY DEF SessionsPurged, SessionsOfPassword
<1>2. QED BY TypedInit, TypedNext, SessionsPurgedInit, SessionsPurgedNext, <1>1, PTL DEF Spec

-----------------------------------------------------------------------------
(* A token is spent once. *)

LEMMA SentType == ASSUME Typed PROVE
    /\ sent \in Nat /\ Serials \subseteq Nat \ {0} /\ \A t \in 1 .. sent : t \in Serials
<1>1. sent \in Tokens
  BY DEF Typed, TypeOK
<1>2. QED BY <1>1, BoundAssumption DEF Tokens, Serials

LEMMA IdsOwnInit == Init => IdsOwn
<1> SUFFICES ASSUME Init PROVE IdsOwn
  OBVIOUS
<1>1. \A b \in Browsers : req[b].kind = "none"
  BY DEF Init, Idle
<1>2. QED BY <1>1 DEF IdsOwn

LEMMA IdsOwnNext == Typed /\ IdsOwn /\ [Next]_vars => IdsOwn'
<1> SUFFICES ASSUME Typed, IdsOwn, [Next]_vars PROVE IdsOwn'
  OBVIOUS
<1>0. sent \in Nat
  BY SentType
<1>1. ASSUME NEW b \in Browsers, Starts(b) PROVE IdsOwn'
  <2>1. PICK q : StartsAs(b, q)
    BY <1>1, Started
  <2>2. /\ \A c \in Browsers \ {b} : req'[c] = req[c]
        /\ req'[b].id = sent + 1 /\ sent' = sent + 1
    BY <2>1, Begun DEF Typed, StartsAs
  <2>3. \A c \in Browsers : req[c].kind # "none" => req[c].id \in 1 .. sent /\ req[c].id # sent + 1
    BY <1>0 DEF IdsOwn
  <2>4. \A c \in Browsers : req'[c].kind # "none" => req'[c].id \in 1 .. sent'
    BY <1>0, <2>2, <2>3
  <2>5. \A c, d \in Browsers : req'[c].kind # "none" /\ req'[d].kind # "none" /\ req'[c].id = req'[d].id => c = d
    BY <2>2, <2>3 DEF IdsOwn
  <2>6. QED BY <2>4, <2>5 DEF IdsOwn
<1>2. ASSUME NEW b \in Browsers, Serve(b) PROVE IdsOwn'
  <2>1. ServesAs(b)
    BY <1>2, Served
  <2>2. \A c \in Browsers : req'[c].kind # "none" => req[c].kind # "none" /\ req'[c].id = req[c].id
    BY <2>1 DEF ServesAs
  <2>3. sent' = sent
    BY <2>1 DEF ServesAs
  <2>4. QED BY <2>2, <2>3 DEF IdsOwn
<1>3. ASSUME NEW b \in Browsers, AdminUpdate(b) \/ AdminCreate(b) PROVE IdsOwn'
  <2>1. req' = req /\ sent' = sent + 1
    BY <1>3 DEF AdminUpdate, AdminCreate
  <2>2. QED BY <1>0, <2>1 DEF IdsOwn
<1>4. ASSUME UNCHANGED <<users, req, app, sent, history>> PROVE IdsOwn'
  BY <1>4 DEF IdsOwn
<1>5. QED BY <1>1, <1>2, <1>3, <1>4, NextSteps

LEMMA MailedOnceInit == Init => MailedOnce
<1> SUFFICES ASSUME Init PROVE MailedOnce
  OBVIOUS
<1>1. \A b \in Browsers : req[b].kind = "none"
  BY DEF Init, Idle
<1>2. QED BY <1>1 DEF Init, MailedOnce, At

LEMMA MailedOnceNext == Typed /\ IdsOwn /\ MailedOnce /\ [Next]_vars => MailedOnce'
<1> SUFFICES ASSUME Typed, IdsOwn, MailedOnce, [Next]_vars PROVE MailedOnce'
  OBVIOUS
<1> DEFINE Stores(q) == q.kind = "reset" /\ q.at = "store"
           M1 == \A u \in Users : reset[u] \in 0 .. sent
           M2 == \A u, v \in Users : reset[u] = reset[v] /\ reset[u] # 0 => u = v
           M3 == \A t \in Serials : resets[t] <= 1 /\ (resets[t] # 0 => t <= sent)
           M4 == \A u \in Users : reset[u] # 0 =>
                    /\ resets[reset[u]] = 0
                    /\ \A b \in Browsers : Stores(req[b]) => req[b].token # reset[u]
           M5 == \A b \in Browsers : req[b].kind = "forgot" =>
                    /\ \A u \in Users : reset[u] # req[b].id
                    /\ resets[req[b].id] = 0
                    /\ \A c \in Browsers : req[c].kind = "reset" => req[c].token # req[b].id
           M6 == \A b \in Browsers : req[b].kind = "reset" => req[b].token \in 1 .. sent
           M7 == \A b \in Browsers : Stores(req[b]) =>
                    /\ resets[req[b].token] = 0
                    /\ \A c \in Browsers : Stores(req[c]) /\ req[c].token = req[b].token => b = c
<1>0. M1 /\ M2 /\ M3 /\ M4 /\ M5 /\ M6 /\ M7
  BY DEF MailedOnce, At
<1>1. M1' /\ M2' /\ M3' /\ M4' /\ M5' /\ M6' /\ M7' => MailedOnce'
  BY DEF MailedOnce, At
<1>2. sent \in Nat /\ TypeOK /\ \A t \in 1 .. sent : t \in Serials
  BY SentType DEF Typed
<1>20. \A c \in Browsers : req[c].kind = "forgot" => req[c].id \in Serials /\ req[c].id # 0
  BY <1>2 DEF IdsOwn
<1>3. ASSUME NEW b \in Browsers, Starts(b) PROVE MailedOnce'
  <2>1. PICK q : StartsAs(b, q)
    BY <1>3, Started
  <2>2. reset' = reset /\ resets' = resets
    BY <2>1 DEF StartsAs, Begin, tokens
  <2>3. /\ \A c \in Browsers \ {b} : req'[c] = req[c]
        /\ req'[b].kind = q.kind /\ req'[b].user = q.user /\ req'[b].token = q.token /\ req'[b].at = q.at
        /\ req'[b].id = sent + 1 /\ sent' = sent + 1 /\ sent + 1 \in Serials
    BY <2>1, Begun DEF Typed, StartsAs
  <2>4. /\ ~Stores(q)
        /\ q.kind = "reset" => q.user \in Users /\ q.token = reset[q.user] /\ q.token # 0
    BY <2>1 DEF StartsAs
  <2>50. M1' /\ M2' /\ M3'
    BY <1>0, <1>2, <2>2, <2>3, SentType
  <2>51. ASSUME NEW c \in Browsers, req'[c].kind = "reset" PROVE req'[c].token \in 1 .. sent'
    <3>1. CASE c = b
      <4>1. req'[c].token \in 0 .. sent /\ req'[c].token # 0
        BY <1>0, <2>3, <2>4, <2>51, <3>1
      <4>2. QED BY <1>2, <2>3, <4>1
    <3>2. CASE c # b
      <4>1. req'[c].token \in 1 .. sent
        BY <1>0, <2>3, <2>51, <3>2
      <4>2. QED BY <1>2, <2>3, <4>1
    <3>3. QED BY <3>1, <3>2
  <2>5. M1' /\ M2' /\ M3' /\ M6'
    BY <2>50, <2>51
  <2>6. M4' /\ M7'
    BY <1>0, <2>2, <2>3, <2>4
  <2>7. M5'
    <3>1. resets[sent + 1] = 0
      BY <1>0, <1>2, <2>3
    <3>2. \A u \in Users : reset[u] # sent + 1
      BY <1>0, <1>2
    <3>3. \A c \in Browsers : req[c].kind = "reset" => req[c].token # sent + 1
      BY <1>0, <1>2
    <3>4. QED BY <1>0, <2>2, <2>3, <2>4, <3>1, <3>2, <3>3
  <2>8. QED BY <1>1, <2>5, <2>6, <2>7
<1>4. ASSUME NEW b \in Browsers, Serve(b) PROVE MailedOnce'
  <2>1. ServesAs(b) /\ TurnsAs(b)
    BY <1>4, Served, Turns
  <2>2. PICK u \in Users : u = req[b].user
    BY <2>1 DEF ServesAs
  <2>3. sent' = sent /\ \A c \in Browsers \ {b} : req'[c] = req[c]
    BY <2>1 DEF ServesAs
  <2>4. CASE ForgotDrop(b)
    <3>1. /\ req'[b].kind = "none" \/ req'[b].kind = "forgot"
          /\ req'[b].kind = "forgot" => req'[b].id = req[b].id
          /\ At(b, "forgot", "drop") /\ resets' = resets
      BY <2>1, <2>4 DEF ServesAs, Moves, ForgotDrop, At, history
    <3>2. reset' = reset \/ reset' = [reset EXCEPT ![u] = 0]
      BY <2>2, <2>4 DEF ForgotDrop
    <3>3. \A v \in Users : reset'[v] = reset[v] \/ reset'[v] = 0
      BY <1>2, <3>2 DEF TypeOK
    <3>4. M1' /\ M2' /\ M3' /\ M6'
      BY <1>0, <1>2, <2>3, <3>1, <3>3
    <3>5. M4' /\ M7'
      BY <1>0, <2>3, <3>1, <3>3
    <3>6. M5'
      BY <1>0, <1>20, <2>3, <3>1, <3>3 DEF At
    <3>7. QED BY <1>1, <3>4, <3>5, <3>6
  <2>5. CASE ForgotMail(b)
    <3>1. req[b].kind = "forgot" /\ req'[b].kind = "none" /\ resets' = resets
      BY <1>2, <2>5, Ended DEF ForgotMail, At, history
    <3>2. reset' = reset \/ (reset[u] = 0 /\ reset' = [reset EXCEPT ![u] = req[b].id])
      BY <2>2, <2>5 DEF ForgotMail
    <3>3. req[b].id \in 1 .. sent
      BY <3>1 DEF IdsOwn
    <3>4. /\ \A v \in Users : reset[v] # req[b].id
          /\ resets[req[b].id] = 0
          /\ \A c \in Browsers : req[c].kind = "reset" => req[c].token # req[b].id
      BY <1>0, <3>1
    <3>5. \A v \in Users : reset'[v] = reset[v] \/ (v = u /\ reset'[v] = req[b].id)
      BY <1>2, <3>2 DEF TypeOK
    <3>6. M1' /\ M2'
      BY <1>0, <1>2, <2>3, <3>3, <3>4, <3>5
    <3>7. M3' /\ M6' /\ M7'
      BY <1>0, <2>3, <3>1
    <3>8. M4'
      BY <1>0, <2>3, <3>1, <3>4, <3>5
    <3>9. M5'
      <4>1. \A c \in Browsers \ {b} : req[c].kind = "forgot" => req[c].id # req[b].id
        BY <3>1 DEF IdsOwn
      <4>2. QED BY <1>0, <2>3, <3>1, <3>5, <4>1
    <3>10. QED BY <1>1, <3>6, <3>7, <3>8, <3>9
  <2>6. CASE ResetDrop(b)
    <3>1. req[b].kind = "reset" /\ resets' = resets
      BY <2>6 DEF ResetDrop, At, history
    <3>2. CASE reset[u] = req[b].token
      <4>1. /\ reset' = [reset EXCEPT ![u] = 0] /\ req'[b].kind = "reset" /\ req'[b].token = req[b].token
        BY <1>2, <2>2, <2>6, <3>1, <3>2, Went DEF ResetDrop, Steps
      <4>2. req[b].token \in 1 .. sent /\ reset[u] # 0
        BY <1>0, <1>2, <3>1, <3>2
      <4>3. \A v \in Users : (v # u => reset'[v] = reset[v] /\ (reset[v] # 0 => reset[v] # reset[u])) /\ reset'[u] = 0
        BY <1>0, <1>2, <4>1, <4>2 DEF TypeOK
      <4>4. M1' /\ M2'
        BY <1>0, <1>2, <2>3, <4>3
      <4>5. M3' /\ M6'
        BY <1>0, <2>3, <3>1, <4>1
      <4>6. M4'
        BY <1>0, <2>3, <3>1, <3>2, <4>1, <4>3
      <4>7. M5'
        BY <1>0, <1>20, <2>3, <3>1, <4>1, <4>3
      <4>8. M7'
        BY <1>0, <2>3, <3>1, <3>2, <4>1, <4>2
      <4>9. QED BY <1>1, <4>4, <4>5, <4>6, <4>7, <4>8
    <3>3. CASE reset[u] # req[b].token
      <4>1. req'[b].kind = "none" /\ reset' = reset
        BY <1>2, <2>2, <2>6, <3>3, Ended DEF ResetDrop
      <4>2. M1' /\ M2' /\ M3' /\ M4' /\ M5' /\ M6' /\ M7'
        BY <1>0, <2>3, <3>1, <4>1
      <4>3. QED BY <1>1, <4>2
    <3>4. QED BY <3>2, <3>3
  <2>7. CASE ResetStore(b)
    <3>1. Stores(req[b]) /\ req'[b].kind = "none" /\ reset' = reset
      BY <1>2, <2>7, Ended DEF ResetStore, At, tokens
    <3>2. PICK k \in Serials : k = req[b].token /\ k <= sent
      BY <1>0, <1>2, <3>1
    <3>3. resets' = [resets EXCEPT ![k] = resets[k] + 1]
      BY <2>7, <3>2 DEF ResetStore
    <3>4. resets[k] = 0 /\ resets'[k] = 1 /\ \A t \in Serials \ {k} : resets'[t] = resets[t]
      BY <1>0, <1>2, <3>1, <3>2, <3>3 DEF TypeOK
    <3>5. M1' /\ M2' /\ M6'
      BY <1>0, <2>3, <3>1
    <3>6. M3'
      BY <1>0, <2>3, <3>2, <3>4
    <3>7. M4'
      <4>1. \A v \in Users : reset[v] # 0 => reset[v] \in Serials \ {k}
        BY <1>0, <1>2, <3>1, <3>2
      <4>2. QED BY <1>0, <2>3, <3>1, <3>4, <4>1
    <3>8. M5'
      <4>1. \A c \in Browsers : req[c].kind = "forgot" => req[c].id \in Serials \ {k}
        BY <1>0, <1>20, <3>1, <3>2
      <4>2. QED BY <1>0, <2>3, <3>1, <3>4, <4>1
    <3>9. M7'
      <4>1. \A c \in Browsers \ {b} : Stores(req[c]) => req[c].token \in Serials \ {k}
        BY <1>0, <1>2, <3>1, <3>2
      <4>2. QED BY <1>0, <2>3, <3>1, <3>4, <4>1
    <3>10. QED BY <1>1, <3>5, <3>6, <3>7, <3>8, <3>9
  <2>8. CASE Erase(b)
    <3>1. req'[b].kind = "none" /\ resets' = resets /\ reset' = [reset EXCEPT ![u] = 0]
      BY <1>2, <2>2, <2>8, Ended DEF Erase, history
    <3>2. \A v \in Users : reset'[v] = reset[v] \/ reset'[v] = 0
      BY <1>2, <3>1 DEF TypeOK
    <3>3. M1' /\ M2' /\ M3' /\ M6'
      BY <1>0, <1>2, <2>3, <3>1, <3>2
    <3>4. M4' /\ M5' /\ M7'
      BY <1>0, <1>20, <2>3, <3>1, <3>2
    <3>5. QED BY <1>1, <3>3, <3>4
  <2>9. CASE ~ForgotDrop(b) /\ ~ForgotMail(b) /\ ~ResetDrop(b) /\ ~ResetStore(b) /\ ~Erase(b)
    <3>1. reset' = reset /\ resets' = resets
      BY <2>1, <2>9 DEF TurnsAs, SignUpCreate, CreateLogin, CreateSession, UseLogin, TotpSession, PurgeSessions,
         StorePassword, WriteTotp, CountAdmins, tokens, history
    <3>2. req'[b].kind \notin {"forgot", "reset"}
      BY <2>1, <2>9 DEF TurnsAs, ServesAs, Moves, At
    <3>3. QED BY <1>0, <1>1, <2>3, <3>1, <3>2
  <2>10. QED BY <2>4, <2>5, <2>6, <2>7, <2>8, <2>9
<1>5. ASSUME NEW b \in Browsers, AdminUpdate(b) \/ AdminCreate(b) PROVE MailedOnce'
  <2>1. req' = req /\ sent' = sent + 1 /\ reset' = reset /\ resets' = resets
    BY <1>5 DEF AdminUpdate, AdminCreate, tokens, history
  <2>2. M1' /\ M3' /\ M6'
    BY <1>0, <1>2, <2>1, SentType
  <2>3. M2' /\ M4' /\ M5' /\ M7'
    BY <1>0, <2>1
  <2>4. QED BY <1>1, <2>2, <2>3
<1>6. ASSUME UNCHANGED <<users, req, app, sent, history>>,
             Expire \/ (UNCHANGED tokens) \/ \E b \in Browsers : SignOut(b)
      PROVE  MailedOnce'
  <2>1. \A u \in Users : reset'[u] = reset[u] \/ reset'[u] = 0
    BY <1>2, <1>6 DEF Expire, SignOut, tokens, TypeOK
  <2>2. req' = req /\ sent' = sent /\ resets' = resets
    BY <1>6 DEF history
  <2>3. M1' /\ M2'
    BY <1>0, <1>2, <2>1, <2>2
  <2>4. M3' /\ M4' /\ M5' /\ M6' /\ M7'
    BY <1>0, <1>20, <2>1, <2>2
  <2>5. QED BY <1>1, <2>3, <2>4
<1>7. QED BY <1>3, <1>4, <1>5, <1>6, NextSteps

LEMMA LoginsOwnInit == Init => LoginsOwn
<1> SUFFICES ASSUME Init PROVE LoginsOwn
  OBVIOUS
<1>1. \A b \in Browsers : req[b].kind = "none"
  BY DEF Init, Idle
<1>2. \A t \in Serials : login[t].user = Nobody /\ opened[t] = 0
  BY DEF Init, NoLogin
<1>3. QED BY <1>1, <1>2 DEF LoginsOwn

\* What a step makes of a login token: nothing, or it is marked, or gone.
LoginKept(t) ==
    /\ login'[t].user \in {login[t].user, Nobody}
    /\ login[t].used \/ login[t].user = Nobody => login'[t].used \/ login'[t].user = Nobody

LEMMA LoginsStay ==
    ASSUME Typed, NEW b \in Browsers, Serve(b), ~CreateLogin(b)
    PROVE  \A t \in Serials : LoginKept(t)
<1>1. TurnsAs(b) /\ TypeOK
  BY Turns DEF Typed
<1>2. CASE login' = login
  BY <1>2 DEF LoginKept
<1>3. CASE Erase(b)
  <2>1. NoLogin.user = Nobody
    BY DEF NoLogin
  <2>2. QED BY <1>1, <1>3, <2>1 DEF Erase, LoginKept, TypeOK
<1>4. CASE UseLogin(b) /\ login' # login
  <2> DEFINE l == [login[req[b].token] EXCEPT !.used = TRUE]
  <2>1. login' = [login EXCEPT ![req[b].token] = l]
    BY <1>1, <1>4 DEF UseLogin, TypeOK
  <2>2. req[b].token \in Serials => l.user = login[req[b].token].user /\ l.used
    BY <1>1 DEF TypeOK, Login
  <2> HIDE DEF l
  <2>3. QED BY <1>1, <2>1, <2>2 DEF LoginKept, TypeOK
<1>5. CASE ~Erase(b) /\ ~UseLogin(b)
  <2>1. login' = login
    BY <1>1, <1>5 DEF TurnsAs, SignUpCreate, CreateSession, TotpSession, ForgotDrop, ForgotMail,
         ResetDrop, ResetStore, PurgeSessions, StorePassword, WriteTotp, CountAdmins, tokens
  <2>2. QED BY <1>2, <2>1
<1>6. QED BY <1>2, <1>3, <1>4, <1>5

LEMMA LoginsExpire ==
    ASSUME Typed, Expire \/ (UNCHANGED tokens) \/ \E b \in Browsers : SignOut(b)
    PROVE  \A t \in Serials : LoginKept(t)
<1>1. NoLogin.user = Nobody /\ TypeOK
  BY DEF NoLogin, Typed
<1>2. QED BY <1>1 DEF Expire, tokens, SignOut, LoginKept, TypeOK

\* Only a second sign-in step counts as opening.
LEMMA OpenedStays ==
    ASSUME Typed, NEW b \in Browsers, Serve(b), ~TotpSession(b)
    PROVE  opened' = opened
<1>1. TurnsAs(b)
  BY Turns
<1>2. QED BY <1>1 DEF TurnsAs, SignUpCreate, CreateLogin, UseLogin, CreateSession, ForgotDrop, ForgotMail,
         ResetDrop, ResetStore, PurgeSessions, StorePassword, WriteTotp, CountAdmins, Erase, history

LEMMA LoginCreated ==
    ASSUME Typed, IdsOwn, NEW b \in Browsers, CreateLogin(b)
    PROVE  /\ req[b].kind = "signIn" /\ req'[b].kind = "none" /\ req[b].id \in Serials
           /\ \A t \in Serials \ {req[b].id} : login'[t] = login[t]
           /\ \/ login'[req[b].id] = login[req[b].id]
              \/ login'[req[b].id].user = req[b].user
<1>1. TypeOK /\ req[b].kind = "signIn"
  BY DEF CreateLogin, At, Typed
<1>2. req[b].id \in Serials
  BY <1>1 DEF Typed, RequestsWhole
<1>3. req'[b].kind = "none"
  BY <1>1, Ended DEF CreateLogin
<1> DEFINE l == [NoLogin EXCEPT !.user = req[b].user, !.password = req[b].word]
<1>4. login' = [login EXCEPT ![req[b].id] = l] \/ login' = login
  BY DEF CreateLogin
<1>5. l.user = req[b].user
  BY DEF NoLogin
<1> HIDE DEF l
<1>6. QED BY <1>1, <1>2, <1>3, <1>4, <1>5 DEF TypeOK

LEMMA LoginsOwnNext == Typed /\ IdsOwn /\ LoginsOwn /\ [Next]_vars => LoginsOwn'
<1> SUFFICES ASSUME Typed, IdsOwn, LoginsOwn, [Next]_vars PROVE LoginsOwn'
  OBVIOUS
<1> DEFINE L1 == \A t \in Serials : t > sent => login[t].user = Nobody /\ opened[t] = 0
           L2 == \A b \in Browsers : req[b].kind = "signIn" =>
                    /\ login[req[b].id].user = Nobody /\ opened[req[b].id] = 0
                    /\ \A c \in Browsers : req[c].kind = "signInTotp" => req[c].token # req[b].id
           L3 == \A b \in Browsers : req[b].kind = "signInTotp" =>
                    /\ req[b].token \in 1 .. sent
                    /\ login[req[b].token].user \in {Nobody, req[b].user}
<1>0. L1 /\ L2 /\ L3
  BY DEF LoginsOwn
<1>1. L1' /\ L2' /\ L3' => LoginsOwn'
  BY DEF LoginsOwn
<1>2. sent \in Nat /\ TypeOK /\ \A t \in 1 .. sent : t \in Serials
  BY SentType DEF Typed
<1>20. \A c \in Browsers : req[c].kind # "none" => req[c].id \in Serials /\ req[c].id \in 1 .. sent
  BY <1>2 DEF IdsOwn
<1>21. \A t \in Serials : t \in Nat /\ t # 0
  BY SentType
<1>3. ASSUME NEW b \in Browsers, Starts(b) PROVE LoginsOwn'
  <2>1. PICK q : StartsAs(b, q)
    BY <1>3, Started
  <2>2. login' = login /\ opened' = opened
    BY <2>1 DEF StartsAs, Begin, tokens
  <2>3. /\ \A c \in Browsers \ {b} : req'[c] = req[c]
        /\ req'[b].kind = q.kind /\ req'[b].user = q.user /\ req'[b].token = q.token
        /\ req'[b].id = sent + 1 /\ sent' = sent + 1 /\ sent + 1 \in Serials
    BY <2>1, Begun DEF Typed, StartsAs
  <2>4. q.kind = "signInTotp" => /\ q.token \in Serials /\ q.user = login[q.token].user
                                 /\ q.user # Nobody
    BY <2>1, NullAssumption DEF StartsAs
  <2>5. q.kind = "signInTotp" => q.token \in 1 .. sent
    BY <1>0, <1>2, <1>21, <2>4
  <2>6. L1'
    BY <1>0, <1>2, <1>21, <2>2, <2>3
  <2>7. ASSUME NEW c \in Browsers, req'[c].kind = "signInTotp"
        PROVE  req'[c].token \in 1 .. sent /\ login[req'[c].token].user \in {Nobody, req'[c].user}
    BY <1>0, <2>3, <2>4, <2>5, <2>7
  <2>8. L3'
    BY <1>2, <2>2, <2>3, <2>7
  <2>9. ASSUME NEW c \in Browsers, req'[c].kind = "signIn"
        PROVE  /\ login[req'[c].id].user = Nobody /\ opened[req'[c].id] = 0
               /\ \A d \in Browsers : req'[d].kind = "signInTotp" => req'[d].token # req'[c].id
    <3>1. CASE c = b
      <4>1. login[sent + 1].user = Nobody /\ opened[sent + 1] = 0
        BY <1>0, <1>2, <2>3
      <4>2. QED BY <1>2, <2>3, <2>7, <3>1, <4>1
    <3>2. CASE c # b
      <4>1. /\ req'[c] = req[c] /\ login[req[c].id].user = Nobody /\ opened[req[c].id] = 0
            /\ \A d \in Browsers : req[d].kind = "signInTotp" => req[d].token # req[c].id
        BY <1>0, <2>3, <2>9, <3>2
      <4>2. QED BY <2>3, <2>4, <3>2, <4>1
    <3>3. QED BY <3>1, <3>2
  <2>10. L2'
    BY <2>2, <2>9
  <2>11. QED BY <1>1, <2>6, <2>8, <2>10
<1>4. ASSUME NEW b \in Browsers, Serve(b) PROVE LoginsOwn'
  <2>1. ServesAs(b) /\ TurnsAs(b)
    BY <1>4, Served, Turns
  <2>2. /\ \A c \in Browsers \ {b} : req'[c] = req[c]
        /\ sent' = sent
    BY <2>1 DEF ServesAs
  <2>3. CASE CreateLogin(b)
    <3>1. /\ req[b].kind = "signIn" /\ req'[b].kind = "none" /\ req[b].id \in Serials
          /\ \A t \in Serials \ {req[b].id} : login'[t] = login[t]
          /\ \/ login'[req[b].id] = login[req[b].id]
             \/ login'[req[b].id].user = req[b].user
      BY <2>3, LoginCreated
    <3>2. opened' = opened
      BY <2>3 DEF CreateLogin, history
    <3>3. req[b].id \in 1 .. sent
      BY <1>20, <3>1
    <3>4. L1'
      BY <1>0, <1>2, <1>21, <2>2, <3>1, <3>2, <3>3
    <3>5. \A c \in Browsers : req[c].kind = "signInTotp" => req[c].token # req[b].id
      BY <1>0, <3>1
    <3>6. L3'
      BY <1>0, <1>2, <2>2, <3>1, <3>5
    <3>7. \A c \in Browsers \ {b} : req[c].kind = "signIn" => req[c].id # req[b].id
      BY <3>1 DEF IdsOwn
    <3>8. L2'
      BY <1>0, <1>20, <2>2, <3>1, <3>2, <3>7
    <3>9. QED BY <1>1, <3>4, <3>6, <3>8
  <2>4. CASE ~CreateLogin(b)
    <3>1. \A t \in Serials : login'[t].user \in {login[t].user, Nobody}
      BY <1>4, <2>4, LoginsStay DEF LoginKept
    <3>2. req'[b].kind # "signIn"
      BY <2>1, <2>4 DEF ServesAs, Moves
    <3>3. req'[b].kind = "signInTotp" => /\ req[b].kind = "signInTotp" /\ req'[b].token = req[b].token
                                         /\ req'[b].user = req[b].user
      BY <2>1 DEF ServesAs
    <3>4. L3'
      BY <1>0, <1>2, <2>2, <3>1, <3>3
    <3>5. PICK k : /\ \A t \in Serials : t # k => opened'[t] = opened[t]
                   /\ k \in 1 .. sent \/ opened' = opened
                   /\ \A c \in Browsers : req[c].kind = "signIn" => k # req[c].id \/ opened' = opened
      <4>1. CASE TotpSession(b)
        <5>1. req[b].kind = "signInTotp"
          BY <4>1 DEF TotpSession, At
        <5>2. \A t \in Serials : t # req[b].token => opened'[t] = opened[t]
          BY <1>2, <4>1 DEF TotpSession, TypeOK
        <5>3. QED BY <1>0, <5>1, <5>2
      <4>2. CASE ~TotpSession(b)
        BY <1>4, <4>2, OpenedStays
      <4>3. QED BY <4>1, <4>2
    <3>6. L1'
      BY <1>0, <1>2, <1>21, <2>2, <3>1, <3>5
    <3>7. L2'
      BY <1>0, <1>20, <2>2, <3>1, <3>2, <3>3, <3>5
    <3>8. QED BY <1>1, <3>4, <3>6, <3>7
  <2>5. QED BY <2>3, <2>4
<1>5. ASSUME NEW b \in Browsers, AdminUpdate(b) \/ AdminCreate(b) PROVE LoginsOwn'
  <2>1. req' = req /\ sent' = sent + 1 /\ login' = login /\ opened' = opened
    BY <1>5 DEF AdminUpdate, AdminCreate, tokens, history
  <2>2. L1' /\ L3'
    BY <1>0, <1>2, <1>21, <2>1
  <2>3. L2'
    BY <1>0, <2>1
  <2>4. QED BY <1>1, <2>2, <2>3
<1>6. ASSUME UNCHANGED <<users, req, app, sent, history>>,
             Expire \/ (UNCHANGED tokens) \/ \E b \in Browsers : SignOut(b)
      PROVE  LoginsOwn'
  <2>1. \A t \in Serials : login'[t].user \in {login[t].user, Nobody}
    BY <1>6, LoginsExpire DEF LoginKept
  <2>2. req' = req /\ sent' = sent /\ opened' = opened
    BY <1>6 DEF history
  <2>3. L1' /\ L2' /\ L3'
    BY <1>0, <1>2, <1>20, <2>1, <2>2
  <2>4. QED BY <1>1, <2>3
<1>7. QED BY <1>3, <1>4, <1>5, <1>6, NextSteps

LEMMA OpenedOnceInit == Init => OpenedOnce
<1> SUFFICES ASSUME Init PROVE OpenedOnce
  OBVIOUS
<1>1. \A b \in Browsers : req[b].kind = "none"
  BY DEF Init, Idle
<1>2. \A t \in Serials : opened[t] = 0
  BY DEF Init
<1>3. QED BY <1>1, <1>2 DEF OpenedOnce

LEMMA OpenedOnceNext == Typed /\ IdsOwn /\ LoginsOwn /\ OpenedOnce /\ [Next]_vars => OpenedOnce'
<1> SUFFICES ASSUME Typed, IdsOwn, LoginsOwn, OpenedOnce, [Next]_vars, "signInTotp" \notin scars'
             PROVE  OpenedOnce'
  BY DEF OpenedOnce
<1> DEFINE Spent(t) == login[t].used \/ login[t].user = Nobody
           With(q) == q.kind = "signInTotp"
           O1 == \A t \in Serials : opened[t] <= 1 /\ (opened[t] # 0 => Spent(t))
           O2 == \A b \in Browsers : With(req[b]) => opened[req[b].token] = 0
           O3 == \A b \in Browsers : With(req[b]) /\ req[b].at = "session" => Spent(req[b].token)
           O4 == \A b, c \in Browsers : With(req[b]) /\ With(req[c]) /\ req[c].token = req[b].token => b = c
<1>0. scars \subseteq scars' => O1 /\ O2 /\ O3 /\ O4
  BY DEF OpenedOnce
<1>1. O1' /\ O2' /\ O3' /\ O4' => OpenedOnce'
  BY DEF OpenedOnce
<1>2. TypeOK /\ \A c \in Browsers : With(req[c]) => /\ req[c].token \in Serials
                                                     /\ login[req[c].token].user \in {Nobody, req[c].user}
  BY SentType DEF LoginsOwn, Typed
<1>3. ASSUME NEW b \in Browsers, Starts(b) PROVE OpenedOnce'
  <2>1. PICK q : StartsAs(b, q)
    BY <1>3, Started
  <2>2. scars \subseteq scars' /\ (Class(q.kind) \notin scars' => ~Overlaps(b, q))
    BY <2>1, OverlapScars DEF Typed, StartsAs
  <2>3. O1 /\ O2 /\ O3 /\ O4
    BY <1>0, <2>2
  <2>4. login' = login /\ opened' = opened
    BY <2>1 DEF StartsAs, Begin, tokens
  <2>5. /\ \A c \in Browsers \ {b} : req'[c] = req[c]
        /\ req'[b].kind = q.kind /\ req'[b].user = q.user /\ req'[b].token = q.token /\ req'[b].at = q.at
    BY <2>1, Begun DEF Typed, StartsAs
  <2>6. With(q) => /\ q.token \in Serials /\ q.user = login[q.token].user /\ ~login[q.token].used
                   /\ q.user # Nobody /\ q.at = "use"
    BY <2>1, NullAssumption DEF StartsAs
  <2>7. With(q) => \A c \in Browsers \ {b} : With(req[c]) => req[c].user # q.user
    BY <2>2, Classes DEF Overlaps, Kinds
  <2>8. With(q) => \A c \in Browsers \ {b} : With(req[c]) => req[c].token # q.token
    BY <1>2, <2>6, <2>7
  <2>9. O1' /\ O2' /\ O3'
    BY <2>3, <2>4, <2>5, <2>6
  <2>10. O4'
    BY <2>3, <2>5, <2>8
  <2>11. QED BY <1>1, <2>9, <2>10
<1>4. ASSUME NEW b \in Browsers, Serve(b) PROVE OpenedOnce'
  <2>1. ServesAs(b) /\ TurnsAs(b)
    BY <1>4, Served, Turns
  <2>2. O1 /\ O2 /\ O3 /\ O4
    BY <1>0, <2>1 DEF ServesAs
  <2>3. \A c \in Browsers \ {b} : req'[c] = req[c]
    BY <2>1 DEF ServesAs
  <2>30. With(req'[b]) => With(req[b]) /\ req'[b].token = req[b].token
    BY <2>1 DEF ServesAs
  <2>4. O4'
    BY <2>2, <2>3, <2>30
  <2>5. CASE CreateLogin(b)
    <3>1. /\ req[b].kind = "signIn" /\ req'[b].kind = "none"
          /\ \A t \in Serials \ {req[b].id} : login'[t] = login[t]
      BY <2>5, LoginCreated
    <3>2. opened' = opened
      BY <2>5 DEF CreateLogin, history
    <3>3. /\ opened[req[b].id] = 0
          /\ \A c \in Browsers : With(req[c]) => req[c].token # req[b].id
      BY <3>1 DEF LoginsOwn
    <3>4. O1' /\ O2' /\ O3'
      BY <1>2, <2>2, <2>3, <3>1, <3>2, <3>3
    <3>5. QED BY <1>1, <2>4, <3>4
  <2>6. CASE UseLogin(b)
    <3>1. \A t \in Serials : Spent(t) => Spent(t)'
      BY <1>4, <2>1, <2>6, LoginsStay DEF LoginKept, TurnsAs, At, UseLogin, CreateLogin
    <3>2. opened' = opened /\ With(req[b])
      BY <2>6 DEF UseLogin, At, history
    <3>30. PICK k \in Serials : k = req[b].token
      BY <1>2, <3>2
    <3>3. With(req'[b]) => Spent(k)'
      <4>1. SUFFICES ASSUME With(req'[b]) PROVE login'[k].used
        OBVIOUS
      <4>2. login' = [login EXCEPT ![k].used = TRUE]
        BY <1>2, <2>6, <3>30, <4>1, Ended DEF UseLogin
      <4>3. login' = [login EXCEPT ![k] = [login[k] EXCEPT !.used = TRUE]]
        BY <4>2
      <4>4. QED BY <1>2, <4>3 DEF TypeOK
    <3>4. O1' /\ O2'
      BY <1>2, <2>2, <2>3, <2>30, <3>1, <3>2
    <3>5. O3'
      BY <1>2, <2>2, <2>3, <2>30, <3>1, <3>2, <3>30, <3>3
    <3>6. QED BY <1>1, <2>4, <3>4, <3>5
  <2>7. CASE TotpSession(b)
    <3>1. login' = login /\ With(req[b]) /\ req[b].at = "session" /\ req'[b].kind = "none"
      BY <1>2, <2>7, Ended DEF TotpSession, At, OpenSession
    <3>2. PICK k \in Serials : k = req[b].token
      BY <1>2, <3>1
    <3>3. opened[k] = 0 /\ Spent(k)
      BY <2>2, <3>1, <3>2
    <3>4. opened'[k] \in {0, 1} /\ \A t \in Serials \ {k} : opened'[t] = opened[t]
      BY <1>2, <2>7, <3>2, <3>3 DEF TotpSession, TypeOK
    <3>5. O1'
      BY <2>2, <3>1, <3>3, <3>4
    <3>6. \A c \in Browsers \ {b} : With(req[c]) => req[c].token # k
      BY <2>2, <3>1, <3>2
    <3>7. O2' /\ O3'
      BY <1>2, <2>2, <2>3, <3>1, <3>4, <3>6
    <3>8. QED BY <1>1, <2>4, <3>5, <3>7
  <2>8. CASE ~CreateLogin(b) /\ ~UseLogin(b) /\ ~TotpSession(b)
    <3>1. opened' = opened /\ \A t \in Serials : Spent(t) => Spent(t)'
      BY <1>4, <2>8, LoginsStay, OpenedStays DEF LoginKept
    <3>2. ~With(req'[b])
      BY <2>1, <2>8 DEF ServesAs, TurnsAs, Moves, At
    <3>3. O1' /\ O2' /\ O3'
      BY <1>2, <2>2, <2>3, <3>1, <3>2
    <3>4. QED BY <1>1, <2>4, <3>3
  <2>9. QED BY <2>5, <2>6, <2>7, <2>8
<1>5. ASSUME NEW b \in Browsers, AdminUpdate(b) \/ AdminCreate(b) PROVE OpenedOnce'
  <2>1. req' = req /\ scars \subseteq scars' /\ login' = login /\ opened' = opened
    BY <1>5 DEF AdminUpdate, AdminCreate, tokens, history
  <2>2. O1' /\ O2' /\ O3' /\ O4'
    BY <1>0, <2>1
  <2>3. QED BY <1>1, <2>2
<1>6. ASSUME UNCHANGED <<users, req, app, sent, history>>,
             Expire \/ (UNCHANGED tokens) \/ \E b \in Browsers : SignOut(b)
      PROVE  OpenedOnce'
  <2>1. \A t \in Serials : Spent(t) => Spent(t)'
    BY <1>6, LoginsExpire DEF LoginKept
  <2>2. req' = req /\ scars' = scars /\ opened' = opened
    BY <1>6 DEF history
  <2>3. O1' /\ O2' /\ O3' /\ O4'
    BY <1>0, <1>2, <2>1, <2>2
  <2>4. QED BY <1>1, <2>3
<1>7. QED BY <1>3, <1>4, <1>5, <1>6, NextSteps

\* A mailed token sets one password, and a login token opens one session, unless two
\* sign-ins with it overlapped.
THEOREM TokensCorrect == Spec => []TokensSpentOnce
<1>1. MailedOnce /\ OpenedOnce => TokensSpentOnce
  BY DEF MailedOnce, OpenedOnce, TokensSpentOnce
<1>2. QED BY TypedInit, TypedNext, IdsOwnInit, IdsOwnNext, MailedOnceInit, MailedOnceNext, LoginsOwnInit,
             LoginsOwnNext, OpenedOnceInit, OpenedOnceNext, <1>1, PTL DEF Spec

===============================================================================
