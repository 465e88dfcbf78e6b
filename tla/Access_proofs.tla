---------------------------- MODULE Access_proofs ----------------------------
(***************************************************************************)
(* Theorems about Access, for any number of visitors, requests, shares and *)
(* edits.  Each invariant below is inductive on top of Typed.              *)
(***************************************************************************)
EXTENDS Access, TLAPS

-----------------------------------------------------------------------------
(* Inductive invariants. *)

\* TypeOK with the history, and the awaited statements of each kind of request.
TokensOld == \A r \in Requests : req[r].token.born <= share.born
RequestsWhole == \A r \in Requests :
    /\ req[r].at = "sign" => req[r].kind = "token"
    /\ req[r].at = "count" => req[r].kind = "token" \/ (req[r].kind = "file" /\ req[r].token = NoToken)
    /\ req[r].at = "verify" => req[r].kind \in {"page", "file"}
    /\ req[r].kind = "token" => req[r].at \in {"sign", "count"}

Typed ==
    /\ share \in Share /\ edition \in Nat /\ opens \in Nat /\ begun \in Nat
    /\ cookie \in [DOMAIN cookie -> Token] /\ DOMAIN cookie \subseteq Visitors
    /\ \A v \in DOMAIN cookie : cookie[v].born <= share.born
    /\ req \in [Requests -> Request]
    /\ typed \subseteq Visitors
    /\ TokensOld /\ RequestsWhole

\* Why an old token lets nobody in: one that carries the share's second was signed at
\* this edition.
Fresh(t) == t # NoToken /\ t.born = share.born => t.edition = edition
ReadOfEdition(q) ==
    q.at = "read" /\ q.token # NoToken /\ q.by \notin {Owner, Host} => q.token.edition = q.edition
TokensFresh == "second" \notin scars =>
    /\ \A v \in DOMAIN cookie : Fresh(cookie[v])
    /\ \A r \in Requests : Fresh(req[r].token)
    /\ \A r \in Requests : ReadOfEdition(req[r])

\* Why a password and a private link are kept: a token of this second was given to one
\* who typed the password of the share there is, and no request is older than the share.
Typing(v, t) == t # NoToken /\ t.born = share.born /\ share.set.password => v \in typed
Serving(q) == q.at = "read" \/ (q.at = "count" /\ q.kind = "file")
ContentGuarded == share.there /\ scars \cap {"replaced", "second"} = {} =>
    /\ \A v \in DOMAIN cookie : Typing(v, cookie[v])
    /\ \A r \in Requests : LET q == req[r] IN
        /\ Typing(q.by, q.token)
        /\ q.at = "sign" /\ share.set.password => q.by \in typed
        /\ q.at = "verify" => q.set = share.set
        /\ Serving(q) => Allowed(q)

\* Why the counter is right: the only request that will count a view has read it as it is.
Counting(r) == req[r].at \in {"sign", "count"}
ViewsRead ==
  /\ ~share.there => opens = 0
  /\ share.there /\ scars \cap {"overlap", "replaced"} = {} =>
    /\ share.views = opens
    /\ share.set.max # 0 /\ "admin" \notin scars => opens <= share.set.max
    /\ \A r \in Requests : Counting(r) =>
        /\ req[r].views = share.views
        /\ share.set.max # 0 /\ "admin" \notin scars => req[r].views < share.set.max
    /\ \A q, r \in Requests : Counting(q) /\ Counting(r) => q = r

-----------------------------------------------------------------------------
(* What each step does to the requests. *)

LEMMA Settled == /\ NoSettings \in Settings /\ NoToken \in Token /\ Free \in Request
                 /\ Free.at = "" /\ Free.kind = "free" /\ Free.token = NoToken /\ NoToken.born = 0
BY BoundAssumption DEF NoSettings, Settings, NoToken, Token, Free, Request, Visitors

LEMMA NoTokenBorn ==
    ASSUME NEW t, t = NoToken
    PROVE  t.born = 0
BY DEF NoToken

LEMMA FreeFields ==
    ASSUME NEW q, q = Free
    PROVE  q.at = "" /\ q.kind = "free" /\ q.token = NoToken /\ q.by = Owner /\ q.views = 0
BY DEF Free

LEMMA FreeBorn ==
    ASSUME NEW q, q = Free
    PROVE  q.token.born = 0
BY FreeFields, NoTokenBorn

\* What the fields of the state are.
LEMMA Numbers == 0 \in 0 .. MaxShares /\ 0 \in 0 .. MaxEditions /\ 0 .. MaxEditions \subseteq Nat
BY BoundAssumption

LEMMA TokenFields ==
    ASSUME NEW t \in Token
    PROVE  t.born \in Nat /\ t.edition \in Nat
<1>1. t.born \in 0 .. MaxEditions /\ t.edition \in Nat
  BY DEF Token
<1>2. QED BY <1>1, Numbers

LEMMA RequestFields ==
    ASSUME NEW q \in Request
    PROVE  /\ q.by \in Visitors /\ q.views \in Nat /\ q.token \in Token
           /\ q.token.born \in Nat /\ q.edition \in Nat
<1>1. q.by \in Visitors /\ q.views \in Nat /\ q.token \in Token /\ q.edition \in Nat
  BY DEF Request
<1>2. QED BY <1>1, TokenFields

LEMMA ShareFields ==
    ASSUME NEW s \in Share
    PROVE  s.born \in Nat /\ s.views \in Nat /\ s.set \in Settings /\ s.n \in 0 .. MaxShares
<1>1. s.born \in 0 .. MaxEditions /\ s.views \in Nat /\ s.set \in Settings /\ s.n \in 0 .. MaxShares
  BY DEF Share
<1>2. QED BY <1>1, Numbers

LEMMA StateFields ==
    ASSUME Typed
    PROVE  /\ share \in Share /\ share.born \in Nat /\ share.views \in Nat /\ share.set \in Settings
           /\ share.n \in 0 .. MaxShares
           /\ edition \in Nat /\ opens \in Nat /\ begun \in Nat /\ typed \subseteq Visitors
           /\ cookie \in [DOMAIN cookie -> Token] /\ DOMAIN cookie \subseteq Visitors
           /\ \A v \in DOMAIN cookie : cookie[v] \in Token /\ cookie[v].born \in Nat /\ cookie[v].born <= share.born
           /\ req \in [Requests -> Request]
           /\ \A r \in Requests : /\ req[r] \in Request /\ req[r].by \in Visitors /\ req[r].views \in Nat
                                  /\ req[r].token \in Token /\ req[r].token.born \in Nat
           /\ TokensOld /\ RequestsWhole
<1>1. /\ share \in Share /\ edition \in Nat /\ opens \in Nat /\ begun \in Nat
      /\ cookie \in [DOMAIN cookie -> Token] /\ DOMAIN cookie \subseteq Visitors
      /\ \A v \in DOMAIN cookie : cookie[v].born <= share.born
      /\ req \in [Requests -> Request] /\ typed \subseteq Visitors
      /\ TokensOld /\ RequestsWhole
  BY DEF Typed
<1>2. \A v \in DOMAIN cookie : cookie[v] \in Token
  BY <1>1
<1>3. \A v \in DOMAIN cookie : cookie[v].born \in Nat
  BY <1>2, TokenFields
<1>4. \A r \in Requests : req[r] \in Request
  BY <1>1
<1>5. \A r \in Requests : /\ req[r].by \in Visitors /\ req[r].views \in Nat
                          /\ req[r].token \in Token /\ req[r].token.born \in Nat
  BY <1>4, RequestFields
<1>6. share.born \in Nat /\ share.views \in Nat /\ share.set \in Settings /\ share.n \in 0 .. MaxShares
  BY <1>1, ShareFields
<1>7. QED BY <1>1, <1>2, <1>3, <1>4, <1>5, <1>6

LEMMA NoShareTyped ==
    ASSUME NEW n \in 0 .. MaxShares, NEW born \in 0 .. MaxEditions
    PROVE  /\ NoShare(n, born) \in Share /\ NoShare(n, born).born = born /\ NoShare(n, born).views = 0
           /\ ~NoShare(n, born).there
BY Settled DEF NoShare, Share

\* A request that begins, with what its guard has read.
Asks(r, v, kind, at, set, views, token) ==
    /\ req[r] = Free /\ req' \in [Requests -> Request]
    /\ \A x \in Requests \ {r} : req'[x] = req[x]
    /\ req'[r].by = v /\ req'[r].kind = kind /\ req'[r].at = at
    /\ req'[r].set = set /\ req'[r].views = views /\ req'[r].token = token

LEMMA Asked ==
    ASSUME Typed, NEW r \in Requests, NEW q \in Request, Begin(r, q)
    PROVE  Asks(r, q.by, q.kind, q.at, q.set, q.views, q.token)
<1> DEFINE t == [q EXCEPT !.n = share.n]
<1>1. /\ t \in Request /\ t.by = q.by /\ t.kind = q.kind /\ t.at = q.at
      /\ t.set = q.set /\ t.views = q.views /\ t.token = q.token
  BY DEF Typed, Request, Share
<1>2. req[r] = Free /\ req' = [req EXCEPT ![r] = t]
  BY DEF Begin
<1> HIDE DEF t
<1>3. QED BY <1>1, <1>2 DEF Asks, Typed

LEMMA TokenAsked ==
    ASSUME Typed, NEW v \in DOMAIN cookie, NEW r \in Requests, AskToken(v, r)
    PROVE  Asks(r, v, "token", "sign", NoSettings, share.views, NoToken)
<1>1. v \in Visitors /\ share.views \in Nat
  BY DEF Typed, Share
<1> DEFINE q == [Free EXCEPT !.by = v, !.kind = "token", !.at = "sign", !.views = share.views]
<1>2. /\ q \in Request /\ q.by = v /\ q.kind = "token" /\ q.at = "sign"
      /\ q.set = NoSettings /\ q.views = share.views /\ q.token = NoToken
  BY <1>1, Settled DEF Free, Request
<1>3. Begin(r, q)
  BY DEF AskToken, BeginCounted
<1> HIDE DEF q
<1>4. Asks(r, q.by, q.kind, q.at, q.set, q.views, q.token)
  BY <1>2, <1>3, Asked
<1>5. QED BY <1>2, <1>4

LEMMA FileAsked ==
    ASSUME Typed, NEW v \in DOMAIN cookie, NEW r \in Requests, AskFile(v, r)
    PROVE  Asks(r, v, "file", "count", NoSettings, share.views, NoToken)
<1>1. v \in Visitors /\ share.views \in Nat
  BY DEF Typed, Share
<1> DEFINE q == [Free EXCEPT !.by = v, !.kind = "file", !.at = "count", !.views = share.views]
<1>2. /\ q \in Request /\ q.by = v /\ q.kind = "file" /\ q.at = "count"
      /\ q.set = NoSettings /\ q.views = share.views /\ q.token = NoToken
  BY <1>1, Settled DEF Free, Request
<1>3. Begin(r, q)
  BY DEF AskFile, BeginCounted
<1> HIDE DEF q
<1>4. Asks(r, q.by, q.kind, q.at, q.set, q.views, q.token)
  BY <1>2, <1>3, Asked
<1>5. QED BY <1>2, <1>4

LEMMA GuardedAsked ==
    ASSUME Typed, NEW v \in DOMAIN cookie, NEW r \in Requests, AskGuarded(v, r)
    PROVE  \E kind \in {"page", "file"} : Asks(r, v, kind, "verify", share.set, 0, cookie[v])
<1>1. v \in Visitors /\ share.set \in Settings /\ cookie[v] \in Token
  BY DEF Typed, Share
<1>2. PICK kind \in {"page", "file"} :
          Begin(r, [Free EXCEPT !.by = v, !.kind = kind, !.at = "verify", !.token = cookie[v],
                                !.set = share.set])
  BY DEF AskGuarded
<1> DEFINE q == [Free EXCEPT !.by = v, !.kind = kind, !.at = "verify", !.token = cookie[v],
                             !.set = share.set]
<1>3. /\ q \in Request /\ q.by = v /\ q.kind = kind /\ q.at = "verify"
      /\ q.set = share.set /\ q.views = 0 /\ q.token = cookie[v]
  BY <1>1, Settled DEF Free, Request
<1> HIDE DEF q
<1>4. Asks(r, q.by, q.kind, q.at, q.set, q.views, q.token)
  BY <1>2, <1>3, Asked DEF q
<1>5. QED BY <1>3, <1>4

LEMMA OwnerAsked ==
    ASSUME Typed, NEW v \in DOMAIN cookie, NEW r \in Requests, AskOwner(v, r)
    PROVE  Asks(r, v, "owner", "read", NoSettings, 0, NoToken)
<1>1. v \in Visitors /\ edition \in Nat
  BY DEF Typed
<1> DEFINE q == [Free EXCEPT !.by = v, !.kind = "owner", !.at = "read", !.edition = edition]
<1>2. /\ q \in Request /\ q.by = v /\ q.kind = "owner" /\ q.at = "read"
      /\ q.set = NoSettings /\ q.views = 0 /\ q.token = NoToken
  BY <1>1, Settled DEF Free, Request
<1>3. Begin(r, q)
  BY DEF AskOwner
<1> HIDE DEF q
<1>4. Asks(r, q.by, q.kind, q.at, q.set, q.views, q.token)
  BY <1>2, <1>3, Asked
<1>5. QED BY <1>2, <1>4

\* A request that goes on, with what it reads then; who asked and for what stay.
GoesOn(r, at, token) ==
    /\ req' \in [Requests -> Request]
    /\ \A x \in Requests \ {r} : req'[x] = req[x]
    /\ req'[r].by = req[r].by /\ req'[r].kind = req[r].kind
    /\ req'[r].at = at /\ req'[r].token = token
Ends(r) == req' = [req EXCEPT ![r] = Free]

LEMMA SignGoes ==
    ASSUME Typed, NEW r \in Requests, Sign(r)
    PROVE  \/ Ends(r) /\ ~share.there
           \/ /\ share.there
              /\ GoesOn(r, "count", [born |-> share.born, edition |-> edition])
              /\ req'[r].views = req[r].views
<1>0. req[r] \in Request /\ req \in [Requests -> Request]
  BY DEF Typed
<1> DEFINE t == [born |-> share.born, edition |-> edition]
           q == [req[r] EXCEPT !.at = "count", !.token = t]
<1>1. t \in Token
  BY DEF Typed, Share, Token
<1>2. CASE share.there
  <2>1. req' = [req EXCEPT ![r] = q]
    <3>1. req' = [req EXCEPT ![r].at = "count", ![r].token = t]
      BY <1>2 DEF Sign
    <3>2. QED BY <1>0, <3>1 DEF Request
  <2> HIDE DEF t
  <2>2. /\ q \in Request /\ q.by = req[r].by /\ q.kind = req[r].kind /\ q.views = req[r].views
        /\ q.at = "count" /\ q.token = t
    BY <1>0, <1>1 DEF Request
  <2> HIDE DEF q
  <2>3. GoesOn(r, "count", t) /\ req'[r].views = req[r].views
    BY <1>0, <2>1, <2>2 DEF GoesOn
  <2>4. QED BY <1>2, <2>3 DEF t
<1>3. CASE ~share.there
  BY <1>3 DEF Sign, End, Ends
<1>4. QED BY <1>2, <1>3

LEMMA CountGoes ==
    ASSUME Typed, NEW r \in Requests, Count(r)
    PROVE  \/ Ends(r)
           \/ GoesOn(r, "read", req[r].token) /\ req[r].kind = "file" /\ share.there /\ cookie' = cookie
<1>0. req[r] \in Request /\ req \in [Requests -> Request] /\ req[r].kind \in {"token", "file"}
  BY DEF Typed, Count, RequestsWhole
<1>1. CASE share.there /\ req[r].kind = "file"
  <2> DEFINE q == [req[r] EXCEPT !.at = "read", !.views = 0]
  <2>1. req' = [req EXCEPT ![r] = q]
    <3>1. req' = [req EXCEPT ![r].at = "read", ![r].views = 0]
      BY <1>1 DEF Count
    <3>2. QED BY <1>0, <3>1 DEF Request
  <2>2. /\ q \in Request /\ q.by = req[r].by /\ q.kind = req[r].kind
        /\ q.at = "read" /\ q.token = req[r].token
    BY <1>0 DEF Request
  <2> HIDE DEF q
  <2>3. QED BY <1>0, <1>1, <2>1, <2>2 DEF GoesOn, Count
<1>2. CASE ~(share.there /\ req[r].kind = "file")
  BY <1>0, <1>2 DEF Count, End, Ends
<1>3. QED BY <1>1, <1>2

LEMMA VerifyGoes ==
    ASSUME Typed, NEW r \in Requests, Verify(r)
    PROVE  \/ Ends(r)
           \/ /\ share.there /\ Pass(req[r]) /\ GoesOn(r, "read", req[r].token)
              /\ req'[r].edition = edition
<1>0. req[r] \in Request /\ req \in [Requests -> Request] /\ edition \in Nat
  BY DEF Typed
<1>1. CASE share.there /\ Pass(req[r])
  <2> DEFINE q == [req[r] EXCEPT !.at = "read", !.edition = edition, !.set = NoSettings]
  <2>1. req' = [req EXCEPT ![r] = q]
    <3>1. req' = [req EXCEPT ![r].at = "read", ![r].edition = edition, ![r].set = NoSettings]
      BY <1>1 DEF Verify
    <3>2. QED BY <1>0, <3>1 DEF Request
  <2>2. /\ q \in Request /\ q.by = req[r].by /\ q.kind = req[r].kind
        /\ q.at = "read" /\ q.token = req[r].token /\ q.edition = edition
    BY <1>0, Settled DEF Request
  <2> HIDE DEF q
  <2>3. QED BY <1>0, <1>1, <2>1, <2>2 DEF GoesOn
<1>2. CASE ~(share.there /\ Pass(req[r]))
  BY <1>2 DEF Verify, End, Ends
<1>3. QED BY <1>1, <1>2

-----------------------------------------------------------------------------
(* What each step does to the share. *)

LEMMA Created ==
    ASSUME Typed, Create
    PROVE  /\ share' \in Share /\ share'.there /\ ~share.there /\ share'.views = 0
           /\ share.born <= share'.born /\ share'.born # 0
           /\ edition' = edition + 1 /\ scars \subseteq scars'
           /\ share'.born = share.born => "second" \in scars'
           /\ Busy => "replaced" \in scars'
           /\ UNCHANGED <<cookie, req, typed, opens, begun>>
<1>0. share.born \in Nat /\ share.n \in 0 .. MaxShares
  BY StateFields
<1>1. PICK s \in Settings, born \in 1 .. MaxEditions :
          /\ Redate(born)
          /\ share' = [NoShare(share.n + 1, born) EXCEPT !.there = TRUE, !.set = s]
          /\ scars' = scars \cup (IF Busy THEN {"replaced"} ELSE {})
                            \cup (IF born = share.born THEN {"second"} ELSE {})
  BY DEF Create
<1>2. share.n + 1 \in 0 .. MaxShares /\ ~share.there /\ UNCHANGED <<cookie, req, typed, opens, begun>>
  BY <1>0, BoundAssumption DEF Create
<1> DEFINE t == NoShare(share.n + 1, born)
<1>a. t \in Share /\ t.born = born /\ t.views = 0
  BY <1>2, NoShareTyped, BoundAssumption
<1>b. share' = [t EXCEPT !.there = TRUE, !.set = s]
  BY <1>1
<1> HIDE DEF t
<1>3. share'.born = born /\ share'.there /\ share'.views = 0 /\ share' \in Share
  BY <1>a, <1>b DEF Share
<1>4. share.born <= born /\ born # 0 /\ edition' = edition + 1
  BY <1>0, <1>1 DEF Redate
<1>5. QED BY <1>1, <1>2, <1>3, <1>4

\* Closing, reopening and expiring keep what the share holds.
LEMMA Edited ==
    ASSUME Typed, Complete \/ Revert \/ Expire
    PROVE  /\ share' \in Share /\ share'.there /\ share.there
           /\ share'.set = share.set /\ share'.views = share.views
           /\ share.born <= share'.born
           /\ edition' \in {edition, edition + 1} /\ scars \subseteq scars'
           /\ scars' \subseteq scars \cup {"second"}
           /\ \/ edition' = edition /\ share'.born = share.born
              \/ share.born < share'.born
              \/ "second" \in scars'
           /\ UNCHANGED <<cookie, req, typed, opens, begun>>
<1>0. share \in Share /\ share.born \in Nat /\ edition \in Nat
  BY StateFields
<1>1. CASE Complete \/ Expire
  <2>1. PICK t \in {[share EXCEPT !.locked = TRUE], [share EXCEPT !.expired = TRUE]} : share' = t
    BY <1>1 DEF Complete, Expire
  <2>2. share' \in Share /\ share'.there = share.there /\ share'.set = share.set
        /\ share'.views = share.views /\ share'.born = share.born
    BY <1>0, <2>1 DEF Share
  <2>3. share.there /\ UNCHANGED <<cookie, req, history>>
    BY <1>1 DEF Complete, Expire
  <2>4. QED BY <1>0, <2>2, <2>3 DEF history
<1>2. CASE Revert
  <2>1. PICK born \in 1 .. MaxEditions :
            /\ Redate(born)
            /\ share' = [share EXCEPT !.locked = FALSE, !.born = born]
            /\ scars' = IF born = share.born THEN scars \cup {"second"} ELSE scars
    BY <1>2 DEF Revert
  <2>a. born \in 0 .. MaxEditions /\ born \in Nat
    BY BoundAssumption
  <2>2. share' \in Share /\ share'.there = share.there /\ share'.set = share.set
        /\ share'.views = share.views /\ share'.born = born
    BY <1>0, <2>1, <2>a DEF Share
  <2>3. share.born <= born /\ edition' = edition + 1
    BY <1>0, <2>1 DEF Redate
  <2>4. share.there /\ UNCHANGED <<cookie, req, typed, opens, begun>>
    BY <1>2 DEF Revert
  <2>5. QED BY <1>0, <2>1, <2>2, <2>3, <2>4
<1>3. QED BY <1>1, <1>2

LEMMA Removed ==
    ASSUME Typed, Remove
    PROVE  /\ share' \in Share /\ ~share'.there /\ share'.born = share.born
           /\ typed' = {} /\ opens' = 0 /\ scars' = scars \cap {"replaced", "second"}
           /\ UNCHANGED <<cookie, req, edition, begun>>
<1>1. share.n \in 0 .. MaxShares /\ share.born \in 0 .. MaxEditions
  BY DEF Typed, Share
<1>2. QED BY <1>1, NoShareTyped DEF Remove

LEMMA Viewed ==
    ASSUME Typed, NEW r \in Requests, Count(r)
    PROVE  /\ UNCHANGED <<edition, typed, begun, scars>>
           /\ ~share.there => UNCHANGED <<share, cookie, opens>> /\ Ends(r)
           /\ share.there =>
                 /\ share' \in Share /\ share'.there /\ share'.set = share.set /\ share'.born = share.born
                 /\ share'.views = req[r].views + 1 /\ opens' = opens + 1
                 /\ \/ cookie' = cookie
                    \/ req[r].kind = "token" /\ cookie' = [cookie EXCEPT ![req[r].by] = req[r].token]
<1>0. share \in Share /\ req[r].views + 1 \in Nat
  BY StateFields
<1>1. CASE share.there
  <2>1. share' = [share EXCEPT !.views = req[r].views + 1]
    BY <1>1 DEF Count
  <2>2. share' \in Share /\ share'.there = share.there /\ share'.set = share.set
        /\ share'.born = share.born /\ share'.views = req[r].views + 1
    BY <1>0, <2>1 DEF Share
  <2>3. QED BY <1>1, <2>2 DEF Count
<1>2. CASE ~share.there
  BY <1>2 DEF Count, End, Ends
<1>3. QED BY <1>1, <1>2

-----------------------------------------------------------------------------
(* Types. *)

LEMMA TypedInit == Init => Typed
<1> SUFFICES ASSUME Init PROVE Typed
  OBVIOUS
<1>1. share \in Share /\ share.born = 0
  BY Numbers, NoShareTyped DEF Init
<1>2. PICK V \in SUBSET Visitors : cookie = [v \in V |-> NoToken]
  BY DEF Init
<1>3. DOMAIN cookie = V
  BY <1>2
<1>3a. DOMAIN cookie \subseteq Visitors /\ cookie \in [DOMAIN cookie -> Token]
  BY <1>2, <1>3, Settled
<1>3b. \A v \in DOMAIN cookie : cookie[v] = NoToken
  BY <1>2, <1>3
<1>3c. \A v \in DOMAIN cookie : cookie[v].born <= share.born
  <2>1. \A v \in DOMAIN cookie : cookie[v].born = 0
    BY <1>3b, NoTokenBorn
  <2>2. QED BY <1>1, <2>1
<1>4. req \in [Requests -> Request] /\ \A r \in Requests : req[r] = Free
  BY Settled DEF Init
<1>4a. RequestsWhole
  BY <1>4, FreeFields DEF RequestsWhole
<1>4b. TokensOld
  <2>1. \A r \in Requests : req[r].token.born = 0
    BY <1>4, FreeBorn
  <2>2. QED BY <1>1, <2>1 DEF TokensOld
<1>5. QED BY <1>1, <1>3a, <1>3c, <1>4, <1>4a, <1>4b DEF Init, Typed

LEMMA TypedNext == Typed /\ [Next]_vars => Typed'
<1> SUFFICES ASSUME Typed, [Next]_vars PROVE Typed'
  OBVIOUS
<1>0. /\ share \in Share /\ share.born \in Nat /\ edition \in Nat /\ opens \in Nat /\ begun \in Nat
      /\ cookie \in [DOMAIN cookie -> Token] /\ DOMAIN cookie \subseteq Visitors
      /\ req \in [Requests -> Request] /\ typed \subseteq Visitors
      /\ \A v \in DOMAIN cookie : cookie[v].born <= share.born /\ cookie[v].born \in Nat
      /\ \A r \in Requests : req[r].token.born <= share.born /\ req[r].token.born \in Nat
      /\ RequestsWhole
  BY StateFields DEF TokensOld
<1>1. CASE Create \/ Complete \/ Revert \/ Expire
  <2>1. /\ share' \in Share /\ share.born <= share'.born /\ edition' \in Nat
        /\ UNCHANGED <<cookie, req, typed, opens, begun>>
    BY <1>0, <1>1, Created, Edited
  <2>2. share'.born \in Nat
    BY <2>1 DEF Share
  <2>3. RequestsWhole' /\ TokensOld'
    BY <1>0, <2>1, <2>2 DEF TokensOld, RequestsWhole
  <2>4. \A v \in DOMAIN cookie' : cookie'[v].born <= share'.born
    BY <1>0, <2>1, <2>2
  <2>5. QED BY <1>0, <2>1, <2>3, <2>4 DEF Typed
<1>2. CASE Remove
  BY <1>0, <1>2, Removed DEF Typed, TokensOld, RequestsWhole
<1>3. ASSUME NEW v \in DOMAIN cookie, Forget(v) PROVE Typed'
  <2>1. cookie' = [cookie EXCEPT ![v] = NoToken] /\ UNCHANGED <<share, req, history>>
    BY <1>3 DEF Forget
  <2>2. /\ DOMAIN cookie' = DOMAIN cookie /\ cookie' \in [DOMAIN cookie -> Token]
        /\ cookie'[v] = NoToken /\ \A u \in DOMAIN cookie \ {v} : cookie'[u] = cookie[u]
    BY <1>0, <2>1, Settled
  <2>2a. \A u \in DOMAIN cookie : cookie'[u].born <= share.born
    <3>1. cookie'[v].born = 0
      BY <2>2, NoTokenBorn
    <3>2. QED BY <1>0, <2>2, <3>1
  <2>3. QED BY <1>0, <2>1, <2>2, <2>2a DEF Typed, TokensOld, RequestsWhole, history
<1>4. ASSUME NEW v \in DOMAIN cookie, NEW r \in Requests, AskToken(v, r) PROVE Typed'
  <2>1. Asks(r, v, "token", "sign", NoSettings, share.views, NoToken)
    BY <1>4, TokenAsked
  <2>2. RequestsWhole' /\ TokensOld' /\ req' \in [Requests -> Request]
    BY <1>0, <1>4, <2>1, Settled DEF Asks, TokensOld, RequestsWhole, AskToken
  <2>3. UNCHANGED <<share, cookie, edition, opens>> /\ begun' \in Nat /\ typed' \subseteq Visitors
    BY <1>0, <1>4 DEF AskToken, BeginCounted
  <2>4. QED BY <1>0, <2>2, <2>3 DEF Typed
<1>5. ASSUME NEW v \in DOMAIN cookie, NEW r \in Requests, AskFile(v, r) PROVE Typed'
  <2>1. Asks(r, v, "file", "count", NoSettings, share.views, NoToken)
    BY <1>5, FileAsked
  <2>2. RequestsWhole' /\ TokensOld' /\ req' \in [Requests -> Request]
    BY <1>0, <1>5, <2>1, Settled DEF Asks, TokensOld, RequestsWhole, AskFile
  <2>3. UNCHANGED <<share, cookie, edition, typed, opens>> /\ begun' \in Nat
    BY <1>0, <1>5 DEF AskFile, BeginCounted
  <2>4. QED BY <1>0, <2>2, <2>3 DEF Typed
<1>6. ASSUME NEW v \in DOMAIN cookie, NEW r \in Requests, AskGuarded(v, r) PROVE Typed'
  <2>1. PICK kind \in {"page", "file"} : Asks(r, v, kind, "verify", share.set, 0, cookie[v])
    BY <1>6, GuardedAsked
  <2>2. RequestsWhole' /\ TokensOld' /\ req' \in [Requests -> Request]
    BY <1>0, <1>6, <2>1 DEF Asks, TokensOld, RequestsWhole, AskGuarded
  <2>3. UNCHANGED <<share, cookie, history>>
    BY <1>6 DEF AskGuarded
  <2>4. QED BY <1>0, <2>2, <2>3 DEF Typed, history
<1>6a. ASSUME NEW v \in DOMAIN cookie, NEW r \in Requests, AskOwner(v, r) PROVE Typed'
  <2>1. Asks(r, v, "owner", "read", NoSettings, 0, NoToken)
    BY <1>6a, OwnerAsked
  <2>2. RequestsWhole' /\ TokensOld' /\ req' \in [Requests -> Request]
    BY <1>0, <1>6a, <2>1, Settled DEF Asks, TokensOld, RequestsWhole, AskOwner
  <2>3. UNCHANGED <<share, cookie, history>>
    BY <1>6a DEF AskOwner
  <2>4. QED BY <1>0, <2>2, <2>3 DEF Typed, history
<1>7. ASSUME NEW r \in Requests, Ends(r), share'.born = share.born
      PROVE  req' \in [Requests -> Request] /\ RequestsWhole' /\ TokensOld'
  <2>1. /\ req' \in [Requests -> Request] /\ req'[r] = Free
        /\ \A x \in Requests \ {r} : req'[x] = req[x]
    BY <1>0, <1>7, Settled DEF Ends
  <2>2. req'[r].at = "" /\ req'[r].kind = "free"
    BY <2>1, FreeFields
  <2>3. req'[r].token.born = 0
    BY <2>1, FreeBorn
  <2>4. RequestsWhole'
    BY <1>0, <2>1, <2>2 DEF RequestsWhole
  <2>5. TokensOld'
    BY <1>0, <1>7, <2>1, <2>3 DEF TokensOld
  <2>6. QED BY <2>1, <2>4, <2>5
<1>8. ASSUME NEW r \in Requests, Sign(r) PROVE Typed'
  <2>1. UNCHANGED <<share, cookie, history>>
    BY <1>8 DEF Sign
  <2>2. CASE Ends(r)
    BY <1>0, <1>7, <2>1, <2>2 DEF Typed, history
  <2>3. CASE GoesOn(r, "count", [born |-> share.born, edition |-> edition])
    <3>1. req[r].kind = "token"
      BY <1>0, <1>8 DEF Sign, RequestsWhole
    <3>2. RequestsWhole' /\ TokensOld'
      BY <1>0, <2>1, <2>3, <3>1 DEF TokensOld, RequestsWhole, GoesOn
    <3>3. QED BY <1>0, <2>1, <2>3, <3>2 DEF Typed, GoesOn, history
  <2>4. QED BY <1>8, <2>2, <2>3, SignGoes
<1>9. ASSUME NEW r \in Requests, Count(r) PROVE Typed'
  <2>1. UNCHANGED <<edition, typed, begun>> /\ share' \in Share /\ share'.born = share.born /\ opens' \in Nat
    BY <1>0, <1>9, Viewed
  <2>2. RequestsWhole' /\ TokensOld' /\ req' \in [Requests -> Request]
    <3>1. CASE Ends(r)
      BY <1>7, <2>1, <3>1
    <3>2. CASE GoesOn(r, "read", req[r].token) /\ req[r].kind = "file"
      BY <1>0, <2>1, <3>2 DEF GoesOn, TokensOld, RequestsWhole
    <3>3. QED BY <1>9, <3>1, <3>2, CountGoes
  <2>3. /\ DOMAIN cookie' = DOMAIN cookie /\ cookie' \in [DOMAIN cookie -> Token]
        /\ \A u \in DOMAIN cookie : cookie'[u].born <= share.born
    <3>1. req[r].token \in Token
      BY <1>0 DEF Request
    <3>2. cookie' = cookie \/ cookie' = [cookie EXCEPT ![req[r].by] = req[r].token]
      BY <1>9, Viewed
    <3>3. QED BY <1>0, <3>1, <3>2
  <2>4. QED BY <1>0, <2>1, <2>2, <2>3 DEF Typed
<1>10. ASSUME NEW r \in Requests, Verify(r) \/ Read(r) PROVE Typed'
  <2>1. UNCHANGED <<share, cookie, history>>
    BY <1>10 DEF Verify, Read
  <2>2. CASE Ends(r)
    BY <1>0, <1>7, <2>1, <2>2 DEF Typed, history
  <2>3. CASE Verify(r) /\ GoesOn(r, "read", req[r].token)
    <3>1. req[r].kind # "token"
      BY <1>0, <2>3 DEF Verify, RequestsWhole
    <3>2. RequestsWhole' /\ TokensOld'
      BY <1>0, <2>1, <2>3, <3>1 DEF TokensOld, RequestsWhole, GoesOn
    <3>3. QED BY <1>0, <2>1, <2>3, <3>2 DEF Typed, GoesOn, history
  <2>4. QED BY <1>10, <2>2, <2>3, VerifyGoes DEF Read, End, Ends
<1>11. CASE UNCHANGED vars
  <2>1. UNCHANGED <<share, cookie, req, edition, typed, opens, begun>>
    BY <1>11 DEF vars, history
  <2>2. RequestsWhole'
    BY <1>0, <2>1 DEF RequestsWhole
  <2>3. TokensOld'
    BY <1>0, <2>1 DEF TokensOld
  <2>4. QED BY <1>0, <2>1, <2>2, <2>3 DEF Typed
<1>12. QED
  BY <1>1, <1>2, <1>3, <1>4, <1>5, <1>6, <1>6a, <1>8, <1>9, <1>10, <1>11 DEF Next

-----------------------------------------------------------------------------
(* Tokens of an edition. *)

LEMMA TokensFreshInit == Init => TokensFresh
<1> SUFFICES ASSUME Init PROVE TokensFresh
  OBVIOUS
<1>1. PICK V \in SUBSET Visitors : cookie = [v \in V |-> NoToken]
  BY DEF Init
<1>2. \A v \in DOMAIN cookie : cookie[v] = NoToken
  BY <1>1
<1>3. \A r \in Requests : req[r].token = NoToken
  BY FreeFields DEF Init
<1>4. QED BY <1>2, <1>3 DEF TokensFresh, Fresh, ReadOfEdition

\* A token stays fresh while neither the edition nor the second changes.
LEMMA FreshKept ==
    ASSUME "second" \notin scars, TokensFresh, UNCHANGED <<share.born, edition>>,
           \A v \in DOMAIN cookie' :
               \/ cookie'[v] = NoToken
               \/ v \in DOMAIN cookie /\ cookie'[v] = cookie[v]
               \/ \E r \in Requests : cookie'[v] = req[r].token,
           \A r \in Requests :
               \/ req'[r].token = NoToken
               \/ req'[r].token = req[r].token
               \/ \E v \in DOMAIN cookie : req'[r].token = cookie[v]
               \/ req'[r].token = [born |-> share.born, edition |-> edition],
           \A r \in Requests : req'[r].at = "read" => req'[r] = req[r] \/ ReadOfEdition(req'[r])
    PROVE  TokensFresh'
<1>1. /\ \A v \in DOMAIN cookie : Fresh(cookie[v])
      /\ \A r \in Requests : Fresh(req[r].token) /\ ReadOfEdition(req[r])
  BY DEF TokensFresh
<1>2. ASSUME NEW t, t = NoToken \/ Fresh(t) \/ t = [born |-> share.born, edition |-> edition]
      PROVE  t # NoToken /\ t.born = share'.born => t.edition = edition'
  BY <1>2 DEF Fresh, NoToken
<1>3. ASSUME NEW v \in DOMAIN cookie' PROVE Fresh(cookie[v])'
  <2>1. cookie'[v] = NoToken \/ Fresh(cookie'[v])
    BY <1>1, <1>3
  <2>2. QED BY <1>2, <2>1 DEF Fresh
<1>4. ASSUME NEW r \in Requests PROVE Fresh(req[r].token)'
  <2>1. req'[r].token = NoToken \/ Fresh(req'[r].token)
        \/ req'[r].token = [born |-> share.born, edition |-> edition]
    BY <1>1, <1>4
  <2>2. QED BY <1>2, <2>1 DEF Fresh
<1>5. ASSUME NEW r \in Requests PROVE ReadOfEdition(req[r])'
  BY <1>1, <1>5 DEF ReadOfEdition
<1>6. QED BY <1>3, <1>4, <1>5 DEF TokensFresh

LEMMA TokensFreshNext == Typed /\ TokensFresh /\ [Next]_vars => TokensFresh'
<1> SUFFICES ASSUME Typed, TokensFresh, [Next]_vars, "second" \notin scars'
             PROVE  TokensFresh'
  BY DEF TokensFresh
<1>0. /\ share.born \in Nat
      /\ \A v \in DOMAIN cookie : cookie[v].born <= share.born /\ cookie[v].born \in Nat
      /\ \A r \in Requests : req[r].token.born <= share.born /\ req[r].token.born \in Nat
  BY StateFields DEF TokensOld
<1>1. CASE Create \/ Complete \/ Revert \/ Expire
  <2>1. /\ UNCHANGED <<cookie, req>> /\ "second" \notin scars /\ share'.born \in Nat
        /\ (edition' = edition /\ share'.born = share.born) \/ share.born < share'.born
    <3>1. CASE Create
      <4>1. /\ UNCHANGED <<cookie, req>> /\ scars \subseteq scars' /\ share.born <= share'.born
            /\ share' \in Share /\ share'.born # share.born
        BY <3>1, Created
      <4>2. share'.born \in Nat
        BY <4>1, ShareFields
      <4>3. QED BY <1>0, <4>1, <4>2
    <3>2. CASE Complete \/ Revert \/ Expire
      <4>1. /\ UNCHANGED <<cookie, req>> /\ scars \subseteq scars' /\ share' \in Share
            /\ (edition' = edition /\ share'.born = share.born) \/ share.born < share'.born
        BY <3>2, Edited
      <4>2. QED BY <4>1, ShareFields
    <3>3. QED BY <1>1, <3>1, <3>2
  <2>2. /\ \A v \in DOMAIN cookie : Fresh(cookie[v])
        /\ \A r \in Requests : Fresh(req[r].token) /\ ReadOfEdition(req[r])
    BY <2>1 DEF TokensFresh
  <2>3. \A t : Fresh(t) /\ t.born \in Nat /\ t.born <= share.born =>
                   (t # NoToken /\ t.born = share'.born => t.edition = edition')
    BY <1>0, <2>1 DEF Fresh
  <2>4. ASSUME NEW v \in DOMAIN cookie' PROVE Fresh(cookie[v])'
    BY <1>0, <2>1, <2>2, <2>3, <2>4 DEF Fresh
  <2>5. ASSUME NEW r \in Requests PROVE Fresh(req[r].token)'
    BY <1>0, <2>1, <2>2, <2>3, <2>5 DEF Fresh
  <2>6. ASSUME NEW r \in Requests PROVE ReadOfEdition(req[r])'
    BY <2>1, <2>2, <2>6 DEF ReadOfEdition
  <2>7. QED BY <2>4, <2>5, <2>6 DEF TokensFresh
<1>2. ASSUME UNCHANGED <<cookie, req, edition>>, share'.born = share.born, "second" \notin scars
      PROVE  TokensFresh'
  BY <1>2, FreshKept
<1>3. CASE Remove
  BY <1>2, <1>3, Removed
<1>4. ASSUME NEW v \in DOMAIN cookie, Forget(v) PROVE TokensFresh'
  <2>1. cookie' = [cookie EXCEPT ![v] = NoToken] /\ UNCHANGED <<share, req, edition, scars>>
    BY <1>4 DEF Forget, history
  <2>2. \A u \in DOMAIN cookie' : cookie'[u] = NoToken \/ (u \in DOMAIN cookie /\ cookie'[u] = cookie[u])
    BY <2>1
  <2>3. QED BY <2>1, <2>2, FreshKept
<1>5. ASSUME NEW v \in DOMAIN cookie, NEW r \in Requests,
             AskToken(v, r) \/ AskFile(v, r) \/ AskGuarded(v, r)
      PROVE  TokensFresh'
  <2>1. UNCHANGED <<share, cookie, edition>> /\ "second" \notin scars
    BY <1>5 DEF AskToken, AskFile, AskGuarded, BeginCounted, history
  <2>2. /\ req'[r].token = NoToken \/ req'[r].token = cookie[v]
        /\ req'[r].at # "read" /\ \A x \in Requests \ {r} : req'[x] = req[x]
    <3>1. CASE AskToken(v, r)
      BY <3>1, TokenAsked DEF Asks
    <3>2. CASE AskFile(v, r)
      BY <3>2, FileAsked DEF Asks
    <3>3. CASE AskGuarded(v, r)
      BY <3>3, GuardedAsked DEF Asks
    <3>4. QED BY <1>5, <3>1, <3>2, <3>3
  <2>3. QED BY <2>1, <2>2, FreshKept
<1>5a. ASSUME NEW v \in DOMAIN cookie, NEW r \in Requests, AskOwner(v, r) PROVE TokensFresh'
  <2>1. UNCHANGED <<share, cookie, edition, scars>>
    BY <1>5a DEF AskOwner, history
  <2>2. req'[r].token = NoToken /\ \A x \in Requests \ {r} : req'[x] = req[x]
    BY <1>5a, OwnerAsked DEF Asks
  <2>3. ReadOfEdition(req'[r])
    BY <2>2 DEF ReadOfEdition
  <2>4. QED BY <2>1, <2>2, <2>3, FreshKept
<1>6. ASSUME NEW r \in Requests, Ends(r)
      PROVE  /\ \A x \in Requests \ {r} : req'[x] = req[x]
             /\ req'[r].token = NoToken /\ req'[r].at # "read"
  <2>1. req'[r] = Free /\ \A x \in Requests \ {r} : req'[x] = req[x]
    BY <1>6, StateFields DEF Ends
  <2>2. QED BY <2>1, FreeFields
<1>7. ASSUME NEW r \in Requests, Sign(r) PROVE TokensFresh'
  <2>1. UNCHANGED <<share, cookie, edition, scars>>
    BY <1>7 DEF Sign, history
  <2>2. /\ \A x \in Requests \ {r} : req'[x] = req[x]
        /\ req'[r].token = NoToken \/ req'[r].token = [born |-> share.born, edition |-> edition]
        /\ req'[r].at # "read"
    BY <1>6, <1>7, SignGoes DEF GoesOn
  <2>3. QED BY <2>1, <2>2, FreshKept
<1>8. ASSUME NEW r \in Requests, Count(r) PROVE TokensFresh'
  <2>1. UNCHANGED <<edition, scars>> /\ share'.born = share.born
    BY <1>8, Viewed
  <2>2. /\ \A x \in Requests \ {r} : req'[x] = req[x]
        /\ \/ req'[r].token = NoToken /\ req'[r].at # "read"
           \/ req'[r].token = NoToken
    <3>1. CASE Ends(r)
      BY <1>6, <3>1
    <3>2. CASE GoesOn(r, "read", req[r].token) /\ req[r].kind = "file"
      <4>1. req[r].token = NoToken
        BY <1>8, <3>2, StateFields DEF Count, RequestsWhole
      <4>2. QED BY <3>2, <4>1 DEF GoesOn
    <3>3. QED BY <1>8, <3>1, <3>2, CountGoes
  <2>3. ReadOfEdition(req'[r])
    BY <2>2 DEF ReadOfEdition
  <2>4. \A u \in DOMAIN cookie' : \/ u \in DOMAIN cookie /\ cookie'[u] = cookie[u]
                                  \/ \E x \in Requests : cookie'[u] = req[x].token
    BY <1>8, Viewed
  <2>5. QED BY <2>1, <2>2, <2>3, <2>4, FreshKept
<1>9. ASSUME NEW r \in Requests, Verify(r) \/ Read(r) PROVE TokensFresh'
  <2>1. UNCHANGED <<share, cookie, edition, scars>>
    BY <1>9 DEF Verify, Read, history
  <2>2. /\ \A x \in Requests \ {r} : req'[x] = req[x]
        /\ req'[r].token = NoToken \/ req'[r].token = req[r].token
        /\ req'[r].at # "read" \/ ReadOfEdition(req'[r])
    <3>1. CASE Ends(r)
      BY <1>6, <3>1
    <3>2. CASE /\ Pass(req[r]) /\ GoesOn(r, "read", req[r].token) /\ req'[r].edition = edition
      <4>1. Fresh(req[r].token)
        BY <2>1 DEF TokensFresh
      <4>2. req[r].by \notin {Owner, Host} => req[r].token.born = share.born
        BY <3>2 DEF Pass, Valid, Theirs
      <4>3. ReadOfEdition(req'[r])
        BY <3>2, <4>1, <4>2 DEF ReadOfEdition, Fresh, GoesOn
      <4>4. QED BY <3>2, <4>3 DEF GoesOn
    <3>3. QED BY <1>9, <3>1, <3>2, VerifyGoes DEF Read, End, Ends
  <2>3. QED BY <2>1, <2>2, FreshKept
<1>10. CASE UNCHANGED vars
  BY <1>2, <1>10 DEF vars, history
<1>11. QED
  BY <1>1, <1>3, <1>4, <1>5, <1>5a, <1>7, <1>8, <1>9, <1>10 DEF Next

-----------------------------------------------------------------------------
(* Passwords and private links. *)

LEMMA ContentGuardedInit == Init => ContentGuarded
<1> SUFFICES ASSUME Init PROVE ~share.there
  BY DEF ContentGuarded
<1>1. QED BY Numbers, NoShareTyped DEF Init

\* What is known of a request when nothing is being replaced.
Guarded(q) ==
    /\ Typing(q.by, q.token)
    /\ q.at = "sign" /\ share.set.password => q.by \in typed
    /\ q.at = "verify" => q.set = share.set
    /\ Serving(q) => Allowed(q)

LEMMA FreeGuarded == ASSUME NEW q, q = Free PROVE Guarded(q)
<1>1. q.at = "" /\ q.token = NoToken
  BY FreeFields
<1>2. QED BY <1>1 DEF Guarded, Typing, Serving

\* What is known stays known while the share keeps its second and its settings.
LEMMA GuardedKept ==
    ASSUME UNCHANGED <<share.born, share.set>>, typed \subseteq typed'
    PROVE  /\ \A v, t : Typing(v, t) => (t # NoToken /\ t.born = share'.born /\ share'.set.password => v \in typed')
           /\ \A q : Guarded(q) =>
                /\ q.token # NoToken /\ q.token.born = share'.born /\ share'.set.password => q.by \in typed'
                /\ q.at = "sign" /\ share'.set.password => q.by \in typed'
                /\ q.at = "verify" => q.set = share'.set
                /\ Serving(q) =>
                      IF q.kind = "owner"
                      THEN q.by = Admin \/ share'.set.anonymous \/ Theirs(q.by, share')
                      ELSE \/ /\ share'.set.password => q.by \in typed'
                              /\ share'.set.mode = "private" => Theirs(q.by, share')
                           \/ Privileged(q.by)
<1>1. \A v, t : Typing(v, t) => (t # NoToken /\ t.born = share'.born /\ share'.set.password => v \in typed')
  BY DEF Typing
<1>2. \A v : Theirs(v, share) => Theirs(v, share')
  BY DEF Theirs
<1>3. QED BY <1>1, <1>2 DEF Guarded, Allowed, Entitled

\* No share was replaced under a request, or within a second.
Unscarred == scars \cap {"replaced", "second"} = {}

LEMMA ContentKeptBy ==
    ASSUME ContentGuarded, share.there, Unscarred,
           UNCHANGED <<share.born, share.set>>, typed \subseteq typed',
           \A v \in DOMAIN cookie' :
               \/ v \in DOMAIN cookie /\ cookie'[v] = cookie[v]
               \/ Typing(v, cookie'[v]),
           \A r \in Requests :
               \/ req'[r] = req[r]
               \/ Guarded(req'[r])
               \/ req'[r].at = "sign" /\ req'[r].token = NoToken /\ req'[r].by \in typed'
    PROVE  ContentGuarded'
<1>1. /\ \A v \in DOMAIN cookie : Typing(v, cookie[v])
      /\ \A r \in Requests : Guarded(req[r])
  BY DEF ContentGuarded, Guarded, Unscarred
<1>2. ASSUME NEW v \in DOMAIN cookie' PROVE Typing(v, cookie[v])'
  <2>1. Typing(v, cookie'[v])
    BY <1>1, <1>2
  <2>2. QED BY <2>1, GuardedKept DEF Typing
<1>3. ASSUME NEW r \in Requests PROVE Guarded(req[r])'
  <2>1. CASE Guarded(req'[r])
    BY <2>1, GuardedKept DEF Guarded, Typing, Allowed, Entitled
  <2>2. CASE req'[r].at = "sign" /\ req'[r].token = NoToken /\ req'[r].by \in typed'
    BY <2>2 DEF Guarded, Typing, Serving
  <2>3. QED BY <1>1, <1>3, <2>1, <2>2
<1>4. QED BY <1>2, <1>3 DEF ContentGuarded, Guarded

LEMMA ContentGuardedNext == Typed /\ ContentGuarded /\ [Next]_vars => ContentGuarded'
<1> SUFFICES ASSUME Typed, ContentGuarded, [Next]_vars,
                    share'.there, scars' \cap {"replaced", "second"} = {}
             PROVE  ContentGuarded'
  BY DEF ContentGuarded
<1>0. /\ share.born \in Nat
      /\ \A v \in DOMAIN cookie : cookie[v].born <= share.born /\ cookie[v].born \in Nat
      /\ \A r \in Requests : req[r].token.born <= share.born /\ req[r].token.born \in Nat
  BY StateFields DEF TokensOld
<1>1. CASE Create
  <2>1. /\ UNCHANGED <<cookie, req>> /\ ~Busy /\ share.born <= share'.born
        /\ share' \in Share /\ share'.born # share.born
    BY <1>1, Created
  <2>2. share'.born \in Nat
    BY <2>1, ShareFields
  <2>3. \A r \in Requests : req'[r].at = "" /\ req'[r].token = NoToken
    BY <2>1, FreeFields DEF Busy
  <2>4. \A v \in DOMAIN cookie' : cookie'[v].born # share'.born
    BY <1>0, <2>1, <2>2
  <2>5. ASSUME NEW v \in DOMAIN cookie' PROVE Typing(v, cookie[v])'
    BY <2>4, <2>5 DEF Typing
  <2>6. ASSUME NEW r \in Requests PROVE Guarded(req[r])'
    BY <2>3, <2>6 DEF Guarded, Typing, Serving
  <2>7. QED BY <2>5, <2>6 DEF ContentGuarded, Guarded
<1>2. CASE Complete \/ Revert \/ Expire
  <2>1. /\ UNCHANGED <<cookie, req, typed>> /\ scars \subseteq scars' /\ share' \in Share /\ share.there
        /\ share'.set = share.set /\ share.born <= share'.born
    BY <1>2, Edited
  <2>2. share'.born \in Nat
    BY <2>1, ShareFields
  <2>3. /\ \A v \in DOMAIN cookie : Typing(v, cookie[v])
        /\ \A r \in Requests : Guarded(req[r])
    BY <2>1 DEF ContentGuarded, Guarded
  <2>4. /\ \A v \in DOMAIN cookie : cookie[v].born = share'.born => cookie[v].born = share.born
        /\ \A r \in Requests : req[r].token.born = share'.born => req[r].token.born = share.born
    BY <1>0, <2>1, <2>2
  <2>5. ASSUME NEW v \in DOMAIN cookie' PROVE Typing(v, cookie[v])'
    <3>1. Typing(v, cookie[v]) /\ (cookie[v].born = share'.born => cookie[v].born = share.born)
      BY <2>1, <2>3, <2>4, <2>5
    <3>2. QED BY <2>1, <3>1 DEF Typing
  <2>6. ASSUME NEW r \in Requests PROVE Guarded(req[r])'
    <3>1. Guarded(req[r]) /\ (req[r].token.born = share'.born => req[r].token.born = share.born)
      BY <2>3, <2>4, <2>6
    <3>2. QED BY <2>1, <3>1 DEF Guarded, Typing, Allowed, Entitled, Theirs
  <2>7. QED BY <2>5, <2>6 DEF ContentGuarded, Guarded
<1>3. ~Remove
  BY Removed
<1>4. ASSUME share.there, UNCHANGED <<cookie, share.born, share.set, typed>>, scars \subseteq scars',
             \A r \in Requests : req'[r] = req[r] \/ Guarded(req'[r])
      PROVE  ContentGuarded'
  <2>1. Unscarred /\ typed \subseteq typed'
    BY <1>4 DEF Unscarred
  <2>2. QED BY <1>4, <2>1, ContentKeptBy
<1>5. ASSUME NEW v \in DOMAIN cookie, Forget(v) PROVE ContentGuarded'
  <2>1. cookie' = [cookie EXCEPT ![v] = NoToken] /\ UNCHANGED <<share, req, typed, scars>>
    BY <1>5 DEF Forget, history
  <2>2. \A u \in DOMAIN cookie' : (u \in DOMAIN cookie /\ cookie'[u] = cookie[u]) \/ cookie'[u] = NoToken
    BY <2>1
  <2>3. \A u \in DOMAIN cookie' : (u \in DOMAIN cookie /\ cookie'[u] = cookie[u]) \/ Typing(u, cookie'[u])
    BY <2>2 DEF Typing
  <2>4. share.there /\ Unscarred /\ typed \subseteq typed'
    BY <2>1 DEF Unscarred
  <2>5. QED BY <2>1, <2>3, <2>4, ContentKeptBy
<1>6. ASSUME NEW v \in DOMAIN cookie, NEW r \in Requests, AskToken(v, r) PROVE ContentGuarded'
  <2>1. /\ UNCHANGED <<share, cookie>> /\ scars \subseteq scars'
        /\ typed' = IF share.set.password THEN typed \cup {v} ELSE typed
    BY <1>6 DEF AskToken, BeginCounted
  <2>2. /\ \A x \in Requests \ {r} : req'[x] = req[x]
        /\ req'[r].by = v /\ req'[r].at = "sign" /\ req'[r].token = NoToken
    BY <1>6, TokenAsked DEF Asks
  <2>3. CASE share.set.password
    <3>1. /\ share.there /\ Unscarred
          /\ typed \subseteq typed' /\ v \in typed'
      BY <2>1, <2>3 DEF Unscarred
    <3>2. QED BY <2>1, <2>2, <3>1, ContentKeptBy
  <2>4. CASE ~share.set.password
    <3>1. Guarded(req'[r])
      BY <2>2, <2>4 DEF Guarded, Typing, Serving
    <3>2. QED BY <1>4, <2>1, <2>2, <2>4, <3>1
  <2>5. QED BY <2>3, <2>4
<1>7. ASSUME NEW v \in DOMAIN cookie, NEW r \in Requests, AskFile(v, r) PROVE ContentGuarded'
  <2>1. /\ UNCHANGED <<share, cookie, typed>> /\ scars \subseteq scars'
        /\ Entitled(v) \/ Privileged(v)
    BY <1>7 DEF AskFile, BeginCounted, Entitled, Privileged, Theirs
  <2>2. /\ \A x \in Requests \ {r} : req'[x] = req[x]
        /\ req'[r].by = v /\ req'[r].kind = "file" /\ req'[r].at = "count" /\ req'[r].token = NoToken
    BY <1>7, FileAsked DEF Asks
  <2>3. Guarded(req'[r])
    BY <2>1, <2>2 DEF Guarded, Typing, Serving, Allowed
  <2>4. QED BY <1>4, <2>1, <2>2, <2>3
<1>8. ASSUME NEW v \in DOMAIN cookie, NEW r \in Requests, AskGuarded(v, r) PROVE ContentGuarded'
  <2>1. UNCHANGED <<share, cookie, typed, scars>>
    BY <1>8 DEF AskGuarded, history
  <2>2. /\ \A x \in Requests \ {r} : req'[x] = req[x]
        /\ req'[r].by = v /\ req'[r].at = "verify" /\ req'[r].token = cookie[v] /\ req'[r].set = share.set
    BY <1>8, GuardedAsked DEF Asks
  <2>3. Typing(v, cookie[v])
    BY <2>1 DEF ContentGuarded
  <2>4. Guarded(req'[r])
    BY <2>2, <2>3 DEF Guarded, Serving
  <2>5. QED BY <1>4, <2>1, <2>2, <2>4
<1>8a. ASSUME NEW v \in DOMAIN cookie, NEW r \in Requests, AskOwner(v, r) PROVE ContentGuarded'
  <2>1. UNCHANGED <<share, cookie, typed, scars>> /\ share.there /\ OwnerPass(v, share)
    BY <1>8a DEF AskOwner, history
  <2>2. /\ \A x \in Requests \ {r} : req'[x] = req[x]
        /\ req'[r].by = v /\ req'[r].kind = "owner" /\ req'[r].at = "read" /\ req'[r].token = NoToken
    BY <1>8a, OwnerAsked DEF Asks
  <2>3. Guarded(req'[r])
    BY <2>1, <2>2 DEF Guarded, Typing, Serving, Allowed, OwnerPass
  <2>4. QED BY <1>4, <2>1, <2>2, <2>3
<1>9. ASSUME NEW r \in Requests, Ends(r)
      PROVE  \A x \in Requests : req'[x] = req[x] \/ Guarded(req'[x])
  <2>1. req'[r] = Free /\ \A x \in Requests \ {r} : req'[x] = req[x]
    BY <1>9, StateFields DEF Ends
  <2>2. QED BY <2>1, FreeGuarded
<1>10. ASSUME NEW r \in Requests, Sign(r) PROVE ContentGuarded'
  <2>1. UNCHANGED <<share, cookie, typed, scars>>
    BY <1>10 DEF Sign, history
  <2>2. CASE GoesOn(r, "count", [born |-> share.born, edition |-> edition])
    <3>1. /\ \A x \in Requests \ {r} : req'[x] = req[x]
          /\ req'[r].by = req[r].by /\ req'[r].kind = req[r].kind /\ req'[r].at = "count"
      BY <2>2 DEF GoesOn
    <3>2. req[r].kind = "token" /\ req[r].at = "sign"
      BY <1>10, StateFields DEF Sign, RequestsWhole
    <3>3. share.set.password => req[r].by \in typed
      BY <2>1, <3>2 DEF ContentGuarded
    <3>4. Guarded(req'[r])
      BY <3>1, <3>2, <3>3 DEF Guarded, Typing, Serving
    <3>5. QED BY <1>4, <2>1, <3>1, <3>4
  <2>3. QED BY <1>4, <1>9, <1>10, <2>1, <2>2, SignGoes
<1>11. ASSUME NEW r \in Requests, Count(r) PROVE ContentGuarded'
  <2>1. /\ UNCHANGED <<typed, scars>> /\ share.there /\ share'.born = share.born /\ share'.set = share.set
        /\ cookie' = cookie \/ cookie' = [cookie EXCEPT ![req[r].by] = req[r].token]
    BY <1>11, Viewed
  <2>2. Guarded(req[r])
    BY <2>1 DEF ContentGuarded, Guarded
  <2>3. \A x \in Requests : req'[x] = req[x] \/ Guarded(req'[x])
    <3>1. CASE GoesOn(r, "read", req[r].token) /\ req[r].kind = "file"
      <4>1. /\ \A x \in Requests \ {r} : req'[x] = req[x]
            /\ req'[r].by = req[r].by /\ req'[r].kind = "file" /\ req'[r].at = "read"
            /\ req'[r].token = req[r].token
        BY <3>1 DEF GoesOn
      <4>2. Typing(req[r].by, req[r].token) /\ (Entitled(req[r].by) \/ Privileged(req[r].by))
        BY <1>11, <2>2, <3>1 DEF Count, Guarded, Serving, Allowed
      <4>3. Guarded(req'[r])
        BY <4>1, <4>2 DEF Guarded, Allowed
      <4>4. QED BY <4>1, <4>3
    <3>2. QED BY <1>9, <1>11, <3>1, CountGoes
  <2>4. \A u \in DOMAIN cookie' : (u \in DOMAIN cookie /\ cookie'[u] = cookie[u]) \/ Typing(u, cookie'[u])
    <3>1. Typing(req[r].by, req[r].token)
      BY <2>2 DEF Guarded
    <3>2. QED BY <2>1, <3>1
  <2>5. Unscarred /\ typed \subseteq typed'
    BY <2>1 DEF Unscarred
  <2>6. QED BY <2>1, <2>3, <2>4, <2>5, ContentKeptBy
<1>12. ASSUME NEW r \in Requests, Verify(r) \/ Read(r) PROVE ContentGuarded'
  <2>1. UNCHANGED <<share, cookie, typed, scars>>
    BY <1>12 DEF Verify, Read, history
  <2>2. CASE Verify(r) /\ Pass(req[r]) /\ GoesOn(r, "read", req[r].token)
    <3>1. /\ \A x \in Requests \ {r} : req'[x] = req[x]
          /\ req'[r].by = req[r].by /\ req'[r].at = "read" /\ req'[r].token = req[r].token
          /\ req'[r].kind \in {"page", "file"}
      BY <2>2, StateFields DEF GoesOn, Verify, RequestsWhole
    <3>2. Typing(req[r].by, req[r].token) /\ req[r].set = share.set
      BY <2>1, <2>2 DEF ContentGuarded, Verify
    <3>3. Entitled(req[r].by) \/ Privileged(req[r].by)
      <4>1. CASE Theirs(req[r].by, req[r]) /\ ~req[r].set.password
        BY <3>2, <4>1 DEF Theirs, Entitled
      <4>2. CASE /\ Valid(req[r].token)
                 /\ \/ Theirs(req[r].by, req[r])
                    \/ AdminAccess /\ req[r].by = Admin
                    \/ req[r].set.mode # "private"
        <5>1. share.set.password => req[r].by \in typed
          BY <3>2, <4>2 DEF Valid, Typing
        <5>2. QED BY <3>2, <4>2, <5>1 DEF Theirs, Entitled, Privileged
      <4>3. QED BY <2>2, <4>1, <4>2 DEF Pass
    <3>4. Guarded(req'[r])
      BY <3>1, <3>2, <3>3 DEF Guarded, Allowed
    <3>5. QED BY <1>4, <2>1, <3>1, <3>4
  <2>3. CASE Ends(r)
    BY <1>4, <1>9, <2>1, <2>3
  <2>4. QED BY <1>12, <2>2, <2>3, VerifyGoes DEF Read, End, Ends
<1>13. CASE UNCHANGED vars
  BY <1>4, <1>13 DEF vars, history
<1>14. QED
  BY <1>1, <1>2, <1>3, <1>5, <1>6, <1>7, <1>8, <1>8a, <1>10, <1>11, <1>12, <1>13 DEF Next

-----------------------------------------------------------------------------
(* The view counter. *)

LEMMA ViewsReadInit == Init => ViewsRead
<1> SUFFICES ASSUME Init PROVE ~share.there /\ opens = 0
  BY DEF ViewsRead
<1>1. QED BY Numbers, NoShareTyped DEF Init

LEMMA LimitTyped == ASSUME NEW s \in Settings PROVE s.max \in Nat
BY DEF Settings

\* Nothing overlapped, and the share was not replaced under a request.
Alone == scars \cap {"overlap", "replaced"} = {}
\* The share's counter, and the requests that will count, in one state.
Counter ==
    /\ share.views = opens
    /\ share.set.max # 0 /\ "admin" \notin scars => opens <= share.set.max
Unread(r) == Counting(r) =>
    /\ req[r].views = share.views
    /\ share.set.max # 0 /\ "admin" \notin scars => req[r].views < share.set.max
Single == \A q, r \in Requests : Counting(q) /\ Counting(r) => q = r

LEMMA ViewsReadParts ==
    ViewsRead <=> /\ ~share.there => opens = 0
                  /\ share.there /\ Alone => Counter /\ (\A r \in Requests : Unread(r)) /\ Single
BY DEF ViewsRead, Alone, Counter, Unread, Single

LEMMA ViewsReadNext == Typed /\ ViewsRead /\ [Next]_vars => ViewsRead'
<1> SUFFICES ASSUME Typed, ViewsRead, [Next]_vars PROVE ViewsRead'
  OBVIOUS
<1>0. /\ share.views \in Nat /\ opens \in Nat /\ share.set.max \in Nat
      /\ \A r \in Requests : req[r].views \in Nat
      /\ ~share.there => opens = 0
      /\ share.there /\ Alone => Counter /\ (\A r \in Requests : Unread(r)) /\ Single
  BY StateFields, LimitTyped, ViewsReadParts
<1>a. ASSUME ~share'.there => opens' = 0,
             share'.there /\ Alone' => Counter' /\ (\A r \in Requests : Unread(r)') /\ Single'
      PROVE  ViewsRead'
  BY <1>a DEF ViewsRead, Alone, Counter, Unread, Single
\* A step that leaves the counter, its limit and what counts.
<1>b. ASSUME share.there /\ Alone', share'.there, scars \subseteq scars', UNCHANGED <<opens, share.views, share.set>>,
             \A r \in Requests : req'[r] = req[r]
                                 \/ req'[r].at \notin {"sign", "count"}
                                 \/ (Counting(r) /\ req'[r].views = req[r].views)
      PROVE  Counter' /\ (\A r \in Requests : Unread(r)') /\ Single'
  <2>1. Alone /\ ("admin" \notin scars' => "admin" \notin scars)
    BY <1>b DEF Alone
  <2>2. Counter'
    BY <1>0, <1>b, <2>1 DEF Counter
  <2>3. ASSUME NEW r \in Requests, Counting(r)' PROVE Counting(r) /\ req'[r].views = req[r].views
    BY <1>b, <2>3 DEF Counting
  <2>4. ASSUME NEW r \in Requests PROVE Unread(r)'
    BY <1>0, <1>b, <2>1, <2>3, <2>4 DEF Unread
  <2>5. Single'
    BY <1>0, <1>b, <2>1, <2>3 DEF Single
  <2>6. QED BY <2>2, <2>4, <2>5
\* A step that begins a request that counts.
<1>c. ASSUME NEW r \in Requests, UNCHANGED <<share, opens>>, share.there, scars \subseteq scars',
             \A x \in Requests \ {r} : req'[x] = req[x],
             req'[r].views = share.views,
             share.set.max # 0 /\ "admin" \notin scars' => share.views < share.set.max,
             (\E x \in Requests : Counting(x)) => "overlap" \in scars'
      PROVE  ViewsRead'
  <2> SUFFICES ASSUME Alone' PROVE Counter' /\ (\A x \in Requests : Unread(x)') /\ Single'
    BY <1>a, <1>c
  <2>1. /\ Alone /\ ("admin" \notin scars' => "admin" \notin scars)
        /\ \A x \in Requests : ~Counting(x)
    BY <1>c DEF Alone
  <2>2. Counter'
    BY <1>0, <1>c, <2>1 DEF Counter
  <2>3. \A x \in Requests \ {r} : ~Counting(x)'
    BY <1>c, <2>1 DEF Counting
  <2>4. ASSUME NEW x \in Requests PROVE Unread(x)'
    BY <1>c, <2>3, <2>4 DEF Unread
  <2>5. Single'
    BY <2>3 DEF Single
  <2>6. QED BY <2>2, <2>4, <2>5
<1>1. CASE Create
  <2>1. /\ share'.there /\ ~share.there /\ share'.views = 0 /\ UNCHANGED <<req, opens>>
        /\ share' \in Share /\ (Busy => "replaced" \in scars')
    BY <1>1, Created
  <2> SUFFICES ASSUME Alone' PROVE Counter' /\ (\A x \in Requests : Unread(x)') /\ Single'
    BY <1>a, <2>1
  <2>2. \A r \in Requests : req'[r].at = ""
    BY <2>1, FreeFields DEF Busy, Alone
  <2>3. \A r \in Requests : ~Counting(r)'
    BY <2>2 DEF Counting
  <2>4. share'.set.max \in Nat
    BY <2>1, ShareFields, LimitTyped
  <2>5. Counter'
    BY <1>0, <2>1, <2>4 DEF Counter
  <2>6. QED BY <2>3, <2>5 DEF Unread, Single
<1>2. CASE Complete \/ Revert \/ Expire
  <2>1. /\ UNCHANGED <<req, opens, share.views, share.set>> /\ share.there /\ share'.there /\ scars \subseteq scars'
    BY <1>2, Edited
  <2>2. QED BY <1>a, <1>b, <2>1
<1>3. CASE Remove
  BY <1>a, <1>3, Removed
<1>d. ASSUME UNCHANGED <<share, opens, scars>>,
             \A r \in Requests : req'[r] = req[r]
                                 \/ req'[r].at \notin {"sign", "count"}
                                 \/ (Counting(r) /\ req'[r].views = req[r].views)
      PROVE  ViewsRead'
  BY <1>0, <1>a, <1>b, <1>d
<1>4. ASSUME NEW v \in DOMAIN cookie, Forget(v) PROVE ViewsRead'
  BY <1>4, <1>d DEF Forget, history
<1>5. ASSUME NEW v \in DOMAIN cookie, NEW r \in Requests, AskToken(v, r) PROVE ViewsRead'
  <2>1. /\ UNCHANGED <<share, opens>> /\ share.there /\ scars \subseteq scars'
        /\ (\E x \in Requests : Counting(x)) => "overlap" \in scars'
    BY <1>5 DEF AskToken, BeginCounted, Visible, Counting
  <2>2. \A x \in Requests \ {r} : req'[x] = req[x]
    BY <1>5, TokenAsked DEF Asks
  <2>3. req'[r].views = share.views
    BY <1>5, TokenAsked DEF Asks
  <2>4. share.set.max # 0 => share.views < share.set.max
    BY <1>0, <1>5 DEF AskToken, Exhausted
  <2>5. QED BY <1>c, <2>1, <2>2, <2>3, <2>4
<1>6. ASSUME NEW v \in DOMAIN cookie, NEW r \in Requests, AskFile(v, r) PROVE ViewsRead'
  <2>1. /\ UNCHANGED <<share, opens>> /\ share.there /\ scars \subseteq scars'
        /\ (\E x \in Requests : Counting(x)) => "overlap" \in scars'
    BY <1>6 DEF AskFile, BeginCounted, Visible, Counting
  <2>2. \A x \in Requests \ {r} : req'[x] = req[x]
    BY <1>6, FileAsked DEF Asks
  <2>3. req'[r].views = share.views
    BY <1>6, FileAsked DEF Asks
  <2>4. share.set.max # 0 /\ "admin" \notin scars' => share.views < share.set.max
    <3>1. CASE v = Admin
      <4> DEFINE q == [Free EXCEPT !.by = v, !.kind = "file", !.at = "count", !.views = share.views]
      <4>1. q.by = v /\ q.kind = "file"
        BY DEF Free
      <4>2. BeginCounted(r, q)
        BY <1>6 DEF AskFile
      <4> HIDE DEF q
      <4>3. "admin" \in scars'
        BY <3>1, <4>1, <4>2 DEF BeginCounted
      <4>4. QED BY <4>3
    <3>2. CASE v # Admin
      BY <1>0, <1>6, <3>2 DEF AskFile, Exhausted
    <3>3. QED BY <3>1, <3>2
  <2>5. QED BY <1>c, <2>1, <2>2, <2>3, <2>4
<1>7. ASSUME NEW v \in DOMAIN cookie, NEW r \in Requests, AskGuarded(v, r) PROVE ViewsRead'
  <2>1. UNCHANGED <<share, opens, scars>>
    BY <1>7 DEF AskGuarded, history
  <2>2. /\ \A x \in Requests \ {r} : req'[x] = req[x]
        /\ req'[r].at = "verify"
    BY <1>7, GuardedAsked DEF Asks
  <2>3. QED BY <1>d, <2>1, <2>2
<1>7a. ASSUME NEW v \in DOMAIN cookie, NEW r \in Requests, AskOwner(v, r) PROVE ViewsRead'
  <2>1. UNCHANGED <<share, opens, scars>>
    BY <1>7a DEF AskOwner, history
  <2>2. /\ \A x \in Requests \ {r} : req'[x] = req[x]
        /\ req'[r].at = "read"
    BY <1>7a, OwnerAsked DEF Asks
  <2>3. QED BY <1>d, <2>1, <2>2
<1>8. ASSUME NEW r \in Requests, Ends(r)
      PROVE  req'[r].at = "" /\ \A x \in Requests \ {r} : req'[x] = req[x]
  <2>1. req'[r] = Free /\ \A x \in Requests \ {r} : req'[x] = req[x]
    BY <1>8, StateFields DEF Ends
  <2>2. QED BY <2>1, FreeFields
<1>9. ASSUME NEW r \in Requests, Sign(r) PROVE ViewsRead'
  <2>1. UNCHANGED <<share, opens, scars>> /\ Counting(r)
    BY <1>9 DEF Sign, history, Counting
  <2>2. CASE Ends(r)
    BY <1>d, <1>8, <2>1, <2>2
  <2>3. CASE /\ GoesOn(r, "count", [born |-> share.born, edition |-> edition])
             /\ req'[r].views = req[r].views
    <3>1. \A x \in Requests \ {r} : req'[x] = req[x]
      BY <2>3 DEF GoesOn
    <3>2. QED BY <1>d, <2>1, <2>3, <3>1
  <2>4. QED BY <1>9, <2>2, <2>3, SignGoes
<1>10. ASSUME NEW r \in Requests, Count(r) PROVE ViewsRead'
  <2>1. /\ scars' = scars /\ Counting(r)
        /\ ~share.there => UNCHANGED <<share, opens>>
        /\ share.there => /\ share'.there /\ share'.set = share.set
                          /\ share'.views = req[r].views + 1 /\ opens' = opens + 1
    BY <1>10, Viewed DEF Count, Counting
  <2>2. /\ \A x \in Requests \ {r} : req'[x] = req[x]
        /\ req'[r].at \in {"", "read"}
    <3>1. CASE Ends(r)
      BY <1>8, <3>1
    <3>2. CASE GoesOn(r, "read", req[r].token)
      BY <3>2 DEF GoesOn
    <3>3. QED BY <1>10, <3>1, <3>2, CountGoes
  <2> SUFFICES ASSUME share.there, Alone' PROVE Counter' /\ (\A x \in Requests : Unread(x)') /\ Single'
    BY <1>0, <1>a, <2>1
  <2>3. Counter /\ Unread(r) /\ \A x \in Requests \ {r} : ~Counting(x)
    BY <1>0, <2>1 DEF Alone, Single
  <2>4. Counter'
    BY <1>0, <2>1, <2>3 DEF Counter, Unread
  <2>5. \A x \in Requests : ~Counting(x)'
    BY <2>2, <2>3 DEF Counting
  <2>6. QED BY <2>4, <2>5 DEF Unread, Single
<1>11. ASSUME NEW r \in Requests, Verify(r) \/ Read(r) PROVE ViewsRead'
  <2>1. UNCHANGED <<share, opens, scars>>
    BY <1>11 DEF Verify, Read, history
  <2>2. /\ \A x \in Requests \ {r} : req'[x] = req[x]
        /\ req'[r].at \in {"", "read"}
    <3>1. CASE Ends(r)
      BY <1>8, <3>1
    <3>2. CASE GoesOn(r, "read", req[r].token)
      BY <3>2 DEF GoesOn
    <3>3. QED BY <1>11, <3>1, <3>2, VerifyGoes DEF Read, End, Ends
  <2>3. QED BY <1>d, <2>1, <2>2
<1>12. CASE UNCHANGED vars
  BY <1>d, <1>12 DEF vars, history
<1>13. QED
  BY <1>1, <1>2, <1>3, <1>4, <1>5, <1>6, <1>7, <1>7a, <1>9, <1>10, <1>11, <1>12 DEF Next

-----------------------------------------------------------------------------
(* Theorems. *)

THEOREM Invariants == Spec => [](Typed /\ TokensFresh /\ ContentGuarded /\ ViewsRead)
<1>1. Init => Typed /\ TokensFresh /\ ContentGuarded /\ ViewsRead
  BY TypedInit, TokensFreshInit, ContentGuardedInit, ViewsReadInit
<1>2. Typed /\ TokensFresh /\ ContentGuarded /\ ViewsRead /\ [Next]_vars
        => (Typed /\ TokensFresh /\ ContentGuarded /\ ViewsRead)'
  BY TypedNext, TokensFreshNext, ContentGuardedNext, ViewsReadNext
<1>3. QED BY <1>1, <1>2, PTL DEF Spec

\* The state has its types, and no token carries a second to come.
THEOREM TypeCorrect == Spec => []TypeOK
<1>1. Typed => TypeOK
  BY StateFields DEF TypeOK
<1>2. QED BY <1>1, Invariants, PTL

\* A share token opens nothing after the owner reopened the share, or after another share
\* took its id: verifyShareToken compares createdAt, which every edit moves, unless two of
\* them fall within one second.
THEOREM TokensCorrect == Spec => []TokensOfEdition
<1>1. TokensFresh => TokensOfEdition
  BY DEF TokensFresh, TokensOfEdition, ReadOfEdition
<1>2. QED BY <1>1, Invariants, PTL

\* The page and the files of a share with a password go to those who typed it, and what
\* came through a private reverse share to its creators, or to an administrator with access
\* to everything: whatever ShareSecurityGuard and FileSecurityGuard read before they
\* awaited, and whoever has a token of a share that had the id before.  The page behind
\* ShareOwnerGuard goes without a password to the creators and the administrators, and of
\* an anonymous share to anybody.
THEOREM ContentCorrect == Spec => []ContentKept
<1>1. ContentGuarded => ContentKept
  BY DEF ContentGuarded, ContentKept, Served, Found, Serving
<1>2. QED BY <1>1, Invariants, PTL

\* The view counter is the number of times the share was opened, and does not pass the
\* limit, unless two requests that count overlapped or the share was replaced under one:
\* increaseViewCount writes what was read before, and one.
THEOREM ViewsCorrect == Spec => []ViewsBounded
<1>1. ViewsRead => ViewsBounded
  BY DEF ViewsRead, ViewsBounded
<1>2. QED BY <1>1, Invariants, PTL

===============================================================================
