-------------------------- MODULE AuthSessionProofs --------------------------
(***************************************************************************)
(* What is proved of AuthSession about sessions, from what AuthProofs has  *)
(* of types and accounts: whose session a browser holds, and that a logout *)
(* ends it.                                                                *)
(***************************************************************************)
EXTENDS AuthProofs

\* The handshake of a session was started from its browser.
HandshakeOwn(s, b) ==
    s.hs = NoHandshake \/ (s.hs \in Handshakes /\ starter[s.hs] = b)

\* Person p signed in at Entra ID from browser b.
SignedIn(b, p) ==
    \E h \in Handshakes : starter[h] = b /\ [hs |-> h, who |-> p] \in urls

\* The session is that of nobody, or of one of these rows; in OIDC mode, of a
\* row of someone who signed in from b, that agrees with the token.
UserOwn(s, b, rows) ==
    s.user = 0 \/ \E u \in rows :
        /\ u.id = s.user
        /\ mode = "oidc" => SignedIn(b, u.who) /\ Agrees(u, GrantOf(u.who))

SessionOK(s, b, rows) == HandshakeOwn(s, b) /\ UserOwn(s, b, rows)

\* A request carries such a session, which may be that of the row it has
\* inserted itself, and signs in somebody who was at Entra ID in its browser.
RequestOK(r) ==
    /\ SessionOK(r.sess, r.from, users \union r.pending)
    /\ mode = "oidc" /\ r.at \in {"exchange", "find", "insert"} => SignedIn(r.from, r.who)

SessionInv ==
    /\ \A b \in Browsers : SessionOK(cookie[b], b, users)
    /\ \A i \in Slots : Busy(i) => RequestOK(req[i])

\* Nothing that a session rests on is taken back.
Grows ==
    /\ mode' = mode
    /\ users \subseteq users' /\ urls \subseteq urls'
    /\ \A h \in Handshakes : starter[h] # NoBrowser => starter'[h] = starter[h]

LEMMA StillSigned ==
    ASSUME Grows, NEW b \in Browsers, NEW p, SignedIn(b, p)
    PROVE  SignedIn(b, p)'
  BY NothingAssumption DEF Grows, SignedIn

LEMMA StillOK ==
    ASSUME Grows, NEW b \in Browsers, NEW s, NEW rows, NEW more, rows \subseteq more,
           SessionOK(s, b, rows)
    PROVE  SessionOK(s, b, more)'
  <1>1. HandshakeOwn(s, b)'
    BY NothingAssumption DEF Grows, SessionOK, HandshakeOwn
  <1>2. UserOwn(s, b, more)'
    BY StillSigned DEF Grows, SessionOK, UserOwn, Agrees
  <1> QED BY <1>1, <1>2 DEF SessionOK

\* A step that puts a request that is as it should be, and leaves the cookies.
LEMMA PutOK ==
    ASSUME TypeInv, SessionInv, Grows, cookie' = cookie,
           NEW i \in Slots, NEW r, Puts(i, r), r = Free \/ (r \in Request /\ RequestOK(r)')
    PROVE  SessionInv'
  <1>1. \A b \in Browsers : SessionOK(cookie[b], b, users)'
    <2> SUFFICES ASSUME NEW b \in Browsers PROVE SessionOK(cookie[b], b, users)'
      OBVIOUS
    <2>1. PICK s, more : s = cookie[b] /\ more = users'
      OBVIOUS
    <2>2. SessionOK(s, b, more)'
      BY <2>1, StillOK DEF SessionInv, Grows
    <2> QED BY <2>1, <2>2 DEF SessionOK, HandshakeOwn, UserOwn
  <1>2. ASSUME NEW j \in Slots, Busy(j)' PROVE RequestOK(req[j])'
    <2>1. CASE j = i
      BY <1>2, <2>1 DEF Puts, Busy, RequestOK, SessionOK, HandshakeOwn, UserOwn, SignedIn
    <2>2. CASE j # i
      <3>1. /\ Busy(j) /\ req[j] \in Request /\ RequestOK(req[j])
            /\ req'[j].sess = req[j].sess /\ req'[j].from = req[j].from
            /\ req'[j].pending = req[j].pending /\ req'[j].at = req[j].at
            /\ req'[j].who = req[j].who
        BY <1>2, <2>2 DEF Puts, SameRequest, TypeInv, RequestsOK, SessionInv, Busy
      <3>2. PICK s, b, p, at, rows, more :
               /\ s = req[j].sess /\ b = req[j].from /\ p = req[j].who
               /\ at = req[j].at /\ rows = users \union req[j].pending
               /\ more = users' \union req[j].pending
        OBVIOUS
      <3>3. b \in Browsers /\ SessionOK(s, b, rows) /\ rows \subseteq more
        BY <3>1, <3>2 DEF Request, RequestOK, Grows
      <3>4. SessionOK(s, b, more)'
        BY <3>3, StillOK
      <3>5. mode' = "oidc" /\ at \in {"exchange", "find", "insert"} => SignedIn(b, p)'
        BY <3>1, <3>2, <3>3, StillSigned DEF Grows, RequestOK
      <3> QED BY <3>1, <3>2, <3>4, <3>5
              DEF RequestOK, SessionOK, HandshakeOwn, UserOwn, SignedIn
    <2> QED BY <2>1, <2>2
  <1> QED BY <1>1, <1>2 DEF SessionInv

\* The sessions that the handlers make.
LEMMA EmptyOK == \A b \in Browsers : \A rows : SessionOK(Empty, b, rows)
  BY DEF SessionOK, HandshakeOwn, UserOwn, Empty

LEMMA OpenedOK ==
    ASSUME NEW b \in Browsers, NEW rows, NEW u \in rows,
           mode = "oidc" => SignedIn(b, u.who) /\ Agrees(u, GrantOf(u.who))
    PROVE  SessionOK(Opened(u.id), b, rows)
  BY DEF SessionOK, HandshakeOwn, UserOwn, Opened

\* A step that puts a request and changes nothing that sessions rest on.
LEMMA PlainPut ==
    ASSUME TypeInv, SessionInv, UNCHANGED <<mode, users, urls, starter, cookie>>,
           NEW i \in Slots, NEW r \in Request, Puts(i, r), RequestOK(r)
    PROVE  SessionInv'
  <1>1. Grows
    BY DEF Grows
  <1>2. RequestOK(r)'
    BY DEF RequestOK, SessionOK, HandshakeOwn, UserOwn, SignedIn, Agrees
  <1> QED BY <1>1, <1>2, PutOK

LEMMA SendOK ==
    ASSUME TypeInv, SessionInv, NEW i \in Slots, NEW b \in Browsers, Arrives(i, b)
    PROVE  SessionInv'
  <1>1. PICK at \in Stages, kind \in Kinds, s \in Session, who \in People \union {Nobody} :
           Send(i, b, at, kind, s, who) /\ Asked(b, at, kind, s, who)
    BY RoutesSend
  <1>2. PICK r \in Request :
           /\ Puts(i, r) /\ r.pending = {} /\ r.from = b
           /\ r.at = at /\ r.sess = s /\ r.who = who
    BY <1>1, SendPuts DEF TypeInv
  <1>3. SessionOK(cookie[b], b, users)
    BY DEF SessionInv
  <1>4. SessionOK(s, b, users)
    <2>1. CASE s \in {cookie[b], Empty}
      BY <1>3, <2>1, EmptyOK
    <2>2. CASE mode # "oidc" /\ \E u \in users : s = Opened(u.id)
      BY <2>2, OpenedOK
    <2> QED BY <1>1, <2>1, <2>2 DEF Asked
  <1>5. mode = "oidc" /\ at \in {"exchange", "find", "insert"} => SignedIn(b, who)
    <2> SUFFICES ASSUME mode = "oidc", at \in {"exchange", "find", "insert"}
                 PROVE  SignedIn(b, who)
      OBVIOUS
    <2>1. s = cookie[b] /\ [hs |-> s.hs, who |-> who] \in urls
      BY <1>1 DEF Asked
    <2>2. s.hs \in Handshakes
      BY <2>1 DEF TypeInv, DataOK, Url
    <2>3. starter[s.hs] = b
      BY <1>3, <2>1, <2>2, NothingAssumption DEF SessionOK, HandshakeOwn
    <2> QED BY <2>1, <2>2, <2>3 DEF SignedIn
  <1>6. RequestOK(r)
    BY <1>2, <1>4, <1>5 DEF RequestOK
  <1> QED BY <1>2, <1>6, RoutesSend, PlainPut

LEMMA HandleOK ==
    ASSUME TypeInv, AccountInv, SessionInv, NEW i \in Slots, Handle(i) \/ LoseAnswer(i)
    PROVE  SessionInv'
  <1>1. RequestsOK /\ Busy(i) /\ req[i] \in Request /\ Staged(req[i]) /\ RequestOK(req[i])
    BY DEF TypeInv, RequestsOK, SessionInv, Handle, StartHandshake, Exchange, FindAccount,
           Insert, Commit, Answer, LoseAnswer, Busy
  <1>2. /\ req[i].sess \in Session /\ req[i].from \in Browsers
        /\ SessionOK(req[i].sess, req[i].from, users \union req[i].pending)
    BY <1>1 DEF Request, RequestOK
  <1>3. ASSUME Fail(i), Grows, cookie' = cookie PROVE SessionInv'
    BY <1>1, <1>3, FreePuts, PutOK DEF Fail
  <1>4. CASE StartHandshake(i)
    <2>1. UNCHANGED <<mode, users, urls, cookie>> /\ req[i].at = "login"
      BY <1>4 DEF StartHandshake
    <2>2. CASE Fail(i) /\ starter' = starter
      BY <1>3, <2>1, <2>2 DEF Grows
    <2>3. CASE ~(Fail(i) /\ starter' = starter)
      <3>1. PICK h \in Handshakes :
               /\ starter[h] = NoBrowser
               /\ starter' = [starter EXCEPT ![h] = req[i].from]
               /\ Respond(i, [req[i].sess EXCEPT !.hs = h])
        BY <1>4, <2>3 DEF StartHandshake
      <3>2. PICK s \in Session : /\ s.hs = h /\ s.user = req[i].sess.user
                                 /\ Respond(i, s)
        <4>1. [req[i].sess EXCEPT !.hs = h] \in Session
              /\ [req[i].sess EXCEPT !.hs = h].hs = h
              /\ [req[i].sess EXCEPT !.hs = h].user = req[i].sess.user
          BY <1>2 DEF Session
        <4> QED BY <3>1, <4>1
      <3>3. PICK r \in Request : Puts(i, r) /\ r.at = "answer" /\ r.sess = s /\ r.pending = {}
                                 /\ r.from = req[i].from
        BY <1>1, <3>2, RespondPuts
      <3>4. Grows
        BY <2>1, <3>1 DEF Grows, TypeInv, DataOK
      <3>5. starter'[h] = req[i].from
        BY <3>1 DEF TypeInv, DataOK
      <3>6. req[i].pending = {}
        BY <1>1, <2>1 DEF Staged
      <3>7. UserOwn(s, req[i].from, users)'
        <4>1. PICK b, t : b = req[i].from /\ t = req[i].sess
          OBVIOUS
        <4>2. SessionOK(t, b, users) /\ b \in Browsers
          BY <1>2, <3>6, <4>1
        <4>3. PICK rows : rows = users
          OBVIOUS
        <4>4. SessionOK(t, b, rows)'
          BY <3>4, <4>2, <4>3, StillOK
        <4>5. req[i].from = b /\ req'[i].from = b
          BY <3>3, <4>1 DEF Puts
        <4> QED BY <2>1, <3>2, <4>1, <4>3, <4>4, <4>5 DEF SessionOK, UserOwn
      <3>8. RequestOK(r)'
        <4>1. SessionOK(s, r.from, users)'
          BY <2>1, <3>2, <3>3, <3>5, <3>7 DEF SessionOK, HandshakeOwn, UserOwn, Puts
        <4> QED BY <3>3, <4>1 DEF RequestOK, SessionOK, UserOwn
      <3> QED BY <2>1, <3>3, <3>4, <3>8, PutOK
    <2> QED BY <2>2, <2>3
  <1>5. CASE Exchange(i)
    <2>1. UNCHANGED <<mode, users, urls, cookie, starter>> /\ req[i].at = "exchange"
      BY <1>5 DEF Exchange
    <2>2. CASE Fail(i)
      BY <1>3, <2>1, <2>2 DEF Grows
    <2>3. ASSUME NEW r \in Request, Puts(i, r), r.at \in {"find", "answer"},
                 r.sess = req[i].sess, r.from = req[i].from, r.pending = {},
                 r.at = "find" => r.who = req[i].who
          PROVE  SessionInv'
      <3>1. req[i].pending = {}
        BY <1>1, <2>1 DEF Staged
      <3>2. RequestOK(r)
        BY <1>1, <2>1, <2>3, <3>1 DEF RequestOK
      <3> QED BY <2>1, <2>3, <3>2, PlainPut
    <2>4. CASE Goto(i, "find", req[i].sess)
      <3>1. req[i].pending = {}
        BY <1>1, <2>1 DEF Staged
      <3> QED BY <1>1, <1>2, <2>3, <2>4, <3>1, GotoPuts DEF Stages
    <2>5. CASE Respond(i, req[i].sess)
      BY <1>1, <1>2, <2>3, <2>5, RespondPuts
    <2> QED BY <1>5, <2>2, <2>4, <2>5 DEF Exchange
  <1>6. CASE FindAccount(i)
    <2>1. /\ UNCHANGED <<mode, users, urls, cookie, starter>> /\ req[i].at = "find"
          /\ req[i].pending = {} /\ mode = "oidc"
      BY <1>1, <1>6 DEF FindAccount, Staged
    <2>2. SignedIn(req[i].from, req[i].who) /\ SessionOK(req[i].sess, req[i].from, users)
      BY <1>1, <1>2, <2>1 DEF RequestOK
    <2>3. PICK s \in Session, at \in {"commit", "insert", "answer"} :
             /\ SessionOK(s, req[i].from, users)
             /\ Respond(i, s) \/ Goto(i, at, s)
      <3>1. CASE Respond(i, req[i].sess) \/ Goto(i, "insert", req[i].sess)
        BY <1>2, <2>2, <3>1
      <3>2. CASE \E u \in Account(req[i].who) :
                   Agrees(u, GrantOf(req[i].who)) /\ Goto(i, "commit", Opened(u.id))
        <4>1. PICK u \in users : /\ u.who = req[i].who /\ Agrees(u, GrantOf(u.who))
                                /\ Goto(i, "commit", Opened(u.id))
          BY <3>2 DEF Account
        <4>2. SessionOK(Opened(u.id), req[i].from, users)
          BY <1>2, <2>2, <4>1, OpenedOK
        <4> QED BY <4>1, <4>2, SessionsTyped DEF TypeInv
      <3> QED BY <1>6, <3>1, <3>2 DEF FindAccount
    <2>4. PICK r \in Request : /\ Puts(i, r) /\ r.sess = s /\ r.pending = {}
                               /\ r.from = req[i].from
                               /\ r.at = "answer" \/ r.who = req[i].who
      BY <1>1, <2>1, <2>3, RespondPuts, GotoPuts DEF Stages
    <2>5. RequestOK(r)
      BY <2>2, <2>3, <2>4 DEF RequestOK
    <2> QED BY <2>1, <2>4, <2>5, PlainPut
  <1>7. CASE Insert(i)
    <2>1. UNCHANGED <<mode, users, urls, cookie, starter>> /\ req[i].at = "insert"
          /\ req[i].pending = {}
      BY <1>1, <1>7 DEF Insert, Staged
    <2>2. CASE Fail(i)
      BY <1>3, <2>1, <2>2 DEF Grows
    <2>3. CASE ~Fail(i)
      <3>1. PICK r \in Request :
               /\ Puts(i, r) /\ r.at = "commit" /\ r.pending = {RowOf(i)}
               /\ r.sess = InsertSession(i) /\ r.from = req[i].from
        BY <1>7, <2>3, InsertPuts
      <3>2. SessionOK(InsertSession(i), req[i].from, users \union {RowOf(i)})
        <4>1. CASE mode = "oidc"
          <5>1. RowOf(i).who = req[i].who
            BY <2>1, <1>1, <1>7, RowTyped DEF Insert
          <5>2. Agrees(RowOf(i), GrantOf(req[i].who))
            BY <4>1 DEF Agrees, RowOf, NewUser
          <5>3. SignedIn(req[i].from, req[i].who)
            BY <1>1, <2>1, <4>1 DEF RequestOK
          <5>4. PICK w, rows : w = RowOf(i) /\ rows = users \union {w}
            OBVIOUS
          <5>5. SessionOK(Opened(w.id), req[i].from, rows)
            BY <1>2, <5>1, <5>2, <5>3, <5>4, OpenedOK
          <5> QED BY <4>1, <5>4, <5>5 DEF InsertSession
        <4>2. CASE mode # "oidc"
          BY <1>2, <2>1, <4>2 DEF InsertSession, SessionOK, UserOwn
        <4> QED BY <4>1, <4>2
      <3>3. RequestOK(r)
        BY <3>1, <3>2 DEF RequestOK
      <3> QED BY <2>1, <3>1, <3>3, PlainPut
    <2> QED BY <2>2, <2>3
  <1>8. CASE Commit(i)
    <2>1. UNCHANGED <<mode, urls, cookie, starter>> /\ req[i].at = "commit"
          /\ users \subseteq users'
      BY <1>8 DEF Commit
    <2>2. Grows
      BY <2>1 DEF Grows
    <2>3. CASE Fail(i)
      BY <1>3, <2>1, <2>2, <2>3
    <2>4. CASE ~Fail(i)
      <3>1. /\ users' = users \union req[i].pending
            /\ \/ Respond(i, req[i].sess)
               \/ mode # "oidc" /\ \E u \in req[i].pending : Respond(i, Opened(u.id))
        BY <1>8, <2>4 DEF Commit
      <3>2. PICK s \in Session : SessionOK(s, req[i].from, users \union req[i].pending)
                                /\ Respond(i, s)
        <4>1. \A u \in req[i].pending : Opened(u.id) \in Session
          BY <1>1, BoundAssumption DEF Opened, Session, User, Request
        <4>2. CASE Respond(i, req[i].sess)
          BY <1>2, <4>2
        <4>3. ASSUME mode # "oidc", NEW u \in req[i].pending, Respond(i, Opened(u.id))
              PROVE  \E s \in Session : SessionOK(s, req[i].from, users \union req[i].pending)
                                       /\ Respond(i, s)
          <5>1. SessionOK(Opened(u.id), req[i].from, users \union req[i].pending)
            BY <1>2, <4>3, OpenedOK
          <5> QED BY <4>1, <4>3, <5>1
        <4> QED BY <3>1, <4>2, <4>3
      <3>3. PICK r \in Request : Puts(i, r) /\ r.at = "answer" /\ r.sess = s /\ r.pending = {}
                                 /\ r.from = req[i].from
        BY <1>1, <3>2, RespondPuts
      <3>4. PICK b, rows : b = r.from /\ rows = users'
        OBVIOUS
      <3>5. SessionOK(s, b, rows)'
        BY <1>2, <2>2, <3>1, <3>2, <3>3, <3>4, StillOK
      <3>6. RequestOK(r)'
        BY <3>3, <3>4, <3>5 DEF RequestOK, SessionOK, UserOwn
      <3> QED BY <2>1, <2>2, <3>3, <3>6, PutOK
    <2> QED BY <2>3, <2>4
  <1>9. CASE LoseAnswer(i)
    BY <1>1, <1>9, FreePuts, PutOK DEF LoseAnswer, Grows
  <1>10. CASE Answer(i)
    <2>1. /\ UNCHANGED <<mode, users, urls, starter>> /\ req' = [req EXCEPT ![i] = Free]
          /\ cookie' = [cookie EXCEPT ![req[i].from] = CookieAfter(i)]
          /\ req[i].pending = {}
      BY <1>1, <1>10 DEF Answer, Staged
    <2>2. SessionOK(CookieAfter(i), req[i].from, users)
      BY <1>2, <2>1 DEF CookieAfter, SessionInv
    <2>3. \A b \in Browsers : SessionOK(cookie'[b], b, users)
      BY <1>2, <2>1, <2>2 DEF SessionInv, TypeInv, DataOK
    <2>4. \A j \in Slots : req'[j] = Free \/ req'[j] = req[j]
      BY <2>1 DEF TypeInv, RequestsOK
    <2>5. \A b \in Browsers : SessionOK(cookie[b], b, users)'
      BY <2>1, <2>3 DEF SessionOK, HandshakeOwn, UserOwn, SignedIn
    <2>6. ASSUME NEW j \in Slots, Busy(j)' PROVE RequestOK(req[j])'
      <3>1. Busy(j) /\ req'[j] = req[j] /\ RequestOK(req[j])
        BY <2>4, <2>6 DEF Busy, SessionInv
      <3>2. PICK r : r = req[j]
        OBVIOUS
      <3>3. RequestOK(r)'
        BY <2>1, <3>1, <3>2
           DEF RequestOK, SessionOK, HandshakeOwn, UserOwn, SignedIn, Agrees
      <3> QED BY <3>1, <3>2, <3>3 DEF RequestOK, SessionOK, HandshakeOwn, UserOwn, SignedIn
    <2> QED BY <2>5, <2>6 DEF SessionInv
  <1> QED BY <1>4, <1>5, <1>6, <1>7, <1>8, <1>9, <1>10 DEF Handle

LEMMA RestOK ==
    ASSUME TypeInv, SessionInv,
           \/ \E h \in Handshakes, p \in People : SignIn(h, p)
           \/ \E c \in AdminCreations : CreateUser(c)
           \/ Restart \/ UNCHANGED vars
    PROVE  SessionInv'
  <1>1. Grows /\ cookie' = cookie
    BY DEF SignIn, CreateUser, Restart, vars, Grows
  <1>2. \A i \in Slots : req'[i] = Free \/ req'[i] = req[i]
    BY DEF SignIn, CreateUser, Restart, vars
  <1>3. ASSUME NEW b \in Browsers, NEW s, NEW rows, SessionOK(s, b, users \union rows)
        PROVE  SessionOK(s, b, users \union rows)'
    <2>1. PICK more : more = users' \union rows
      OBVIOUS
    <2>2. SessionOK(s, b, more)'
      BY <1>1, <1>3, <2>1, StillOK DEF Grows
    <2> QED BY <2>1, <2>2 DEF SessionOK, UserOwn
  <1>4. ASSUME NEW b \in Browsers PROVE SessionOK(cookie[b], b, users)'
    <2>1. PICK s, rows : s = cookie[b] /\ rows = {}
      OBVIOUS
    <2>2. SessionOK(s, b, users \union rows)'
      BY <1>3, <2>1 DEF SessionInv
    <2> QED BY <1>1, <2>1, <2>2 DEF SessionOK, HandshakeOwn, UserOwn
  <1>5. ASSUME NEW i \in Slots, Busy(i)' PROVE RequestOK(req[i])'
    <2>1. Busy(i) /\ req'[i] = req[i] /\ req[i].from \in Browsers /\ RequestOK(req[i])
      BY <1>2, <1>5 DEF Busy, TypeInv, RequestsOK, Request, SessionInv
    <2>2. PICK s, b, rows, p : /\ s = req[i].sess /\ b = req[i].from /\ p = req[i].who
                              /\ rows = req[i].pending
      OBVIOUS
    <2>3. SessionOK(s, b, users \union rows)'
      BY <1>3, <2>1, <2>2 DEF RequestOK
    <2>4. mode' = "oidc" /\ req[i].at \in {"exchange", "find", "insert"} => SignedIn(b, p)'
      BY <1>1, <2>1, <2>2, StillSigned DEF RequestOK, Grows
    <2> QED BY <2>1, <2>2, <2>3, <2>4
            DEF RequestOK, SessionOK, HandshakeOwn, UserOwn, SignedIn
  <1> QED BY <1>4, <1>5 DEF SessionInv

LEMMA Sessions == Spec => [](TypeInv /\ AccountInv /\ SessionInv)
  <1>1. Init => SessionInv
    BY EmptyOK DEF Init, SessionInv, Busy
  <1>2. TypeInv /\ AccountInv /\ SessionInv /\ [Next]_vars => SessionInv'
    BY SendOK, HandleOK, RestOK DEF Next, Arrives
  <1> QED BY Accounts, <1>1, <1>2, PTL DEF Spec

\* No browser ever holds the id of a row that is not there: the session that
\* the callback writes early reaches a browser only in an answer, and only a
\* commit that went through leads to one (auth.py, auth_service.py).
THEOREM SessionsHaveRows == Spec => []SessionHasRow
  <1>1. SessionInv => SessionHasRow
    BY DEF SessionInv, SessionOK, UserOwn, SessionHasRow, ActsFor
  <1> QED BY Sessions, <1>1, PTL

\* The row that a session names is the one it was opened for: ids are unique.
LEMMA RowOfSession ==
    ASSUME TypeInv, AccountInv, SessionInv, mode = "oidc",
           NEW b \in Browsers, NEW u \in ActsFor(b)
    PROVE  SignedIn(b, u.who) /\ Agrees(u, GrantOf(u.who))
  <1>1. u \in users /\ u.id = cookie[b].user /\ u.id # 0
    BY BoundAssumption DEF ActsFor, TypeInv, DataOK, User
  <1>2. PICK w \in users : w.id = u.id /\ SignedIn(b, w.who) /\ Agrees(w, GrantOf(w.who))
    BY <1>1 DEF SessionInv, SessionOK, UserOwn
  <1>3. w = u
    BY <1>1, <1>2 DEF AccountInv, RowsOK, Clash
  <1> QED BY <1>2, <1>3

\* A browser acts only for someone who signed in at Entra ID from that very
\* browser: callback URLs that are reloaded, or opened late or elsewhere, find
\* another state in the session, or the session of their own handshake.
THEOREM SessionsAreOwn == Spec => []SessionIsOwn
  <1>1. ASSUME TypeInv, AccountInv, SessionInv PROVE SessionIsOwn
    <2> SUFFICES ASSUME mode = "oidc", NEW b \in Browsers, NEW u \in ActsFor(b)
                 PROVE  SignedIn(b, u.who)
      BY DEF SessionIsOwn, SignedIn
    <2> QED BY <1>1, RowOfSession
  <1> QED BY Sessions, <1>1, PTL

\* The account of a session agrees with the groups of the token, whatever an
\* admin creates while the login is under way (find_or_create_oidc_user()).
THEOREM RolesAgree == Spec => []RoleAgrees
  <1>1. ASSUME TypeInv, AccountInv, SessionInv PROVE RoleAgrees
    BY <1>1, RowOfSession DEF RoleAgrees
  <1> QED BY Sessions, <1>1, PTL

-----------------------------------------------------------------------------
(* Logging out.                                                            *)

\* A calm logout is alone, and its browser has no session unless the cookie
\* that came with it held one.
Calm(i) ==
    req[i].calm =>
        /\ req[i].kind = "logout"
        /\ \A j \in Slots : j # i /\ Busy(j) => req[j].from # req[i].from
        /\ req[i].had \/ cookie[req[i].from] = Empty

CalmInv == \A i \in Slots : Busy(i) => Calm(i)

\* A step that puts a request which is the one before, or none.
LEMMA PutCalm ==
    ASSUME TypeInv, CalmInv, NEW i \in Slots, Busy(i), NEW r, Puts(i, r),
           \A b \in Browsers : b # req[i].from => cookie'[b] = cookie[b],
           \/ r = Free
           \/ /\ r \in Request /\ cookie' = cookie
              /\ r.kind = req[i].kind /\ r.from = req[i].from /\ r.had = req[i].had
              /\ r.calm = req[i].calm
    PROVE  CalmInv'
  <1>1. ASSUME NEW j \in Slots, Busy(j)'
        PROVE  /\ Busy(j) /\ req'[j].from = req[j].from /\ req[j].from \in Browsers
               /\ req'[j].calm => req[j].calm
               /\ req'[j].kind = req[j].kind /\ req'[j].had = req[j].had
               /\ j = i => cookie' = cookie
    <2>1. req[j] = Free \/ req[j] \in Request
      BY DEF TypeInv, RequestsOK
    <2>2. CASE j = i
      BY <1>1, <2>1, <2>2 DEF Puts, Busy, Request
    <2>3. CASE j # i
      BY <1>1, <2>1, <2>3 DEF Puts, SameRequest, Busy, Request
    <2> QED BY <2>2, <2>3
  <1>2. ASSUME NEW j \in Slots, Busy(j)', req'[j].calm PROVE Calm(j)'
    <2>1. Busy(j) /\ Calm(j) /\ req[j].calm
      BY <1>1, <1>2 DEF CalmInv
    <2>2. cookie'[req[j].from] = cookie[req[j].from]
      BY <1>1, <1>2, <2>1 DEF Calm
    <2> QED BY <1>1, <1>2, <2>1, <2>2 DEF Calm
  <1> QED BY <1>2 DEF CalmInv, Calm

LEMMA CalmStep == TypeInv /\ CalmInv /\ [Next]_vars => CalmInv'
  <1> SUFFICES ASSUME TypeInv, CalmInv, [Next]_vars PROVE CalmInv'
    OBVIOUS
  <1>1. ASSUME NEW i \in Slots, NEW b \in Browsers, Arrives(i, b) PROVE CalmInv'
    <2>1. PICK at \in Stages, kind \in Kinds, s \in Session, who \in People \union {Nobody} :
             Send(i, b, at, kind, s, who)
      BY <1>1, RoutesSend
    <2>2. PICK r \in Request :
             /\ ~Busy(i) /\ Puts(i, r) /\ r.kind = kind /\ r.from = b
             /\ r.had = (cookie[b] # Empty)
             /\ r.calm = (kind = "logout" /\ Flying(b) = {})
             /\ \A j \in Slots : j # i /\ Busy(j) /\ req[j].from = b => ~req'[j].calm
      BY <2>1, SendPuts DEF TypeInv
    <2>3. cookie' = cookie
      BY <1>1, RoutesSend
    <2>4. ASSUME NEW j \in Slots, j # i, Busy(j)'
          PROVE  /\ Busy(j) /\ req'[j].from = req[j].from
                 /\ req'[j].calm => req[j].calm /\ req[j].from # b
                 /\ req'[j].kind = req[j].kind /\ req'[j].had = req[j].had
      BY <2>2, <2>4 DEF Puts, SameRequest, Busy
    <2>5. Calm(i)'
      BY <2>2, <2>3, <2>4 DEF Calm, Puts, Flying
    <2>6. ASSUME NEW j \in Slots, j # i, Busy(j)', req'[j].calm PROVE Calm(j)'
      <3>1. Calm(j) /\ req[j].calm /\ req[j].from # b /\ req'[i].from = b
        BY <2>2, <2>4, <2>6 DEF CalmInv, Puts
      <3> QED BY <2>3, <2>4, <2>6, <3>1 DEF Calm
    <2> QED BY <2>5, <2>6 DEF CalmInv, Calm
  <1>2. ASSUME NEW i \in Slots, Handle(i) \/ LoseAnswer(i) PROVE CalmInv'
    <2>1. Busy(i) /\ req[i] \in Request /\ req[i].sess \in Session /\ RequestsOK
      BY <1>2 DEF Handle, StartHandshake, Exchange, FindAccount, Insert, Commit, Answer,
                  LoseAnswer, TypeInv, RequestsOK, Busy, Request
    <2>2. CASE Answer(i)
      <3>1. \A b \in Browsers : b # req[i].from => cookie'[b] = cookie[b]
        BY <2>2 DEF Answer, TypeInv, DataOK
      <3> QED BY <2>1, <2>2, <3>1, FreePuts, PutCalm DEF Answer
    <2>3. CASE Insert(i) /\ ~Fail(i)
      <3>1. cookie' = cookie
        BY <2>3 DEF Insert
      <3> QED BY <2>1, <2>3, <3>1, InsertPuts, PutCalm
    <2>4. CASE /\ cookie' = cookie
               /\ \/ req' = [req EXCEPT ![i] = Free]
                  \/ \E s \in Session, at \in Stages : Goto(i, at, s)
                  \/ \E s \in Session : Respond(i, s)
      BY <2>1, <2>4, FreePuts, GotoPuts, RespondPuts, PutCalm
    <2>5. CASE StartHandshake(i)
      <3>1. cookie' = cookie
            /\ (Fail(i) \/ \E h \in Handshakes : Respond(i, [req[i].sess EXCEPT !.hs = h]))
        BY <2>5 DEF StartHandshake
      <3> QED BY <2>1, <2>4, <3>1, SessionsTyped DEF Fail, TypeInv
    <2>6. CASE Exchange(i)
      BY <2>1, <2>4, <2>6 DEF Exchange, Fail, Stages
    <2>7. CASE FindAccount(i)
      <3>1. cookie' = cookie
            /\ \/ \E s \in Session, at \in Stages : Goto(i, at, s)
               \/ \E s \in Session : Respond(i, s)
        BY <2>1, <2>7, SessionsTyped DEF FindAccount, Account, Stages, TypeInv
      <3> QED BY <2>4, <3>1
    <2>8. CASE Insert(i) /\ Fail(i)
      BY <2>4, <2>8 DEF Insert, Fail
    <2>9. CASE Commit(i)
      <3>1. \A u \in req[i].pending : Opened(u.id) \in Session
        BY <2>1, BoundAssumption DEF Opened, Session, User, Request
      <3>2. cookie' = cookie /\ (Fail(i) \/ \E s \in Session : Respond(i, s))
        BY <2>1, <2>9, <3>1 DEF Commit
      <3> QED BY <2>4, <3>2 DEF Fail
    <2>10. CASE LoseAnswer(i)
      BY <2>4, <2>10 DEF LoseAnswer
    <2> QED BY <1>2, <2>2, <2>3, <2>5, <2>6, <2>7, <2>8, <2>9, <2>10 DEF Handle
  <1>3. CASE \/ \E h \in Handshakes, p \in People : SignIn(h, p)
             \/ \E c \in AdminCreations : CreateUser(c)
             \/ Restart \/ UNCHANGED vars
    BY <1>3 DEF SignIn, CreateUser, Restart, vars, CalmInv, Calm, Busy
  <1> QED BY <1>1, <1>2, <1>3 DEF Next, Arrives

\* A logout that no other request of its browser overlaps leaves the browser
\* with no session: either the response deletes the cookie, or there was none
\* and nobody has set one since (POST /logout and the session middleware).
THEOREM LogoutIsFinal == Spec => LogoutForgets
  <1>1. Init => CalmInv
    BY DEF Init, CalmInv, Busy
  <1>2. TypeInv /\ CalmInv =>
          \A i \in Slots :
             Answer(i) /\ req[i].kind = "logout" /\ req[i].calm
                 => cookie'[req[i].from] = Empty
    <2> SUFFICES ASSUME TypeInv, CalmInv, NEW i \in Slots, Answer(i),
                        req[i].kind = "logout", req[i].calm
                 PROVE  cookie'[req[i].from] = Empty
      OBVIOUS
    <2>1. Busy(i) /\ req[i] \in Request /\ req[i].sess = Empty
      BY DEF Answer, TypeInv, RequestsOK, Busy, Staged
    <2>2. req[i].had \/ cookie[req[i].from] = Empty
      BY <2>1 DEF CalmInv, Calm
    <2>3. CookieAfter(i) = Empty
      BY <2>1, <2>2 DEF CookieAfter
    <2> QED BY <2>1, <2>3 DEF Answer, TypeInv, DataOK, Request
  <1> QED BY Typed, CalmStep, <1>1, <1>2, PTL DEF Spec, LogoutForgets

=============================================================================
