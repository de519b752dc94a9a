----------------------------- MODULE AuthProofs -----------------------------
(***************************************************************************)
(* What is proved of AuthSession about types and accounts, for any         *)
(* browsers, people, groups and bounds, in either mode.  The lemmas on     *)
(* what a step does to the requests in flight also serve the proofs about  *)
(* sessions (AuthSessionProofs).                                           *)
(***************************************************************************)
EXTENDS AuthSession, DataLemmas, FiniteSetTheorems, TLAPS

-----------------------------------------------------------------------------
(* The directory.                                                          *)

\* What the groups of a person give is a role of the site, or none, and a
\* class, or none: the CHOOSEs of the first group and the last setting pick.
LEMMA GrantTyped ==
    ASSUME NEW p \in People
    PROVE  GrantOf(p).role \in Roles \union {"none"}
           /\ GrantOf(p).class \in Classes \union {NoClass}
  <1>1. CASE Mapped(p) = {}
    BY <1>1 DEF GrantOf
  <1>2. CASE Mapped(p) # {}
    <2> DEFINE n == CHOOSE n \in Mapped(p) : \A o \in Mapped(p) : n <= o
               g == Token[p][n]
               k == CHOOSE k \in MappedBy(g) : \A l \in MappedBy(g) : l <= k
    <2>1. DOMAIN Token[p] \subseteq Nat /\ Len(GroupSettings) \in Nat
          /\ DOMAIN GroupSettings \subseteq 0..Len(GroupSettings)
      BY DirectoryAssumption
    <2>2. Mapped(p) \subseteq Nat /\ MappedBy(g) \subseteq 0..Len(GroupSettings)
      BY <2>1 DEF Mapped, MappedBy
    <2>3. n \in Mapped(p)
      BY <1>2, <2>2, LeastOf
    <2>4. MappedBy(g) # {}
      BY <2>3 DEF Mapped
    <2>5. k \in MappedBy(g)
      <3>1. \E m \in MappedBy(g) : \A l \in MappedBy(g) : l <= m
        BY <2>1, <2>2, <2>4, GreatestOf
      <3> QED BY <3>1
    <2>6. k \in DOMAIN GroupSettings /\ MappingOf(g) = GroupSettings[k]
      BY <2>5 DEF MappedBy, MappingOf
    <2>7. \A l \in DOMAIN GroupSettings :
             /\ GroupSettings[l].role \in Roles
             /\ GroupSettings[l].class \in Classes \union {NoClass}
      <3> DEFINE R == [group : Groups, role : Roles, class : Classes \union {NoClass}]
      <3>1. ASSUME NEW l \in DOMAIN GroupSettings PROVE GroupSettings[l] \in R
        <4>1. GroupSettings \in Seq(R)
          BY DirectoryAssumption
        <4> HIDE DEF R
        <4> QED BY <4>1
      <3>2. \A x \in R : x.role \in Roles /\ x.class \in Classes \union {NoClass}
        OBVIOUS
      <3> HIDE DEF R
      <3> QED BY <3>1, <3>2
    <2>8. PICK s : /\ s.role \in Roles /\ s.class \in Classes \union {NoClass}
                   /\ s = MappingOf(g)
      BY <2>6, <2>7
    <2>9. GrantOf(p) = [role |-> MappingOf(g).role, class |-> MappingOf(g).class]
      BY <1>2 DEF GrantOf
    <2> HIDE DEF g
    <2>10. GrantOf(p) = [role |-> s.role, class |-> s.class]
      BY <2>8, <2>9
    <2> QED BY <2>8, <2>10
  <1> QED BY <1>1, <1>2

-----------------------------------------------------------------------------
(* The requests.                                                           *)

\* What the handlers know of a request at each stage.
Staged(r) ==
    /\ r.pending # {} => r.at = "commit"
    /\ r.at = "login" => r.kind = "login"
    /\ r.kind = "login" => r.at \in {"login", "answer"}
    /\ r.kind = "login" /\ r.at = "answer" => r.sess.hs \in Handshakes
    /\ r.kind = "logout" => r.at = "answer" /\ r.sess = Empty
    /\ r.at \in {"exchange", "find"} => mode = "oidc" /\ r.who \in People
    /\ r.at = "insert" =>
          /\ r.who \in People
          /\ IF mode = "oidc" THEN GrantOf(r.who).role = "student"
                              ELSE r.who \in DOMAIN Demo

RequestsOK ==
    /\ DOMAIN req = Slots
    /\ \A i \in Slots : req[i] = Free \/ (req[i] \in Request /\ Staged(req[i]))

DataOK ==
    /\ mode \in Modes
    /\ cookie \in [Browsers -> Session]
    /\ starter \in [Handshakes -> Browsers \union {NoBrowser}]
    /\ redirected \subseteq Handshakes
    /\ urls \subseteq Url /\ codes \subseteq urls
    /\ users \subseteq User
    /\ nextId \in 1..MaxIds + 1

TypeInv == DataOK /\ RequestsOK

LEMMA TypeInvTypes == TypeInv => TypeOK
  BY DEF TypeInv, DataOK, RequestsOK, TypeOK, Staged, Busy

\* Requests r and q differ in calm at most.
SameRequest(r, q) ==
    /\ r \in Request
    /\ r.at = q.at /\ r.kind = q.kind /\ r.from = q.from /\ r.sess = q.sess
    /\ r.had = q.had /\ r.who = q.who /\ r.pending = q.pending
    /\ r.calm => q.calm

\* A step puts r in slot i; it may tell the others that they are not alone.
Puts(i, r) ==
    /\ DOMAIN req' = Slots
    /\ req'[i] = r
    /\ \A j \in Slots : j # i => \/ req'[j] = req[j]
                                 \/ Busy(j) /\ SameRequest(req'[j], req[j])

LEMMA FreeIsNone == Free \notin Request
  BY DEF Free, Request, Stages

\* A request that is sent: it notes the cookie, and the others of its browser.
LEMMA SendPuts ==
    ASSUME RequestsOK, NEW i \in Slots, NEW b \in Browsers, NEW at \in Stages,
           NEW kind \in Kinds, NEW s \in Session, NEW who \in People \union {Nobody},
           Send(i, b, at, kind, s, who)
    PROVE  \E r \in Request :
              /\ ~Busy(i) /\ Puts(i, r)
              /\ r.at = at /\ r.kind = kind /\ r.from = b /\ r.sess = s
              /\ r.had = (cookie[b] # Empty) /\ r.who = who /\ r.pending = {}
              /\ r.calm = (kind = "logout" /\ Flying(b) = {})
              /\ \A j \in Slots : j # i /\ Busy(j) /\ req[j].from = b => ~req'[j].calm
  <1> DEFINE r == [at |-> at, kind |-> kind, from |-> b, sess |-> s,
                   had |-> cookie[b] # Empty, who |-> who,
                   pending |-> {}, calm |-> kind = "logout" /\ Flying(b) = {}]
  <1>1. r \in Request
    BY DEF Request
  <1>2. DOMAIN req' = Slots /\ req'[i] = r
    BY DEF Send
  <1>3. ASSUME NEW j \in Slots, j # i
        PROVE  /\ j \notin Flying(b) => req'[j] = req[j]
               /\ j \in Flying(b) => SameRequest(req'[j], req[j]) /\ ~req'[j].calm
    <2>1. CASE j \in Flying(b)
      <3>1. req'[j] = [req[j] EXCEPT !.calm = FALSE] /\ req[j] \in Request
        BY <1>3, <2>1 DEF Send, Flying, Busy, RequestsOK
      <3> QED BY <2>1, <3>1 DEF SameRequest, Request
    <2>2. CASE j \notin Flying(b)
      BY <1>3, <2>2 DEF Send
    <2> QED BY <2>1, <2>2
  <1>4. ~Busy(i)
    BY DEF Send
  <1> HIDE DEF r
  <1>5. Puts(i, r)
    BY <1>2, <1>3 DEF Puts, Flying
  <1>6. \A j \in Slots : j # i /\ Busy(j) /\ req[j].from = b => ~req'[j].calm
    BY <1>3 DEF Flying
  <1> QED BY <1>1, <1>4, <1>5, <1>6 DEF r

\* A request that goes on, and one that is answered.
LEMMA GotoPuts ==
    ASSUME RequestsOK, NEW i \in Slots, Busy(i), NEW at \in Stages, NEW s \in Session,
           Goto(i, at, s)
    PROVE  \E r \in Request :
              /\ Puts(i, r)
              /\ r.at = at /\ r.sess = s
              /\ r.kind = req[i].kind /\ r.from = req[i].from /\ r.had = req[i].had
              /\ r.who = req[i].who /\ r.pending = req[i].pending /\ r.calm = req[i].calm
  <1>1. req[i] \in Request
    BY DEF RequestsOK, Busy
  <1>2. PICK r : r = [req[i] EXCEPT !.at = at, !.sess = s] /\ req' = [req EXCEPT ![i] = r]
    BY DEF Goto
  <1>3. Puts(i, r)
    BY <1>2 DEF Puts, RequestsOK
  <1>4. /\ r \in Request /\ r.at = at /\ r.sess = s
        /\ r.kind = req[i].kind /\ r.from = req[i].from /\ r.had = req[i].had
        /\ r.who = req[i].who /\ r.pending = req[i].pending /\ r.calm = req[i].calm
    <2>1. r = [req[i] EXCEPT !.at = at, !.sess = s]
      BY <1>2
    <2> QED BY <1>1, <2>1 DEF Request
  <1> QED BY <1>3, <1>4

LEMMA RespondPuts ==
    ASSUME RequestsOK, NEW i \in Slots, Busy(i), NEW s \in Session, Respond(i, s)
    PROVE  \E r \in Request :
              /\ Puts(i, r)
              /\ r.at = "answer" /\ r.sess = s /\ r.pending = {}
              /\ r.kind = req[i].kind /\ r.from = req[i].from /\ r.had = req[i].had
              /\ r.calm = req[i].calm
  <1>1. req[i] \in Request
    BY DEF RequestsOK, Busy
  <1>2. PICK r : /\ r = [req[i] EXCEPT !.at = "answer", !.sess = s, !.who = Nobody,
                                       !.pending = {}]
                 /\ req' = [req EXCEPT ![i] = r]
    BY DEF Respond
  <1>3. Puts(i, r)
    BY <1>2 DEF Puts, RequestsOK
  <1>4. /\ r \in Request /\ r.at = "answer" /\ r.sess = s /\ r.pending = {}
        /\ r.kind = req[i].kind /\ r.from = req[i].from /\ r.had = req[i].had
        /\ r.calm = req[i].calm
    <2>1. r = [req[i] EXCEPT !.at = "answer", !.sess = s, !.who = Nobody, !.pending = {}]
      BY <1>2
    <2> QED BY <1>1, <2>1 DEF Request, Stages
  <1> QED BY <1>3, <1>4

LEMMA FreePuts ==
    ASSUME RequestsOK, NEW i \in Slots, req' = [req EXCEPT ![i] = Free]
    PROVE  Puts(i, Free)
  BY DEF Puts, RequestsOK

\* The requests are typed after a step that puts one that is.
LEMMA PutTyped ==
    ASSUME RequestsOK, NEW i \in Slots, NEW r, Puts(i, r), mode' = mode,
           r = Free \/ (r \in Request /\ Staged(r))
    PROVE  RequestsOK'
  <1>1. ASSUME NEW j \in Slots
        PROVE  req'[j] = Free \/ (req'[j] \in Request /\ Staged(req'[j]))
    <2>1. CASE j = i
      BY <2>1 DEF Puts
    <2>2. CASE j # i
      BY <2>2 DEF Puts, RequestsOK, SameRequest, Staged, Busy
    <2> QED BY <2>1, <2>2
  <1> QED BY <1>1 DEF RequestsOK, Puts, Staged

-----------------------------------------------------------------------------
(* Type correctness.                                                       *)

\* The sessions that a request may be given are sessions.
LEMMA SessionsTyped ==
    ASSUME DataOK
    PROVE  /\ Empty \in Session
           /\ \A u \in users : Opened(u.id) \in Session
           /\ \A s \in Session, h \in Handshakes :
                 [s EXCEPT !.hs = h] \in Session /\ [s EXCEPT !.hs = h].hs = h
  BY BoundAssumption DEF DataOK, Session, Empty, Opened, User

\* A request arrives from browser b, in slot i.
Arrives(i, b) ==
    \/ Login(i, b) \/ Logout(i, b) \/ Read(i, b)
    \/ \E u \in urls : Callback(i, b, u)
    \/ \E p \in People : JwtLogin(i, b, p)
    \/ \E u \in users : MockLogin(i, b, u)

\* What the routes send: the stage, the kind, the session and who signs in.
Asked(b, at, kind, s, who) ==
    \/ at = "login" /\ kind = "login" /\ s = cookie[b]
    \/ at = "answer" /\ kind = "other" /\ s \in {cookie[b], Empty}
    \/ at = "answer" /\ kind = "other" /\ mode # "oidc" /\ \E u \in users : s = Opened(u.id)
    \/ at = "answer" /\ kind = "logout" /\ s = Empty
    \/ /\ at = "exchange" /\ kind = "other" /\ s = cookie[b]
       /\ mode = "oidc" /\ [hs |-> s.hs, who |-> who] \in urls
    \/ /\ at = "insert" /\ kind = "other" /\ s = cookie[b]
       /\ mode # "oidc" /\ who \in DOMAIN Demo

LEMMA RoutesSend ==
    ASSUME TypeInv, NEW i \in Slots, NEW b \in Browsers, Arrives(i, b)
    PROVE  /\ UNCHANGED <<mode, cookie, starter, redirected, urls, codes, users, nextId>>
           /\ \E at \in Stages, kind \in Kinds, s \in Session, who \in People \union {Nobody} :
                Send(i, b, at, kind, s, who) /\ Asked(b, at, kind, s, who)
  <1> USE DEF Stages, Kinds, Asked
  <1>1. cookie[b] \in Session /\ Empty \in Session
        /\ \A u \in users : Opened(u.id) \in Session
    BY SessionsTyped DEF TypeInv, DataOK
  <1>2. CASE Login(i, b) \/ Logout(i, b) \/ Read(i, b)
    BY <1>1, <1>2 DEF Login, Logout, Read
  <1>3. CASE \E u \in urls : Callback(i, b, u)
    <2>1. PICK u \in urls : Callback(i, b, u)
      BY <1>3
    <2>2. u.who \in People /\ u = [hs |-> u.hs, who |-> u.who]
      BY DEF TypeInv, DataOK, Url
    <2> QED BY <1>1, <2>1, <2>2 DEF Callback
  <1>4. CASE \E p \in People : JwtLogin(i, b, p)
    BY <1>1, <1>4 DEF JwtLogin, Account
  <1>5. CASE \E u \in users : MockLogin(i, b, u)
    BY <1>1, <1>5 DEF MockLogin
  <1> QED BY <1>2, <1>3, <1>4, <1>5 DEF Arrives

\* A request that is sent is typed.
LEMMA SendTyped ==
    ASSUME TypeInv, NEW i \in Slots, NEW b \in Browsers,
           Arrives(i, b)
    PROVE  TypeInv'
  <1>1. PICK at \in Stages, kind \in Kinds, s \in Session, who \in People \union {Nobody} :
           Send(i, b, at, kind, s, who) /\ Asked(b, at, kind, s, who)
    BY RoutesSend
  <1>2. PICK r \in Request :
           /\ Puts(i, r) /\ r.pending = {}
           /\ r.at = at /\ r.kind = kind /\ r.sess = s /\ r.who = who
    BY <1>1, SendPuts DEF TypeInv
  <1>3. at = "exchange" => who \in People
    BY <1>1 DEF TypeInv, DataOK, Url, Asked
  <1>4. Staged(r)
    BY <1>1, <1>2, <1>3, AccountsAssumption DEF Staged, Asked
  <1>5. DataOK' /\ mode' = mode
    BY RoutesSend DEF TypeInv, DataOK
  <1> QED BY <1>2, <1>4, <1>5, PutTyped DEF TypeInv

\* A step of a handler that goes on or answers, in the same mode.
LEMMA MoveTyped ==
    ASSUME RequestsOK, NEW i \in Slots, Busy(i), mode' = mode, NEW s \in Session,
           \/ /\ Respond(i, s)
              /\ req[i].kind = "login" => s.hs \in Handshakes
              /\ req[i].at # "answer"
           \/ /\ Goto(i, "find", s)
              /\ req[i].at = "exchange"
           \/ /\ Goto(i, "insert", s)
              /\ req[i].at = "find" /\ GrantOf(req[i].who).role = "student"
           \/ /\ Goto(i, "commit", s)
              /\ req[i].at = "find"
    PROVE  RequestsOK'
  <1>1. req[i] \in Request /\ Staged(req[i])
    BY DEF RequestsOK, Busy
  <1>2. CASE Respond(i, s) /\ req[i].at # "answer"
             /\ (req[i].kind = "login" => s.hs \in Handshakes)
    <2>1. PICK r \in Request : Puts(i, r) /\ r.at = "answer" /\ r.sess = s /\ r.pending = {}
                               /\ r.kind = req[i].kind
      BY <1>2, RespondPuts
    <2>2. Staged(r)
      BY <1>1, <1>2, <2>1 DEF Staged
    <2> QED BY <2>1, <2>2, PutTyped
  <1>3. ASSUME NEW at \in {"find", "insert", "commit"}, Goto(i, at, s),
               \/ at = "find" /\ req[i].at = "exchange"
               \/ at = "insert" /\ req[i].at = "find" /\ GrantOf(req[i].who).role = "student"
               \/ at = "commit" /\ req[i].at = "find"
        PROVE  RequestsOK'
    <2>1. PICK r \in Request :
             /\ Puts(i, r) /\ r.at = at /\ r.sess = s /\ r.kind = req[i].kind
             /\ r.who = req[i].who /\ r.pending = req[i].pending
      BY <1>3, GotoPuts DEF Stages
    <2>2. Staged(r)
      BY <1>1, <1>3, <2>1 DEF Staged
    <2> QED BY <2>1, <2>2, PutTyped
  <1> QED BY <1>2, <1>3

LEMMA FreeTyped ==
    ASSUME RequestsOK, NEW i \in Slots, req' = [req EXCEPT ![i] = Free], mode' = mode
    PROVE  RequestsOK'
  BY FreePuts, PutTyped

\* The row that a login inserts, and the session it writes.
RowOf(i) == NewUser(req[i].who, IF mode = "oidc" THEN GrantOf(req[i].who)
                                                 ELSE Demo[req[i].who])
InsertSession(i) == IF mode = "oidc" THEN Opened(RowOf(i).id) ELSE req[i].sess

LEMMA RowTyped ==
    ASSUME TypeInv, NEW i \in Slots, Busy(i), req[i].at = "insert", nextId <= MaxIds
    PROVE  /\ RowOf(i) \in User /\ RowOf(i).id = nextId /\ RowOf(i).who = req[i].who
           /\ ~RowOf(i).typed
           /\ InsertSession(i) \in Session
  <1>1. req[i] \in Request /\ Staged(req[i])
    BY DEF TypeInv, RequestsOK, Busy
  <1>2. PICK g : /\ RowOf(i) = NewUser(req[i].who, g)
                 /\ g.role \in Roles /\ g.class \in Classes \union {NoClass}
    <2>1. CASE mode = "oidc"
      BY <1>1, <2>1, GrantTyped DEF Staged, RowOf, Roles
    <2>2. CASE mode # "oidc"
      BY <1>1, <2>2, AccountsAssumption DEF Staged, RowOf, Grant
    <2> QED BY <2>1, <2>2
  <1>3. nextId \in 1..MaxIds /\ req[i].who \in People
    BY <1>1, BoundAssumption DEF TypeInv, DataOK, Staged
  <1>4. /\ RowOf(i) \in User /\ RowOf(i).id = nextId /\ RowOf(i).who = req[i].who
        /\ ~RowOf(i).typed
    BY <1>2, <1>3 DEF NewUser, User
  <1>5. InsertSession(i) \in Session
    BY <1>1, <1>3, <1>4, BoundAssumption DEF InsertSession, Session, Opened, Request
  <1> QED BY <1>4, <1>5

\* An INSERT either fails, or leaves the row and the session in the request.
LEMMA InsertPuts ==
    ASSUME TypeInv, NEW i \in Slots, Insert(i)
    PROVE  /\ Busy(i) /\ req[i].at = "insert" /\ nextId <= MaxIds /\ nextId' = nextId + 1
           /\ ~Waits(Slots \ {i}, req[i].who, FALSE)
           /\ \/ Fail(i)
              \/ /\ Account(req[i].who) = {}
                 /\ \E r \in Request :
                       /\ Puts(i, r)
                       /\ r.at = "commit" /\ r.pending = {RowOf(i)}
                       /\ r.sess = InsertSession(i)
                       /\ r.kind = req[i].kind /\ r.from = req[i].from
                       /\ r.who = req[i].who /\ r.calm = req[i].calm
                       /\ r.had = req[i].had
  <1>1. /\ Busy(i) /\ req[i].at = "insert" /\ nextId <= MaxIds /\ nextId' = nextId + 1
        /\ ~Waits(Slots \ {i}, req[i].who, FALSE)
    BY DEF Insert
  <1>2. CASE ~Fail(i)
    <2>1. /\ Account(req[i].who) = {}
          /\ req' = [req EXCEPT ![i] = [req[i] EXCEPT
                        !.at = "commit", !.pending = {RowOf(i)}, !.sess = InsertSession(i)]]
      BY <1>2 DEF Insert, RowOf, InsertSession
    <2>2. RowOf(i) \in User /\ InsertSession(i) \in Session /\ req[i] \in Request
      BY <1>1, RowTyped DEF TypeInv, RequestsOK, Busy
    <2> DEFINE w == RowOf(i)
               t == InsertSession(i)
    <2> HIDE DEF w, t
    <2>3. PICK r : /\ r = [req[i] EXCEPT !.at = "commit", !.pending = {w}, !.sess = t]
                   /\ req' = [req EXCEPT ![i] = r]
      BY <2>1 DEF w, t
    <2>4. /\ r \in Request /\ r.at = "commit" /\ r.pending = {w} /\ r.sess = t
          /\ r.kind = req[i].kind /\ r.from = req[i].from /\ r.who = req[i].who
          /\ r.calm = req[i].calm /\ r.had = req[i].had
      <3>1. r = [req[i] EXCEPT !.at = "commit", !.pending = {w}, !.sess = t]
        BY <2>3
      <3>2. w \in User /\ t \in Session
        BY <2>2 DEF w, t
      <3> QED BY <2>2, <3>1, <3>2 DEF Request, Stages
    <2>5. Puts(i, r)
      BY <2>3 DEF Puts, TypeInv, RequestsOK
    <2> QED BY <1>1, <2>1, <2>4, <2>5 DEF w, t
  <1> QED BY <1>1, <1>2

LEMMA HandleTyped ==
    ASSUME TypeInv, NEW i \in Slots, Handle(i) \/ LoseAnswer(i)
    PROVE  TypeInv'
  <1> USE DEF TypeInv
  <1>1. RequestsOK /\ DataOK
    OBVIOUS
  <1>2. mode' = mode /\ Busy(i)
    BY DEF Handle, StartHandshake, Exchange, FindAccount, Insert, Commit, Answer, LoseAnswer
  <1>3. req[i] \in Request /\ Staged(req[i]) /\ req[i].sess \in Session
    BY <1>2 DEF RequestsOK, Busy, Request
  <1>4. ASSUME Fail(i) PROVE RequestsOK'
    BY <1>2, <1>4, FreeTyped DEF Fail
  <1>5. CASE StartHandshake(i)
    <2>1. \/ \E h \in Handshakes :
                /\ starter' = [starter EXCEPT ![h] = req[i].from]
                /\ Respond(i, [req[i].sess EXCEPT !.hs = h])
          \/ Fail(i) /\ starter' = starter
      BY <1>5 DEF StartHandshake
    <2>2. DataOK'
      BY <1>3, <1>5, <2>1 DEF StartHandshake, DataOK, Request
    <2>3. \A h \in Handshakes :
             [req[i].sess EXCEPT !.hs = h] \in Session /\ [req[i].sess EXCEPT !.hs = h].hs = h
      BY <1>3, SessionsTyped
    <2>4. req[i].at = "login"
      BY <1>5 DEF StartHandshake
    <2> QED BY <1>1, <1>2, <1>4, <2>1, <2>2, <2>3, <2>4, MoveTyped
  <1>6. CASE Exchange(i)
    <2>1. DataOK' /\ req[i].at = "exchange"
      BY <1>6 DEF Exchange, DataOK
    <2>2. Goto(i, "find", req[i].sess) \/ Fail(i) \/ Respond(i, req[i].sess)
      BY <1>6 DEF Exchange
    <2> QED BY <1>1, <1>2, <1>3, <1>4, <2>1, <2>2, MoveTyped DEF Staged
  <1>7. CASE FindAccount(i)
    <2>1. DataOK' /\ req[i].at = "find"
      BY <1>7 DEF FindAccount, DataOK
    <2>2. \/ \E s \in Session : Goto(i, "commit", s)
          \/ Goto(i, "insert", req[i].sess) /\ GrantOf(req[i].who).role = "student"
          \/ Respond(i, req[i].sess)
      BY <1>7, SessionsTyped DEF FindAccount, Account
    <2> QED BY <1>1, <1>2, <1>3, <2>1, <2>2, MoveTyped DEF Staged
  <1>8. CASE Insert(i)
    <2>1. DataOK'
      BY <1>8, BoundAssumption DEF Insert, DataOK
    <2>2. CASE Fail(i)
      BY <1>4, <2>1, <2>2
    <2>3. CASE ~Fail(i)
      <3>1. PICK r \in Request :
               /\ Puts(i, r) /\ r.at = "commit" /\ r.kind = req[i].kind
        BY <1>8, <2>3, InsertPuts
      <3>2. Staged(r)
        BY <1>3, <1>8, <3>1 DEF Staged, Insert
      <3> QED BY <1>2, <2>1, <3>1, <3>2, PutTyped
    <2> QED BY <2>2, <2>3
  <1>9. CASE Commit(i)
    <2>1. req[i].at = "commit" /\ req[i].pending \subseteq User
      BY <1>3, <1>9 DEF Commit, Request
    <2>2. DataOK' /\ (Fail(i) \/ \E s \in Session : Respond(i, s))
      <3>1. \A u \in User : Opened(u.id) \in Session
        BY BoundAssumption DEF Opened, Session, User
      <3>2. DataOK'
        BY <1>9, <2>1 DEF Commit, DataOK
      <3>3. Fail(i) \/ \E s \in Session : Respond(i, s)
        BY <1>3, <1>9, <2>1, <3>1 DEF Commit
      <3> QED BY <3>2, <3>3
    <2> QED BY <1>1, <1>2, <1>3, <1>4, <2>1, <2>2, MoveTyped DEF Staged
  <1>10. CASE Answer(i) \/ LoseAnswer(i)
    <2>1. req' = [req EXCEPT ![i] = Free] /\ req[i].at = "answer"
      BY <1>10 DEF Answer, LoseAnswer
    <2>2. CookieAfter(i) \in Session
      BY <1>3 DEF CookieAfter, DataOK, Request
    <2>3. cookie' \in [Browsers -> Session] /\ redirected' \subseteq Handshakes
      BY <1>3, <1>10, <2>1, <2>2 DEF Answer, LoseAnswer, DataOK, Staged
    <2>4. DataOK'
      BY <1>10, <2>3 DEF Answer, LoseAnswer, DataOK
    <2> QED BY <1>2, <2>1, <2>4, FreeTyped
  <1> QED BY <1>5, <1>6, <1>7, <1>8, <1>9, <1>10 DEF Handle

LEMMA RestTyped ==
    ASSUME TypeInv,
           \/ \E h \in Handshakes, p \in People : SignIn(h, p)
           \/ \E c \in AdminCreations : CreateUser(c)
           \/ Restart \/ UNCHANGED vars
    PROVE  TypeInv'
  <1> USE DEF TypeInv
  <1>1. ASSUME NEW h \in Handshakes, NEW p \in People, SignIn(h, p) PROVE TypeInv'
    <2>1. DataOK'
      BY <1>1 DEF SignIn, DataOK, Url
    <2> QED BY <1>1, <2>1 DEF SignIn, RequestsOK, Staged
  <1>2. ASSUME NEW c \in AdminCreations, CreateUser(c) PROVE TypeInv'
    <2>1. nextId + 1 <= MaxIds + 1
      <3>1. Cardinality({i \in Slots : Busy(i)}) \in Nat
        BY BoundAssumption, FS_Subset, FS_CardinalityType
      <3> QED BY <1>2, <3>1, BoundAssumption DEF CreateUser, IdsLeft, DataOK
    <2>2. nextId \in 1..MaxIds
      <3>1. nextId <= MaxIds
        BY <2>1, BoundAssumption DEF DataOK
      <3> QED BY <3>1, BoundAssumption DEF DataOK
    <2>3. DataOK'
      BY <1>2, <2>2, AccountsAssumption, BoundAssumption DEF CreateUser, DataOK, User
    <2> QED BY <1>2, <2>3 DEF CreateUser, RequestsOK, Staged
  <1>3. CASE Restart
    BY <1>3 DEF Restart, DataOK, RequestsOK
  <1>4. CASE UNCHANGED vars
    BY <1>4 DEF vars, DataOK, RequestsOK, Staged
  <1> QED BY <1>1, <1>2, <1>3, <1>4

LEMMA Typed == Spec => []TypeInv
  <1>1. Init => TypeInv
    BY BoundAssumption DEF Init, TypeInv, DataOK, RequestsOK, Session, Empty
  <1>2. TypeInv /\ [Next]_vars => TypeInv'
    BY SendTyped, HandleTyped, RestTyped DEF Next, Arrives
  <1> QED BY <1>1, <1>2, PTL DEF Spec

\* Every variable keeps its type: the directory gives roles of the site to the
\* accounts it makes, the ids stay within the bound, and only a request that
\* is about to commit has inserted a row (auth.py, auth_service.py).
THEOREM TypeCorrect == Spec => []TypeOK
  BY Typed, TypeInvTypes, PTL

-----------------------------------------------------------------------------
(* Accounts.                                                               *)

\* The rows of the transaction of slot i that are not committed.
Pending(i) == IF Busy(i) THEN req[i].pending ELSE {}

\* The rows u and w break a UNIQUE constraint, or the sequence of the ids.
Clash(u, w) == u.id = w.id \/ (u.who = w.who /\ u.typed = w.typed)

\* Rows have ids that were given, no two of them clash, and only an admin
\* types capitals.
RowsOK(rows) ==
    /\ \A u \in rows : u.id < nextId /\ (u.typed => u.by = "admin")
    /\ \A u, w \in rows : Clash(u, w) => u = w

\* So with the committed rows, those in flight, and all of them together.
AccountInv ==
    /\ RowsOK(users)
    /\ \A i \in Slots : \A u \in Pending(i) : u.id < nextId /\ ~u.typed
    /\ \A i \in Slots : \A u, w \in Pending(i) : u = w
    /\ \A i \in Slots : \A u \in Pending(i), w \in users : ~Clash(u, w)
    /\ \A i, j \in Slots : i # j =>
          \A u \in Pending(i), w \in Pending(j) : ~Clash(u, w)

\* What a step leaves pending.
LEMMA PendingAfter ==
    ASSUME TypeInv, NEW i \in Slots, NEW r, Puts(i, r), r = Free \/ r \in Request
    PROVE  /\ Pending(i)' = IF r = Free THEN {} ELSE r.pending
           /\ \A j \in Slots : j # i => Pending(j)' = Pending(j)
  <1>1. Pending(i)' = IF r = Free THEN {} ELSE r.pending
    BY DEF Pending, Busy, Puts
  <1>2. ASSUME NEW j \in Slots, j # i PROVE Pending(j)' = Pending(j)
    <2>1. CASE req'[j] = req[j]
      BY <2>1 DEF Pending, Busy
    <2>2. CASE Busy(j) /\ SameRequest(req'[j], req[j])
      BY <2>2, FreeIsNone DEF Pending, Busy, SameRequest
    <2> QED BY <1>2, <2>1, <2>2 DEF Puts
  <1> QED BY <1>1, <1>2

\* A step that inserts nothing and commits nothing.
LEMMA NoRowStep ==
    ASSUME AccountInv, UNCHANGED <<users, nextId>>,
           \A i \in Slots : Pending(i)' \subseteq Pending(i)
    PROVE  AccountInv'
  BY DEF AccountInv, RowsOK

LEMMA HandleAccounts ==
    ASSUME TypeInv, AccountInv, NEW i \in Slots, Handle(i) \/ LoseAnswer(i)
    PROVE  AccountInv'
  <1>1. RequestsOK /\ Busy(i) /\ req[i] \in Request /\ req[i].sess \in Session
    BY DEF TypeInv, RequestsOK, Handle, StartHandshake, Exchange, FindAccount, Insert, Commit,
           Answer, LoseAnswer, Busy, Request
  <1>2. ASSUME UNCHANGED <<users, nextId>>,
               \/ req' = [req EXCEPT ![i] = Free]
               \/ \E s \in Session, at \in Stages : Goto(i, at, s)
               \/ \E s \in Session : Respond(i, s)
        PROVE  AccountInv'
    <2>1. PICK r : /\ Puts(i, r) /\ (r = Free \/ r \in Request)
                   /\ r # Free => r.pending \subseteq req[i].pending
      BY <1>1, <1>2, FreePuts, GotoPuts, RespondPuts
    <2>2. Pending(i) = req[i].pending
      BY <1>1 DEF Pending
    <2> QED BY <1>2, <2>1, <2>2, PendingAfter, NoRowStep
  <1>3. CASE StartHandshake(i)
    <2>1. \/ \E h \in Handshakes : Respond(i, [req[i].sess EXCEPT !.hs = h])
          \/ Fail(i)
      BY <1>3 DEF StartHandshake
    <2> QED BY <1>1, <1>2, <1>3, <2>1, SessionsTyped DEF StartHandshake, Fail, TypeInv
  <1>4. CASE Exchange(i)
    BY <1>1, <1>2, <1>4 DEF Exchange, Fail, Stages
  <1>5. CASE FindAccount(i)
    <2>1. \/ \E s \in Session, at \in Stages : Goto(i, at, s)
          \/ \E s \in Session : Respond(i, s)
      BY <1>1, <1>5, SessionsTyped DEF FindAccount, Account, Stages, TypeInv
    <2> QED BY <1>2, <1>5, <2>1 DEF FindAccount
  <1>6. CASE Answer(i) \/ LoseAnswer(i)
    BY <1>2, <1>6 DEF Answer, LoseAnswer
  <1>7. CASE Insert(i)
    <2>1. users' = users /\ nextId' = nextId + 1 /\ nextId \in Nat
      BY <1>7, BoundAssumption DEF Insert, TypeInv, DataOK
    <2>2. CASE Fail(i)
      <3>1. \A j \in Slots : Pending(j)' \subseteq Pending(j)
        BY <1>1, <2>2, FreePuts, PendingAfter DEF Fail
      <3>2. users \subseteq User /\ \A j \in Slots : Pending(j) \subseteq User
        BY DEF TypeInv, DataOK, RequestsOK, Pending, Busy, Request
      <3>3. \A u \in User : u.id \in Nat
        BY BoundAssumption DEF User
      <3> QED BY <2>1, <3>1, <3>2, <3>3 DEF AccountInv, RowsOK
    <2>3. CASE ~Fail(i)
      <3> DEFINE w == RowOf(i)
      <3>1. /\ Pending(i)' = {w} /\ \A j \in Slots : j # i => Pending(j)' = Pending(j)
            /\ w.id = nextId /\ w.who = req[i].who /\ ~w.typed
            /\ Account(req[i].who) = {} /\ ~Waits(Slots \ {i}, req[i].who, FALSE)
        <4>1. PICK r \in Request : Puts(i, r) /\ r.pending = {w}
          BY <1>7, <2>3, InsertPuts
        <4>2. r # Free
          BY FreeIsNone
        <4> QED BY <1>7, <2>3, <4>1, <4>2, InsertPuts, PendingAfter, RowTyped
      <3> HIDE DEF w
      <3>2. users \subseteq User /\ \A j \in Slots : Pending(j) \subseteq User
        BY DEF TypeInv, DataOK, RequestsOK, Pending, Busy, Request
      <3>3. \A u \in User : u.id \in Nat /\ u.typed \in BOOLEAN
        BY BoundAssumption DEF User
      <3>4. \A u \in users : ~Clash(w, u)
        BY <2>1, <3>1, <3>2, <3>3 DEF Clash, AccountInv, RowsOK, Account
      <3>5. \A j \in Slots : j # i => \A u \in Pending(j) : ~Clash(w, u) /\ ~Clash(u, w)
        BY <2>1, <3>1, <3>2, <3>3 DEF Clash, AccountInv, Waits, Pending
      <3>6. \A j \in Slots : \A u \in Pending(j) : u.id < nextId + 1 /\ ~u.typed
        BY <2>1, <3>2, <3>3 DEF AccountInv
      <3>7. RowsOK(users)'
        BY <2>1, <3>2, <3>3 DEF AccountInv, RowsOK
      <3> QED BY <2>1, <3>1, <3>4, <3>5, <3>6, <3>7 DEF AccountInv
    <2> QED BY <2>2, <2>3
  <1>8. CASE Commit(i)
    <2>1. nextId' = nextId
      BY <1>8 DEF Commit
    <2>2. CASE Fail(i) /\ users' = users
      BY <1>2, <2>1, <2>2 DEF Fail
    <2>3. CASE ~(Fail(i) /\ users' = users)
      <3>1. users' = users \union req[i].pending
            /\ \E s \in Session : Respond(i, s)
        <4>1. \A u \in User : Opened(u.id) \in Session
          BY BoundAssumption DEF Opened, Session, User
        <4> QED BY <1>1, <1>8, <2>3, <4>1 DEF Commit, Request
      <3>2. PICK r \in Request : Puts(i, r) /\ r.pending = {}
        BY <1>1, <3>1, RespondPuts
      <3>3. /\ Pending(i)' = {} /\ \A j \in Slots : j # i => Pending(j)' = Pending(j)
            /\ users' = users \union Pending(i)
        BY <1>1, <3>1, <3>2, PendingAfter, FreeIsNone DEF Pending
      <3>4. \A u, w : Clash(u, w) <=> Clash(w, u)
        BY DEF Clash
      <3>5. RowsOK(users)'
        BY <2>1, <3>3, <3>4 DEF AccountInv, RowsOK
      <3> QED BY <2>1, <3>3, <3>5 DEF AccountInv
    <2> QED BY <2>2, <2>3
  <1> QED BY <1>3, <1>4, <1>5, <1>6, <1>7, <1>8 DEF Handle

LEMMA SendAccounts ==
    ASSUME TypeInv, AccountInv, NEW i \in Slots, NEW b \in Browsers,
           Arrives(i, b)
    PROVE  AccountInv'
  <1>1. PICK at \in Stages, kind \in Kinds, s \in Session, who \in People \union {Nobody} :
           Send(i, b, at, kind, s, who)
    BY RoutesSend
  <1>2. PICK r \in Request : Puts(i, r) /\ r.pending = {}
    BY <1>1, SendPuts DEF TypeInv
  <1> QED BY <1>2, RoutesSend, PendingAfter, NoRowStep

LEMMA RestAccounts ==
    ASSUME TypeInv, AccountInv,
           \/ \E h \in Handshakes, p \in People : SignIn(h, p)
           \/ \E c \in AdminCreations : CreateUser(c)
           \/ Restart \/ UNCHANGED vars
    PROVE  AccountInv'
  <1>1. CASE (\E h \in Handshakes, p \in People : SignIn(h, p)) \/ Restart \/ UNCHANGED vars
    BY <1>1, NoRowStep DEF SignIn, Restart, vars, Pending, Busy
  <1>2. ASSUME NEW c \in AdminCreations, CreateUser(c) PROVE AccountInv'
    <2> DEFINE w == [id |-> nextId, who |-> c.who, typed |-> c.typed, role |-> c.role,
                     class |-> c.class, by |-> "admin"]
    <2>1. /\ users' = users \union {w} /\ nextId' = nextId + 1
          /\ w.id = nextId /\ w.who = c.who /\ w.typed = c.typed /\ w.by = "admin"
          /\ \A j \in Slots : Pending(j)' = Pending(j)
      BY <1>2 DEF CreateUser, Pending, Busy
    <2> HIDE DEF w
    <2>2. users \subseteq User /\ \A j \in Slots : Pending(j) \subseteq User
      BY DEF TypeInv, DataOK, RequestsOK, Pending, Busy, Request
    <2>3. /\ \A u \in User : u.id \in Nat
          /\ nextId \in Nat
      BY BoundAssumption DEF User, TypeInv, DataOK
    <2>4. \A u \in users : ~Clash(u, w) /\ ~Clash(w, u)
      BY <1>2, <2>1, <2>2, <2>3 DEF Clash, CreateUser, AccountInv, RowsOK
    <2>5. \A j \in Slots : \A u \in Pending(j) : ~Clash(u, w)
      <3> SUFFICES ASSUME NEW j \in Slots, NEW u \in Pending(j) PROVE ~Clash(u, w)
        OBVIOUS
      <3>1. Busy(j) /\ u \in req[j].pending
        BY DEF Pending
      <3>2. ~(u.who = c.who /\ u.typed = c.typed)
        BY <1>2, <3>1 DEF CreateUser, Waits
      <3> QED BY <2>1, <2>2, <2>3, <3>2 DEF Clash, AccountInv
    <2>6. RowsOK(users)'
      BY <2>1, <2>2, <2>3, <2>4 DEF AccountInv, RowsOK
    <2> QED BY <2>1, <2>2, <2>3, <2>5, <2>6 DEF AccountInv
  <1> QED BY <1>1, <1>2

LEMMA Accounts == Spec => [](TypeInv /\ AccountInv)
  <1>1. Init => AccountInv
    BY DEF Init, AccountInv, RowsOK, Pending, Busy
  <1>2. TypeInv /\ AccountInv /\ [Next]_vars => AccountInv'
    BY SendAccounts, HandleAccounts, RestAccounts DEF Next, Arrives
  <1> QED BY Typed, <1>1, <1>2, PTL DEF Spec

\* A person has one account however many first logins race, but for the one
\* that an admin typed with capitals: the rows in flight count too, for an
\* INSERT waits for them (auth_service.py, POST /users).
THEOREM OneAccountEach == Spec => []AccountsExplained
  <1>1. TypeInv /\ AccountInv => AccountsExplained
    <2> SUFFICES ASSUME TypeInv, AccountInv, NEW u \in users, NEW w \in users,
                        u.who = w.who, u # w
                 PROVE  \E x \in {u, w} : x.typed /\ x.by = "admin"
      BY DEF AccountsExplained
    <2>1. u.typed \in BOOLEAN /\ w.typed \in BOOLEAN /\ u.typed # w.typed
      BY DEF AccountInv, RowsOK, Clash, TypeInv, DataOK, User
    <2> QED BY <2>1 DEF AccountInv, RowsOK
  <1> QED BY Accounts, <1>1, PTL

=============================================================================
