----------------------------- MODULE AuthSession -----------------------------
(***************************************************************************)
(* Signing in: api/v1/routes/auth.py, services/auth_service.py,            *)
(* services/oidc_service.py, core/security.py and POST /users.             *)
(*                                                                         *)
(* The session is kept by the browser, in a cookie that the server signs.  *)
(* A request works on the session its cookie held when it was sent, and    *)
(* its response puts that session back, changed or not, whatever the       *)
(* browser received meanwhile.  Only the accounts are in the database.     *)
(***************************************************************************)
EXTENDS Naturals, Sequences, FiniteSets

CONSTANTS
    Browsers,       \* browsers
    People,         \* who signs in, each with one email address
    Uses,           \* <<b, p>>: person p signs in from browser b
    Slots,          \* requests in flight
    Handshakes,     \* the state, nonce and PKCE verifier of a GET /login
    NoHandshake,    \* a session without them
    NoBrowser,      \* the browser of a free slot, or of an unused handshake
    Nobody,         \* a request that signs nobody in
    Modes,          \* the values of AUTH_MODE of the run
    Production,     \* ENVIRONMENT = production
    Groups,         \* groups of the directory
    GroupSettings,  \* the group settings that are set, [group, role, class], in order
    Token,          \* Token[p]: the groups claim of p, a sequence
    Classes,        \* E1 to E5
    NoClass,        \* no class
    AutoCreate,     \* oidc_auto_create_students
    Demo,           \* Demo[p], of some people: the role and class of p in DEMO_JWT_USERS
    AdminCreations, \* the accounts that an admin may create
    MaxIds          \* bound: accounts inserted, rolled back ones included

Roles  == {"admin", "validator", "teacher", "student"}
Stages == {"login", "exchange", "find", "insert", "commit", "answer"}
Kinds  == {"login", "logout", "other"}

ASSUME ModesAssumption == Modes \subseteq {"oidc", "mock"} /\ AutoCreate \in BOOLEAN
ASSUME UsesAssumption  == Uses \subseteq Browsers \X People
ASSUME NothingAssumption ==
    NoHandshake \notin Handshakes /\ NoBrowser \notin Browsers
ASSUME BoundAssumption == MaxIds \in Nat /\ IsFiniteSet(Slots)

\* What a setting, a demonstration account or an admin gives to an account.
Grant == [role : Roles, class : Classes \union {NoClass}]

ASSUME DirectoryAssumption ==
    /\ GroupSettings \in Seq([group : Groups, role : Roles, class : Classes \union {NoClass}])
    /\ Token \in [People -> Seq(Groups)]
ASSUME AccountsAssumption ==
    /\ \A p \in DOMAIN Demo : p \in People /\ Demo[p] \in Grant
    /\ AdminCreations \subseteq [who : People, typed : BOOLEAN, role : Roles,
                                 class : Classes \union {NoClass}]

VARIABLES
    mode,       \* AUTH_MODE
    cookie,     \* cookie[b]: the session that browser b holds
    req,        \* req[i]: the request in flight in slot i
    starter,    \* starter[h]: the browser that handshake h was made for
    redirected, \* handshakes whose redirection reached the browser
    urls,       \* callback URLs that Entra ID answered with
    codes,      \* those whose code has not been exchanged
    users,      \* committed rows of users
    nextId      \* the sequence of their ids

vars == <<mode, cookie, req, starter, redirected, urls, codes, users, nextId>>

\* The session: the handshake under way and the user id, 0 when nobody.
Session == [hs : Handshakes \union {NoHandshake}, user : 0..MaxIds]
Empty   == [hs |-> NoHandshake, user |-> 0]

\* request.session.clear(), then the user is written.
Opened(id) == [hs |-> NoHandshake, user |-> id]

\* A callback URL: its state is that of handshake hs, its code is for who.
Url == [hs : Handshakes, who : People]

\* A row.  typed: the email was typed with capitals; by: who inserted it.
User == [id : 1..MaxIds, who : People, typed : BOOLEAN,
         role : Roles, class : Classes \union {NoClass}, by : {"admin", "login"}]

\* A request: the session as it stands, whether its cookie held one, whom it
\* signs in, the row it inserted and did not commit, and, of a logout, whether
\* no other request of its browser is in flight before it is answered.
Request == [at : Stages, kind : Kinds, from : Browsers, sess : Session, had : BOOLEAN,
            who : People \union {Nobody},
            pending : SUBSET User, calm : BOOLEAN]

Free == [at |-> "idle"]

Busy(i) == req[i] # Free

TypeOK ==
    /\ mode \in Modes
    /\ cookie \in [Browsers -> Session]
    /\ \A i \in Slots : req[i] = Free \/ req[i] \in Request
    /\ \A i \in Slots : Busy(i) /\ req[i].pending # {} => req[i].at = "commit"
    /\ DOMAIN req = Slots
    /\ starter \in [Handshakes -> Browsers \union {NoBrowser}]
    /\ redirected \subseteq Handshakes
    /\ urls \subseteq Url /\ codes \subseteq urls
    /\ users \subseteq User
    /\ nextId \in 1..MaxIds + 1

\* In production the server starts in OIDC mode only (validate_runtime).
ValidRuntime(m) == Production => m = "oidc"

Init ==
    /\ mode \in {m \in Modes : ValidRuntime(m)}
    /\ cookie = [b \in Browsers |-> Empty]
    /\ req = [i \in Slots |-> Free]
    /\ starter = [h \in Handshakes |-> NoBrowser]
    /\ redirected = {} /\ urls = {} /\ codes = {}
    /\ users = {}
    /\ nextId = 1

-----------------------------------------------------------------------------
(* The directory.                                                          *)

\* entra_group_mapping(): a group given to two settings has the later one.
MappedBy(g) == {k \in DOMAIN GroupSettings : GroupSettings[k].group = g}
MappingOf(g) == GroupSettings[CHOOSE k \in MappedBy(g) : \A l \in MappedBy(g) : l <= k]

\* resolve_role_from_groups(): the first group of the token that is mapped.
Mapped(p) == {n \in DOMAIN Token[p] : MappedBy(Token[p][n]) # {}}
GrantOf(p) ==
    IF Mapped(p) = {}
    THEN [role |-> "none", class |-> NoClass]
    ELSE LET n == CHOOSE n \in Mapped(p) : \A o \in Mapped(p) : n <= o
             s == MappingOf(Token[p][n])
         IN  [role |-> s.role, class |-> s.class]

\* What the token says of p and the row u of the account agree.
Agrees(u, g) ==
    /\ g.role # "none" => u.role = g.role
    /\ g.class # NoClass /\ u.class # NoClass => u.class = g.class

-----------------------------------------------------------------------------
(* Requests and responses.                                                 *)

\* The requests of browser b in flight.
Flying(b) == {i \in Slots : Busy(i) /\ req[i].from = b}

\* Browser b sends a request with its cookie.
Send(i, b, at, kind, sess, who) ==
    /\ ~Busy(i)
    /\ req' = [j \in Slots |->
          IF j = i
          THEN [at |-> at, kind |-> kind, from |-> b, sess |-> sess,
                had |-> cookie[b] # Empty, who |-> who,
                pending |-> {}, calm |-> kind = "logout" /\ Flying(b) = {}]
          ELSE IF j \in Flying(b) THEN [req[j] EXCEPT !.calm = FALSE] ELSE req[j]]

\* Bound: no sign-in starts unless ids are left for it and for those in flight.
IdsLeft == nextId + Cardinality({i \in Slots : Busy(i)}) <= MaxIds

\* The request goes on to stage at, with session sess.
Goto(i, at, sess) == req' = [req EXCEPT ![i].at = at, ![i].sess = sess]

\* Mutant of Respond: the transaction is left open.
RespondOpen(i, sess) ==
    req' = [req EXCEPT ![i] = [@ EXCEPT !.at = "answer", !.sess = sess, !.who = Nobody]]

\* The request is answered, with session sess.
Respond(i, sess) ==
    req' = [req EXCEPT ![i] = [@ EXCEPT
               !.at = "answer", !.sess = sess, !.who = Nobody, !.pending = {}]]

\* An exception that is not an ApiError is answered above the middleware of
\* the sessions: no cookie is set, and the transaction is rolled back.
Fail(i) == req' = [req EXCEPT ![i] = Free]

\* Mutant of CookieAfter: an empty session sets no cookie, cleared or not.
CookieAfterNonEmpty(i) ==
    LET r == req[i] IN IF r.sess # Empty THEN r.sess ELSE cookie[r.from]

\* What the middleware does of the response of request i: a session that is
\* not empty is set again, one that was cleared is deleted, and a request that
\* came with no session and leaves none sets no cookie.
CookieAfter(i) ==
    LET r == req[i] IN
    IF r.sess # Empty \/ r.had THEN r.sess ELSE cookie[r.from]

\* The response reaches the browser.
Answer(i) ==
    /\ Busy(i) /\ req[i].at = "answer"
    /\ cookie' = [cookie EXCEPT ![req[i].from] = CookieAfter(i)]
    /\ redirected' = IF req[i].kind = "login"
                     THEN redirected \union {req[i].sess.hs} ELSE redirected
    /\ req' = [req EXCEPT ![i] = Free]
    /\ UNCHANGED <<mode, starter, urls, codes, users, nextId>>

\* The response is lost: the tab is closed, the connection is cut.
LoseAnswer(i) ==
    /\ Busy(i) /\ req[i].at = "answer"
    /\ req' = [req EXCEPT ![i] = Free]
    /\ UNCHANGED <<mode, cookie, starter, redirected, urls, codes, users, nextId>>

-----------------------------------------------------------------------------
(* GET /login and Entra ID.                                                *)

Login(i, b) ==
    /\ mode = "oidc"
    /\ Send(i, b, "login", "login", cookie[b], Nobody)
    /\ UNCHANGED <<mode, cookie, starter, redirected, urls, codes, users, nextId>>

\* Mutant of StartHandshake: state, nonce and verifier may be those of another
\* login.
StartHandshakeAgain(i) ==
    /\ Busy(i) /\ req[i].at = "login"
    /\ \E h \in Handshakes :
          /\ starter' = [starter EXCEPT ![h] = IF @ = NoBrowser THEN req[i].from ELSE @]
          /\ Respond(i, [req[i].sess EXCEPT !.hs = h])
    /\ UNCHANGED <<mode, cookie, redirected, urls, codes, users, nextId>>

\* state, nonce and verifier replace those of a handshake under way; the rest
\* of the session stays.  The discovery request may fail.
StartHandshake(i) ==
    /\ Busy(i) /\ req[i].at = "login"
    /\ \/ LET h == CHOOSE h \in Handshakes : starter[h] = NoBrowser
          IN  /\ \E g \in Handshakes : starter[g] = NoBrowser
              /\ starter' = [starter EXCEPT ![h] = req[i].from]
              /\ Respond(i, [req[i].sess EXCEPT !.hs = h])
       \/ Fail(i) /\ UNCHANGED starter
    /\ UNCHANGED <<mode, cookie, redirected, urls, codes, users, nextId>>

\* Person p signs in at Entra ID in the browser that was redirected there, and
\* Entra ID sends it to a callback URL with a new code.
SignIn(h, p) ==
    /\ h \in redirected
    /\ <<starter[h], p>> \in Uses
    /\ [hs |-> h, who |-> p] \notin urls
    /\ urls' = urls \union {[hs |-> h, who |-> p]}
    /\ codes' = codes \union {[hs |-> h, who |-> p]}
    /\ UNCHANGED <<mode, cookie, req, starter, redirected, users, nextId>>

-----------------------------------------------------------------------------
(* GET /callback.                                                          *)

\* A callback URL is opened: by the redirection, again by a reload, or in
\* another browser.  When the state is not that of the session, the session is
\* cleared.
Callback(i, b, u) ==
    /\ mode = "oidc"
    /\ u \in urls
    /\ IdsLeft
    /\ IF cookie[b].hs = u.hs
       THEN Send(i, b, "exchange", "other", cookie[b], u.who)
       ELSE Send(i, b, "answer", "other", Empty, Nobody)
    /\ UNCHANGED <<mode, cookie, starter, redirected, urls, codes, users, nextId>>

\* exchange_code() and verify_id_token(): Entra ID takes a code once, with the
\* verifier of its handshake.  A refusal leaves the session as it was; an
\* error of the transport may come before or after the code is taken.
Exchange(i) ==
    /\ Busy(i) /\ req[i].at = "exchange"
    /\ LET code == [hs |-> req[i].sess.hs, who |-> req[i].who] IN
       IF code \in codes
       THEN /\ codes' = codes \ {code}
            /\ Goto(i, "find", req[i].sess) \/ Fail(i)
       ELSE Respond(i, req[i].sess) /\ UNCHANGED codes
    /\ UNCHANGED <<mode, cookie, starter, redirected, urls, users, nextId>>

\* get_by_email(): both logins look for the email in small letters.
Account(p) == {u \in users : u.who = p /\ ~u.typed}

\* Mutant of FindAccount: the role and the class of the row are not compared.
FindAccountUnchecked(i) ==
    /\ Busy(i) /\ req[i].at = "find"
    /\ LET p == req[i].who IN
       \/ \E u \in Account(p) : Goto(i, "commit", Opened(u.id))
       \/ /\ Account(p) = {}
          /\ IF GrantOf(p).role = "student" THEN Goto(i, "insert", req[i].sess)
                                           ELSE Respond(i, req[i].sess)
    /\ UNCHANGED <<mode, cookie, starter, redirected, urls, codes, users, nextId>>

\* find_or_create_oidc_user(): the account found must agree with the token; a
\* student who has none gets one; everyone else is refused.
FindAccount(i) ==
    /\ Busy(i) /\ req[i].at = "find"
    /\ LET p == req[i].who
           g == GrantOf(p)
           creates == g.role = "student" /\ g.class # NoClass /\ AutoCreate
       IN \/ \E u \in Account(p) :
                IF Agrees(u, g) THEN Goto(i, "commit", Opened(u.id))
                                ELSE Respond(i, req[i].sess)
          \/ /\ Account(p) = {}
             /\ IF creates THEN Goto(i, "insert", req[i].sess)
                           ELSE Respond(i, req[i].sess)
    /\ UNCHANGED <<mode, cookie, starter, redirected, urls, codes, users, nextId>>

\* The row that the login inserts.
NewUser(p, g) ==
    [id |-> nextId, who |-> p, typed |-> FALSE, role |-> g.role, class |-> g.class,
     by |-> "login"]

\* A row for the email of p, as it is spelled, that another transaction has
\* inserted and not committed: an INSERT of the same email waits for it.
Waits(others, p, typed) ==
    \E j \in others : Busy(j) /\
        \E u \in req[j].pending : u.who = p /\ u.typed = typed

\* Mutant of Insert: the email is not UNIQUE.
InsertTwice(i) ==
    /\ Busy(i) /\ req[i].at = "insert"
    /\ LET p == req[i].who
           u == NewUser(p, IF mode = "oidc" THEN GrantOf(p) ELSE Demo[p])
       IN  /\ nextId <= MaxIds
           /\ nextId' = nextId + 1
           /\ req' = [req EXCEPT ![i] = [@ EXCEPT
                  !.at = "commit", !.pending = {u},
                  !.sess = IF mode = "oidc" THEN Opened(u.id) ELSE req[i].sess]]
    /\ UNCHANGED <<mode, cookie, starter, redirected, urls, codes, users>>

\* Mutant of Insert: it also waits for a row that is committed.
InsertWaits(i) ==
    /\ Busy(i) /\ req[i].at = "insert"
    /\ LET p == req[i].who
           u == NewUser(p, IF mode = "oidc" THEN GrantOf(p) ELSE Demo[p])
       IN  /\ ~Waits(Slots \ {i}, p, FALSE)
           /\ Account(p) = {}
           /\ nextId <= MaxIds
           /\ nextId' = nextId + 1
           /\ req' = [req EXCEPT ![i] = [@ EXCEPT
                  !.at = "commit", !.pending = {u},
                  !.sess = IF mode = "oidc" THEN Opened(u.id) ELSE req[i].sess]]
    /\ UNCHANGED <<mode, cookie, starter, redirected, urls, codes, users>>

\* flush().  The email is UNIQUE: when another transaction has inserted it,
\* IntegrityError.  The callback writes the session before it commits.
Insert(i) ==
    /\ Busy(i) /\ req[i].at = "insert"
    /\ LET p == req[i].who
           u == NewUser(p, IF mode = "oidc" THEN GrantOf(p) ELSE Demo[p])
       IN  /\ ~Waits(Slots \ {i}, p, FALSE)
           /\ nextId <= MaxIds
           /\ nextId' = nextId + 1
           /\ IF Account(p) # {}
              THEN Fail(i)
              ELSE req' = [req EXCEPT ![i] = [@ EXCEPT
                      !.at = "commit", !.pending = {u},
                      !.sess = IF mode = "oidc" THEN Opened(u.id) ELSE req[i].sess]]
    /\ UNCHANGED <<mode, cookie, starter, redirected, urls, codes, users>>

\* Mutant of Commit: a commit that fails is answered with the session that was
\* written.
CommitAnswersAnyway(i) ==
    /\ Busy(i) /\ req[i].at = "commit"
    /\ users' \in {users, users \union req[i].pending}
    /\ Respond(i, req[i].sess)
    /\ UNCHANGED <<mode, cookie, starter, redirected, urls, codes, nextId>>

\* commit().  The JWT login writes the session once it has committed.
Commit(i) ==
    /\ Busy(i) /\ req[i].at = "commit"
    /\ \/ /\ users' = users \union req[i].pending
          /\ IF mode = "oidc"
             THEN Respond(i, req[i].sess)
             ELSE \E u \in req[i].pending : Respond(i, Opened(u.id))
       \/ Fail(i) /\ UNCHANGED users
    /\ UNCHANGED <<mode, cookie, starter, redirected, urls, codes, nextId>>

-----------------------------------------------------------------------------
(* The other routes.                                                       *)

\* POST /logout.
Logout(i, b) ==
    /\ Send(i, b, "answer", "logout", Empty, Nobody)
    /\ UNCHANGED <<mode, cookie, starter, redirected, urls, codes, users, nextId>>

\* get_current_user(), for every other route: the session of a user that is
\* not there is cleared.
Read(i, b) ==
    /\ Send(i, b, "answer", "other",
            IF cookie[b].user = 0 \/ \E u \in users : u.id = cookie[b].user
            THEN cookie[b] ELSE Empty,
            Nobody)
    /\ UNCHANGED <<mode, cookie, starter, redirected, urls, codes, users, nextId>>

\* POST /login of a demonstration account, found, or else inserted.
JwtLogin(i, b, p) ==
    /\ mode = "mock"
    /\ p \in DOMAIN Demo
    /\ IdsLeft
    /\ \/ \E u \in Account(p) : Send(i, b, "answer", "other", Opened(u.id), Nobody)
       \/ Account(p) = {} /\ Send(i, b, "insert", "other", cookie[b], p)
    /\ UNCHANGED <<mode, cookie, starter, redirected, urls, codes, users, nextId>>

\* POST /mock-login/{user_id}; an unknown id is a 404 that changes nothing.
MockLogin(i, b, u) ==
    /\ mode = "mock"
    /\ u \in users
    /\ Send(i, b, "answer", "other", Opened(u.id), Nobody)
    /\ UNCHANGED <<mode, cookie, starter, redirected, urls, codes, users, nextId>>

\* POST /users by an admin: the email is stored as it was typed.
CreateUser(c) ==
    /\ c \in AdminCreations
    /\ \A u \in users : u.who = c.who => u.typed # c.typed
    /\ ~Waits(Slots, c.who, c.typed)
    /\ IdsLeft
    /\ nextId' = nextId + 1
    /\ users' = users \union
         {[id |-> nextId, who |-> c.who, typed |-> c.typed, role |-> c.role,
           class |-> c.class, by |-> "admin"]}
    /\ UNCHANGED <<mode, cookie, req, starter, redirected, urls, codes>>

\* The server stops: what is in flight is lost, the cookies are not.
Restart ==
    /\ \E i \in Slots : Busy(i)
    /\ req' = [i \in Slots |-> Free]
    /\ UNCHANGED <<mode, cookie, starter, redirected, urls, codes, users, nextId>>

-----------------------------------------------------------------------------

Handle(i) ==
    \/ StartHandshake(i) \/ Exchange(i) \/ FindAccount(i) \/ Insert(i)
    \/ Commit(i) \/ Answer(i)

Next ==
    \/ \E i \in Slots : Handle(i) \/ LoseAnswer(i)
    \/ \E i \in Slots, b \in Browsers :
          \/ Login(i, b) \/ Logout(i, b) \/ Read(i, b)
          \/ \E u \in urls : Callback(i, b, u)
          \/ \E p \in People : JwtLogin(i, b, p)
          \/ \E u \in users : MockLogin(i, b, u)
    \/ \E h \in Handshakes, p \in People : SignIn(h, p)
    \/ \E c \in AdminCreations : CreateUser(c)
    \/ Restart

Spec == Init /\ [][Next]_vars

\* A request that is being handled goes on: the event loop is fair, and the
\* directory and the database answer, if only with an error.
FairSpec == Spec /\ \A i \in Slots : WF_vars(Handle(i))

-----------------------------------------------------------------------------
(* Properties.                                                             *)

\* The accounts that browser b acts for.
ActsFor(b) == {u \in users : u.id = cookie[b].user}

\* A browser acts only for someone who signed in at Entra ID from that very
\* browser: callback URLs that are reloaded, opened late, in another tab or in
\* another browser lead to nobody else's session.
SessionIsOwn ==
    mode = "oidc" =>
        \A b \in Browsers : \A u \in ActsFor(b) :
            \E h \in Handshakes : starter[h] = b /\ [hs |-> h, who |-> u.who] \in urls

\* The session is written before the account is committed, and yet no browser
\* ever holds the id of a row that is not there: not when two first logins
\* collide, not when the commit fails or the server stops.
SessionHasRow ==
    \A b \in Browsers : cookie[b].user # 0 => ActsFor(b) # {}

\* "si un role Entra ne correspond pas au role applicatif en base, l'acces est
\* refuse" (server/README.md): whatever an admin creates while a login is
\* under way, the account of a session agrees with the token's groups, unless
\* these name no role or no class.
RoleAgrees ==
    mode = "oidc" =>
        \A b \in Browsers : \A u \in ActsFor(b) : Agrees(u, GrantOf(u.who))

\* A person has one account however many first logins race, but for the one
\* that an admin created with capitals in its email, which no login finds.
AccountsExplained ==
    \A u, w \in users : u.who = w.who /\ u # w =>
        \E x \in {u, w} : x.typed /\ x.by = "admin"

\* A logout that no other request of its browser overlaps leaves the browser
\* with no session.  (One that overlaps may be undone: the late response of a
\* request sent before it puts the old session back.)
LogoutForgets ==
    [][\A i \in Slots :
          Answer(i) /\ req[i].kind = "logout" /\ req[i].calm
              => cookie'[req[i].from] = Empty]_vars

\* Every request is answered: a login that waits for the row another login has
\* inserted goes on when that one commits, fails or is rolled back.
RequestsEnd == \A i \in Slots : Busy(i) ~> ~Busy(i)
=============================================================================
