---------------------------- MODULE AuthSessions ----------------------------
(***************************************************************************)
(* The web sessions of AuthService (service/auth.go), the session table of *)
(* MemoryStore (store/memory.go), and the cookie the handlers keep in a    *)
(* browser (handler/auth.go, handler/user.go).                             *)
(*                                                                         *)
(* A request finds a session by value, decides, and writes the whole       *)
(* session back.                                                           *)
(* This is the user's table; admin sessions live in a table of their own   *)
(* under the same code with another TTL.                                   *)
(***************************************************************************)
EXTENDS AuthLogin

CONSTANTS
  Token,             \* what the random source yields, each value once
  UserTTL,           \* SessionConfig.UserTTL
  ExtendOnActivity   \* what SessionConfig.ExtendOnActivity may be set to

ASSUME SessionAssumption ==
  /\ UserTTL \in Nat \ {0}
  /\ ExtendOnActivity \subseteq BOOLEAN
  /\ "none" \notin Token

\* model.Session.  LastSeenAt is expiresAt - UserTTL, and nothing reads it.
Session == [user: User, createdAt: Time, expiresAt: Time]
NoSession == [user |-> "none", createdAt |-> 0, expiresAt |-> 0]

IsExpired(session, now) == session.expiresAt <= now

\* What a response does to the cookie: set it, clear it, or leave it.
Cookie == [token: Token, expiresAt: Time]
NoCookie == [token |-> "none", expiresAt |-> 0]
Keep == [token |-> "keep", expiresAt |-> 0]

VARIABLES
  extendOnActivity,  \* SessionConfig.ExtendOnActivity, read once at startup
  sessions,          \* userSessions
  issued,            \* the tokens drawn so far
  jar,               \* the cookie of the browser that sends the requests
  presented,         \* the token a request carries
  copy,              \* the session it found
  reply              \* the cookie its response carries

store == <<sessions, issued, lastLoginAt>>
locals == <<op, presented, account, copy, since>>
vars == <<extendOnActivity, clock, store, jar, pc, locals, reply>>

-----------------------------------------------------------------------------
SaveSession(token, session) == sessions' = Put(sessions, token, session)

DeleteSessionByTokenHash(token) == sessions' = Drop(sessions, token)

\* The response is written; the browser sees it when it arrives.
Answer(r, cookie) ==
  /\ pc' = [pc EXCEPT ![r] = "respond"]
  /\ reply' = [reply EXCEPT ![r] = cookie]

-----------------------------------------------------------------------------
(***************************************************************************)
(* The browser.                                                            *)
(***************************************************************************)

\* It sends its cookie, unless that has expired, with every request.
Send(r, o) ==
  /\ pc[r] = "idle"
  /\ jar.expiresAt > clock
  /\ pc' = [pc EXCEPT ![r] = "find"]
  /\ op' = [op EXCEPT ![r] = o]
  /\ presented' = [presented EXCEPT ![r] = jar.token]
  /\ UNCHANGED <<clock, store, jar, account, copy, since, reply>>

Receive(r) ==
  /\ pc[r] = "respond"
  /\ jar' = IF reply[r] = Keep THEN jar ELSE reply[r]
  /\ pc' = [pc EXCEPT ![r] = "idle"]
  /\ op' = [op EXCEPT ![r] = "none"]
  /\ presented' = [presented EXCEPT ![r] = "none"]
  /\ account' = [account EXCEPT ![r] = "none"]
  /\ copy' = [copy EXCEPT ![r] = NoSession]
  /\ since' = [since EXCEPT ![r] = 0]
  /\ reply' = [reply EXCEPT ![r] = Keep]
  /\ UNCHANGED <<clock, store>>

-----------------------------------------------------------------------------
(***************************************************************************)
(* AuthenticateUser: AuthLogin's check of credentials, then createSession. *)
(***************************************************************************)

LoginFind(r, u) ==
  /\ issued # Token
  /\ FindAccount(r, u)
  /\ UNCHANGED <<sessions, issued, jar, presented, copy, reply>>

LoginSaveUser(r) ==
  /\ RecordLogin(r)
  /\ UNCHANGED <<sessions, issued, jar, presented, copy, reply>>

\* Mutant: a login goes on with the token that the browser has already.
CreateSessionSameToken(r) ==
  /\ pc[r] = "create"
  /\ \E now \in Reading(r), t \in IF jar.token \in issued THEN {jar.token} ELSE Token \ issued :
       /\ SaveSession(t, [user |-> account[r], createdAt |-> now, expiresAt |-> now + UserTTL])
       /\ Answer(r, [token |-> t, expiresAt |-> now + UserTTL])
       /\ issued' = issued \cup {t}
  /\ UNCHANGED <<clock, lastLoginAt, jar, locals>>

CreateSession(r) ==
  /\ pc[r] = "create"
  /\ \E now \in Reading(r), t \in Token \ issued :
       /\ SaveSession(t, [user |-> account[r], createdAt |-> now, expiresAt |-> now + UserTTL])
       /\ Answer(r, [token |-> t, expiresAt |-> now + UserTTL])
       /\ issued' = issued \cup {t}
  /\ UNCHANGED <<clock, lastLoginAt, jar, locals>>

-----------------------------------------------------------------------------
(***************************************************************************)
(* resolveSession, for a visit of any user surface and for /auth/refresh.  *)
(***************************************************************************)

\* Mutant: the error of the lookup is ignored.
FindSessionUnchecked(r) ==
  /\ pc[r] = "find" /\ op[r] # "logout"
  /\ pc' = [pc EXCEPT ![r] = "resolve"]
  /\ copy' = [copy EXCEPT ![r] =
       IF presented[r] \in DOMAIN sessions THEN sessions[presented[r]] ELSE NoSession]
  /\ since' = [since EXCEPT ![r] = clock]
  /\ UNCHANGED <<clock, store, jar, op, presented, account, reply>>

FindSession(r) ==
  /\ pc[r] = "find" /\ op[r] # "logout"
  /\ IF presented[r] \in DOMAIN sessions
     THEN /\ pc' = [pc EXCEPT ![r] = "resolve"]
          /\ copy' = [copy EXCEPT ![r] = sessions[presented[r]]]
          /\ since' = [since EXCEPT ![r] = clock]
          /\ UNCHANGED reply
     ELSE /\ Answer(r, NoCookie)
          /\ UNCHANGED <<copy, since>>
  /\ UNCHANGED <<clock, store, jar, op, presented, account>>

\* Mutant: a session is taken for expired before its time.
DropEarly(r) ==
  /\ pc[r] = "resolve"
  /\ \E now \in Reading(r) : IsExpired(copy[r], now + 1)
  /\ DeleteSessionByTokenHash(presented[r])
  /\ Answer(r, NoCookie)
  /\ UNCHANGED <<clock, issued, lastLoginAt, jar, locals>>

DropExpired(r) ==
  /\ pc[r] = "resolve"
  /\ \E now \in Reading(r) : IsExpired(copy[r], now)
  /\ DeleteSessionByTokenHash(presented[r])
  /\ Answer(r, NoCookie)
  /\ UNCHANGED <<clock, issued, lastLoginAt, jar, locals>>

\* Only /auth/refresh sends the cookie again.
AnswerAlive(r, expiresAt) ==
  Answer(r, IF op[r] = "refresh"
            THEN [token |-> presented[r], expiresAt |-> expiresAt] ELSE Keep)

\* Mutant: the time a session has left is added to its TTL.
TouchAccumulates(r) ==
  /\ pc[r] = "resolve" /\ extendOnActivity
  /\ \E now \in Reading(r) : ~IsExpired(copy[r], now)
  /\ SaveSession(presented[r], [copy[r] EXCEPT !.expiresAt = @ + UserTTL])
  /\ AnswerAlive(r, copy[r].expiresAt + UserTTL)
  /\ UNCHANGED <<clock, issued, lastLoginAt, jar, locals>>

\* Mutant: an expired session is extended too.
TouchExpired(r) ==
  /\ pc[r] = "resolve" /\ extendOnActivity
  /\ \E later \in Reading(r) :
       /\ SaveSession(presented[r], [copy[r] EXCEPT !.expiresAt = later + UserTTL])
       /\ AnswerAlive(r, later + UserTTL)
  /\ UNCHANGED <<clock, issued, lastLoginAt, jar, locals>>

\* The clock is read twice: for the check, and for the new expiry.
Touch(r) ==
  /\ pc[r] = "resolve" /\ extendOnActivity
  /\ \E now \in Reading(r) :
       /\ ~IsExpired(copy[r], now)
       /\ \E later \in now..clock :
            /\ SaveSession(presented[r], [copy[r] EXCEPT !.expiresAt = later + UserTTL])
            /\ AnswerAlive(r, later + UserTTL)
  /\ UNCHANGED <<clock, issued, lastLoginAt, jar, locals>>

\* Mutant: the cookie is renewed although the session is not.
AcceptRenewsCookie(r) ==
  /\ pc[r] = "resolve" /\ ~extendOnActivity
  /\ \E now \in Reading(r) :
       /\ ~IsExpired(copy[r], now)
       /\ \E later \in now..clock : AnswerAlive(r, later + UserTTL)
  /\ UNCHANGED <<clock, store, jar, locals>>

Accept(r) ==
  /\ pc[r] = "resolve" /\ ~extendOnActivity
  /\ \E now \in Reading(r) : ~IsExpired(copy[r], now)
  /\ AnswerAlive(r, copy[r].expiresAt)
  /\ UNCHANGED <<clock, store, jar, locals>>

-----------------------------------------------------------------------------
\* Mutant: the cookie is left in the browser.
LogoutKeepsCookie(r) ==
  /\ pc[r] = "find" /\ op[r] = "logout"
  /\ DeleteSessionByTokenHash(presented[r])
  /\ Answer(r, Keep)
  /\ UNCHANGED <<clock, issued, lastLoginAt, jar, locals>>

\* LogoutUser: one call.  The cookie of a session already gone is left alone.
Logout(r) ==
  /\ pc[r] = "find" /\ op[r] = "logout"
  /\ DeleteSessionByTokenHash(presented[r])
  /\ Answer(r, IF presented[r] \in DOMAIN sessions THEN NoCookie ELSE Keep)
  /\ UNCHANGED <<clock, issued, lastLoginAt, jar, locals>>

Tick == PassTime /\ UNCHANGED <<sessions, issued, jar, presented, copy, reply>>

-----------------------------------------------------------------------------
Init ==
  /\ extendOnActivity \in ExtendOnActivity
  /\ clock = 0
  /\ sessions = EmptyMap
  /\ issued = {}
  /\ lastLoginAt = [u \in User |-> 0]
  /\ jar = NoCookie
  /\ pc = [r \in Request |-> "idle"]
  /\ op = [r \in Request |-> "none"]
  /\ presented = [r \in Request |-> "none"]
  /\ account = [r \in Request |-> "none"]
  /\ copy = [r \in Request |-> NoSession]
  /\ since = [r \in Request |-> 0]
  /\ reply = [r \in Request |-> Keep]

Serve(r) ==
  \/ \E u \in User : LoginFind(r, u)
  \/ LoginSaveUser(r)
  \/ CreateSession(r)
  \/ FindSession(r)
  \/ DropExpired(r)
  \/ Touch(r)
  \/ Accept(r)
  \/ Logout(r)

Browse(r) ==
  \/ \E o \in {"visit", "refresh", "logout"} : Send(r, o)
  \/ Receive(r)

Next ==
  /\ Tick \/ \E r \in Request : Serve(r) \/ Browse(r)
  /\ UNCHANGED extendOnActivity

Spec == Init /\ [][Next]_vars

-----------------------------------------------------------------------------
(***************************************************************************)
(* Properties that hold whatever requests run at the same time.            *)
(***************************************************************************)

\* Every table holds what its Go type allows, only tokens that were drawn have
\* sessions, and a request that resolves a session has found one.
TypeOK ==
  /\ clock \in Time
  /\ issued \subseteq Token
  /\ DOMAIN sessions \subseteq issued
  /\ \A t \in DOMAIN sessions : sessions[t] \in Session
  /\ lastLoginAt \in [User -> Time]
  /\ jar \in Cookie \cup {NoCookie}
  /\ pc \in [Request -> {"idle", "saveUser", "create", "find", "resolve", "respond"}]
  /\ op \in [Request -> {"none", "login", "visit", "refresh", "logout"}]
  /\ presented \in [Request -> Token \cup {"none"}]
  /\ account \in [Request -> User \cup {"none"}]
  /\ copy \in [Request -> Session \cup {NoSession}]
  /\ since \in [Request -> Time]
  /\ reply \in [Request -> Cookie \cup {NoCookie, Keep}]
  /\ \A r \in Request : pc[r] = "resolve" => copy[r] \in Session

Closed == issued \ DOMAIN sessions
Resolving(t) == {r \in Request : pc[r] = "resolve" /\ presented[r] = t}

\* A logout is final once the requests that overlap it have come to their end:
\* a session that is closed, with no request holding a copy of it, never comes
\* back, however many requests still present its token (auth.go:389-401).
SettledStaysClosed ==
  [][\A t \in Closed : Resolving(t) = {} => t \in Closed' /\ Resolving(t)' = {}]_vars

\* No stale copy written back gives a session to another user: the table and
\* every copy of a session agree on who opened it and when.
SameSession(s, t) == s.user = t.user /\ s.createdAt = t.createdAt
CopiesAgree ==
  /\ \A r \in Request : pc[r] = "resolve" /\ presented[r] \in DOMAIN sessions
       => SameSession(copy[r], sessions[presented[r]])
  /\ \A q, r \in Request : pc[q] = "resolve" /\ r \in Resolving(presented[q])
       => SameSession(copy[q], copy[r])

\* However requests overlap, nobody gains time: a session is never good for
\* more than one TTL from now, and the cookie never for more than that.
NoTimeGained ==
  /\ \A t \in DOMAIN sessions : sessions[t].expiresAt <= clock + UserTTL
  /\ jar.expiresAt <= clock + UserTTL

-----------------------------------------------------------------------------
(***************************************************************************)
(* Properties of requests that run one at a time, or of a configuration    *)
(* that does not extend sessions.                                          *)
(***************************************************************************)

\* A session opened stays until it is closed for good.
Ledger == INSTANCE SessionLedger WITH
  TTL <- UserTTL, now <- clock, ledger <- sessions, closed <- Closed

ImplementsLedger == Ledger!Spec

\* A session is removed because it ran out or because a logout asked for it.
LogsOut(r, t) == pc[r] = "find" /\ op[r] = "logout" /\ presented[r] = t
RemovedForAReason ==
  [][\A t \in DOMAIN sessions \ DOMAIN sessions' :
       \/ IsExpired(sessions[t], clock)
       \/ \E r \in Request : LogsOut(r, t) /\ pc'[r] # "find"]_vars

\* A session is extended only for a request that came while it was alive: an
\* expired session is refused, not revived.
NoRevival ==
  [][\A t \in DOMAIN sessions \cap DOMAIN sessions' :
       sessions'[t].expiresAt > sessions[t].expiresAt
         => \E r \in Resolving(t) : ~IsExpired(sessions[t], since[r])]_vars

\* A browser at rest never presents a dead cookie: the session of the cookie it
\* would send is open, and at least for as long as the cookie.
CookieBacked ==
  (\A r \in Request : pc[r] = "idle") /\ jar.expiresAt > clock =>
    /\ jar.token \in DOMAIN sessions
    /\ jar.expiresAt <= sessions[jar.token].expiresAt

\* Unless sessions are extended on activity, max_age is the absolute lifetime of
\* each: a session ends one TTL after its login, and no cookie that leads to it,
\* in the browser or in an answer on its way there, is good for longer, in
\* whatever order the answers of overlapping requests arrive.
AbsoluteLifetime ==
  ~extendOnActivity =>
    \A t \in DOMAIN sessions :
      LET end == sessions[t].createdAt + UserTTL
      IN  /\ sessions[t].expiresAt <= end
          /\ jar.token = t => jar.expiresAt <= end
          /\ \A r \in Request : reply[r].token = t => reply[r].expiresAt <= end

\* A session that was closed, by a logout or by its expiry, stays closed.
ClosedStaysClosed == [][Closed \subseteq Closed']_vars

=============================================================================
