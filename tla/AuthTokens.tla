----------------------------- MODULE AuthTokens -----------------------------
(***************************************************************************)
(* The bearer tokens of AuthService (service/auth.go), the token table of  *)
(* MemoryStore (store/memory.go) and the API handlers that hand them out   *)
(* (handler/api_auth.go).                                                  *)
(*                                                                         *)
(* A refresh is four store calls: find the old token, save it back, save   *)
(* its successor, delete the old one; and a fifth that takes the successor *)
(* back when the fourth fails.  This is the user's table; admin and        *)
(* organisation tokens live in tables of their own under the same code.    *)
(***************************************************************************)
EXTENDS AuthLogin

CONSTANTS
  Token,             \* what the random source yields, each value once
  UserTTL            \* SessionConfig.UserTTL

ASSUME TokenAssumption ==
  /\ UserTTL \in Nat \ {0}
  /\ "none" \notin Token

\* model.Token.  LastUsedAt is written by each use and read by nobody.
TokenRecord == [owner: User, expiresAt: Time]
NoRecord == [owner |-> "none", expiresAt |-> 0]

IsExpired(record, now) == record.expiresAt <= now

VARIABLES
  tokens,            \* userTokens
  issued,            \* the tokens drawn so far
  login,             \* the token of the login each of them descends from
  delivered,         \* those a response has carried to a client
  presented,         \* the token a request carries
  copy,              \* the record it found
  successor          \* the token it created

store == <<tokens, issued, login>>
locals == <<presented, copy, successor>>
vars == <<clock, lastLoginAt, pc, op, account, since, store, delivered, locals>>

-----------------------------------------------------------------------------
SaveToken(token, record) == tokens' = Put(tokens, token, record)

DeleteTokenByHash(token) == tokens' = Drop(tokens, token)

Goto(r, step) ==
  /\ pc' = [pc EXCEPT ![r] = step]
  /\ since' = [since EXCEPT ![r] = clock]
  /\ UNCHANGED <<clock, lastLoginAt, op, account>>

\* The request ends, with or without having told the client anything new.
End(r) ==
  /\ pc' = [pc EXCEPT ![r] = "idle"]
  /\ op' = [op EXCEPT ![r] = "none"]
  /\ account' = [account EXCEPT ![r] = "none"]
  /\ since' = [since EXCEPT ![r] = 0]
  /\ presented' = [presented EXCEPT ![r] = "none"]
  /\ copy' = [copy EXCEPT ![r] = NoRecord]
  /\ successor' = [successor EXCEPT ![r] = "none"]
  /\ UNCHANGED <<clock, lastLoginAt>>

\* createToken
CreateToken(r, t, owner, ancestor) ==
  /\ \E now \in Reading(r) : SaveToken(t, [owner |-> owner, expiresAt |-> now + UserTTL])
  /\ issued' = issued \cup {t}
  /\ login' = Put(login, t, ancestor)
  /\ successor' = [successor EXCEPT ![r] = t]

-----------------------------------------------------------------------------
\* AuthenticateUserAPI
LoginFind(r, u) ==
  /\ issued # Token
  /\ FindAccount(r, u)
  /\ UNCHANGED <<store, delivered, locals>>

LoginSaveUser(r) ==
  /\ RecordLogin(r)
  /\ UNCHANGED <<store, delivered, locals>>

LoginCreate(r) ==
  /\ pc[r] = "create" /\ op[r] = "login"
  /\ \E t \in Token \ issued : CreateToken(r, t, account[r], t)
  /\ Goto(r, "respond")
  /\ UNCHANGED <<delivered, presented, copy>>

\* The client reads the token in the response.
Respond(r) ==
  /\ pc[r] = "respond"
  /\ delivered' = delivered \cup {successor[r]}
  /\ End(r)
  /\ UNCHANGED store

-----------------------------------------------------------------------------
\* A client calls with any token it was ever given.  Bound: no login and no
\* refresh starts once every token is drawn.
Send(r, o, t) ==
  /\ pc[r] = "idle"
  /\ o = "refresh" => issued # Token
  /\ pc' = [pc EXCEPT ![r] = "find"]
  /\ op' = [op EXCEPT ![r] = o]
  /\ presented' = [presented EXCEPT ![r] = t]
  /\ UNCHANGED <<clock, lastLoginAt, account, since, store, delivered, copy, successor>>

\* Mutant: the error of the lookup is ignored.
FindTokenUnchecked(r) ==
  /\ pc[r] = "find" /\ op[r] # "logout"
  /\ Goto(r, "resolve")
  /\ copy' = [copy EXCEPT ![r] =
       IF presented[r] \in DOMAIN tokens THEN tokens[presented[r]] ELSE NoRecord]
  /\ UNCHANGED <<presented, successor, store, delivered>>

FindToken(r) ==
  /\ pc[r] = "find" /\ op[r] # "logout"
  /\ IF presented[r] \in DOMAIN tokens
     THEN /\ Goto(r, "resolve")
          /\ copy' = [copy EXCEPT ![r] = tokens[presented[r]]]
          /\ UNCHANGED <<presented, successor>>
     ELSE End(r)
  /\ UNCHANGED <<store, delivered>>

DropExpired(r) ==
  /\ pc[r] = "resolve"
  /\ \E now \in Reading(r) : IsExpired(copy[r], now)
  /\ DeleteTokenByHash(presented[r])
  /\ End(r)
  /\ UNCHANGED <<issued, login, delivered>>

\* Mutant: a use extends the token as it would a session.
TouchExtends(r) ==
  /\ pc[r] = "resolve"
  /\ \E now \in Reading(r) :
       /\ ~IsExpired(copy[r], now)
       /\ SaveToken(presented[r], [copy[r] EXCEPT !.expiresAt = now + UserTTL])
  /\ IF op[r] = "refresh"
     THEN Goto(r, "create") /\ UNCHANGED locals
     ELSE End(r)
  /\ UNCHANGED <<issued, login, delivered>>

\* resolveToken saves the record it read, and a refresh goes on from there.
Touch(r) ==
  /\ pc[r] = "resolve"
  /\ \E now \in Reading(r) : ~IsExpired(copy[r], now)
  /\ SaveToken(presented[r], copy[r])
  /\ IF op[r] = "refresh"
     THEN Goto(r, "create") /\ UNCHANGED locals
     ELSE End(r)
  /\ UNCHANGED <<issued, login, delivered>>

-----------------------------------------------------------------------------
(***************************************************************************)
(* refreshToken, after resolveToken.  The test that the successor differs  *)
(* from the old token, with its four attempts, is that a draw is fresh.    *)
(***************************************************************************)

\* Mutant: the successor is made out to the account of the request, which a
\* refresh does not have.
CreateSuccessorOwnerless(r) ==
  /\ pc[r] = "create" /\ op[r] = "refresh"
  /\ \E t \in Token \ issued :
       CreateToken(r, t, account[r], login[presented[r]])
  /\ Goto(r, "revoke")
  /\ UNCHANGED <<delivered, presented, copy>>

CreateSuccessor(r) ==
  /\ pc[r] = "create" /\ op[r] = "refresh"
  /\ \E t \in Token \ issued :
       CreateToken(r, t, copy[r].owner, login[presented[r]])
  /\ Goto(r, "revoke")
  /\ UNCHANGED <<delivered, presented, copy>>

\* Mutant: the old token survives its refresh.
RevokeNothing(r) ==
  /\ pc[r] = "revoke"
  /\ Goto(r, IF presented[r] \in DOMAIN tokens THEN "respond" ELSE "takeBack")
  /\ UNCHANGED <<store, delivered, locals>>

RevokeOld(r) ==
  /\ pc[r] = "revoke"
  /\ IF presented[r] \in DOMAIN tokens
     THEN DeleteTokenByHash(presented[r]) /\ Goto(r, "respond")
     ELSE Goto(r, "takeBack") /\ UNCHANGED tokens
  /\ UNCHANGED <<issued, login, delivered, locals>>

\* Mutant: the successor of a refresh that failed is left in the store.
TakeNothingBack(r) ==
  /\ pc[r] = "takeBack"
  /\ End(r)
  /\ UNCHANGED <<store, delivered>>

TakeBack(r) ==
  /\ pc[r] = "takeBack"
  /\ DeleteTokenByHash(successor[r])
  /\ End(r)
  /\ UNCHANGED <<issued, login, delivered>>

\* LogoutUserToken: one call, which fails if the token is gone.
Logout(r) ==
  /\ pc[r] = "find" /\ op[r] = "logout"
  /\ DeleteTokenByHash(presented[r])
  /\ End(r)
  /\ UNCHANGED <<issued, login, delivered>>

Tick == PassTime /\ UNCHANGED <<store, delivered, locals>>

-----------------------------------------------------------------------------
Init ==
  /\ clock = 0
  /\ lastLoginAt = [u \in User |-> 0]
  /\ pc = [r \in Request |-> "idle"]
  /\ op = [r \in Request |-> "none"]
  /\ account = [r \in Request |-> "none"]
  /\ since = [r \in Request |-> 0]
  /\ tokens = EmptyMap
  /\ issued = {}
  /\ login = EmptyMap
  /\ delivered = {}
  /\ presented = [r \in Request |-> "none"]
  /\ copy = [r \in Request |-> NoRecord]
  /\ successor = [r \in Request |-> "none"]

Login(r) ==
  \/ \E u \in User : LoginFind(r, u)
  \/ LoginSaveUser(r)
  \/ LoginCreate(r)

Resolve(r) == FindToken(r) \/ DropExpired(r) \/ Touch(r)

Refresh(r) == CreateSuccessor(r) \/ RevokeOld(r) \/ TakeBack(r)

Call(r) ==
  \/ \E o \in {"use", "refresh", "logout"}, t \in delivered : Send(r, o, t)
  \/ Respond(r)

Next == Tick \/ \E r \in Request : Login(r) \/ Resolve(r) \/ Refresh(r) \/ Logout(r) \/ Call(r)

Spec == Init /\ [][Next]_vars

-----------------------------------------------------------------------------
(***************************************************************************)
(* Properties that hold whatever requests run at the same time.            *)
(***************************************************************************)

\* Every table holds what its Go type allows, only tokens that were drawn are
\* stored or known to a client, and a request that goes on has found one.
TypeOK ==
  /\ clock \in Time
  /\ lastLoginAt \in [User -> Time]
  /\ pc \in [Request ->
       {"idle", "saveUser", "create", "find", "resolve", "revoke", "takeBack", "respond"}]
  /\ op \in [Request -> {"none", "login", "use", "refresh", "logout"}]
  /\ account \in [Request -> User \cup {"none"}]
  /\ since \in [Request -> Time]
  /\ issued \subseteq Token
  /\ DOMAIN tokens \subseteq issued
  /\ \A t \in DOMAIN tokens : tokens[t] \in TokenRecord
  /\ login \in [issued -> issued]
  /\ delivered \subseteq issued
  /\ presented \in [Request -> Token \cup {"none"}]
  /\ copy \in [Request -> TokenRecord \cup {NoRecord}]
  /\ successor \in [Request -> Token \cup {"none"}]
  /\ \A r \in Request : pc[r] = "resolve" => copy[r] \in TokenRecord

\* No token is in the store that nobody was told about: a refresh that fails
\* half-way takes its successor back, and no other request can revive it.
Pending == {successor[r] : r \in {q \in Request : pc[q] \in {"revoke", "takeBack", "respond"}}}
NoOrphans == DOMAIN tokens \subseteq delivered \cup Pending

Spent == issued \ DOMAIN tokens
Resolving(t) == {r \in Request : pc[r] = "resolve" /\ presented[r] = t}

\* A token that was revoked, replaced or expired, and of which no request holds
\* a copy to save back, is never accepted again.
SettledStaysSpent ==
  [][\A t \in Spent : Resolving(t) = {} => t \in Spent' /\ Resolving(t)' = {}]_vars

\* A refresh passes on the owner, whatever ran in between: the tokens that
\* descend from one login all belong to the account that logged in.
LoginKeepsOwner ==
  \A s, t \in DOMAIN tokens : login[s] = login[t] => tokens[s].owner = tokens[t].owner

-----------------------------------------------------------------------------
(***************************************************************************)
(* Properties of requests that run one at a time.                          *)
(***************************************************************************)

\* Tokens are the registry their owners take them for.  The successor a refresh
\* creates does not count until the old token is gone.
Unfinished == {successor[r] : r \in {q \in Request : pc[q] \in {"revoke", "takeBack"}}}
Registry == INSTANCE TokenRegistry WITH
  Owner <- User, TTL <- UserTTL, now <- clock, spent <- Spent,
  live <- Restrict(tokens, DOMAIN tokens \ Unfinished)

ImplementsRegistry == Registry!Spec

\* A refresh replaces the token: of all that descend from one login, clients
\* hold one that works.
OneTokenPerLogin ==
  \A s, t \in DOMAIN tokens \cap delivered : login[s] = login[t] => s = t

\* A token that was revoked or replaced never works again.
SpentStaysSpent == [][Spent \subseteq Spent']_vars

=============================================================================
