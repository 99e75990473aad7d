------------------------- MODULE AuthSessionsProofs -------------------------
(***************************************************************************)
(* Proofs about AuthSessions, for any set of requests, accounts and        *)
(* tokens, any TTL, and with or without extension on activity.             *)
(*                                                                         *)
(* What a request may write back is decided by what it read, so the        *)
(* invariant speaks of the requests as much as of the table: a token that  *)
(* is presented, kept in the jar or on its way there was drawn before, so  *)
(* a freshly drawn one is in nobody's hands.                               *)
(***************************************************************************)
EXTENDS AuthSessions, TLAPS

JarInv == jar.expiresAt > 0 => jar.token \in issued

RequestInv ==
  \A r \in Request :
    /\ since[r] <= clock
    /\ pc[r] \in {"saveUser", "create"} => account[r] \in User
    /\ pc[r] \in {"find", "resolve"} => presented[r] \in issued
    /\ pc[r] = "resolve" => copy[r].expiresAt <= clock + UserTTL
    /\ reply[r].expiresAt > 0 => reply[r].token \in issued
    /\ reply[r].expiresAt <= clock + UserTTL

IInv == TypeOK /\ CopiesAgree /\ NoTimeGained /\ JarInv /\ RequestInv

-----------------------------------------------------------------------------
LEMMA InitIInv == Init => IInv
<1> SUFFICES ASSUME Init PROVE IInv
  OBVIOUS
<1>1. DOMAIN sessions = {}
  BY DEF Init, EmptyMap
<1>2. TypeOK
  BY <1>1 DEF Init, TypeOK, Time
<1>3. CopiesAgree
  BY DEF Init, CopiesAgree, Resolving
<1>4. NoTimeGained /\ JarInv
  BY <1>1, SessionAssumption DEF Init, NoTimeGained, JarInv, NoCookie
<1>5. RequestInv
  BY SessionAssumption DEF Init, RequestInv, Keep
<1>6. QED
  BY <1>2, <1>3, <1>4, <1>5 DEF IInv

LEMMA SendStep ==
  ASSUME IInv, NEW r \in Request, NEW o \in {"visit", "refresh", "logout"}, Send(r, o)
  PROVE  IInv'
<1>1. jar \in Cookie /\ jar.token \in issued
  BY DEF IInv, TypeOK, JarInv, Send, NoCookie, Cookie, Time
<1>2. TypeOK'
  BY <1>1 DEF IInv, TypeOK, Send, store, Cookie
<1>3. CopiesAgree'
  BY DEF IInv, TypeOK, CopiesAgree, Resolving, SameSession, Send, store
<1>4. NoTimeGained' /\ JarInv'
  BY DEF IInv, NoTimeGained, JarInv, Send, store
<1>5. RequestInv'
  BY <1>1 DEF IInv, TypeOK, RequestInv, Send, store
<1>6. QED
  BY <1>2, <1>3, <1>4, <1>5 DEF IInv

LEMMA ReceiveStep ==
  ASSUME IInv, NEW r \in Request, Receive(r)
  PROVE  IInv'
<1>1. TypeOK'
  BY DEF IInv, TypeOK, Receive, store, Time
<1>2. CopiesAgree'
  BY DEF IInv, TypeOK, CopiesAgree, Resolving, SameSession, Receive, store
<1>3. NoTimeGained' /\ JarInv'
  BY DEF IInv, TypeOK, NoTimeGained, JarInv, RequestInv, Receive, store
<1>4. RequestInv'
  BY SessionAssumption DEF IInv, TypeOK, RequestInv, Receive, store, Keep, Time
<1>5. QED
  BY <1>1, <1>2, <1>3, <1>4 DEF IInv

LEMMA LoginFindStep ==
  ASSUME IInv, NEW r \in Request, NEW u \in User, LoginFind(r, u)
  PROVE  IInv'
<1>1. TypeOK'
  BY DEF IInv, TypeOK, LoginFind, FindAccount
<1>2. CopiesAgree'
  BY DEF IInv, TypeOK, CopiesAgree, Resolving, SameSession, LoginFind, FindAccount
<1>3. NoTimeGained' /\ JarInv'
  BY DEF IInv, NoTimeGained, JarInv, LoginFind, FindAccount
<1>4. RequestInv'
  BY DEF IInv, TypeOK, RequestInv, LoginFind, FindAccount, Time
<1>5. QED
  BY <1>1, <1>2, <1>3, <1>4 DEF IInv

LEMMA LoginSaveUserStep ==
  ASSUME IInv, NEW r \in Request, LoginSaveUser(r)
  PROVE  IInv'
<1>1. TypeOK'
  <2>1. \A now \in Reading(r) : now \in Time
    BY DEF IInv, TypeOK, Reading, Time
  <2>2. lastLoginAt' \in [User -> Time]
    BY <2>1 DEF IInv, TypeOK, LoginSaveUser, RecordLogin
  <2>3. QED
    BY <2>2 DEF IInv, TypeOK, LoginSaveUser, RecordLogin
<1>2. CopiesAgree'
  BY DEF IInv, TypeOK, CopiesAgree, Resolving, SameSession, LoginSaveUser, RecordLogin
<1>3. NoTimeGained' /\ JarInv'
  BY DEF IInv, NoTimeGained, JarInv, LoginSaveUser, RecordLogin
<1>4. RequestInv'
  BY DEF IInv, TypeOK, RequestInv, LoginSaveUser, RecordLogin, Time
<1>5. QED
  BY <1>1, <1>2, <1>3, <1>4 DEF IInv

LEMMA CreateSessionStep ==
  ASSUME IInv, NEW r \in Request, CreateSession(r)
  PROVE  IInv'
<1>1. PICK now \in Reading(r), t \in Token \ issued :
        /\ SaveSession(t, [user |-> account[r], createdAt |-> now, expiresAt |-> now + UserTTL])
        /\ Answer(r, [token |-> t, expiresAt |-> now + UserTTL])
        /\ issued' = issued \cup {t}
  BY DEF CreateSession
<1> DEFINE session == [user |-> account[r], createdAt |-> now, expiresAt |-> now + UserTTL]
<1>2. now \in Time /\ now <= clock /\ now + UserTTL \in Time /\ account[r] \in User
  BY SessionAssumption DEF IInv, TypeOK, RequestInv, Reading, CreateSession, Time
<1>3. session \in Session /\ session.expiresAt <= clock + UserTTL
  BY <1>2, SessionAssumption DEF IInv, TypeOK, Session, Time
<1>4. /\ sessions' = [k \in DOMAIN sessions \cup {t} |-> IF k = t THEN session ELSE sessions[k]]
      /\ pc' = [pc EXCEPT ![r] = "respond"]
      /\ reply' = [reply EXCEPT ![r] = [token |-> t, expiresAt |-> now + UserTTL]]
      /\ UNCHANGED <<clock, lastLoginAt, jar, op, presented, account, copy, since>>
  BY <1>1 DEF CreateSession, SaveSession, Answer, Put, locals
<1> HIDE DEF session
<1>5. TypeOK'
  BY <1>1, <1>2, <1>3, <1>4 DEF IInv, TypeOK, Cookie
<1>6. CopiesAgree'
  BY <1>1, <1>4 DEF IInv, TypeOK, CopiesAgree, RequestInv, Resolving, SameSession
<1>7. NoTimeGained' /\ JarInv'
  BY <1>1, <1>3, <1>4 DEF IInv, NoTimeGained, JarInv
<1>8. RequestInv'
  BY <1>1, <1>2, <1>4, SessionAssumption DEF IInv, TypeOK, RequestInv, Time
<1>9. QED
  BY <1>5, <1>6, <1>7, <1>8 DEF IInv

LEMMA FindSessionStep ==
  ASSUME IInv, NEW r \in Request, FindSession(r)
  PROVE  IInv'
<1>1. CASE presented[r] \in DOMAIN sessions
  <2>1. /\ pc' = [pc EXCEPT ![r] = "resolve"]
        /\ copy' = [copy EXCEPT ![r] = sessions[presented[r]]]
        /\ since' = [since EXCEPT ![r] = clock]
        /\ UNCHANGED <<reply, clock, sessions, issued, lastLoginAt, jar, op, presented, account>>
    BY <1>1 DEF FindSession, store
  <2>2. TypeOK'
    BY <1>1, <2>1 DEF IInv, TypeOK
  <2>3. CopiesAgree'
    BY <1>1, <2>1 DEF IInv, TypeOK, CopiesAgree, Resolving, SameSession
  <2>4. NoTimeGained' /\ JarInv'
    BY <2>1 DEF IInv, NoTimeGained, JarInv
  <2>5. RequestInv'
    BY <1>1, <2>1 DEF IInv, TypeOK, NoTimeGained, RequestInv, Time
  <2>6. QED
    BY <2>2, <2>3, <2>4, <2>5 DEF IInv
<1>2. CASE presented[r] \notin DOMAIN sessions
  <2>1. /\ pc' = [pc EXCEPT ![r] = "respond"]
        /\ reply' = [reply EXCEPT ![r] = NoCookie]
        /\ UNCHANGED <<copy, since, clock, sessions, issued, lastLoginAt, jar, op, presented, account>>
    BY <1>2 DEF FindSession, Answer, store
  <2>2. TypeOK'
    BY <2>1 DEF IInv, TypeOK
  <2>3. CopiesAgree'
    BY <2>1 DEF IInv, TypeOK, CopiesAgree, Resolving, SameSession
  <2>4. NoTimeGained' /\ JarInv'
    BY <2>1 DEF IInv, NoTimeGained, JarInv
  <2>5. RequestInv'
    BY <2>1, SessionAssumption DEF IInv, TypeOK, RequestInv, NoCookie, Time
  <2>6. QED
    BY <2>2, <2>3, <2>4, <2>5 DEF IInv
<1>3. QED
  BY <1>1, <1>2

\* A session deleted and a cookie cleared or kept: DropExpired and Logout.
LEMMA DeleteStep ==
  ASSUME IInv, NEW r \in Request, NEW cookie \in {NoCookie, Keep},
         DeleteSessionByTokenHash(presented[r]), Answer(r, cookie),
         UNCHANGED <<clock, issued, lastLoginAt, jar, locals>>
  PROVE  IInv'
<1>1. /\ DOMAIN sessions' = DOMAIN sessions \ {presented[r]}
      /\ \A t \in DOMAIN sessions' : sessions'[t] = sessions[t]
  BY DEF DeleteSessionByTokenHash, Drop, Restrict
<1>2. /\ pc' = [pc EXCEPT ![r] = "respond"]
      /\ reply' = [reply EXCEPT ![r] = cookie]
      /\ UNCHANGED <<clock, issued, lastLoginAt, jar, op, presented, account, copy, since>>
  BY DEF Answer, locals
<1>3. TypeOK'
  BY <1>1, <1>2 DEF IInv, TypeOK
<1>4. CopiesAgree'
  BY <1>1, <1>2 DEF IInv, TypeOK, CopiesAgree, Resolving, SameSession
<1>5. NoTimeGained' /\ JarInv'
  BY <1>1, <1>2 DEF IInv, NoTimeGained, JarInv
<1>6. RequestInv'
  BY <1>2, SessionAssumption DEF IInv, TypeOK, RequestInv, NoCookie, Keep, Time
<1>7. QED
  BY <1>3, <1>4, <1>5, <1>6 DEF IInv

LEMMA TouchStep ==
  ASSUME IInv, NEW r \in Request, Touch(r)
  PROVE  IInv'
<1>1. PICK later \in Reading(r) :
        /\ SaveSession(presented[r], [copy[r] EXCEPT !.expiresAt = later + UserTTL])
        /\ AnswerAlive(r, later + UserTTL)
  BY SMTT(30) DEF Touch, Reading, IInv, TypeOK, Time
<1> DEFINE session == [copy[r] EXCEPT !.expiresAt = later + UserTTL]
           t == presented[r]
           cookie == IF op[r] = "refresh"
                     THEN [token |-> t, expiresAt |-> later + UserTTL] ELSE Keep
<1>2. /\ later \in Time /\ later <= clock /\ later + UserTTL \in Time
      /\ pc[r] = "resolve" /\ t \in issued
  BY SessionAssumption DEF IInv, TypeOK, RequestInv, Reading, Touch, Time
<1>3. /\ session \in Session
      /\ session.expiresAt = later + UserTTL
      /\ SameSession(session, copy[r])
      /\ later + UserTTL <= clock + UserTTL
  BY <1>2, SessionAssumption DEF IInv, TypeOK, Session, SameSession, Time
<1>4. /\ sessions' = [k \in DOMAIN sessions \cup {t} |-> IF k = t THEN session ELSE sessions[k]]
      /\ pc' = [pc EXCEPT ![r] = "respond"]
      /\ reply' = [reply EXCEPT ![r] = cookie]
      /\ UNCHANGED <<clock, issued, lastLoginAt, jar, op, presented, account, copy, since>>
  BY <1>1 DEF Touch, SaveSession, AnswerAlive, Answer, Put, locals
<1>5. /\ cookie \in Cookie \cup {Keep}
      /\ cookie.expiresAt > 0 => cookie.token \in issued
      /\ cookie.expiresAt <= clock + UserTTL
  BY <1>2, <1>3, SessionAssumption DEF IInv, TypeOK, Cookie, Keep, Time
<1>6. pc'[r] = "respond" /\ \A q \in Request \ {r} : pc'[q] = pc[q]
  BY <1>4 DEF IInv, TypeOK
<1> HIDE DEF session, cookie
<1>7. TypeOK'
  BY <1>2, <1>3, <1>4, <1>5 DEF IInv, TypeOK
<1>8. CopiesAgree'
  <2>1. ASSUME NEW q \in Request, pc'[q] = "resolve", presented'[q] \in DOMAIN sessions'
        PROVE  SameSession(copy'[q], sessions'[presented'[q]])
    <3>1. q # r /\ pc[q] = "resolve"
      BY <1>6, <2>1
    <3>2. CASE presented[q] = t
      BY <1>2, <1>3, <1>4, <3>1, <3>2 DEF IInv, CopiesAgree, Resolving, SameSession
    <3>3. CASE presented[q] # t
      BY <1>4, <2>1, <3>1, <3>3 DEF IInv, CopiesAgree
    <3>4. QED
      BY <3>2, <3>3
  <2>2. \A p, q \in Request : pc'[p] = "resolve" /\ q \in Resolving(presented[p])'
          => SameSession(copy[p], copy[q])
    BY <1>4, <1>6 DEF IInv, CopiesAgree, Resolving
  <2>3. QED
    BY <1>4, <2>1, <2>2 DEF CopiesAgree, Resolving
<1>9. NoTimeGained' /\ JarInv'
  BY <1>3, <1>4 DEF IInv, NoTimeGained, JarInv
<1>10. RequestInv'
  BY <1>2, <1>4, <1>5, <1>6 DEF IInv, TypeOK, RequestInv
<1>11. QED
  BY <1>7, <1>8, <1>9, <1>10 DEF IInv

LEMMA AcceptStep ==
  ASSUME IInv, NEW r \in Request, Accept(r)
  PROVE  IInv'
<1> DEFINE cookie == IF op[r] = "refresh"
                     THEN [token |-> presented[r], expiresAt |-> copy[r].expiresAt] ELSE Keep
<1>1. /\ pc[r] = "resolve"
      /\ pc' = [pc EXCEPT ![r] = "respond"]
      /\ reply' = [reply EXCEPT ![r] = cookie]
      /\ UNCHANGED <<clock, sessions, issued, lastLoginAt, jar, op, presented, account, copy, since>>
  BY DEF Accept, AnswerAlive, Answer, store, locals
<1>2. /\ cookie \in Cookie \cup {Keep}
      /\ cookie.expiresAt > 0 => cookie.token \in issued
      /\ cookie.expiresAt <= clock + UserTTL
  BY <1>1, SessionAssumption DEF IInv, TypeOK, RequestInv, Cookie, Keep, Session, Time
<1> HIDE DEF cookie
<1>3. TypeOK'
  BY <1>1, <1>2 DEF IInv, TypeOK
<1>4. CopiesAgree'
  BY <1>1 DEF IInv, TypeOK, CopiesAgree, Resolving, SameSession
<1>5. NoTimeGained' /\ JarInv'
  BY <1>1 DEF IInv, NoTimeGained, JarInv
<1>6. RequestInv'
  BY <1>1, <1>2 DEF IInv, TypeOK, RequestInv
<1>7. QED
  BY <1>3, <1>4, <1>5, <1>6 DEF IInv

LEMMA TickStep ==
  ASSUME IInv, Tick
  PROVE  IInv'
<1>1. /\ clock' = clock + 1
      /\ UNCHANGED <<sessions, issued, lastLoginAt, jar, pc, op, presented, account, copy, since, reply>>
  BY DEF Tick, PassTime
<1>2. TypeOK'
  BY <1>1 DEF IInv, TypeOK, Time
<1>3. CopiesAgree'
  BY <1>1 DEF IInv, CopiesAgree, Resolving
<1>4. NoTimeGained' /\ JarInv'
  BY <1>1, SessionAssumption DEF IInv, TypeOK, NoTimeGained, JarInv, Session, Cookie, NoCookie, Time
<1>5. RequestInv'
  <2>1. \A r \in Request : reply[r].expiresAt \in Nat
    BY DEF IInv, TypeOK, Cookie, NoCookie, Keep, Time
  <2>2. QED
    BY <1>1, <2>1, SessionAssumption DEF IInv, TypeOK, RequestInv, Session, Time
<1>6. QED
  BY <1>2, <1>3, <1>4, <1>5 DEF IInv

LEMMA StutterStep ==
  ASSUME IInv, UNCHANGED vars
  PROVE  IInv'
BY DEF IInv, TypeOK, CopiesAgree, NoTimeGained, JarInv, RequestInv, Resolving, vars, store, locals

LEMMA NextIInv ==
  ASSUME IInv, [Next]_vars
  PROVE  IInv'
<1>1. CASE Tick
  BY <1>1, TickStep
<1>2. CASE UNCHANGED vars
  BY <1>2, StutterStep
<1>3. ASSUME NEW r \in Request, Serve(r)
      PROVE  IInv'
  <2>1. CASE DropExpired(r)
    BY <2>1, DeleteStep DEF DropExpired
  <2>2. CASE Logout(r)
    BY <2>2, DeleteStep DEF Logout
  <2>3. QED
    BY <1>3, <2>1, <2>2, LoginFindStep, LoginSaveUserStep, CreateSessionStep,
       FindSessionStep, TouchStep, AcceptStep DEF Serve
<1>4. ASSUME NEW r \in Request, Browse(r)
      PROVE  IInv'
  BY <1>4, SendStep, ReceiveStep DEF Browse
<1>5. QED
  BY <1>1, <1>2, <1>3, <1>4 DEF Next

-----------------------------------------------------------------------------
(***************************************************************************)
(* A closed session in nobody's hands.                                     *)
(***************************************************************************)

LEMMA SettledStep ==
  ASSUME IInv, [Next]_vars, NEW t \in Closed, Resolving(t) = {}
  PROVE  t \in Closed' /\ Resolving(t)' = {}
<1> USE DEF Closed, Resolving
<1>1. \A r \in Request : pc[r] = "resolve" => presented[r] # t
  OBVIOUS
<1>2. CASE Tick \/ UNCHANGED vars
  BY <1>2 DEF Tick, PassTime, vars, store, locals
<1>3. ASSUME NEW r \in Request, Serve(r)
      PROVE  t \in Closed' /\ Resolving(t)' = {}
  <2>1. CASE \E u \in User : LoginFind(r, u)
    BY <2>1, <1>1 DEF LoginFind, FindAccount, IInv, TypeOK
  <2>2. CASE LoginSaveUser(r)
    BY <2>2, <1>1 DEF LoginSaveUser, RecordLogin, IInv, TypeOK
  <2>3. CASE CreateSession(r)
    BY <2>3, <1>1 DEF CreateSession, SaveSession, Answer, Put, locals, IInv, TypeOK
  <2>4. CASE FindSession(r)
    BY <2>4, <1>1 DEF FindSession, Answer, store, IInv, TypeOK
  <2>5. CASE DropExpired(r) \/ Logout(r)
    BY <2>5, <1>1 DEF DropExpired, Logout, DeleteSessionByTokenHash, Drop, Restrict,
                      Answer, locals, IInv, TypeOK
  <2>6. CASE Touch(r)
    <3>1. presented[r] # t
      BY <2>6, <1>1 DEF Touch
    <3>2. /\ DOMAIN sessions' = DOMAIN sessions \cup {presented[r]}
          /\ pc' = [pc EXCEPT ![r] = "respond"]
          /\ UNCHANGED <<issued, presented>>
      BY <2>6 DEF Touch, SaveSession, AnswerAlive, Answer, Put, locals
    <3>3. QED
      BY <3>1, <3>2, <1>1 DEF IInv, TypeOK
  <2>7. CASE Accept(r)
    BY <2>7, <1>1 DEF Accept, AnswerAlive, Answer, store, locals, IInv, TypeOK
  <2>8. QED
    BY <1>3, <2>1, <2>2, <2>3, <2>4, <2>5, <2>6, <2>7 DEF Serve
<1>4. ASSUME NEW r \in Request, Browse(r)
      PROVE  t \in Closed' /\ Resolving(t)' = {}
  BY <1>1, <1>4 DEF Browse, Send, Receive, store, IInv, TypeOK
<1>5. QED
  BY <1>2, <1>3, <1>4 DEF Next

-----------------------------------------------------------------------------
(***************************************************************************)
(* Without extension on activity only a login writes an expiry.  What a    *)
(* cookie is sent again with comes from a copy, so copies are in the       *)
(* invariant too.                                                          *)
(***************************************************************************)

LifetimeInv ==
  /\ AbsoluteLifetime
  /\ ~extendOnActivity =>
       \A r \in Request : pc[r] = "resolve" => copy[r].expiresAt <= copy[r].createdAt + UserTTL

\* One session's part of AbsoluteLifetime.
Bounded(t) ==
  /\ sessions[t].expiresAt <= sessions[t].createdAt + UserTTL
  /\ jar.token = t => jar.expiresAt <= sessions[t].createdAt + UserTTL
  /\ \A r \in Request :
       reply[r].token = t => reply[r].expiresAt <= sessions[t].createdAt + UserTTL

LEMMA LifetimeStep ==
  ASSUME IInv, LifetimeInv, [Next]_vars
  PROVE  LifetimeInv'
<1> SUFFICES ASSUME ~extendOnActivity
             PROVE  /\ \A t \in DOMAIN sessions' : Bounded(t)'
                    /\ \A r \in Request : pc'[r] = "resolve"
                         => copy'[r].expiresAt <= copy'[r].createdAt + UserTTL
  BY DEF LifetimeInv, AbsoluteLifetime, Bounded, Next, vars
<1>1. /\ \A t \in DOMAIN sessions : Bounded(t)
      /\ \A r \in Request : pc[r] = "resolve"
           => copy[r].expiresAt <= copy[r].createdAt + UserTTL
  BY DEF LifetimeInv, AbsoluteLifetime, Bounded
<1>2. CASE Tick \/ UNCHANGED vars
  BY <1>1, <1>2 DEF Bounded, Tick, PassTime, vars, store, locals
<1>3. ASSUME NEW r \in Request, Serve(r) \/ Browse(r)
      PROVE  /\ \A t \in DOMAIN sessions' : Bounded(t)'
             /\ \A q \in Request : pc'[q] = "resolve"
                  => copy'[q].expiresAt <= copy'[q].createdAt + UserTTL
  <2>1. CASE CreateSession(r)
    <3>1. PICK now \in Reading(r), t \in Token \ issued :
            LET session == [user |-> account[r], createdAt |-> now, expiresAt |-> now + UserTTL]
            IN  /\ sessions' = Put(sessions, t, session)
                /\ reply' = [reply EXCEPT ![r] = [token |-> t, expiresAt |-> session.expiresAt]]
                /\ pc' = [pc EXCEPT ![r] = "respond"]
                /\ UNCHANGED <<jar, copy>>
      BY <2>1 DEF CreateSession, SaveSession, Answer, locals
    <3>2. now \in Int /\ t \notin DOMAIN sessions
      BY DEF Reading, IInv, TypeOK, Time
    <3>3. /\ \A q \in Request : reply[q].token = t => reply[q].expiresAt <= 0
          /\ jar.token = t => jar.expiresAt <= 0
      BY <3>1, SessionAssumption
      DEF IInv, TypeOK, JarInv, RequestInv, Cookie, NoCookie, Keep, Time
    <3>4. /\ DOMAIN sessions' = DOMAIN sessions \cup {t}
          /\ \A k \in DOMAIN sessions : sessions'[k] = sessions[k]
          /\ sessions'[t].createdAt = now /\ sessions'[t].expiresAt = now + UserTTL
      BY <3>1, <3>2 DEF Put
    <3>5. now + UserTTL >= 0
      BY SessionAssumption DEF Reading, IInv, TypeOK, Time
    <3>6. Bounded(t)'
      BY <3>1, <3>2, <3>3, <3>4, <3>5, SessionAssumption
      DEF Bounded, RequestInv, IInv, TypeOK, Cookie, NoCookie, Keep, Time
    <3>7. \A k \in DOMAIN sessions : Bounded(k)'
      BY <3>1, <3>2, <3>4, <1>1 DEF Bounded, IInv, TypeOK
    <3>8. QED
      BY <3>1, <3>4, <3>6, <3>7, <1>1 DEF IInv, TypeOK
  <2>2. CASE Accept(r)
    <3>1. /\ UNCHANGED <<sessions, jar, copy>>
          /\ pc[r] = "resolve" /\ pc' = [pc EXCEPT ![r] = "respond"]
          /\ \/ reply' = [reply EXCEPT ![r] = Keep]
             \/ reply' = [reply EXCEPT ![r] =
                             [token |-> presented[r], expiresAt |-> copy[r].expiresAt]]
      BY <2>2 DEF Accept, AnswerAlive, Answer, store, locals
    <3>2. presented[r] \in DOMAIN sessions
            => copy[r].createdAt = sessions[presented[r]].createdAt
      BY <3>1 DEF IInv, CopiesAgree, SameSession
    <3>3. \A t \in DOMAIN sessions : sessions[t].createdAt + UserTTL >= 0
      BY SessionAssumption DEF IInv, TypeOK, Session, Time
    <3>4. QED
      BY <3>1, <3>2, <3>3, <1>1 DEF Bounded, Keep, IInv, TypeOK
  <2>3. CASE DropExpired(r) \/ Logout(r)
    <3>1. /\ sessions' = Drop(sessions, presented[r])
          /\ \E cookie \in {NoCookie, Keep} : Answer(r, cookie)
          /\ UNCHANGED <<jar, copy>>
      BY <2>3 DEF DropExpired, Logout, DeleteSessionByTokenHash, locals
    <3>2. \A t \in DOMAIN sessions' : t \in DOMAIN sessions /\ sessions'[t] = sessions[t]
      BY <3>1 DEF Drop, Restrict
    <3>3. \A t \in DOMAIN sessions : sessions[t].createdAt + UserTTL >= 0
      BY SessionAssumption DEF IInv, TypeOK, Session, Time
    <3>4. PICK cookie \in {NoCookie, Keep} : Answer(r, cookie)
      BY <3>1
    <3>5. cookie.expiresAt = 0
      BY DEF NoCookie, Keep
    <3>6. QED
      BY <3>1, <3>2, <3>3, <3>4, <3>5, <1>1 DEF Bounded, Answer, IInv, TypeOK
  <2>4. CASE FindSession(r)
    <3>1. CASE presented[r] \in DOMAIN sessions
      BY <2>4, <3>1, <1>1 DEF FindSession, Bounded, store, IInv, TypeOK
    <3>2. CASE presented[r] \notin DOMAIN sessions
      BY <2>4, <3>2, <1>1, SessionAssumption
      DEF FindSession, Answer, Bounded, store, NoCookie, IInv, TypeOK, Session, Time
    <3>3. QED
      BY <3>1, <3>2
  <2>5. CASE \/ \E u \in User : LoginFind(r, u)
             \/ LoginSaveUser(r)
    BY <2>5, <1>1 DEF LoginFind, FindAccount, LoginSaveUser, RecordLogin, Bounded, IInv, TypeOK
  <2>6. CASE \E o \in {"visit", "refresh", "logout"} : Send(r, o)
    BY <2>6, <1>1 DEF Send, store, Bounded, IInv, TypeOK
  <2>7. CASE Receive(r)
    <3>1. UNCHANGED sessions /\ (jar' = jar \/ jar' = reply[r])
      BY <2>7 DEF Receive, store
    <3>2. \A t \in DOMAIN sessions : sessions[t].createdAt + UserTTL >= 0
      BY SessionAssumption DEF IInv, TypeOK, Session, Time
    <3>3. \A t \in DOMAIN sessions' : Bounded(t)'
      BY <2>7, <3>1, <3>2, <1>1 DEF Receive, Bounded, Keep, IInv, TypeOK
    <3>4. QED
      BY <2>7, <3>3, <1>1 DEF Receive, IInv, TypeOK
  <2>8. QED
    BY <1>3, <2>1, <2>2, <2>3, <2>4, <2>5, <2>6, <2>7 DEF Serve, Browse, Touch
<1>4. QED
  BY <1>2, <1>3 DEF Next

-----------------------------------------------------------------------------
\* Every reachable state satisfies the inductive invariant: whatever requests
\* run at once, stale copies written back by resolveSession included.
THEOREM Invariance == Spec => []IInv
BY InitIInv, NextIInv, PTL DEF Spec

\* The tables of sessions and the requests keep their types.
THEOREM TypeCorrect == Spec => []TypeOK
BY Invariance, PTL DEF IInv

\* No copy of a session written back gives it to another user.
THEOREM SessionsKeepUser == Spec => []CopiesAgree
BY Invariance, PTL DEF IInv

\* No order of requests makes a session or its cookie good for more than one
\* TTL from now.
THEOREM NobodyGainsTime == Spec => []NoTimeGained
BY Invariance, PTL DEF IInv

\* A server that does not extend sessions on activity keeps none open for longer
\* than one TTL from its login, and gives out no cookie that lasts longer.
THEOREM LifetimeIsAbsolute == Spec => []AbsoluteLifetime
<1>1. Init => LifetimeInv
  <2>1. Init => DOMAIN sessions = {} /\ \A r \in Request : pc[r] = "idle"
    BY DEF Init, EmptyMap
  <2>2. QED
    BY <2>1 DEF LifetimeInv, AbsoluteLifetime
<1>2. IInv /\ LifetimeInv /\ [Next]_vars => LifetimeInv'
  BY LifetimeStep
<1>3. LifetimeInv => AbsoluteLifetime
  BY DEF LifetimeInv
<1>4. QED
  BY <1>1, <1>2, <1>3, Invariance, PTL DEF Spec

\* A logout is final once the requests that overlap it have ended.
THEOREM LogoutSettles == Spec => SettledStaysClosed
<1>1. IInv /\ [Next]_vars
        => [\A t \in Closed : Resolving(t) = {} => t \in Closed' /\ Resolving(t)' = {}]_vars
  BY SettledStep
<1>2. QED
  BY <1>1, Invariance, PTL DEF Spec, SettledStaysClosed

-----------------------------------------------------------------------------
(***************************************************************************)
(* Requests that run one at a time.  A cookie is backed when its session   *)
(* is open for as long as the cookie; the jar is backed until a response   *)
(* is written, and from then on what the response makes of it is.  An      *)
(* extension never shortens a session, for it is counted from a time after *)
(* the lookup, when the session had one TTL to go at the most.             *)
(***************************************************************************)

OneAtATime == \A q, r \in Request : q = r

Backed(cookie) ==
  cookie.expiresAt > clock =>
    cookie.token \in DOMAIN sessions /\ cookie.expiresAt <= sessions[cookie.token].expiresAt

SerialInv ==
  /\ (\A r \in Request : pc[r] # "respond" \/ reply[r] = Keep) => Backed(jar)
  /\ \A r \in Request :
       /\ pc[r] = "respond" => Backed(reply[r])
       /\ pc[r] \in {"find", "resolve"} => presented[r] = jar.token
       /\ pc[r] = "resolve" =>
            /\ presented[r] \in DOMAIN sessions
            /\ copy[r] = sessions[presented[r]]
            /\ copy[r].expiresAt <= since[r] + UserTTL

\* A step of the request in which no response is written.
LEMMA SerialOnward ==
  ASSUME IInv, SerialInv, OneAtATime, NEW r \in Request,
         pc[r] # "respond", pc'[r] \notin {"respond", "resolve"},
         pc'[r] = "find" => presented'[r] = jar.token,
         UNCHANGED <<clock, sessions, jar>>
  PROVE  SerialInv'
<1>1. \A q \in Request : q = r
  BY DEF OneAtATime
<1>2. Backed(jar)
  BY <1>1 DEF SerialInv
<1>3. Backed(jar)'
  BY <1>2 DEF Backed
<1>4. QED
  BY <1>1, <1>3 DEF SerialInv

\* The step of the request that writes its response.
LEMMA SerialAnswer ==
  ASSUME IInv, SerialInv, OneAtATime, NEW r \in Request, NEW cookie,
         pc[r] # "respond", Answer(r, cookie), UNCHANGED <<clock, jar>>,
         cookie = Keep => Backed(jar)', Backed(cookie)'
  PROVE  SerialInv'
<1>1. \A q \in Request : q = r
  BY DEF OneAtATime
<1>2. pc'[r] = "respond" /\ reply'[r] = cookie
  BY DEF Answer, IInv, TypeOK
<1>3. QED
  BY <1>1, <1>2 DEF SerialInv

\* A cookie that is cleared or left alone claims no session.
LEMMA NothingToBack ==
  ASSUME IInv, UNCHANGED clock
  PROVE  Backed(NoCookie)' /\ Backed(Keep)' /\ NoCookie # Keep
BY DEF IInv, TypeOK, Backed, NoCookie, Keep, Time

LEMMA SerialBrowse ==
  ASSUME IInv, SerialInv, OneAtATime, NEW r \in Request, Browse(r)
  PROVE  SerialInv'
<1>1. CASE \E o \in {"visit", "refresh", "logout"} : Send(r, o)
  <2>1. pc[r] = "idle" /\ pc'[r] = "find" /\ presented'[r] = jar.token
        /\ UNCHANGED <<clock, sessions, jar>>
    BY <1>1 DEF Send, store, IInv, TypeOK
  <2>2. QED
    BY <2>1, SerialOnward
<1>2. CASE Receive(r)
  <2>1. \A q \in Request : q = r
    BY DEF OneAtATime
  <2>2. /\ pc[r] = "respond" /\ pc'[r] = "idle" /\ UNCHANGED <<clock, sessions>>
        /\ jar' = IF reply[r] = Keep THEN jar ELSE reply[r]
    BY <1>2 DEF Receive, store, IInv, TypeOK
  <2>3. Backed(reply[r]) /\ (reply[r] = Keep => Backed(jar))
    BY <2>1, <2>2 DEF SerialInv
  <2>4. Backed(jar)'
    BY <2>2, <2>3 DEF Backed
  <2>5. QED
    BY <2>1, <2>2, <2>4 DEF SerialInv
<1>3. QED
  BY <1>1, <1>2 DEF Browse

LEMMA SerialLogin ==
  ASSUME IInv, SerialInv, OneAtATime, NEW r \in Request,
         (\E u \in User : LoginFind(r, u)) \/ LoginSaveUser(r) \/ CreateSession(r)
  PROVE  SerialInv'
<1>1. CASE (\E u \in User : LoginFind(r, u)) \/ LoginSaveUser(r)
  <2>1. pc[r] \in {"idle", "saveUser"} /\ pc'[r] \in {"saveUser", "create"}
        /\ UNCHANGED <<clock, sessions, jar>>
    BY <1>1 DEF LoginFind, FindAccount, LoginSaveUser, RecordLogin, IInv, TypeOK
  <2>2. QED
    BY <2>1, SerialOnward
<1>2. CASE CreateSession(r)
  <2>1. PICK now \in Reading(r), t \in Token \ issued :
          /\ SaveSession(t, [user |-> account[r], createdAt |-> now, expiresAt |-> now + UserTTL])
          /\ Answer(r, [token |-> t, expiresAt |-> now + UserTTL])
    BY <1>2 DEF CreateSession
  <2> DEFINE cookie == [token |-> t, expiresAt |-> now + UserTTL]
  <2>2. /\ DOMAIN sessions' = DOMAIN sessions \cup {t}
        /\ sessions'[t].expiresAt = now + UserTTL
        /\ \A k \in DOMAIN sessions : k # t /\ sessions'[k] = sessions[k]
        /\ UNCHANGED <<clock, jar>>
    BY <1>2, <2>1 DEF CreateSession, SaveSession, Put, IInv, TypeOK
  <2>3. Backed(jar)
    BY <1>2 DEF CreateSession, SerialInv, OneAtATime
  <2>4. Backed(jar)'
    BY <2>2, <2>3 DEF Backed
  <2>5. now + UserTTL \in Nat
    BY SessionAssumption DEF Reading, IInv, TypeOK, Time
  <2>6. Backed(cookie)'
    BY <2>2, <2>5 DEF Backed
  <2> HIDE DEF cookie
  <2>7. Answer(r, cookie) /\ pc[r] # "respond"
    BY <1>2, <2>1 DEF CreateSession, cookie
  <2>8. QED
    BY <2>2, <2>4, <2>6, <2>7, SerialAnswer
<1>3. QED
  BY <1>1, <1>2

LEMMA SerialFind ==
  ASSUME IInv, SerialInv, OneAtATime, NEW r \in Request, FindSession(r)
  PROVE  SerialInv'
<1>1. CASE presented[r] \in DOMAIN sessions
  <2>1. \A q \in Request : q = r
    BY DEF OneAtATime
  <2>2. /\ pc[r] = "find" /\ pc'[r] = "resolve"
        /\ copy'[r] = sessions[presented[r]] /\ since'[r] = clock
        /\ UNCHANGED <<clock, sessions, jar, presented>>
    BY <1>1 DEF FindSession, store, IInv, TypeOK
  <2>3. Backed(jar)
    BY <2>1, <2>2 DEF SerialInv
  <2>4. Backed(jar)'
    BY <2>2, <2>3 DEF Backed
  <2>5. sessions[presented[r]].expiresAt <= clock + UserTTL
    BY <1>1 DEF IInv, NoTimeGained
  <2>6. QED
    BY <1>1, <2>1, <2>2, <2>4, <2>5 DEF SerialInv
<1>2. CASE presented[r] \notin DOMAIN sessions
  BY <1>2, SerialAnswer, NothingToBack DEF FindSession, store
<1>3. QED
  BY <1>1, <1>2

LEMMA SerialResolve ==
  ASSUME IInv, SerialInv, OneAtATime, NEW r \in Request,
         DropExpired(r) \/ Touch(r) \/ Accept(r)
  PROVE  SerialInv'
<1>1. /\ pc[r] = "resolve" /\ presented[r] = jar.token
      /\ presented[r] \in DOMAIN sessions
      /\ copy[r] = sessions[presented[r]]
      /\ copy[r].expiresAt <= since[r] + UserTTL
      /\ UNCHANGED <<clock, jar>>
  BY DEF DropExpired, Touch, Accept, SerialInv
<1>2. Backed(jar)
  BY <1>1 DEF SerialInv, OneAtATime
<1>3. CASE DropExpired(r)
  BY <1>1, <1>3, SerialAnswer, NothingToBack DEF DropExpired
<1>4. PICK token : token = presented[r]
  OBVIOUS
<1>5. ASSUME NEW expiresAt, AnswerAlive(r, expiresAt), Backed(jar)',
             Backed([token |-> token, expiresAt |-> expiresAt])'
      PROVE  SerialInv'
  <2> DEFINE sent == [token |-> token, expiresAt |-> expiresAt]
  <2>1. Answer(r, sent) \/ Answer(r, Keep)
    BY <1>4, <1>5 DEF AnswerAlive
  <2>2. Backed(sent)' /\ Backed(Keep)'
    BY <1>1, <1>5, NothingToBack
  <2> HIDE DEF sent
  <2>3. CASE Answer(r, sent)
    BY <1>1, <1>5, <2>2, <2>3, SerialAnswer
  <2>4. CASE Answer(r, Keep)
    BY <1>1, <1>5, <2>2, <2>4, SerialAnswer
  <2>5. QED
    BY <2>1, <2>3, <2>4
<1>6. CASE Touch(r)
  <2>1. PICK later \in Reading(r) :
          /\ SaveSession(presented[r], [copy[r] EXCEPT !.expiresAt = later + UserTTL])
          /\ AnswerAlive(r, later + UserTTL)
    BY <1>6, SMTT(30) DEF Touch, Reading, IInv, TypeOK, Time
  <2>2. /\ since[r] \in Nat /\ clock \in Nat /\ copy[r] \in Session /\ UserTTL \in Nat
    BY <1>1, SessionAssumption DEF IInv, TypeOK, Time
  <2>3. copy[r].expiresAt <= later + UserTTL /\ later + UserTTL \in Nat
        /\ copy[r].expiresAt \in Nat
    BY <1>1, <2>1, <2>2 DEF Reading, Session, Time
  <2>4. /\ DOMAIN sessions' = DOMAIN sessions
        /\ sessions'[presented[r]].expiresAt = later + UserTTL
    BY <1>1, <2>1, <2>2 DEF SaveSession, Put, Session
  <2>5. jar.expiresAt \in Nat
    BY DEF IInv, TypeOK, Cookie, NoCookie, Time
  <2>6. Backed(jar)'
    BY <1>1, <1>2, <2>3, <2>4, <2>5 DEF Backed
  <2>7. Backed([token |-> token, expiresAt |-> later + UserTTL])'
    BY <1>1, <1>4, <2>3, <2>4 DEF Backed
  <2>8. QED
    BY <1>5, <2>1, <2>6, <2>7
<1>7. CASE Accept(r)
  <2> PICK end : end = copy[r].expiresAt
    OBVIOUS
  <2>1. UNCHANGED sessions /\ AnswerAlive(r, end)
    BY <1>7 DEF Accept, store
  <2>2. Backed(jar)'
    BY <1>1, <1>2, <2>1 DEF Backed
  <2>3. end \in Nat
    BY <1>1 DEF IInv, TypeOK, Session, Time
  <2>4. Backed([token |-> token, expiresAt |-> end])'
    BY <1>1, <1>4, <2>1, <2>3 DEF Backed
  <2>5. QED
    BY <1>5, <2>1, <2>2, <2>4
<1>8. QED
  BY <1>3, <1>6, <1>7

LEMMA SerialLogout ==
  ASSUME IInv, SerialInv, OneAtATime, NEW r \in Request, Logout(r)
  PROVE  SerialInv'
<1>1. /\ pc[r] = "find" /\ presented[r] = jar.token /\ UNCHANGED <<clock, jar>>
      /\ DOMAIN sessions' = DOMAIN sessions \ {presented[r]}
  BY DEF Logout, SerialInv, DeleteSessionByTokenHash, Drop, Restrict
<1>2. CASE presented[r] \in DOMAIN sessions
  <2>1. Answer(r, NoCookie)
    BY <1>2 DEF Logout
  <2>2. QED
    BY <1>1, <2>1, SerialAnswer, NothingToBack
<1>3. CASE presented[r] \notin DOMAIN sessions
  <2>1. Answer(r, Keep)
    BY <1>3 DEF Logout
  <2>2. Backed(jar)
    BY <1>1 DEF SerialInv, OneAtATime
  <2>3. Backed(jar)'
    BY <1>1, <1>3, <2>2 DEF Backed
  <2>4. QED
    BY <1>1, <2>1, <2>3, SerialAnswer, NothingToBack
<1>4. QED
  BY <1>2, <1>3

LEMMA SerialTick ==
  ASSUME IInv, SerialInv, Tick
  PROVE  SerialInv'
<1>1. /\ clock' = clock + 1 /\ clock \in Nat
      /\ UNCHANGED <<sessions, jar, pc, presented, copy, reply, since>>
  BY DEF Tick, PassTime, IInv, TypeOK, Time
<1>2. jar.expiresAt \in Nat /\ \A r \in Request : reply[r].expiresAt \in Nat
  BY DEF IInv, TypeOK, Cookie, NoCookie, Keep, Time
<1>3. Backed(jar) => Backed(jar)'
  BY <1>1, <1>2 DEF Backed
<1>4. \A r \in Request : Backed(reply[r]) => Backed(reply[r])'
  BY <1>1, <1>2 DEF Backed
<1>5. QED
  BY <1>1, <1>3, <1>4 DEF SerialInv

LEMMA SerialStep ==
  ASSUME IInv, SerialInv, OneAtATime, [Next]_vars
  PROVE  SerialInv'
<1>1. ASSUME NEW r \in Request, Serve(r)
      PROVE  SerialInv'
  BY <1>1, SerialLogin, SerialFind, SerialResolve, SerialLogout DEF Serve
<1>2. CASE UNCHANGED vars
  BY <1>2 DEF vars, store, locals, SerialInv, Backed
<1>3. QED
  BY <1>1, <1>2, SerialBrowse, SerialTick DEF Next

\* A browser whose requests run one at a time never rests on a dead cookie.
THEOREM SerialCookieWorks ==
  ASSUME OneAtATime PROVE Spec => []CookieBacked
<1>1. Init => SerialInv
  BY DEF Init, SerialInv, Backed, NoCookie
<1>2. IInv /\ SerialInv /\ [Next]_vars => SerialInv'
  BY SerialStep
<1>3. SerialInv => CookieBacked
  BY DEF SerialInv, Backed, CookieBacked
<1>4. QED
  BY <1>1, <1>2, <1>3, Invariance, PTL DEF Spec

\* What a step of one request does to the sessions that are open.
LEMMA SerialChanges ==
  ASSUME IInv, SerialInv, [Next]_vars, NEW t \in DOMAIN sessions
  PROVE  /\ t \notin DOMAIN sessions' =>
              \/ IsExpired(sessions[t], clock)
              \/ \E r \in Request : LogsOut(r, t) /\ pc'[r] # "find"
         /\ t \in DOMAIN sessions' /\ sessions'[t].expiresAt > sessions[t].expiresAt =>
              \E r \in Resolving(t) : ~IsExpired(sessions[t], since[r])
<1>1. /\ clock \in Nat /\ \A r \in Request : since[r] \in Nat
      /\ sessions[t].expiresAt \in Nat
      /\ ~(sessions[t].expiresAt > sessions[t].expiresAt)
  BY DEF IInv, TypeOK, Session, Time
<1>2. CASE UNCHANGED sessions
  BY <1>1, <1>2
<1>3. ASSUME NEW r \in Request, CreateSession(r)
      PROVE  t \in DOMAIN sessions' /\ sessions'[t] = sessions[t]
  BY <1>3 DEF CreateSession, SaveSession, Put, IInv, TypeOK
<1>4. ASSUME NEW r \in Request, DropExpired(r), t \notin DOMAIN sessions'
      PROVE  IsExpired(sessions[t], clock)
  <2>1. t = presented[r]
    BY <1>4 DEF DropExpired, DeleteSessionByTokenHash, Drop, Restrict
  <2>2. PICK now \in Reading(r) : IsExpired(sessions[t], now)
    BY <1>4, <2>1 DEF DropExpired, SerialInv
  <2>3. QED
    BY <1>1, <2>2 DEF IsExpired, Reading
<1>5. ASSUME NEW r \in Request, DropExpired(r) \/ Logout(r), t \in DOMAIN sessions'
      PROVE  sessions'[t] = sessions[t]
  BY <1>5 DEF DropExpired, Logout, DeleteSessionByTokenHash, Drop, Restrict
<1>6. ASSUME NEW r \in Request, Touch(r)
      PROVE  /\ t \in DOMAIN sessions'
             /\ sessions'[t] # sessions[t] =>
                  r \in Resolving(t) /\ ~IsExpired(sessions[t], since[r])
  <2>1. DOMAIN sessions' = DOMAIN sessions \cup {presented[r]}
        /\ (t # presented[r] => sessions'[t] = sessions[t])
    BY <1>6 DEF Touch, SaveSession, Put
  <2>2. ASSUME t = presented[r]
        PROVE  r \in Resolving(t) /\ ~IsExpired(sessions[t], since[r])
    <3>1. PICK now \in Reading(r) : ~IsExpired(sessions[t], now)
      BY <1>6, <2>2 DEF Touch, SerialInv
    <3>2. QED
      BY <1>1, <1>6, <2>2, <3>1 DEF Touch, IsExpired, Reading, Resolving
  <2>3. QED
    BY <2>1, <2>2
<1>7. ASSUME NEW r \in Request, Logout(r), t \notin DOMAIN sessions'
      PROVE  LogsOut(r, t) /\ pc'[r] # "find"
  BY <1>7 DEF Logout, LogsOut, Answer, DeleteSessionByTokenHash, Drop, Restrict, IInv, TypeOK
<1>8. ASSUME NEW r \in Request,
             (\E u \in User : LoginFind(r, u)) \/ LoginSaveUser(r) \/ FindSession(r)
               \/ Accept(r) \/ Browse(r)
      PROVE  UNCHANGED sessions
  BY <1>8 DEF LoginFind, LoginSaveUser, FindSession, Accept, Browse, Send, Receive, store
<1>9. CASE Tick \/ UNCHANGED vars
  BY <1>2, <1>9 DEF Tick, vars, store
<1>10. ASSUME NEW r \in Request, Serve(r) \/ Browse(r), sessions' # sessions
       PROVE  CreateSession(r) \/ DropExpired(r) \/ Touch(r) \/ Logout(r)
  BY <1>8, <1>10 DEF Serve
<1>11. QED
  BY <1>1, <1>2, <1>3, <1>4, <1>5, <1>6, <1>7, <1>9, <1>10 DEF Next

\* Of requests that run one at a time, only a logout or the session's own end
\* removes a session.
THEOREM SerialRemovals ==
  ASSUME OneAtATime PROVE Spec => RemovedForAReason
<1>1. Init => SerialInv
  BY DEF Init, SerialInv, Backed, NoCookie
<1>2. IInv /\ SerialInv /\ [Next]_vars => SerialInv'
  BY SerialStep
<1>3. IInv /\ SerialInv /\ [Next]_vars =>
        [\A t \in DOMAIN sessions \ DOMAIN sessions' :
           \/ IsExpired(sessions[t], clock)
           \/ \E r \in Request : LogsOut(r, t) /\ pc'[r] # "find"]_vars
  BY SerialChanges
<1>4. QED
  BY <1>1, <1>2, <1>3, Invariance, PTL DEF Spec, RemovedForAReason

\* Of requests that run one at a time, none extends a session that had expired
\* when the request looked it up.
THEOREM SerialExtensions ==
  ASSUME OneAtATime PROVE Spec => NoRevival
<1>1. Init => SerialInv
  BY DEF Init, SerialInv, Backed, NoCookie
<1>2. IInv /\ SerialInv /\ [Next]_vars => SerialInv'
  BY SerialStep
<1>3. IInv /\ SerialInv /\ [Next]_vars =>
        [\A t \in DOMAIN sessions \cap DOMAIN sessions' :
           sessions'[t].expiresAt > sessions[t].expiresAt
             => \E r \in Resolving(t) : ~IsExpired(sessions[t], since[r])]_vars
  BY SerialChanges
<1>4. QED
  BY <1>1, <1>2, <1>3, Invariance, PTL DEF Spec, NoRevival

-----------------------------------------------------------------------------
(***************************************************************************)
(* Refinement: requests that run one at a time keep the ledger.            *)
(***************************************************************************)

\* The session table is a function: dropping a token it has not changes nothing.
TableInv == sessions = [t \in DOMAIN sessions |-> sessions[t]]

LEMMA TableStep ==
  ASSUME TableInv, [Next]_vars
  PROVE  TableInv'
<1>1. CASE UNCHANGED sessions
  BY <1>1 DEF TableInv
<1>2. ASSUME NEW r \in Request, CreateSession(r) \/ Touch(r) \/ DropExpired(r) \/ Logout(r)
      PROVE  TableInv'
  BY <1>2 DEF CreateSession, Touch, DropExpired, Logout, SaveSession, Put,
              DeleteSessionByTokenHash, Drop, Restrict, TableInv
<1>3. ASSUME NEW r \in Request,
             (\E u \in User : LoginFind(r, u)) \/ LoginSaveUser(r) \/ FindSession(r)
               \/ Accept(r) \/ Browse(r)
      PROVE  UNCHANGED sessions
  BY <1>3 DEF LoginFind, LoginSaveUser, FindSession, Accept, Browse, Send, Receive, store
<1>4. CASE Tick \/ UNCHANGED vars
  BY <1>1, <1>4 DEF Tick, vars, store
<1>5. QED
  BY <1>1, <1>2, <1>3, <1>4 DEF Next, Serve

LEMMA LedgerOpen ==
  ASSUME IInv, NEW r \in Request, CreateSession(r)
  PROVE  \E t \in Token, u \in User : Ledger!Open(t, u)
<1>1. PICK now \in Reading(r), t \in Token \ issued :
        /\ SaveSession(t, [user |-> account[r], createdAt |-> now, expiresAt |-> now + UserTTL])
        /\ issued' = issued \cup {t}
  BY DEF CreateSession
<1>2. account[r] \in User /\ now \in 0..clock
  BY DEF CreateSession, IInv, TypeOK, RequestInv, Reading, Time
<1>3. t \notin DOMAIN sessions \cup Closed
  BY DEF Closed, IInv, TypeOK
<1>4. UNCHANGED <<clock, Closed>>
  BY <1>1 DEF CreateSession, Closed, SaveSession, Put
<1>5. QED
  BY <1>1, <1>2, <1>3, <1>4 DEF Ledger!Open, Ledger!Put, SaveSession, Put

LEMMA LedgerExtend ==
  ASSUME IInv, SerialInv, NEW r \in Request, Touch(r)
  PROVE  \E t \in DOMAIN sessions : Ledger!Extend(t)
<1>1. /\ presented[r] \in DOMAIN sessions
      /\ copy[r] = sessions[presented[r]]
      /\ copy[r].expiresAt <= since[r] + UserTTL
      /\ copy[r] \in Session
  BY DEF Touch, SerialInv, IInv, TypeOK
<1>2. PICK later \in Reading(r) :
        /\ SaveSession(presented[r], [copy[r] EXCEPT !.expiresAt = later + UserTTL])
        /\ AnswerAlive(r, later + UserTTL)
  BY SMTT(30) DEF Touch, Reading, IInv, TypeOK, Time
<1>3. /\ later \in 0..clock
      /\ later + UserTTL >= sessions[presented[r]].expiresAt
  BY <1>1, <1>2, SessionAssumption DEF Reading, IInv, TypeOK, Session, Time
<1>4. sessions' = [sessions EXCEPT ![presented[r]].expiresAt = later + UserTTL]
  BY <1>1, <1>2 DEF SaveSession, Put
<1>5. UNCHANGED <<clock, Closed>>
  BY <1>4 DEF Touch, Closed
<1>6. QED
  BY <1>1, <1>3, <1>4, <1>5 DEF Ledger!Extend

LEMMA LedgerClose ==
  ASSUME IInv, SerialInv, TableInv, NEW r \in Request, DropExpired(r) \/ Logout(r)
  PROVE  (\E t \in DOMAIN sessions : Ledger!Close(t)) \/ UNCHANGED <<clock, sessions, Closed>>
<1>1. /\ sessions' = Drop(sessions, presented[r])
      /\ UNCHANGED <<clock, issued>>
  BY DEF DropExpired, Logout, DeleteSessionByTokenHash
<1>2. DOMAIN sessions' = DOMAIN sessions \ {presented[r]}
  BY <1>1 DEF Drop, Restrict
<1>3. CASE presented[r] \in DOMAIN sessions
  <2>1. Closed' = Closed \cup {presented[r]}
    BY <1>1, <1>2, <1>3 DEF Closed, IInv, TypeOK
  <2>2. QED
    BY <1>1, <1>3, <2>1 DEF Ledger!Close, Ledger!Drop, Ledger!Restrict, Drop, Restrict
<1>4. CASE presented[r] \notin DOMAIN sessions
  <2>1. sessions' = sessions
    BY <1>1, <1>4 DEF Drop, Restrict, TableInv
  <2>2. QED
    BY <1>1, <2>1 DEF Closed
<1>5. QED
  BY <1>3, <1>4

LEMMA LedgerStep ==
  ASSUME IInv, SerialInv, TableInv, [Next]_vars
  PROVE  [Ledger!Next]_<<clock, sessions, Closed>>
<1>1. ASSUME NEW r \in Request,
             CreateSession(r) \/ Touch(r) \/ DropExpired(r) \/ Logout(r)
      PROVE  [Ledger!Next]_<<clock, sessions, Closed>>
  BY <1>1, LedgerOpen, LedgerExtend, LedgerClose DEF Ledger!Next
<1>2. ASSUME NEW r \in Request,
             (\E u \in User : LoginFind(r, u)) \/ LoginSaveUser(r) \/ FindSession(r)
               \/ Accept(r) \/ Browse(r)
      PROVE  UNCHANGED <<clock, sessions, Closed>>
  BY <1>2 DEF LoginFind, FindAccount, LoginSaveUser, RecordLogin, FindSession, Accept,
              Browse, Send, Receive, store, Closed
<1>3. CASE Tick
  BY <1>3 DEF Tick, PassTime, Ledger!Next, Ledger!Tick, Closed
<1>4. CASE UNCHANGED vars
  BY <1>4 DEF vars, store, Closed
<1>5. QED
  BY <1>1, <1>2, <1>3, <1>4 DEF Next, Serve

\* Requests that run one at a time are, to everybody else, the ledger: sessions
\* are opened, extended while they are alive, and closed for good.
THEOREM SerialKeepsLedger ==
  ASSUME OneAtATime PROVE Spec => ImplementsLedger
<1>1. Init => SerialInv
  BY DEF Init, SerialInv, Backed, NoCookie
<1>2. IInv /\ SerialInv /\ [Next]_vars => SerialInv'
  BY SerialStep
<1>3. Init => TableInv
  BY DEF Init, TableInv, EmptyMap
<1>4. TableInv /\ [Next]_vars => TableInv'
  BY TableStep
<1>5. Init => Ledger!Init
  BY DEF Init, Ledger!Init, Ledger!EmptyMap, EmptyMap, Closed
<1>6. IInv /\ SerialInv /\ TableInv /\ [Next]_vars
        => [Ledger!Next]_<<clock, sessions, Closed>>
  BY LedgerStep
<1>7. QED
  BY <1>1, <1>2, <1>3, <1>4, <1>5, <1>6, Invariance, PTL
  DEF Spec, ImplementsLedger, Ledger!Spec

=============================================================================
