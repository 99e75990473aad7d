-------------------------- MODULE AuthTokensProofs --------------------------
(***************************************************************************)
(* Proofs about AuthTokens, for any set of requests, accounts and tokens   *)
(* and any TTL.                                                            *)
(*                                                                         *)
(* That no token is left in the store unknown to everybody rests on what   *)
(* the requests hold: a request presents, and so saves back, only a token  *)
(* that a client was given, while the successor it creates is known to     *)
(* itself alone until its response.  That a login keeps its owner rests on *)
(* the records in the requests' hands agreeing with those in the store.    *)
(***************************************************************************)
EXTENDS AuthTokens, TLAPS

\* The request holds the record of the token it presented.
Holding(r) == pc[r] = "resolve" \/ (pc[r] = "create" /\ op[r] = "refresh")

RequestInv ==
  \A r \in Request :
    /\ since[r] <= clock
    /\ pc[r] = "saveUser" => account[r] \in User /\ op[r] = "login"
    /\ pc[r] = "create" /\ op[r] = "login" => account[r] \in User
    /\ pc[r] \in {"find", "resolve", "revoke", "takeBack"} \/ Holding(r)
         => presented[r] \in delivered
    /\ Holding(r) => copy[r] \in TokenRecord
    /\ pc[r] \in {"revoke", "takeBack", "respond"} => successor[r] \in issued

\* Records that descend from one login have one owner, stored or held.
OwnerInv ==
  /\ LoginKeepsOwner
  /\ \A r \in Request, t \in DOMAIN tokens :
       Holding(r) /\ login[presented[r]] = login[t] => copy[r].owner = tokens[t].owner
  /\ \A q, r \in Request :
       Holding(q) /\ Holding(r) /\ login[presented[q]] = login[presented[r]]
         => copy[q].owner = copy[r].owner

IInv == TypeOK /\ RequestInv /\ OwnerInv /\ NoOrphans

-----------------------------------------------------------------------------
LEMMA InitIInv == Init => IInv
<1> SUFFICES ASSUME Init PROVE IInv
  OBVIOUS
<1>1. DOMAIN tokens = {} /\ login \in [{} -> {}]
  BY DEF Init, EmptyMap
<1>2. TypeOK
  BY <1>1 DEF Init, TypeOK, Time
<1>3. RequestInv
  BY DEF Init, RequestInv, Holding
<1>4. OwnerInv
  BY <1>1 DEF Init, OwnerInv, LoginKeepsOwner, Holding
<1>5. NoOrphans
  BY <1>1 DEF NoOrphans
<1>6. QED
  BY <1>2, <1>3, <1>4, <1>5 DEF IInv

\* A step that leaves the store alone keeps what is known of the owners if
\* nobody holds a record that he did not hold before.
LEMMA OwnersUntouched ==
  ASSUME IInv, UNCHANGED <<login, copy>>,
         DOMAIN tokens' \subseteq DOMAIN tokens,
         \A t \in DOMAIN tokens' : tokens'[t] = tokens[t],
         \A r \in Request : Holding(r)' => Holding(r) /\ presented'[r] = presented[r]
  PROVE  OwnerInv'
<1>1. LoginKeepsOwner'
  BY DEF IInv, OwnerInv, LoginKeepsOwner
<1>2. QED
  BY <1>1 DEF IInv, OwnerInv

\* The end of a request, whatever it has done to the store before.
LEMMA EndStep ==
  ASSUME IInv, NEW r \in Request, End(r),
         DOMAIN tokens' \subseteq DOMAIN tokens,
         \A t \in DOMAIN tokens' : tokens'[t] = tokens[t],
         UNCHANGED <<issued, login>>,
         delivered \subseteq delivered', delivered' \subseteq issued
  PROVE  TypeOK' /\ RequestInv' /\ OwnerInv'
<1>1. TypeOK'
  BY DEF IInv, TypeOK, End, Time
<1>2. \A q \in Request \ {r} :
        /\ pc'[q] = pc[q] /\ op'[q] = op[q] /\ account'[q] = account[q]
        /\ since'[q] = since[q] /\ presented'[q] = presented[q]
        /\ copy'[q] = copy[q] /\ successor'[q] = successor[q]
  BY DEF IInv, TypeOK, End
<1>3. pc'[r] = "idle" /\ since'[r] = 0 /\ clock' = clock /\ clock \in Nat
  BY DEF IInv, TypeOK, End, Time
<1>4. RequestInv'
  BY <1>2, <1>3 DEF IInv, RequestInv, Holding
<1>5. LoginKeepsOwner'
  BY DEF IInv, OwnerInv, LoginKeepsOwner
<1>6. \A q \in Request : Holding(q)' => q # r /\ Holding(q)
  BY <1>2, <1>3 DEF Holding
<1>7. OwnerInv'
  BY <1>2, <1>5, <1>6 DEF IInv, OwnerInv
<1>8. QED
  BY <1>1, <1>4, <1>7

LEMMA LoginFindStep ==
  ASSUME IInv, NEW r \in Request, NEW u \in User, LoginFind(r, u)
  PROVE  IInv'
<1>1. TypeOK'
  BY DEF IInv, TypeOK, LoginFind, FindAccount, store, locals
<1>2. RequestInv'
  BY DEF IInv, TypeOK, RequestInv, Holding, LoginFind, FindAccount, store, locals, Time
<1>3. OwnerInv'
  BY OwnersUntouched DEF IInv, TypeOK, Holding, LoginFind, FindAccount, store, locals
<1>4. NoOrphans'
  BY DEF IInv, TypeOK, NoOrphans, Pending, LoginFind, FindAccount, store, locals
<1>5. QED
  BY <1>1, <1>2, <1>3, <1>4 DEF IInv

LEMMA LoginSaveUserStep ==
  ASSUME IInv, NEW r \in Request, LoginSaveUser(r)
  PROVE  IInv'
<1>1. \A now \in Reading(r) : now \in Time
  BY DEF IInv, TypeOK, Reading, Time
<1>2. lastLoginAt' \in [User -> Time]
  BY <1>1 DEF IInv, TypeOK, LoginSaveUser, RecordLogin
<1>3. TypeOK'
  BY <1>2 DEF IInv, TypeOK, LoginSaveUser, RecordLogin, store, locals
<1>4. RequestInv'
  BY DEF IInv, TypeOK, RequestInv, Holding, LoginSaveUser, RecordLogin, store, locals, Time
<1>5. OwnerInv'
  <2>1. \A q \in Request : Holding(q)' => Holding(q) /\ presented'[q] = presented[q]
    BY DEF IInv, TypeOK, RequestInv, Holding, LoginSaveUser, RecordLogin, locals
  <2>2. QED
    BY <2>1, OwnersUntouched DEF LoginSaveUser, store, locals
<1>6. NoOrphans'
  BY DEF IInv, TypeOK, NoOrphans, Pending, LoginSaveUser, RecordLogin, store, locals
<1>7. QED
  BY <1>3, <1>4, <1>5, <1>6 DEF IInv

\* createToken, for a login or a refresh: a fresh token for an owner that the
\* tokens of the same login, if there are any, belong to.
LEMMA CreateStep ==
  ASSUME IInv, NEW r \in Request, NEW t \in Token \ issued, NEW owner \in User,
         NEW ancestor \in issued \cup {t}, NEW next \in {"respond", "revoke"},
         pc[r] = "create", next = "revoke" => presented[r] \in delivered,
         CreateToken(r, t, owner, ancestor), Goto(r, next),
         UNCHANGED <<delivered, presented, copy>>,
         ancestor # t =>
           /\ \A s \in DOMAIN tokens : login[s] = ancestor => tokens[s].owner = owner
           /\ \A q \in Request : Holding(q) /\ login[presented[q]] = ancestor
                => copy[q].owner = owner
  PROVE  IInv'
<1>1. PICK now \in Reading(r) : SaveToken(t, [owner |-> owner, expiresAt |-> now + UserTTL])
  BY DEF CreateToken
<1> DEFINE record == [owner |-> owner, expiresAt |-> now + UserTTL]
<1>2. now \in Time /\ record \in TokenRecord /\ record.owner = owner
  BY TokenAssumption DEF IInv, TypeOK, RequestInv, Reading, TokenRecord, Time
<1> HIDE DEF record
<1>3. /\ tokens' = [k \in DOMAIN tokens \cup {t} |-> IF k = t THEN record ELSE tokens[k]]
      /\ issued' = issued \cup {t}
      /\ login' = [k \in issued \cup {t} |-> IF k = t THEN ancestor ELSE login[k]]
      /\ successor' = [successor EXCEPT ![r] = t]
      /\ pc' = [pc EXCEPT ![r] = next]
      /\ since' = [since EXCEPT ![r] = clock]
      /\ UNCHANGED <<clock, lastLoginAt, op, account, delivered, presented, copy>>
  BY <1>1 DEF CreateToken, SaveToken, Put, Goto, record, IInv, TypeOK
<1>4. \A s \in issued : login[s] \in issued /\ login[s] # t /\ s # t
  BY DEF IInv, TypeOK
<1>5. TypeOK'
  BY <1>2, <1>3 DEF IInv, TypeOK
<1>6. RequestInv'
  BY <1>3 DEF IInv, TypeOK, RequestInv, Holding, Time
<1>7. \A q \in Request : Holding(q)' => q # r /\ Holding(q) /\ presented[q] \in issued
  BY <1>3 DEF IInv, TypeOK, RequestInv, Holding
<1>8. LoginKeepsOwner'
  <2>1. ASSUME NEW s \in DOMAIN tokens, login'[s] = ancestor
        PROVE  tokens[s].owner = owner
    BY <1>3, <1>4, <2>1 DEF IInv, TypeOK
  <2>2. QED
    BY <1>2, <1>3, <1>4, <2>1 DEF IInv, TypeOK, OwnerInv, LoginKeepsOwner
<1>9. OwnerInv'
  <2>1. ASSUME NEW q \in Request, NEW s \in DOMAIN tokens', Holding(q)',
               login'[presented'[q]] = login'[s]
        PROVE  copy'[q].owner = tokens'[s].owner
    <3>1. CASE s = t
      BY <1>2, <1>3, <1>4, <1>7, <2>1, <3>1
    <3>2. CASE s # t
      BY <1>3, <1>4, <1>7, <2>1, <3>2 DEF IInv, TypeOK, OwnerInv
    <3>3. QED
      BY <3>1, <3>2
  <2>2. \A p, q \in Request :
          Holding(p)' /\ Holding(q)' /\ login'[presented'[p]] = login'[presented'[q]]
            => copy'[p].owner = copy'[q].owner
    BY <1>3, <1>4, <1>7 DEF IInv, OwnerInv
  <2>3. QED
    BY <1>8, <2>1, <2>2 DEF OwnerInv
<1>10. NoOrphans'
  <2>1. t \in Pending'
    BY <1>3 DEF IInv, TypeOK, Pending
  <2>2. Pending \subseteq Pending'
    BY <1>3 DEF IInv, TypeOK, Pending
  <2>3. QED
    BY <1>3, <2>1, <2>2 DEF IInv, NoOrphans
<1>11. QED
  BY <1>5, <1>6, <1>9, <1>10 DEF IInv

LEMMA LoginCreateStep ==
  ASSUME IInv, NEW r \in Request, LoginCreate(r)
  PROVE  IInv'
<1>1. PICK t \in Token \ issued : CreateToken(r, t, account[r], t)
  BY DEF LoginCreate
<1>2. account[r] \in User
  BY DEF IInv, RequestInv, LoginCreate
<1>3. QED
  BY <1>1, <1>2, CreateStep DEF LoginCreate

LEMMA CreateSuccessorStep ==
  ASSUME IInv, NEW r \in Request, CreateSuccessor(r)
  PROVE  IInv'
<1>1. PICK t \in Token \ issued : CreateToken(r, t, copy[r].owner, login[presented[r]])
  BY DEF CreateSuccessor
<1>2. Holding(r) /\ presented[r] \in delivered
  BY DEF CreateSuccessor, Holding, IInv, RequestInv
<1>3. copy[r].owner \in User /\ login[presented[r]] \in issued
  BY <1>2 DEF IInv, TypeOK, RequestInv, TokenRecord
<1>4. /\ \A s \in DOMAIN tokens :
           login[s] = login[presented[r]] => tokens[s].owner = copy[r].owner
      /\ \A q \in Request : Holding(q) /\ login[presented[q]] = login[presented[r]]
           => copy[q].owner = copy[r].owner
  BY <1>2 DEF IInv, OwnerInv
<1>5. QED
  BY <1>1, <1>2, <1>3, <1>4, CreateStep DEF CreateSuccessor

LEMMA RespondStep ==
  ASSUME IInv, NEW r \in Request, Respond(r)
  PROVE  IInv'
<1>1. successor[r] \in issued
  BY DEF IInv, RequestInv, Respond
<1>2. TypeOK' /\ RequestInv' /\ OwnerInv'
  BY <1>1, EndStep DEF Respond, store, IInv, TypeOK
<1>3. Pending \subseteq Pending' \cup delivered'
  BY DEF Respond, End, IInv, TypeOK, Pending
<1>4. NoOrphans'
  BY <1>3 DEF Respond, store, IInv, NoOrphans
<1>5. QED
  BY <1>2, <1>4 DEF IInv

LEMMA SendStep ==
  ASSUME IInv, NEW r \in Request, NEW o \in {"use", "refresh", "logout"},
         NEW t \in delivered, Send(r, o, t)
  PROVE  IInv'
<1>1. TypeOK'
  BY DEF IInv, TypeOK, Send, store
<1>2. RequestInv'
  BY DEF IInv, TypeOK, RequestInv, Holding, Send, store
<1>3. OwnerInv'
  BY OwnersUntouched DEF IInv, TypeOK, Holding, Send, store
<1>4. NoOrphans'
  BY DEF IInv, TypeOK, NoOrphans, Pending, Send, store
<1>5. QED
  BY <1>1, <1>2, <1>3, <1>4 DEF IInv

\* A request that ends without a response, having deleted nothing, or a token
\* that it alone knows, or one that others may present.
LEMMA FailStep ==
  ASSUME IInv, NEW r \in Request, End(r),
         UNCHANGED <<issued, login, delivered>>,
         DOMAIN tokens' \subseteq DOMAIN tokens,
         \A t \in DOMAIN tokens' : tokens'[t] = tokens[t],
         pc[r] \in {"revoke", "takeBack", "respond"} => successor[r] \notin DOMAIN tokens'
  PROVE  IInv'
<1>1. TypeOK' /\ RequestInv' /\ OwnerInv'
  BY EndStep DEF IInv, TypeOK
<1>2. \A t \in Pending \ Pending' :
        pc[r] \in {"revoke", "takeBack", "respond"} /\ t = successor[r]
  BY DEF Pending, End, IInv, TypeOK
<1>3. NoOrphans'
  BY <1>2 DEF IInv, NoOrphans
<1>4. QED
  BY <1>1, <1>3 DEF IInv

LEMMA FindTokenStep ==
  ASSUME IInv, NEW r \in Request, FindToken(r)
  PROVE  IInv'
<1>1. CASE presented[r] \in DOMAIN tokens
  <2>1. /\ pc[r] = "find"
        /\ pc' = [pc EXCEPT ![r] = "resolve"]
        /\ since' = [since EXCEPT ![r] = clock]
        /\ copy' = [copy EXCEPT ![r] = tokens[presented[r]]]
        /\ UNCHANGED <<clock, lastLoginAt, op, account, presented, successor,
                       tokens, issued, login, delivered>>
    BY <1>1 DEF FindToken, Goto, store
  <2>2. TypeOK'
    BY <1>1, <2>1 DEF IInv, TypeOK
  <2>3. RequestInv'
    BY <1>1, <2>1 DEF IInv, TypeOK, RequestInv, Holding, Time
  <2>4. \A q \in Request : Holding(q)' => q = r \/ (Holding(q) /\ copy'[q] = copy[q])
    BY <2>1 DEF IInv, TypeOK, Holding
  <2>5. copy'[r] = tokens[presented[r]]
    BY <2>1 DEF IInv, TypeOK
  <2>6. OwnerInv'
    BY <1>1, <2>1, <2>4, <2>5 DEF IInv, OwnerInv, LoginKeepsOwner
  <2>7. NoOrphans'
    BY <2>1 DEF IInv, TypeOK, NoOrphans, Pending
  <2>8. QED
    BY <2>2, <2>3, <2>6, <2>7 DEF IInv
<1>2. CASE presented[r] \notin DOMAIN tokens
  BY <1>2, FailStep DEF FindToken, store
<1>3. QED
  BY <1>1, <1>2

LEMMA DropExpiredStep ==
  ASSUME IInv, NEW r \in Request, DropExpired(r)
  PROVE  IInv'
BY FailStep DEF DropExpired, DeleteTokenByHash, Drop, Restrict

LEMMA LogoutStep ==
  ASSUME IInv, NEW r \in Request, Logout(r)
  PROVE  IInv'
BY FailStep DEF Logout, DeleteTokenByHash, Drop, Restrict

LEMMA TakeBackStep ==
  ASSUME IInv, NEW r \in Request, TakeBack(r)
  PROVE  IInv'
BY FailStep DEF TakeBack, DeleteTokenByHash, Drop, Restrict

LEMMA TouchStep ==
  ASSUME IInv, NEW r \in Request, Touch(r)
  PROVE  IInv'
<1>1. /\ pc[r] = "resolve" /\ Holding(r)
      /\ presented[r] \in delivered
      /\ copy[r] \in TokenRecord
      /\ tokens' = [k \in DOMAIN tokens \cup {presented[r]} |->
                      IF k = presented[r] THEN copy[r] ELSE tokens[k]]
      /\ UNCHANGED <<issued, login, delivered, clock, lastLoginAt>>
  BY DEF Touch, SaveToken, Put, Goto, End, Holding, IInv, RequestInv
<1>2. \A q \in Request : Holding(q)' =>
        /\ Holding(q)
        /\ presented'[q] = presented[q] /\ copy'[q] = copy[q]
  BY <1>1 DEF Touch, Goto, End, Holding, IInv, TypeOK, locals
<1>3. TypeOK'
  BY <1>1 DEF Touch, Goto, End, IInv, TypeOK, locals, Time
<1>4. RequestInv'
  <2>1. CASE op[r] = "refresh"
    BY <1>1, <2>1 DEF Touch, Goto, IInv, TypeOK, RequestInv, Holding, locals, Time
  <2>2. CASE op[r] # "refresh"
    BY <1>1, <2>2 DEF Touch, End, IInv, TypeOK, RequestInv, Holding, Time
  <2>3. QED
    BY <2>1, <2>2
<1>5. \A s \in DOMAIN tokens' :
        \/ s = presented[r] /\ tokens'[s] = copy[r]
        \/ s \in DOMAIN tokens /\ tokens'[s] = tokens[s]
  BY <1>1
<1>6. LoginKeepsOwner'
  <2>1. SUFFICES ASSUME NEW s \in DOMAIN tokens', NEW t \in DOMAIN tokens',
                        login[s] = login[t]
                 PROVE  tokens'[s].owner = tokens'[t].owner
    BY <1>1 DEF LoginKeepsOwner
  <2>2. QED
    BY <1>1, <1>5, <2>1 DEF IInv, OwnerInv, LoginKeepsOwner
<1>7. OwnerInv'
  BY <1>1, <1>2, <1>5, <1>6 DEF IInv, OwnerInv
<1>8. NoOrphans'
  <2>1. Pending \subseteq Pending'
    BY <1>1 DEF Touch, Goto, End, IInv, TypeOK, Pending, locals
  <2>2. QED
    BY <1>1, <2>1 DEF IInv, NoOrphans
<1>9. QED
  BY <1>3, <1>4, <1>7, <1>8 DEF IInv

LEMMA RevokeOldStep ==
  ASSUME IInv, NEW r \in Request, RevokeOld(r)
  PROVE  IInv'
<1>1. PICK next \in {"respond", "takeBack"} : pc' = [pc EXCEPT ![r] = next]
  BY DEF RevokeOld, Goto
<1>2. /\ pc[r] = "revoke"
      /\ DOMAIN tokens' \subseteq DOMAIN tokens
      /\ \A t \in DOMAIN tokens' : tokens'[t] = tokens[t]
      /\ since' = [since EXCEPT ![r] = clock]
      /\ UNCHANGED <<clock, lastLoginAt, op, account, issued, login, delivered,
                     presented, copy, successor>>
  BY DEF RevokeOld, Goto, DeleteTokenByHash, Drop, Restrict, locals
<1>3. TypeOK'
  BY <1>1, <1>2 DEF IInv, TypeOK
<1>4. RequestInv'
  BY <1>1, <1>2 DEF IInv, TypeOK, RequestInv, Holding, Time
<1>5. OwnerInv'
  BY <1>1, <1>2, OwnersUntouched DEF IInv, TypeOK, Holding
<1>6. NoOrphans'
  BY <1>1, <1>2 DEF IInv, TypeOK, NoOrphans, Pending
<1>7. QED
  BY <1>3, <1>4, <1>5, <1>6 DEF IInv

LEMMA TickStep ==
  ASSUME IInv, Tick
  PROVE  IInv'
<1>1. /\ clock' = clock + 1
      /\ UNCHANGED <<lastLoginAt, pc, op, account, since, tokens, issued, login, delivered,
                     presented, copy, successor>>
  BY DEF Tick, PassTime, store, locals
<1>2. TypeOK'
  BY <1>1 DEF IInv, TypeOK, Time
<1>3. RequestInv'
  BY <1>1 DEF IInv, TypeOK, RequestInv, Holding, Time
<1>4. OwnerInv' /\ NoOrphans'
  BY <1>1 DEF IInv, OwnerInv, LoginKeepsOwner, Holding, NoOrphans, Pending
<1>5. QED
  BY <1>2, <1>3, <1>4 DEF IInv

LEMMA StutterStep ==
  ASSUME IInv, UNCHANGED vars
  PROVE  IInv'
BY DEF IInv, TypeOK, RequestInv, OwnerInv, LoginKeepsOwner, Holding, NoOrphans, Pending,
       vars, store, locals

LEMMA NextIInv ==
  ASSUME IInv, [Next]_vars
  PROVE  IInv'
<1>1. ASSUME NEW r \in Request, Login(r) \/ Resolve(r) \/ Refresh(r) \/ Logout(r) \/ Call(r)
      PROVE  IInv'
  BY <1>1, LoginFindStep, LoginSaveUserStep, LoginCreateStep, FindTokenStep,
     DropExpiredStep, TouchStep, CreateSuccessorStep, RevokeOldStep, TakeBackStep,
     LogoutStep, SendStep, RespondStep DEF Login, Resolve, Refresh, Call
<1>2. QED
  BY <1>1, TickStep, StutterStep DEF Next

-----------------------------------------------------------------------------
(***************************************************************************)
(* A spent token of which nobody holds a copy.                             *)
(***************************************************************************)

LEMMA SettledStep ==
  ASSUME IInv, [Next]_vars, NEW t \in Spent, Resolving(t) = {}
  PROVE  t \in Spent' /\ Resolving(t)' = {}
<1> USE DEF Spent, Resolving
<1>1. \A r \in Request : pc[r] = "resolve" => presented[r] # t
  OBVIOUS
<1>2. CASE Tick \/ UNCHANGED vars
  BY <1>2 DEF Tick, PassTime, vars, store, locals
<1>3. ASSUME NEW r \in Request, Login(r)
      PROVE  t \in Spent' /\ Resolving(t)' = {}
  <2>1. CASE (\E u \in User : LoginFind(r, u)) \/ LoginSaveUser(r)
    BY <2>1, <1>1 DEF LoginFind, FindAccount, LoginSaveUser, RecordLogin, store, locals,
                      IInv, TypeOK
  <2>2. CASE LoginCreate(r)
    BY <2>2, <1>1 DEF LoginCreate, CreateToken, SaveToken, Goto, Put, IInv, TypeOK
  <2>3. QED
    BY <1>3, <2>1, <2>2 DEF Login
<1>4. ASSUME NEW r \in Request, Resolve(r)
      PROVE  t \in Spent' /\ Resolving(t)' = {}
  <2>1. CASE FindToken(r)
    BY <2>1, <1>1 DEF FindToken, Goto, End, store, IInv, TypeOK
  <2>2. CASE DropExpired(r)
    BY <2>2, <1>1 DEF DropExpired, DeleteTokenByHash, Drop, Restrict, End, IInv, TypeOK
  <2>3. CASE Touch(r)
    <3>1. presented[r] # t /\ DOMAIN tokens' = DOMAIN tokens \cup {presented[r]}
      BY <2>3, <1>1 DEF Touch, SaveToken, Put
    <3>2. QED
      BY <2>3, <3>1, <1>1 DEF Touch, Goto, End, locals, IInv, TypeOK
  <2>4. QED
    BY <1>4, <2>1, <2>2, <2>3 DEF Resolve
<1>5. ASSUME NEW r \in Request, Refresh(r)
      PROVE  t \in Spent' /\ Resolving(t)' = {}
  <2>1. CASE CreateSuccessor(r)
    BY <2>1, <1>1 DEF CreateSuccessor, CreateToken, SaveToken, Goto, Put, IInv, TypeOK
  <2>2. CASE RevokeOld(r)
    BY <2>2, <1>1 DEF RevokeOld, DeleteTokenByHash, Drop, Restrict, Goto, locals, IInv, TypeOK
  <2>3. CASE TakeBack(r)
    BY <2>3, <1>1 DEF TakeBack, DeleteTokenByHash, Drop, Restrict, End, IInv, TypeOK
  <2>4. QED
    BY <1>5, <2>1, <2>2, <2>3 DEF Refresh
<1>6. ASSUME NEW r \in Request, Logout(r)
      PROVE  t \in Spent' /\ Resolving(t)' = {}
  BY <1>6, <1>1 DEF Logout, DeleteTokenByHash, Drop, Restrict, End, IInv, TypeOK
<1>7. ASSUME NEW r \in Request, Call(r)
      PROVE  t \in Spent' /\ Resolving(t)' = {}
  BY <1>7, <1>1 DEF Call, Send, Respond, End, store, IInv, TypeOK
<1>8. QED
  BY <1>2, <1>3, <1>4, <1>5, <1>6, <1>7 DEF Next

-----------------------------------------------------------------------------
\* Every reachable state satisfies the inductive invariant: whatever refreshes,
\* uses and logouts of one token run at once.
THEOREM Invariance == Spec => []IInv
BY InitIInv, NextIInv, PTL DEF Spec

\* The table of tokens and the requests keep their types.
THEOREM TypeCorrect == Spec => []TypeOK
BY Invariance, PTL DEF IInv

\* A refresh that fails half-way leaves no token behind: refreshToken takes the
\* successor back, and nobody else can have saved it.
THEOREM FailedRefreshLeavesNothing == Spec => []NoOrphans
BY Invariance, PTL DEF IInv

\* Refreshes pass the owner on to the successor, whatever they race with.
THEOREM RefreshKeepsOwner == Spec => []LoginKeepsOwner
BY Invariance, PTL DEF IInv, OwnerInv

\* A revocation is final once no request holds a copy of the token.
THEOREM RevocationSettles == Spec => SettledStaysSpent
<1>1. IInv /\ [Next]_vars
        => [\A t \in Spent : Resolving(t) = {} => t \in Spent' /\ Resolving(t)' = {}]_vars
  BY SettledStep
<1>2. QED
  BY <1>1, Invariance, PTL DEF Spec, SettledStaysSpent

-----------------------------------------------------------------------------
(***************************************************************************)
(* Requests that run one at a time.  The token a refresh found is in the   *)
(* store until the refresh itself revokes it, so the revocation succeeds   *)
(* and the two tokens of one login that are stored meanwhile are the old   *)
(* one and a successor nobody was told about.                              *)
(***************************************************************************)

OneAtATime == \A q, r \in Request : q = r

\* The successor r has created while the old token is still stored.
Between(r) == pc[r] \in {"revoke", "takeBack"}

FoundInv ==
  \A r \in Request :
    /\ Holding(r) \/ pc[r] = "revoke" => presented[r] \in DOMAIN tokens
    /\ pc[r] # "takeBack"
    /\ pc[r] = "revoke" =>
         /\ successor[r] \notin delivered
         /\ login[successor[r]] = login[presented[r]]
         /\ successor[r] # presented[r]

\* All stored tokens but unfinished successors are the only one of their login.
OnlyInv ==
  \A s, t \in DOMAIN tokens :
    /\ login[s] = login[t]
    /\ \A r \in Request : Between(r) => s # successor[r] /\ t # successor[r]
    => s = t

SerialInv == FoundInv /\ OnlyInv

\* A request that ends, or goes on, adding nothing to the store.
LEMMA SerialQuiet ==
  ASSUME IInv, SerialInv, OneAtATime, NEW r \in Request,
         DOMAIN tokens' \subseteq DOMAIN tokens, UNCHANGED login,
         ~Between(r), ~Between(r)',
         Holding(r)' => presented'[r] \in DOMAIN tokens'
  PROVE  SerialInv'
<1>1. \A q \in Request : q = r
  BY DEF OneAtATime
<1>2. FoundInv'
  BY <1>1 DEF FoundInv, Between
<1>3. OnlyInv'
  BY <1>1 DEF SerialInv, OnlyInv
<1>4. QED
  BY <1>2, <1>3 DEF SerialInv

LEMMA SerialEnd ==
  ASSUME IInv, SerialInv, OneAtATime, NEW r \in Request, ~Between(r), End(r),
         DOMAIN tokens' \subseteq DOMAIN tokens, UNCHANGED login
  PROVE  SerialInv'
<1>1. pc'[r] = "idle"
  BY DEF End, IInv, TypeOK
<1>2. QED
  BY <1>1, SerialQuiet DEF Between, Holding

LEMMA SerialLogin ==
  ASSUME IInv, SerialInv, OneAtATime, NEW r \in Request, Login(r)
  PROVE  SerialInv'
<1>1. CASE \E u \in User : LoginFind(r, u)
  <2>1. /\ pc[r] = "idle" /\ pc'[r] = "saveUser" /\ UNCHANGED <<tokens, login>>
    BY <1>1 DEF LoginFind, FindAccount, store, IInv, TypeOK
  <2>2. QED
    BY <2>1, SerialQuiet DEF Between, Holding
<1>2. CASE LoginSaveUser(r)
  <2>1. /\ pc[r] = "saveUser" /\ pc'[r] = "create" /\ op'[r] = op[r] /\ op[r] = "login"
        /\ UNCHANGED <<tokens, login>>
    BY <1>2 DEF LoginSaveUser, RecordLogin, store, IInv, TypeOK, RequestInv
  <2>2. QED
    BY <2>1, SerialQuiet DEF Between, Holding
<1>3. CASE LoginCreate(r)
  <2>1. PICK t \in Token \ issued : CreateToken(r, t, account[r], t)
    BY <1>3 DEF LoginCreate
  <2>2. /\ pc[r] = "create" /\ pc'[r] = "respond"
        /\ DOMAIN tokens' = DOMAIN tokens \cup {t}
        /\ login' = [k \in DOMAIN login \cup {t} |-> IF k = t THEN t ELSE login[k]]
    BY <1>3, <2>1 DEF LoginCreate, CreateToken, SaveToken, Put, Goto, IInv, TypeOK
  <2>3. DOMAIN login = issued /\ \A k \in issued : login[k] \in issued
    BY DEF IInv, TypeOK
  <2>4. \A k \in DOMAIN tokens : k # t /\ login'[k] = login[k] /\ login[k] # t
    BY <2>1, <2>2, <2>3 DEF IInv, TypeOK
  <2>5. \A q \in Request : q = r
    BY DEF OneAtATime
  <2>6. OnlyInv'
    BY <2>2, <2>4, <2>5 DEF SerialInv, OnlyInv, Between
  <2>7. FoundInv'
    BY <2>2, <2>5 DEF FoundInv, Holding
  <2>8. QED
    BY <2>6, <2>7 DEF SerialInv
<1>4. QED
  BY <1>1, <1>2, <1>3 DEF Login

LEMMA SerialResolve ==
  ASSUME IInv, SerialInv, OneAtATime, NEW r \in Request, Resolve(r)
  PROVE  SerialInv'
<1>1. CASE FindToken(r)
  <2>1. CASE presented[r] \in DOMAIN tokens
    <3>1. /\ pc[r] = "find" /\ pc'[r] = "resolve" /\ UNCHANGED <<tokens, login, presented>>
      BY <1>1, <2>1 DEF FindToken, Goto, store, IInv, TypeOK
    <3>2. QED
      BY <2>1, <3>1, SerialQuiet DEF Between, Holding
  <2>2. CASE presented[r] \notin DOMAIN tokens
    BY <1>1, <2>2, SerialEnd DEF FindToken, store, Between
  <2>3. QED
    BY <2>1, <2>2
<1>2. CASE DropExpired(r)
  BY <1>2, SerialEnd DEF DropExpired, DeleteTokenByHash, Drop, Restrict, Between
<1>3. CASE Touch(r)
  <2>1. /\ pc[r] = "resolve" /\ presented[r] \in DOMAIN tokens
        /\ DOMAIN tokens' = DOMAIN tokens /\ UNCHANGED login
    BY <1>3 DEF Touch, SaveToken, Put, SerialInv, FoundInv, Holding
  <2>2. pc'[r] \in {"create", "idle"} /\ (pc'[r] = "create" => presented'[r] = presented[r])
    BY <1>3 DEF Touch, Goto, End, locals, IInv, TypeOK
  <2>3. QED
    BY <2>1, <2>2, SerialQuiet DEF Between, Holding
<1>4. QED
  BY <1>1, <1>2, <1>3 DEF Resolve

LEMMA SerialRefresh ==
  ASSUME IInv, SerialInv, OneAtATime, NEW r \in Request, Refresh(r)
  PROVE  SerialInv'
<1>1. \A q \in Request : q = r
  BY DEF OneAtATime
<1>2. CASE CreateSuccessor(r)
  <2>1. PICK t \in Token \ issued : CreateToken(r, t, copy[r].owner, login[presented[r]])
    BY <1>2 DEF CreateSuccessor
  <2>2. /\ pc[r] = "create" /\ pc'[r] = "revoke"
        /\ presented[r] \in DOMAIN tokens /\ presented'[r] = presented[r]
        /\ successor'[r] = t /\ UNCHANGED delivered
        /\ DOMAIN tokens' = DOMAIN tokens \cup {t}
        /\ login' = [k \in DOMAIN login \cup {t} |->
                       IF k = t THEN login[presented[r]] ELSE login[k]]
    BY <1>2, <2>1 DEF CreateSuccessor, CreateToken, SaveToken, Put, Goto, IInv, TypeOK,
                      SerialInv, FoundInv, Holding
  <2>3. \A k \in DOMAIN tokens : k # t /\ login'[k] = login[k]
    BY <2>1, <2>2 DEF IInv, TypeOK
  <2>4. OnlyInv'
    <3>1. \A j, k \in DOMAIN tokens : login[j] = login[k] => j = k
      BY <1>1, <2>2 DEF SerialInv, OnlyInv, Between
    <3>2. Between(r)' /\ successor'[r] = t
      BY <2>2 DEF Between
    <3>3. QED
      BY <2>2, <2>3, <3>1, <3>2 DEF OnlyInv
  <2>5. t \notin delivered /\ t # presented[r] /\ login'[t] = login'[presented[r]]
    BY <2>1, <2>2, <2>3 DEF IInv, TypeOK
  <2>6. FoundInv'
    BY <1>1, <2>2, <2>5 DEF FoundInv, Holding
  <2>7. QED
    BY <2>4, <2>6 DEF SerialInv
<1>3. CASE RevokeOld(r)
  <2>1. /\ pc[r] = "revoke" /\ presented[r] \in DOMAIN tokens
        /\ login[successor[r]] = login[presented[r]]
    BY <1>3 DEF RevokeOld, SerialInv, FoundInv
  <2>2. /\ pc'[r] = "respond" /\ UNCHANGED <<login, successor>>
        /\ DOMAIN tokens' = DOMAIN tokens \ {presented[r]}
    BY <1>3, <2>1 DEF RevokeOld, DeleteTokenByHash, Drop, Restrict, Goto, locals, IInv, TypeOK
  <2>3. ASSUME NEW t \in DOMAIN tokens, t # successor[r], t # presented[r]
        PROVE  login[t] # login[successor[r]]
    BY <1>1, <2>1, <2>3 DEF SerialInv, OnlyInv, FoundInv, Between
  <2>4. OnlyInv'
    BY <1>1, <2>1, <2>2, <2>3 DEF SerialInv, OnlyInv, Between
  <2>5. FoundInv'
    BY <1>1, <2>2 DEF FoundInv, Holding
  <2>6. QED
    BY <2>4, <2>5 DEF SerialInv
<1>4. CASE TakeBack(r)
  BY <1>4 DEF TakeBack, SerialInv, FoundInv
<1>5. QED
  BY <1>2, <1>3, <1>4, Zenon DEF Refresh

LEMMA SerialCall ==
  ASSUME IInv, SerialInv, OneAtATime, NEW r \in Request, Call(r)
  PROVE  SerialInv'
<1>1. CASE \E o \in {"use", "refresh", "logout"}, t \in delivered : Send(r, o, t)
  <2>1. pc[r] = "idle" /\ pc'[r] = "find" /\ UNCHANGED <<tokens, login>>
    BY <1>1 DEF Send, store, IInv, TypeOK
  <2>2. QED
    BY <2>1, SerialQuiet DEF Between, Holding
<1>2. CASE Respond(r)
  BY <1>2, SerialEnd DEF Respond, store, Between
<1>3. QED
  BY <1>1, <1>2 DEF Call

LEMMA SerialStep ==
  ASSUME IInv, SerialInv, OneAtATime, [Next]_vars
  PROVE  SerialInv'
<1>1. CASE Tick \/ UNCHANGED vars
  BY <1>1 DEF Tick, PassTime, vars, store, locals, SerialInv, FoundInv, OnlyInv, Between,
              Holding
<1>2. ASSUME NEW r \in Request, Logout(r)
      PROVE  SerialInv'
  BY <1>2, SerialEnd DEF Logout, DeleteTokenByHash, Drop, Restrict, Between
<1>3. QED
  BY <1>1, <1>2, SerialLogin, SerialResolve, SerialRefresh, SerialCall DEF Next

\* Of requests that run one at a time, a refresh leaves its client with one
\* token for each login: refreshToken revokes the old before it tells the new.
THEOREM SerialRefreshReplaces ==
  ASSUME OneAtATime PROVE Spec => []OneTokenPerLogin
<1>1. Init => SerialInv
  BY DEF Init, EmptyMap, SerialInv, FoundInv, OnlyInv, Holding
<1>2. IInv /\ SerialInv /\ [Next]_vars => SerialInv'
  BY SerialStep
<1>3. SerialInv => OneTokenPerLogin
  BY DEF SerialInv, FoundInv, OnlyInv, Between, OneTokenPerLogin
<1>4. QED
  BY <1>1, <1>2, <1>3, Invariance, PTL DEF Spec

-----------------------------------------------------------------------------
(***************************************************************************)
(* Refinement: requests that run one at a time keep the registry.  The two *)
(* store calls that replace a token are one step of it, the revocation.    *)
(***************************************************************************)

Live == Restrict(tokens, DOMAIN tokens \ Unfinished)

\* What the request holds is what is stored, and its successor is new.
CurrentInv ==
  \A r \in Request :
    /\ pc[r] = "resolve" => copy[r] = tokens[presented[r]]
    /\ pc[r] = "revoke" =>
         /\ successor[r] \in DOMAIN tokens
         /\ \E at \in 0..clock : tokens[successor[r]].expiresAt = at + UserTTL

LEMMA WhatIsUnfinished ==
  ASSUME OneAtATime, NEW r \in Request
  PROVE  /\ ~Between(r) => Unfinished = {}
         /\ ~Between(r)' => Unfinished' = {}
         /\ Between(r) => Unfinished = {successor[r]}
         /\ Between(r)' => Unfinished' = {successor'[r]}
BY DEF OneAtATime, Between, Unfinished

LEMMA CurrentStep ==
  ASSUME IInv, SerialInv, CurrentInv, OneAtATime, [Next]_vars
  PROVE  CurrentInv'
<1>1. CASE Tick
  <2>1. /\ clock \in Nat /\ clock' = clock + 1
        /\ UNCHANGED <<pc, copy, tokens, presented, successor>>
    BY <1>1 DEF Tick, PassTime, store, locals, IInv, TypeOK, Time
  <2>2. 0..clock \subseteq 0..clock'
    BY <2>1
  <2>3. QED
    BY <2>1, <2>2 DEF CurrentInv
<1>2. CASE UNCHANGED vars
  BY <1>2 DEF vars, store, locals, CurrentInv
<1>3. ASSUME NEW r \in Request, pc'[r] \notin {"resolve", "revoke"}
      PROVE  CurrentInv'
  BY <1>3 DEF CurrentInv, OneAtATime
<1>4. ASSUME NEW r \in Request, FindToken(r)
      PROVE  CurrentInv'
  <2>1. CASE presented[r] \in DOMAIN tokens
    <3>1. pc'[r] = "resolve" /\ copy'[r] = tokens[presented[r]] /\ UNCHANGED <<tokens, presented>>
      BY <1>4, <2>1 DEF FindToken, Goto, store, IInv, TypeOK
    <3>2. QED
      BY <3>1 DEF CurrentInv, OneAtATime
  <2>2. CASE presented[r] \notin DOMAIN tokens
    BY <1>3, <1>4, <2>2 DEF FindToken, End, IInv, TypeOK
  <2>3. QED
    BY <2>1, <2>2
<1>5. ASSUME NEW r \in Request, CreateSuccessor(r)
      PROVE  CurrentInv'
  <2>1. PICK now \in Reading(r), t \in Token \ issued :
          /\ SaveToken(t, [owner |-> copy[r].owner, expiresAt |-> now + UserTTL])
          /\ successor' = [successor EXCEPT ![r] = t]
    BY <1>5 DEF CreateSuccessor, CreateToken
  <2>2. now \in 0..clock
    BY DEF Reading, IInv, TypeOK, Time
  <2>3. /\ pc'[r] = "revoke" /\ successor'[r] = t /\ UNCHANGED clock
        /\ t \in DOMAIN tokens' /\ tokens'[t].expiresAt = now + UserTTL
    BY <1>5, <2>1 DEF CreateSuccessor, Goto, SaveToken, Put, IInv, TypeOK
  <2>4. QED
    BY <2>2, <2>3 DEF CurrentInv, OneAtATime
<1>6. ASSUME NEW r \in Request,
             \/ Login(r) \/ DropExpired(r) \/ Touch(r) \/ RevokeOld(r) \/ TakeBack(r)
             \/ Logout(r) \/ Call(r)
      PROVE  pc'[r] \notin {"resolve", "revoke"}
  BY <1>6 DEF Login, LoginFind, FindAccount, LoginSaveUser, RecordLogin, LoginCreate,
              DropExpired, Touch, RevokeOld, TakeBack, Logout, Call, Send, Respond, Goto, End,
              IInv, TypeOK
<1>7. QED
  BY <1>1, <1>2, <1>3, <1>4, <1>5, <1>6 DEF Next, Resolve, Refresh

LEMMA RegistryIssue ==
  ASSUME IInv, OneAtATime, NEW r \in Request, LoginCreate(r)
  PROVE  \E t \in Token, o \in User : Registry!Issue(t, o)
<1>1. PICK t \in Token \ issued : CreateToken(r, t, account[r], t)
  BY DEF LoginCreate
<1>2. PICK now \in Reading(r) :
        SaveToken(t, [owner |-> account[r], expiresAt |-> now + UserTTL])
  BY <1>1 DEF CreateToken
<1>3. account[r] \in User /\ now \in 0..clock
  BY DEF LoginCreate, IInv, TypeOK, RequestInv, Reading, Time
<1>4. Unfinished = {} /\ Unfinished' = {}
  BY WhatIsUnfinished DEF LoginCreate, Goto, Between, IInv, TypeOK
<1>5. /\ DOMAIN Live = DOMAIN tokens
      /\ Live' = [k \in DOMAIN Live \cup {t} |->
                    IF k = t THEN [owner |-> account[r], expiresAt |-> now + UserTTL]
                    ELSE Live[k]]
  BY <1>2, <1>4 DEF Live, Restrict, SaveToken, Put
<1>6. t \notin DOMAIN Live \cup Spent
  BY <1>5 DEF Spent, IInv, TypeOK
<1>7. UNCHANGED <<clock, Spent>>
  BY <1>1, <1>2 DEF LoginCreate, Goto, Spent, CreateToken, SaveToken, Put
<1>8. QED
  BY <1>3, <1>5, <1>6, <1>7, ZenonT(40) DEF Registry!Issue, Registry!Fresh, Registry!Put, Live

LEMMA RegistryRevoke ==
  ASSUME IInv, OneAtATime, NEW r \in Request, DropExpired(r) \/ Logout(r)
  PROVE  (\E t \in DOMAIN Live : Registry!Revoke(t)) \/ UNCHANGED <<clock, Live, Spent>>
<1>1. tokens' = Drop(tokens, presented[r]) /\ UNCHANGED <<clock, issued>>
  BY DEF DropExpired, Logout, DeleteTokenByHash, End
<1>2. Unfinished = {} /\ Unfinished' = {}
  BY WhatIsUnfinished DEF DropExpired, Logout, End, Between, IInv, TypeOK
<1>3. /\ Live = [k \in DOMAIN tokens |-> tokens[k]]
      /\ Live' = [k \in DOMAIN tokens \ {presented[r]} |-> tokens[k]]
      /\ DOMAIN tokens' = DOMAIN tokens \ {presented[r]}
  BY <1>1, <1>2 DEF Live, Drop, Restrict
<1>4. CASE presented[r] \in DOMAIN tokens
  <2>1. Spent' = Spent \cup {presented[r]}
    BY <1>1, <1>3, <1>4 DEF Spent, IInv, TypeOK
  <2>2. QED
    BY <1>1, <1>3, <1>4, <2>1 DEF Registry!Revoke, Registry!Drop, Registry!Restrict, Live
<1>5. CASE presented[r] \notin DOMAIN tokens
  BY <1>1, <1>3, <1>5 DEF Spent
<1>6. QED
  BY <1>4, <1>5

LEMMA RegistryRotate ==
  ASSUME IInv, SerialInv, CurrentInv, OneAtATime, NEW r \in Request, RevokeOld(r)
  PROVE  \E t \in DOMAIN Live, heir \in Token : Registry!Rotate(t, heir)
<1> DEFINE old == presented[r]
           heir == successor[r]
<1>1. /\ pc[r] = "revoke" /\ old \in DOMAIN tokens /\ heir \in DOMAIN tokens
      /\ heir # old /\ heir \in Token
      /\ tokens[heir].owner = tokens[old].owner
      /\ tokens[heir] \in TokenRecord
  BY DEF RevokeOld, SerialInv, FoundInv, CurrentInv, IInv, TypeOK, OwnerInv, LoginKeepsOwner
<1>2. PICK at \in 0..clock : tokens[heir].expiresAt = at + UserTTL
  BY <1>1 DEF CurrentInv
<1>3. tokens[heir] = [owner |-> tokens[old].owner, expiresAt |-> at + UserTTL]
  BY <1>1, <1>2 DEF TokenRecord
<1>4. /\ tokens' = [k \in DOMAIN tokens \ {old} |-> tokens[k]]
      /\ pc'[r] = "respond" /\ UNCHANGED <<clock, issued>>
  BY <1>1 DEF RevokeOld, DeleteTokenByHash, Drop, Restrict, Goto, IInv, TypeOK
<1>5. Unfinished = {heir} /\ Unfinished' = {}
  BY <1>1, <1>4, WhatIsUnfinished DEF Between
<1>6. /\ Live = [k \in DOMAIN tokens \ {heir} |-> tokens[k]]
      /\ Live' = [k \in DOMAIN tokens \ {old} |-> tokens[k]]
  BY <1>4, <1>5 DEF Live, Restrict
<1> HIDE DEF old, heir
<1>7. old \in DOMAIN Live /\ Live[old] = tokens[old]
  BY <1>1, <1>6
<1>8. Live' = [k \in (DOMAIN Live \ {old}) \cup {heir} |->
                IF k = heir THEN [owner |-> Live[old].owner, expiresAt |-> at + UserTTL]
                ELSE Live[k]]
  BY <1>1, <1>3, <1>6, <1>7
<1>9. Spent' = Spent \cup {old}
  BY <1>1, <1>4 DEF Spent, IInv, TypeOK
<1>10. heir \notin DOMAIN Live \cup Spent
  BY <1>1, <1>6 DEF Spent
<1>11. Registry!Rotate(old, heir)
  BY <1>2, <1>4, <1>7, <1>8, <1>9, <1>10
  DEF Registry!Rotate, Registry!Fresh, Registry!Put, Registry!Drop, Registry!Restrict, Live
<1>12. QED
  BY <1>1, <1>7, <1>11

\* The first half of a replacement is not seen.
LEMMA RegistryHalf ==
  ASSUME IInv, OneAtATime, NEW r \in Request, CreateSuccessor(r)
  PROVE  UNCHANGED <<clock, Live, Spent>>
<1>1. PICK t \in Token \ issued : CreateToken(r, t, copy[r].owner, login[presented[r]])
  BY DEF CreateSuccessor
<1>2. /\ pc[r] = "create" /\ pc'[r] = "revoke" /\ successor'[r] = t
      /\ issued' = issued \cup {t} /\ UNCHANGED clock
      /\ DOMAIN tokens' = DOMAIN tokens \cup {t}
      /\ \A k \in DOMAIN tokens : k # t /\ tokens'[k] = tokens[k]
  BY <1>1 DEF CreateSuccessor, CreateToken, SaveToken, Put, Goto, IInv, TypeOK
<1>3. Unfinished = {} /\ Unfinished' = {t}
  BY <1>2, WhatIsUnfinished DEF Between
<1>4. Live = [k \in DOMAIN tokens |-> tokens[k]] /\ Live' = [k \in DOMAIN tokens |-> tokens'[k]]
  <2>1. DOMAIN tokens' \ {t} = DOMAIN tokens
    BY <1>2
  <2>2. QED
    BY <1>3, <2>1 DEF Live, Restrict
<1>5. QED
  BY <1>1, <1>2, <1>4 DEF Spent

\* Nor is a use, which writes back what it read.
LEMMA RegistryUse ==
  ASSUME IInv, SerialInv, CurrentInv, OneAtATime, NEW r \in Request, Touch(r)
  PROVE  UNCHANGED <<clock, Live, Spent>>
<1>1. /\ presented[r] \in DOMAIN tokens /\ copy[r] = tokens[presented[r]]
      /\ pc[r] = "resolve"
  BY DEF Touch, SerialInv, FoundInv, CurrentInv, Holding
<1>2. /\ DOMAIN tokens' = DOMAIN tokens
      /\ \A k \in DOMAIN tokens : tokens'[k] = tokens[k]
      /\ UNCHANGED <<clock, issued>>
  BY <1>1 DEF Touch, SaveToken, Put, Goto, End
<1>3. Unfinished = {} /\ Unfinished' = {}
  BY <1>1, WhatIsUnfinished DEF Touch, Goto, End, Between, IInv, TypeOK
<1>4. QED
  BY <1>2, <1>3 DEF Live, Restrict, Spent

\* Nor is a step that touches no table.
LEMMA RegistryQuiet ==
  ASSUME IInv, OneAtATime, NEW r \in Request,
         ~Between(r), ~Between(r)', UNCHANGED <<clock, tokens, issued>>
  PROVE  UNCHANGED <<clock, Live, Spent>>
<1>1. Unfinished = {} /\ Unfinished' = {}
  BY WhatIsUnfinished
<1>2. QED
  BY <1>1 DEF Live, Spent

LEMMA RegistryStep ==
  ASSUME IInv, SerialInv, CurrentInv, OneAtATime, [Next]_vars
  PROVE  [Registry!Next]_<<clock, Live, Spent>>
<1>1. CASE Tick
  <2>1. clock' = clock + 1 /\ UNCHANGED <<tokens, issued, pc, successor>>
    BY <1>1 DEF Tick, PassTime, store, locals
  <2>2. UNCHANGED <<Live, Spent>>
    BY <2>1 DEF Live, Unfinished, Spent
  <2>3. QED
    BY <2>1, <2>2 DEF Registry!Next, Registry!Tick, Live
<1>2. CASE UNCHANGED vars
  BY <1>2 DEF vars, store, locals, Live, Unfinished, Spent
<1>3. ASSUME NEW r \in Request,
             \/ (\E u \in User : LoginFind(r, u)) \/ LoginSaveUser(r) \/ FindToken(r)
             \/ Call(r)
      PROVE  UNCHANGED <<clock, Live, Spent>>
  <2>1. ~Between(r) /\ ~Between(r)' /\ UNCHANGED <<clock, tokens, issued>>
    BY <1>3 DEF LoginFind, FindAccount, LoginSaveUser, RecordLogin, FindToken, Call, Send,
                Respond, Goto, End, store, Between, IInv, TypeOK
  <2>2. QED
    BY <2>1, RegistryQuiet
<1>4. ASSUME NEW r \in Request,
             LoginCreate(r) \/ DropExpired(r) \/ Logout(r) \/ RevokeOld(r)
      PROVE  [Registry!Next]_<<clock, Live, Spent>>
  BY <1>4, RegistryIssue, RegistryRevoke, RegistryRotate DEF Registry!Next, Live
<1>5. ASSUME NEW r \in Request, TakeBack(r)
      PROVE  FALSE
  BY <1>5 DEF TakeBack, SerialInv, FoundInv
<1>6. QED
  BY <1>1, <1>2, <1>3, <1>4, <1>5, RegistryHalf, RegistryUse
  DEF Next, Login, Resolve, Refresh

\* Requests that run one at a time are, to everybody else, the registry: tokens
\* are issued, replaced in one step, and revoked for good.
THEOREM SerialKeepsRegistry ==
  ASSUME OneAtATime PROVE Spec => ImplementsRegistry
<1>1. Init => SerialInv
  BY DEF Init, EmptyMap, SerialInv, FoundInv, OnlyInv, Holding
<1>2. IInv /\ SerialInv /\ [Next]_vars => SerialInv'
  BY SerialStep
<1>3. Init => CurrentInv
  BY DEF Init, CurrentInv
<1>4. IInv /\ SerialInv /\ CurrentInv /\ [Next]_vars => CurrentInv'
  BY CurrentStep
<1>5. Init => Registry!Init
  BY DEF Init, Registry!Init, Registry!EmptyMap, EmptyMap, Restrict, Spent
<1>6. IInv /\ SerialInv /\ CurrentInv /\ [Next]_vars
        => [Registry!Next]_<<clock, Restrict(tokens, DOMAIN tokens \ Unfinished), Spent>>
  BY RegistryStep DEF Live
<1>7. QED
  BY <1>1, <1>2, <1>3, <1>4, <1>5, <1>6, Invariance, PTL
  DEF Spec, ImplementsRegistry, Registry!Spec

=============================================================================
