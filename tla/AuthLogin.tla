----------------------------- MODULE AuthLogin ------------------------------
(***************************************************************************)
(* What the web sessions and the bearer tokens of AuthService share: the   *)
(* clock, and the check of credentials every login begins with             *)
(* (authenticateUserCredentials, service/auth.go).                         *)
(*                                                                         *)
(* A request is a goroutine.  The store holds its mutex during one call    *)
(* only, so a store call is a step; the clock is read between two of them: *)
(* since[r] is the time of the last call, and what the service reads is    *)
(* any time from then to now.                                              *)
(***************************************************************************)
EXTENDS Maps, Integers, FiniteSets

CONSTANTS
  Request,           \* concurrent requests
  User,              \* enabled accounts whose owner knows the password
  MaxTime            \* bound: the clock stops here

Time == Nat

VARIABLES
  clock,
  lastLoginAt,       \* LastLoginAt of each account
  pc,                \* what the request does next
  op,                \* what it was sent for
  account,           \* the account it logs in to
  since              \* when it last called the store

Reading(r) == since[r]..clock

\* The account is read by value.  Nothing in it but LastLoginAt ever changes,
\* so that is all the save below can put back.  A refused login changes no
\* state and is left out.
FindAccount(r, u) ==
  /\ pc[r] = "idle"
  /\ pc' = [pc EXCEPT ![r] = "saveUser"]
  /\ op' = [op EXCEPT ![r] = "login"]
  /\ account' = [account EXCEPT ![r] = u]
  /\ since' = [since EXCEPT ![r] = clock]
  /\ UNCHANGED <<clock, lastLoginAt>>

RecordLogin(r) ==
  /\ pc[r] = "saveUser"
  /\ \E now \in Reading(r) : lastLoginAt' = [lastLoginAt EXCEPT ![account[r]] = now]
  /\ pc' = [pc EXCEPT ![r] = "create"]
  /\ since' = [since EXCEPT ![r] = clock]
  /\ UNCHANGED <<clock, op, account>>

PassTime ==
  /\ clock < MaxTime
  /\ clock' = clock + 1
  /\ UNCHANGED <<lastLoginAt, pc, op, account, since>>

=============================================================================
