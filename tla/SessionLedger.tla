---------------------------- MODULE SessionLedger ---------------------------
(***************************************************************************)
(* What a session is to everybody but AuthService: it is opened for one    *)
(* user, may be extended while it is alive, and once it is closed, by a    *)
(* logout or because its time ran out, it stays closed.                    *)
(***************************************************************************)
EXTENDS Maps, Integers

CONSTANTS Token, User, TTL

VARIABLES
  now,
  ledger,            \* the open sessions: token to [user, createdAt, expiresAt]
  closed             \* the tokens of sessions that were open once

\* The service reads its clock some time before it writes: "at" is when.
Open(t, u) ==
  /\ t \notin DOMAIN ledger \cup closed
  /\ \E at \in 0..now :
       ledger' = Put(ledger, t, [user |-> u, createdAt |-> at, expiresAt |-> at + TTL])
  /\ UNCHANGED <<now, closed>>

\* A session is good for one TTL from its last use, and never shortened.
Extend(t) ==
  /\ \E at \in 0..now :
       /\ at + TTL >= ledger[t].expiresAt
       /\ ledger' = [ledger EXCEPT ![t].expiresAt = at + TTL]
  /\ UNCHANGED <<now, closed>>

Close(t) ==
  /\ ledger' = Drop(ledger, t)
  /\ closed' = closed \cup {t}
  /\ UNCHANGED now

Tick == now' = now + 1 /\ UNCHANGED <<ledger, closed>>

Init == now = 0 /\ ledger = EmptyMap /\ closed = {}

Next ==
  \/ Tick
  \/ \E t \in Token, u \in User : Open(t, u)
  \/ \E t \in DOMAIN ledger : Extend(t) \/ Close(t)

Spec == Init /\ [][Next]_<<now, ledger, closed>>

=============================================================================
