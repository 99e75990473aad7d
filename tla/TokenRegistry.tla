---------------------------- MODULE TokenRegistry ---------------------------
(***************************************************************************)
(* What a bearer token is to everybody but AuthService: it is issued to an *)
(* owner, may be replaced by another in one step that leaves one of the    *)
(* two, and once it is revoked, replaced or expired it is spent for good.  *)
(***************************************************************************)
EXTENDS Maps, Integers

CONSTANTS Token, Owner, TTL

VARIABLES
  now,
  live,              \* token to [owner, expiresAt]
  spent

Fresh(t) == t \notin DOMAIN live \cup spent

Issue(t, o) ==
  /\ Fresh(t)
  /\ \E at \in 0..now : live' = Put(live, t, [owner |-> o, expiresAt |-> at + TTL])
  /\ UNCHANGED <<now, spent>>

Rotate(t, heir) ==
  /\ Fresh(heir)
  /\ \E at \in 0..now :
       live' = Put(Drop(live, t), heir,
                   [owner |-> live[t].owner, expiresAt |-> at + TTL])
  /\ spent' = spent \cup {t}
  /\ UNCHANGED now

Revoke(t) ==
  /\ live' = Drop(live, t)
  /\ spent' = spent \cup {t}
  /\ UNCHANGED now

Tick == now' = now + 1 /\ UNCHANGED <<live, spent>>

Init == now = 0 /\ live = EmptyMap /\ spent = {}

Next ==
  \/ Tick
  \/ \E t \in Token, o \in Owner : Issue(t, o)
  \/ \E t \in DOMAIN live : Revoke(t) \/ \E heir \in Token : Rotate(t, heir)

Spec == Init /\ [][Next]_<<now, live, spent>>

=============================================================================
