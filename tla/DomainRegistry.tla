--------------------------- MODULE DomainRegistry ---------------------------
(***************************************************************************)
(* What DomainService promises its callers: one table of names, on which   *)
(* every operation takes effect at once, on the table as it is at that     *)
(* moment.  A name has at most one owner, an owner at most Limit[o] names, *)
(* and a name is secured with TLS only while it is verified.               *)
(***************************************************************************)
EXTENDS Maps, Integers, FiniteSets

CONSTANTS Name, Owner, Limit

Entry ==
  [owner: Owner, status: {"pending", "active", "suspended", "error"},
   verification: {"pending", "verified", "failed"}, secured: BOOLEAN]

VARIABLE registry      \* the entry of each registered name

Registered == DOMAIN registry
OwnedBy(o) == {n \in Registered : registry[n].owner = o}

Change(n, entry) == registry' = [registry EXCEPT ![n] = entry]

\* A name nobody has goes to an owner with room for it.
Register(n, o) ==
  /\ n \notin Registered
  /\ Limit[o] > 0 => Cardinality(OwnedBy(o)) < Limit[o]
  /\ registry' = Put(registry, n, [owner |-> o, status |-> "pending",
                                   verification |-> "pending", secured |-> FALSE])

Verify(n) ==
  \/ Change(n, [registry[n] EXCEPT !.status = "active", !.verification = "verified"])
  \/ Change(n, [registry[n] EXCEPT !.status = "error", !.verification = "failed"])

Secure(n) ==
  /\ registry[n].verification = "verified"
  /\ Change(n, [registry[n] EXCEPT !.secured = TRUE])

Suspend(n) == Change(n, [registry[n] EXCEPT !.status = "suspended"])

Unsuspend(n) ==
  Change(n, [registry[n] EXCEPT
    !.status = IF registry[n].verification = "verified" THEN "active" ELSE "pending"])

Remove(n) == registry' = Drop(registry, n)

Init == registry = EmptyMap

Next ==
  \/ \E n \in Name, o \in Owner : Register(n, o)
  \/ \E n \in Registered :
       Verify(n) \/ Secure(n) \/ Suspend(n) \/ Unsuspend(n) \/ Remove(n)

Spec == Init /\ [][Next]_registry

=============================================================================
