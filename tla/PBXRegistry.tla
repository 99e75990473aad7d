---------------------------- MODULE PBXRegistry -----------------------------
(***************************************************************************)
(* What PBXService promises its callers: for each kind of PBX object a set *)
(* of entities, on which a create and a delete take effect at once, each   *)
(* entity under an ID no other of its kind has.                            *)
(***************************************************************************)
EXTENDS Integers, FiniteSets, FiniteSetsExt

CONSTANTS Kind, Key

VARIABLE registry      \* the entities of each kind

IDs(k) == {e.id : e \in registry[k]}

Create(k, key) ==
  registry' = [registry EXCEPT ![k] = @ \cup {[id |-> Max(IDs(k) \cup {0}) + 1, key |-> key]}]

Delete(k, id) ==
  /\ id \in IDs(k)
  /\ registry' = [registry EXCEPT ![k] = {e \in @ : e.id # id}]

Init == registry = [k \in Kind |-> {}]

Next ==
  \E k \in Kind :
    \/ \E key \in Key : Create(k, key)
    \/ \E id \in IDs(k) : Delete(k, id)

Spec == Init /\ [][Next]_registry

=============================================================================
