-------------------------------- MODULE Maps --------------------------------
(***************************************************************************)
(* Go's map type as a function with a finite domain: assignment and the    *)
(* delete builtin, as store/memory.go uses them on the maps of MemoryStore.*)
(***************************************************************************)
EXTENDS Functions

\* m[key] = value
Put(m, key, value) ==
  [k \in DOMAIN m \cup {key} |-> IF k = key THEN value ELSE m[k]]

\* delete(m, key)
Drop(m, key) == Restrict(m, DOMAIN m \ {key})

EmptyMap == [k \in {} |-> k]

=============================================================================
