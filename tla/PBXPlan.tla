------------------------------ MODULE PBXPlan -------------------------------
(***************************************************************************)
(* PBXService (service/pbx.go) over the PBX plan of MemoryStore            *)
(* (store/memory.go): eight kinds of objects with the same create, delete  *)
(* and list, written eight times.                                          *)
(*                                                                         *)
(* GetPBXPlan returns the plan by value, but its slices share their arrays *)
(* with the stored plan, and everything the service does between reading   *)
(* the plan and saving it runs without the mutex.  So the arrays are       *)
(* modelled as Go has them: a slice is a length on an array, append writes *)
(* into the array when it has room, and the sort works in place.           *)
(***************************************************************************)
EXTENDS Integers, FiniteSets, Sequences, SequencesExt

CONSTANTS
  Writer,            \* concurrent requests that create or delete,
  Reader,            \* and requests that only read
  Kind,              \* extensions, trunks, routes, ...
  Key,               \* what a kind is sorted by: numbers, or names
  MaxLen,            \* bound: no create starts with this many of the kind,
  MaxID              \* bound: nor once this ID is in use

ASSUME PBXAssumption ==
  /\ Key \subseteq Nat \ {0}
  /\ {MaxLen, MaxID} \subseteq Nat
  /\ Writer \cap Reader = {}

Request == Writer \cup Reader

\* An entity: its ID, its sort key; the other fields are only ever copied.
Entity == [id: Nat \ {0}, key: Key]
Blank == [id |-> 0, key |-> 0]

\* A nil slice and an empty literal have no array: array 0.
Slice == [array: Nat, len: Nat]
EmptySlice == [array |-> 0, len |-> 0]

VARIABLES
  arrays,            \* the arrays somebody has a slice of; cap is their length
  plan,              \* pbxPlan: the slice of each kind
  pc,                \* what the request does next
  job,               \* what it was sent for: kind, and the entity or its ID
  held,              \* the plan in its hands
  acked              \* what the answers so far add up to, by kind

vars == <<arrays, plan, pc, job, held, acked>>

NoPlan == [k \in Kind |-> EmptySlice]
NoJob == [op |-> "none", kind |-> "none", id |-> 0, key |-> 0]

-----------------------------------------------------------------------------
(***************************************************************************)
(* Slices of Go, and slices.SortFunc on them.                              *)
(***************************************************************************)

View(heap, s) == IF s.array = 0 THEN <<>> ELSE SubSeq(heap[s.array], 1, s.len)

Contents(heap, s) == ToSet(View(heap, s))

FreeArray(heap) == CHOOSE a \in 1..(Cardinality(DOMAIN heap) + 1) : a \notin DOMAIN heap

\* The array of a new slice of the given capacity.
Allocate(heap, elements, capacity) ==
  LET a == FreeArray(heap)
  IN  [b \in DOMAIN heap \cup {a} |->
         IF b # a THEN heap[b]
         ELSE elements \o [i \in 1..(capacity - Len(elements)) |-> Blank]]

HasRoom(heap, s) == s.array # 0 /\ s.len < Len(heap[s.array])

\* append: in place, or into a new array of twice the size.
AppendHeap(heap, s, e) ==
  IF HasRoom(heap, s)
  THEN [heap EXCEPT ![s.array][s.len + 1] = e]
  ELSE Allocate(heap, Append(View(heap, s), e), IF s.len = 0 THEN 1 ELSE 2 * s.len)

AppendSlice(heap, s) ==
  [array |-> IF HasRoom(heap, s) THEN s.array ELSE FreeArray(heap), len |-> s.len + 1]

\* Up to twelve elements slices.SortFunc is an insertion sort, which is stable:
\* an element comes after those with a smaller key, and after those with the same
\* key that it came after.
Before(elements, i, j) ==
  \/ elements[i].key < elements[j].key
  \/ elements[i].key = elements[j].key /\ i < j

Place(elements, i) == Cardinality({j \in DOMAIN elements : Before(elements, j, i)}) + 1

Sorted(elements) ==
  [n \in DOMAIN elements |->
     elements[CHOOSE i \in DOMAIN elements : Place(elements, i) = n]]

\* Mutant: nothing is sorted.
UnsortedPlan(heap, p) == heap

\* SortPBXPlan: the array under each slice of the plan is sorted in place.  It
\* is one step here; cell by cell it would only show readers more mixed states.
SortPBXPlan(heap, p) ==
  [a \in DOMAIN heap |->
     LET lens == {p[k].len : k \in {l \in Kind : p[l].array = a}}
     IN  IF lens = {} THEN heap[a]
         ELSE LET n == CHOOSE n \in lens : TRUE
              IN  Sorted(SubSeq(heap[a], 1, n)) \o SubSeq(heap[a], n + 1, Len(heap[a]))]

\* The garbage collector: arrays without a slice are gone.
Collect(heap, plans) ==
  LET live == {p[k].array : p \in plans, k \in Kind} \ {0}
  IN  [a \in DOMAIN heap \cap live |-> heap[a]]

Update(heap) ==
  arrays' = Collect(heap, {plan'} \cup {held'[r] : r \in Request})

-----------------------------------------------------------------------------
(***************************************************************************)
(* The requests: get the plan, change a slice, sort it, save it.           *)
(***************************************************************************)

Goto(w, step) == pc' = [pc EXCEPT ![w] = step]

\* GetPBXPlan, under the read lock.
Begin(w, j, step) ==
  /\ pc[w] = "idle"
  /\ Goto(w, step)
  /\ job' = [job EXCEPT ![w] = j]
  /\ held' = [held EXCEPT ![w] = plan]
  /\ UNCHANGED <<arrays, plan, acked>>

End(w) ==
  /\ Goto(w, "idle")
  /\ job' = [job EXCEPT ![w] = NoJob]
  /\ held' = [held EXCEPT ![w] = NoPlan]

\* A create without one of the required fields is a PBX_INVALID; it is the name
\* or the number that is missing here, which is key 0.
Valid(key) == key # 0

CreateRead(w, k, key) ==
  /\ Valid(key)
  /\ plan[k].len < MaxLen
  /\ \A e \in Contents(arrays, plan[k]) : e.id < MaxID
  /\ Begin(w, [op |-> "create", kind |-> k, id |-> 0, key |-> key], "number")

Mine(w) == held[w][job[w].kind]

\* Mutant: the ID is the number of entities plus one.
CountID(elements) == Len(elements) + 1

\* nextIDFromInts: one more than the largest ID there is now.
NextID(elements) == Max({elements[i].id : i \in DOMAIN elements} \cup {0}) + 1

CreateNumber(w) ==
  /\ pc[w] = "number"
  /\ job' = [job EXCEPT ![w].id = NextID(View(arrays, Mine(w)))]
  /\ Goto(w, "append")
  /\ UNCHANGED <<arrays, plan, held, acked>>

CreateAppend(w) ==
  /\ pc[w] = "append"
  /\ held' = [held EXCEPT ![w][job[w].kind] = AppendSlice(arrays, Mine(w))]
  /\ Goto(w, "sort")
  /\ UNCHANGED <<plan, job, acked>>
  /\ Update(AppendHeap(arrays, Mine(w), [id |-> job[w].id, key |-> job[w].key]))

DeleteRead(w, k, id) ==
  Begin(w, [op |-> "delete", kind |-> k, id |-> id, key |-> 0], "filter")

\* The elements without the first that has the ID.
WithoutID(elements, id) == RemoveFirstMatch(elements, LAMBDA e : e.id = id)

\* Mutant: make([]T, len(values)) for make([]T, 0, len(values)).
FilteredFull(heap, elements, rest) == [array |-> FreeArray(heap), len |-> Len(elements)]

\* deleteFromSlice copies the rest to an array with room for the old length.
Filtered(heap, elements, rest) == [array |-> FreeArray(heap), len |-> Len(rest)]

DeleteFilter(w) ==
  LET elements == View(arrays, Mine(w))
      rest == WithoutID(elements, job[w].id)
  IN  /\ pc[w] = "filter"
      /\ IF rest = elements
         THEN End(w) /\ UNCHANGED plan /\ Update(arrays)     \* PBX_NOT_FOUND
         ELSE /\ Goto(w, "sort")
              /\ held' = [held EXCEPT ![w][job[w].kind] = Filtered(arrays, elements, rest)]
              /\ UNCHANGED <<plan, job>>
              /\ Update(Allocate(arrays, rest, Len(elements)))
      /\ UNCHANGED acked

\* Mutant: a check that comes after the sort refuses the request.
SortOrRefuse(w) ==
  /\ pc[w] = "sort"
  /\ UNCHANGED <<plan, acked>>
  /\ \/ Goto(w, "save") /\ UNCHANGED <<job, held>>
     \/ End(w)
  /\ Update(SortPBXPlan(arrays, held[w]))

\* savePlan sorts the plan before it calls the store.
Sort(w) ==
  /\ pc[w] = "sort"
  /\ Goto(w, "save")
  /\ UNCHANGED <<plan, job, held, acked>>
  /\ Update(SortPBXPlan(arrays, held[w]))

\* What the caller is told when the save returns.
Acknowledged(w) ==
  [acked EXCEPT ![job[w].kind] =
     IF job[w].op = "create" THEN @ \cup {[id |-> job[w].id, key |-> job[w].key]}
     ELSE {e \in @ : e.id # job[w].id}]

\* SavePBXPlan, under the lock: the whole plan is sorted again and replaced.
Save(w) ==
  /\ pc[w] = "save"
  /\ plan' = held[w]
  /\ acked' = Acknowledged(w)
  /\ End(w)
  /\ Update(SortPBXPlan(arrays, held[w]))

\* A list, or one entity by its ID, is what the slice shows when the answer is
\* written, after the read lock is given back.
ListRead(r, k) == Begin(r, [op |-> "list", kind |-> k, id |-> 0, key |-> 0], "show")

ListShow(r) ==
  /\ pc[r] = "show"
  /\ End(r)
  /\ UNCHANGED <<plan, acked>>
  /\ Update(arrays)

-----------------------------------------------------------------------------
Init ==
  /\ arrays = <<>>
  /\ plan = NoPlan
  /\ pc = [r \in Request |-> "idle"]
  /\ job = [r \in Request |-> NoJob]
  /\ held = [r \in Request |-> NoPlan]
  /\ acked = [k \in Kind |-> {}]

Create(w) ==
  \/ \E k \in Kind, key \in Key \cup {0} : CreateRead(w, k, key)
  \/ CreateNumber(w)
  \/ CreateAppend(w)

\* Callers ask for IDs that are in use and for IDs that are not.
Delete(w) ==
  \/ \E k \in Kind, id \in 1..(MaxID + 1) : DeleteRead(w, k, id)
  \/ DeleteFilter(w)

List(r) == (\E k \in Kind : ListRead(r, k)) \/ ListShow(r)

Write(w) == Create(w) \/ Delete(w) \/ Sort(w) \/ Save(w)

Next == (\E w \in Writer : Write(w)) \/ (\E r \in Reader : List(r))

Spec == Init /\ [][Next]_vars

\* Clients come when they like; a request that is being served waits for nobody
\* but the mutex, so its goroutine gets to its end.
Proceed(w) == CreateNumber(w) \/ CreateAppend(w) \/ DeleteFilter(w) \/ Sort(w) \/ Save(w)

FairSpec == Spec /\ \A w \in Writer : WF_vars(Proceed(w))

-----------------------------------------------------------------------------
(***************************************************************************)
(* Properties that hold whatever requests run at the same time.            *)
(***************************************************************************)

SliceOK(s) ==
  /\ s \in Slice
  /\ IF s.array = 0 THEN s.len = 0
     ELSE s.array \in DOMAIN arrays /\ s.len <= Len(arrays[s.array])

\* The tables, and the slices in the store and in every request's hands.
TypeOK ==
  /\ \A a \in DOMAIN arrays : \A i \in DOMAIN arrays[a] : arrays[a][i] \in Entity \cup {Blank}
  /\ plan \in [Kind -> Slice]
  /\ \A k \in Kind : SliceOK(plan[k])
  /\ pc \in [Request -> {"idle", "number", "append", "filter", "sort", "save", "show"}]
  /\ \A r \in Request : \A k \in Kind : SliceOK(held[r][k])
  /\ acked \in [Kind -> SUBSET Entity]

\* However the slices in the store and in the requests' hands alias each other,
\* each lies within its array, and none ever shows a cell nobody has written: a
\* lost update loses whole entities and leaves no hole.
NoBlankShown ==
  /\ TypeOK
  /\ \A p \in {plan} \cup {held[r] : r \in Request} : \A k \in Kind :
       Blank \notin Contents(arrays, p[k])

-----------------------------------------------------------------------------
(***************************************************************************)
(* Properties of requests that run one at a time (one writer).             *)
(***************************************************************************)

AtRest == \A w \in Writer : pc[w] = "idle"

\* The plan is the record of what callers were told: between requests it holds
\* what was created and not deleted, in order, each under an ID of its own.
PlanIsRecord ==
  AtRest => \A k \in Kind :
    LET elements == View(arrays, plan[k])
    IN  /\ ToSet(elements) = acked[k]
        /\ Len(elements) = Cardinality(acked[k])
        /\ \A i, j \in DOMAIN elements : i < j =>
             /\ elements[i].key <= elements[j].key
             /\ elements[i].id # elements[j].id

\* The service is the registry its callers take it for.
Registry == INSTANCE PBXRegistry WITH registry <- acked

ImplementsRegistry == Registry!Spec

\* What was acknowledged and not deleted is in the plan at every moment.
AckedListed == \A k \in Kind : acked[k] \subseteq Contents(arrays, plan[k])

\* A create puts its entity into the array that the stored plan shows, and its
\* sort may push another one out of sight (service/pbx.go:563).  What is hidden comes
\* back: no entity that was acknowledged stays out of the plan for good, unless
\* somebody deletes it.
HiddenComesBack == []<>AckedListed

\* Of the entities that were acknowledged and not deleted no two of a kind have
\* one ID.  The ID of a deleted entity may be given out again: nextID looks for
\* the largest ID there is now.
IDsUnique == \A k \in Kind : \A e, f \in acked[k] : e.id = f.id => e = f

=============================================================================
