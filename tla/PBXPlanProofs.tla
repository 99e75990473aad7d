--------------------------- MODULE PBXPlanProofs ----------------------------
(***************************************************************************)
(* Proofs about PBXPlan, for any requests, kinds and keys, and slices of   *)
(* any length.                                                             *)
(*                                                                         *)
(* The arrays come first: what an append, a copy or a sort does to the     *)
(* slices that others have of the same array.  Every slice shows only      *)
(* cells that were written (TablesInv), and slices of two kinds are never  *)
(* on one array (ApartInv), whatever requests run at the same time.  With  *)
(* one writer the plan then is the record of what callers were told        *)
(* (RecordInv), and each save is one operation of the abstract registry.   *)
(*                                                                         *)
(* The sort is a permutation, given by the place of each element, so no    *)
(* proof needs an induction over the slice.                                *)
(***************************************************************************)
EXTENDS PBXPlan, Extrema, SequenceTheorems

-----------------------------------------------------------------------------
(***************************************************************************)
(* slices.SortFunc: the places are a permutation, and they are in order.   *)
(***************************************************************************)

LEMMA SeqShape ==
  ASSUME NEW S, NEW s \in Seq(S)
  PROVE  /\ Len(s) \in Nat
         /\ DOMAIN s = 1..Len(s)
         /\ s \in [1..Len(s) -> S]
         /\ \A i \in DOMAIN s : s[i] \in S
BY LenProperties

LEMMA EntityFields ==
  ASSUME NEW elements \in Seq(Entity), NEW i \in DOMAIN elements
  PROVE  /\ i \in Nat \ {0}
         /\ elements[i] \in Entity
         /\ elements[i].key \in Nat \ {0}
         /\ elements[i].id \in Nat \ {0}
<1>1. i \in Nat \ {0} /\ elements[i] \in Entity
  BY SeqShape
<1>2. QED
  BY <1>1, PBXAssumption DEF Entity

LEMMA BeforeIsTotalOrder ==
  ASSUME NEW elements \in Seq(Entity), NEW i \in DOMAIN elements, NEW j \in DOMAIN elements
  PROVE  /\ ~Before(elements, i, i)
         /\ i # j => Before(elements, i, j) \/ Before(elements, j, i)
         /\ \A k \in DOMAIN elements :
              Before(elements, i, j) /\ Before(elements, j, k) => Before(elements, i, k)
<1>1. \A k \in DOMAIN elements : k \in Nat /\ elements[k].key \in Nat
  BY EntityFields
<1>2. QED
  BY <1>1 DEF Before

LEMMA PlaceInOrder ==
  ASSUME NEW elements \in Seq(Entity), NEW i \in DOMAIN elements
  PROVE  /\ Place(elements, i) \in DOMAIN elements
         /\ \A j \in DOMAIN elements :
              Before(elements, i, j) => Place(elements, i) < Place(elements, j)
<1> DEFINE D == DOMAIN elements
<1> DEFINE Under(k) == {j \in D : Before(elements, j, k)}
<1>1. IsFiniteSet(D) /\ Cardinality(D) = Len(elements) /\ D = 1..Len(elements)
      /\ Len(elements) \in Nat
  <2>1. D = 1..Len(elements) /\ Len(elements) \in Nat
    BY SeqShape
  <2>2. ASSUME NEW n \in Nat
        PROVE  IsFiniteSet(1..n) /\ Cardinality(1..n) = n
    BY FS_Interval
  <2> HIDE DEF D
  <2>3. QED
    BY <2>1, <2>2
<1>2. \A k \in D : /\ IsFiniteSet(Under(k))
                   /\ Cardinality(Under(k)) \in Nat
                   /\ Place(elements, k) = Cardinality(Under(k)) + 1
  <2>1. \A k \in D : Under(k) \in SUBSET D
    OBVIOUS
  <2>2. QED
    BY <1>1, <2>1, FS_Subset, FS_CardinalityType DEF Place
<1>3. Place(elements, i) \in D
  <2>1. Under(i) \in SUBSET D /\ i \notin Under(i)
    BY BeforeIsTotalOrder
  <2>2. Cardinality(Under(i)) <= Cardinality(D) /\ Cardinality(Under(i)) # Cardinality(D)
    BY <1>1, <2>1, FS_Subset
  <2> HIDE DEF Under
  <2>3. QED
    BY <1>1, <1>2, <2>2
<1>4. ASSUME NEW j \in D, Before(elements, i, j)
      PROVE  Place(elements, i) < Place(elements, j)
  <2>1. Under(i) \in SUBSET Under(j) /\ i \in Under(j) /\ i \notin Under(i)
    BY <1>4, BeforeIsTotalOrder
  <2>2. /\ Cardinality(Under(i)) <= Cardinality(Under(j))
        /\ Cardinality(Under(i)) # Cardinality(Under(j))
    BY <1>2, <2>1, FS_Subset
  <2> HIDE DEF Under
  <2>3. QED
    BY <1>2, <2>2
<1>5. QED
  BY <1>3, <1>4

\* Every place is taken, by exactly one element.
LEMMA PlacesAreFilled ==
  ASSUME NEW elements \in Seq(Entity), NEW n \in DOMAIN elements
  PROVE  \E i \in DOMAIN elements : Place(elements, i) = n
<1> DEFINE D == DOMAIN elements
<1> DEFINE place == [i \in D |-> Place(elements, i)]
<1>1. place \in [D -> D]
  BY PlaceInOrder
<1>2. \A i, j \in D : place[i] = place[j] => i = j
  <2>1. \A i, j \in D : Before(elements, i, j) => place[i] < place[j]
    BY PlaceInOrder
  <2>2. \A i \in D : place[i] \in Nat
    BY <1>1, SeqShape
  <2> HIDE DEF place
  <2>3. QED
    BY <2>1, <2>2, BeforeIsTotalOrder
<1> HIDE DEF place
<1>3. place \in Injection(D, D)
  BY <1>1, <1>2 DEF Injection, IsInjective
<1>4. IsFiniteSet(D)
  BY SeqShape, FS_Interval
<1>5. place \in Surjection(D, D)
  BY <1>3, <1>4, FS_Injection
<1>6. \E i \in D : place[i] = n
  BY <1>5 DEF Surjection
<1>7. QED
  BY <1>6 DEF place

\* What the sort does: it puts the elements in another order, which is that of
\* Before.
LEMMA SortedOrder ==
  ASSUME NEW elements \in Seq(Entity)
  PROVE  \E order \in [DOMAIN elements -> DOMAIN elements] :
           /\ Sorted(elements) = [n \in DOMAIN elements |-> elements[order[n]]]
           /\ \A i \in DOMAIN elements : \E n \in DOMAIN elements : order[n] = i
           /\ \A m, n \in DOMAIN elements :
                m < n => Before(elements, order[m], order[n])
<1> DEFINE D == DOMAIN elements
<1> DEFINE order == [n \in D |-> CHOOSE i \in D : Place(elements, i) = n]
<1>1. \A n \in D : order[n] \in D /\ Place(elements, order[n]) = n
  BY PlacesAreFilled
<1>2. Sorted(elements) = [n \in D |-> elements[order[n]]]
  BY DEF Sorted
<1>3. order \in [D -> D]
  BY <1>1
<1> HIDE DEF order
<1>4. ASSUME NEW i \in D, NEW j \in D, ~Before(elements, i, j)
      PROVE  Place(elements, j) <= Place(elements, i)
  <2>1. Place(elements, i) \in Nat /\ Place(elements, j) \in Nat
    BY PlaceInOrder, SeqShape
  <2>2. i = j \/ Before(elements, j, i)
    BY <1>4, BeforeIsTotalOrder
  <2>3. QED
    BY <2>1, <2>2, PlaceInOrder
<1>5. ASSUME NEW i \in D
      PROVE  \E n \in D : order[n] = i
  <2> DEFINE n == Place(elements, i)
  <2>1. n \in D /\ order[n] \in D /\ Place(elements, order[n]) = n
    BY <1>1, PlaceInOrder
  <2>2. ~Before(elements, i, order[n]) /\ ~Before(elements, order[n], i)
    <3>1. n \in Nat
      BY <2>1, SeqShape
    <3>2. QED
      BY <2>1, <3>1, PlaceInOrder
  <2>3. QED
    BY <2>1, <2>2, BeforeIsTotalOrder
<1>6. ASSUME NEW m \in D, NEW n \in D, m < n
      PROVE  Before(elements, order[m], order[n])
  <2>1. m \in Nat /\ n \in Nat
    BY SeqShape
  <2>2. QED
    BY <1>1, <1>4, <1>6, <2>1
<1>7. QED
  BY <1>2, <1>3, <1>5, <1>6

InKeyOrder(elements) ==
  \A i, j \in DOMAIN elements : i < j => elements[i].key <= elements[j].key

DistinctIDs(elements) ==
  \A i, j \in DOMAIN elements : i # j => elements[i].id # elements[j].id

LEMMA SortedProperties ==
  ASSUME NEW elements \in Seq(Entity)
  PROVE  /\ Sorted(elements) \in Seq(Entity)
         /\ Len(Sorted(elements)) = Len(elements)
         /\ ToSet(Sorted(elements)) = ToSet(elements)
         /\ InKeyOrder(Sorted(elements))
         /\ DistinctIDs(elements) => DistinctIDs(Sorted(elements))
<1> DEFINE D == DOMAIN elements
<1>1. PICK order \in [D -> D] :
           /\ Sorted(elements) = [n \in D |-> elements[order[n]]]
           /\ \A i \in D : \E n \in D : order[n] = i
           /\ \A m, n \in D : m < n => Before(elements, order[m], order[n])
  BY SortedOrder
<1>2. /\ Len(elements) \in Nat
      /\ D = 1..Len(elements)
      /\ \A i \in D : elements[i] \in Entity
  BY SeqShape
<1>3. \A n \in D : order[n] \in D /\ Sorted(elements)[n] = elements[order[n]]
  BY <1>1
<1>4. DOMAIN Sorted(elements) = D
  BY <1>1
<1>5. Sorted(elements) \in [1..Len(elements) -> Entity]
  BY <1>1, <1>2
<1>6. Sorted(elements) \in Seq(Entity) /\ Len(Sorted(elements)) = Len(elements)
  BY <1>2, <1>5, SeqDef
<1>7. ToSet(Sorted(elements)) = ToSet(elements)
  BY <1>1, <1>3, <1>4 DEF ToSet
<1>8. InKeyOrder(Sorted(elements))
  <2>1. ASSUME NEW m \in D, NEW n \in D, m < n
        PROVE  Sorted(elements)[m].key <= Sorted(elements)[n].key
    <3>1. Before(elements, order[m], order[n])
      BY <1>1, <2>1
    <3>2. elements[order[m]].key \in Nat /\ elements[order[n]].key \in Nat
      BY <1>3, EntityFields
    <3>3. QED
      BY <1>3, <3>1, <3>2 DEF Before
  <2>2. QED
    BY <1>4, <2>1 DEF InKeyOrder
<1>9. ASSUME DistinctIDs(elements)
      PROVE  DistinctIDs(Sorted(elements))
  <2>1. ASSUME NEW m \in D, NEW n \in D, m # n
        PROVE  order[m] # order[n]
    <3>1. m < n \/ n < m
      BY <2>1, EntityFields
    <3>2. Before(elements, order[m], order[n]) \/ Before(elements, order[n], order[m])
      BY <1>1, <3>1
    <3>3. QED
      BY <1>3, <3>2, BeforeIsTotalOrder
  <2>2. QED
    BY <1>3, <1>4, <1>9, <2>1 DEF DistinctIDs
<1>10. QED
  BY <1>6, <1>7, <1>8, <1>9

\* What is in order already stays as it is: the sort is stable.
LEMMA SortedAgain ==
  ASSUME NEW elements \in Seq(Entity), InKeyOrder(elements)
  PROVE  Sorted(elements) = elements
<1> DEFINE D == DOMAIN elements
<1>1. /\ Len(elements) \in Nat
      /\ D = 1..Len(elements)
      /\ \A i \in D : elements[i].key \in Nat
  BY SeqShape, EntityFields
<1>2. \A i, j \in D : Before(elements, j, i) <=> j < i
  BY <1>1 DEF InKeyOrder, Before
<1>3. ASSUME NEW i \in D
      PROVE  Place(elements, i) = i
  <2>1. {j \in D : Before(elements, j, i)} = 1..(i - 1)
    BY <1>1, <1>2
  <2>2. Cardinality(1..(i - 1)) = i - 1
    BY <1>1, FS_Interval
  <2>3. Place(elements, i) = Cardinality(1..(i - 1)) + 1
    BY <2>1 DEF Place
  <2>4. QED
    BY <1>1, <2>2, <2>3
<1> DEFINE order(n) == CHOOSE i \in D : Place(elements, i) = n
<1>4. \A n \in D : order(n) = n
  BY <1>3
<1>5. Sorted(elements) = [n \in D |-> elements[order(n)]]
  BY DEF Sorted
<1> HIDE DEF order
<1>6. elements = [n \in D |-> elements[n]]
  BY SeqShape
<1>7. QED
  BY <1>4, <1>5, <1>6

-----------------------------------------------------------------------------
(***************************************************************************)
(* Arrays, and the slices on them.                                         *)
(***************************************************************************)

Cell == Entity \cup {Blank}

GoodHeap(heap) ==
  /\ heap = [a \in DOMAIN heap |-> heap[a]]
  /\ IsFiniteSet(DOMAIN heap)
  /\ DOMAIN heap \subseteq Nat \ {0}
  /\ \A a \in DOMAIN heap : heap[a] \in Seq(Cell)

\* A slice that lies within its array and shows only cells that were written.
Written(heap, s) ==
  /\ s \in Slice
  /\ s.array = 0 => s.len = 0
  /\ s.array # 0 =>
       /\ s.array \in DOMAIN heap
       /\ s.len <= Len(heap[s.array])
       /\ \A i \in 1..s.len : heap[s.array][i] \in Entity

LEMMA FreeArrayIsFree ==
  ASSUME NEW heap, GoodHeap(heap)
  PROVE  FreeArray(heap) \in Nat \ {0} /\ FreeArray(heap) \notin DOMAIN heap
<1> DEFINE n == Cardinality(DOMAIN heap)
<1>1. n \in Nat /\ IsFiniteSet(DOMAIN heap)
  BY FS_CardinalityType DEF GoodHeap
<1>2. Cardinality(1..(n + 1)) = n + 1
  BY <1>1, FS_Interval
<1>3. ~(1..(n + 1) \subseteq DOMAIN heap)
  <2>1. ASSUME 1..(n + 1) \in SUBSET DOMAIN heap
        PROVE  Cardinality(1..(n + 1)) <= n
    BY <1>1, <2>1, FS_Subset
  <2> HIDE DEF n
  <2>2. QED
    BY <1>1, <1>2, <2>1
<1>4. FreeArray(heap) \in 1..(n + 1) /\ FreeArray(heap) \notin DOMAIN heap
  BY <1>3 DEF FreeArray
<1>5. QED
  BY <1>1, <1>4

LEMMA ViewOfWritten ==
  ASSUME NEW heap, NEW s, Written(heap, s)
  PROVE  /\ View(heap, s) \in Seq(Entity)
         /\ Len(View(heap, s)) = s.len
         /\ s.len \in Nat
         /\ \A i \in 1..s.len : View(heap, s)[i] = heap[s.array][i]
<1>1. s.len \in Nat
  BY DEF Written, Slice
<1>2. CASE s.array = 0
  <2>1. View(heap, s) = <<>> /\ s.len = 0
    BY <1>2 DEF View, Written
  <2>2. QED
    BY <2>1
<1>3. CASE s.array # 0
  <2>1. View(heap, s) = SubSeq(heap[s.array], 1, s.len)
    BY <1>3 DEF View
  <2>2. \A i \in 1..s.len : heap[s.array][i] \in Entity
    BY <1>3 DEF Written
  <2>3. QED
    BY <1>1, <2>1, <2>2, SubSeqProperties
<1>4. QED
  BY <1>2, <1>3

\* A slice shows the same as long as its own cells are not written again.
LEMMA SameCells ==
  ASSUME NEW heap, NEW s, Written(heap, s), NEW g,
         s.array # 0 => /\ s.array \in DOMAIN g
                        /\ s.len <= Len(g[s.array])
                        /\ \A i \in 1..s.len : g[s.array][i] = heap[s.array][i]
  PROVE  Written(g, s) /\ View(g, s) = View(heap, s)
<1>1. Written(g, s)
  BY DEF Written
<1>2. \A i \in 1..s.len : View(g, s)[i] = View(heap, s)[i]
  <2>1. CASE s.array = 0
    BY <2>1 DEF View
  <2>2. CASE s.array # 0
    BY <1>1, <2>2, ViewOfWritten
  <2>3. QED
    BY <2>1, <2>2
<1>3. QED
  BY <1>1, <1>2, ViewOfWritten, SeqEqual

LEMMA SameArray ==
  ASSUME NEW heap, NEW s, Written(heap, s), NEW g,
         s.array # 0 => s.array \in DOMAIN g /\ g[s.array] = heap[s.array]
  PROVE  Written(g, s) /\ View(g, s) = View(heap, s)
BY SameCells DEF Written

\* A new array: nobody had a slice of it, and it shows what was copied into it.
LEMMA AllocateProperties ==
  ASSUME NEW heap, GoodHeap(heap), NEW elements \in Seq(Entity),
         NEW capacity \in Nat, Len(elements) <= capacity,
         NEW g, g = Allocate(heap, elements, capacity),
         NEW s, s = [array |-> FreeArray(heap), len |-> Len(elements)]
  PROVE  /\ GoodHeap(g)
         /\ \A b \in DOMAIN heap : b \in DOMAIN g /\ g[b] = heap[b]
         /\ Written(g, s)
         /\ View(g, s) = elements
<1> DEFINE a == FreeArray(heap)
<1> DEFINE rest == [i \in 1..(capacity - Len(elements)) |-> Blank]
<1>1. a \in Nat \ {0} /\ a \notin DOMAIN heap
  BY FreeArrayIsFree
<1>2. elements \in Seq(Cell) /\ rest \in Seq(Cell) /\ Len(elements) \in Nat
  <2>1. capacity - Len(elements) \in Nat
    BY SeqShape
  <2>2. rest \in [1..(capacity - Len(elements)) -> Cell]
    BY DEF Cell
  <2>3. QED
    BY <2>1, <2>2, SeqDef, SeqShape, SeqMonotonic DEF Cell
<1>3. g = [b \in DOMAIN heap \cup {a} |-> IF b # a THEN heap[b] ELSE elements \o rest]
  BY DEF Allocate
<1>4. /\ elements \o rest \in Seq(Cell)
      /\ Len(elements) <= Len(elements \o rest)
      /\ \A i \in 1..Len(elements) : (elements \o rest)[i] = elements[i]
  BY <1>2, SeqShape, ConcatProperties
<1> HIDE DEF a, rest
<1>5. /\ DOMAIN g = DOMAIN heap \cup {a}
      /\ \A b \in DOMAIN heap : g[b] = heap[b]
      /\ g[a] = elements \o rest
  BY <1>1, <1>3
<1>6. GoodHeap(g)
  <2>1. IsFiniteSet(DOMAIN heap \cup {a})
    BY FS_AddElement DEF GoodHeap
  <2>2. QED
    BY <1>1, <1>3, <1>4, <1>5, <2>1 DEF GoodHeap
<1>7. s.array = a /\ s.len = Len(elements) /\ s \in Slice
  BY <1>1, <1>2 DEF Slice, a
<1>8. Written(g, s)
  <2>1. \A i \in 1..Len(elements) : elements[i] \in Entity
    BY SeqShape
  <2>2. QED
    BY <1>1, <1>4, <1>5, <1>7, <2>1 DEF Written
<1>9. View(g, s) = elements
  BY <1>1, <1>4, <1>5, <1>7, <1>8, ViewOfWritten, SeqEqual
<1>10. QED
  BY <1>5, <1>6, <1>8, <1>9

\* append: whoever has a slice of the array still sees what was in it, for the
\* cell that is written lies beyond the slice that is appended to; a slice that is
\* longer sees the new entity in a cell that was written before.
LEMMA AppendInPlace ==
  ASSUME NEW heap, GoodHeap(heap), NEW s, Written(heap, s), NEW e \in Entity, HasRoom(heap, s),
         NEW g, g = AppendHeap(heap, s, e),
         NEW t, t = AppendSlice(heap, s)
  PROVE  /\ GoodHeap(g)
         /\ t.array = s.array /\ t.array # 0 /\ t.len = s.len + 1
         /\ Written(g, t)
         /\ View(g, t) = Append(View(heap, s), e)
         /\ \A u : Written(heap, u) =>
              /\ Written(g, u)
              /\ u.array # s.array \/ u.len <= s.len => View(g, u) = View(heap, u)
<1>1. /\ s \in Slice /\ s.array \in DOMAIN heap /\ s.array # 0
      /\ s.len \in Nat /\ s.len + 1 \in 1..Len(heap[s.array])
      /\ heap[s.array] \in Seq(Cell) /\ Len(heap[s.array]) \in Nat
      /\ e \in Cell
  BY SeqShape DEF HasRoom, Written, Slice, GoodHeap, Cell
<1>2. g = [b \in DOMAIN heap |->
             IF b = s.array THEN [heap[b] EXCEPT ![s.len + 1] = e] ELSE heap[b]]
  BY <1>1 DEF AppendHeap, GoodHeap
<1>3. t = [array |-> s.array, len |-> s.len + 1]
  BY DEF AppendSlice
<1>4. /\ [heap[s.array] EXCEPT ![s.len + 1] = e] \in Seq(Cell)
      /\ Len([heap[s.array] EXCEPT ![s.len + 1] = e]) = Len(heap[s.array])
      /\ \A i \in 1..Len(heap[s.array]) :
           [heap[s.array] EXCEPT ![s.len + 1] = e][i]
             = IF i = s.len + 1 THEN e ELSE heap[s.array][i]
  BY <1>1, ExceptSeq
<1>5. /\ DOMAIN g = DOMAIN heap
      /\ g[s.array] \in Seq(Cell)
      /\ Len(g[s.array]) = Len(heap[s.array])
      /\ \A i \in 1..Len(heap[s.array]) :
           g[s.array][i] = IF i = s.len + 1 THEN e ELSE heap[s.array][i]
      /\ \A b \in DOMAIN heap \ {s.array} : g[b] = heap[b]
  BY <1>1, <1>2, <1>4
<1>6. GoodHeap(g)
  BY <1>2, <1>5 DEF GoodHeap
<1>7. ASSUME NEW u, Written(heap, u)
      PROVE  /\ Written(g, u)
             /\ u.array # s.array \/ u.len <= s.len => View(g, u) = View(heap, u)
  <2>1. CASE u.array # s.array
    BY <1>5, <1>7, <2>1, SameArray DEF Written
  <2>2. CASE u.array = s.array
    <3>1. u \in Slice /\ u.len \in Nat /\ u.len <= Len(heap[s.array])
      BY <1>1, <1>7, <2>2 DEF Written, Slice
    <3>2. Written(g, u)
      BY <1>1, <1>5, <1>7, <2>2, <3>1 DEF Written
    <3>3. ASSUME u.len <= s.len PROVE View(g, u) = View(heap, u)
      <4>1. \A i \in 1..u.len : i \in 1..Len(heap[s.array]) /\ i # s.len + 1
        BY <1>1, <3>1, <3>3
      <4>2. \A i \in 1..u.len : g[u.array][i] = heap[u.array][i]
        BY <1>5, <2>2, <4>1
      <4>3. u.array \in DOMAIN g /\ u.len <= Len(g[u.array])
        BY <1>1, <1>5, <2>2, <3>1
      <4>4. QED
        BY <1>7, <4>2, <4>3, SameCells
    <3>4. QED
      BY <1>1, <2>2, <3>2, <3>3
  <2>3. QED
    BY <2>1, <2>2
<1>8. t.array = s.array /\ t.len = s.len + 1 /\ t \in Slice
  BY <1>1, <1>3 DEF Slice
<1>9. Written(g, t)
  <2>1. \A i \in 1..s.len : heap[s.array][i] \in Entity
    BY <1>1 DEF Written
  <2>2. \A i \in 1..(s.len + 1) : i \in 1..Len(heap[s.array]) /\ (i = s.len + 1 \/ i \in 1..s.len)
    BY <1>1
  <2>3. \A i \in 1..(s.len + 1) : g[s.array][i] \in Entity
    BY <1>5, <2>1, <2>2
  <2>4. s.len + 1 <= Len(g[s.array])
    BY <1>1, <1>5
  <2>5. QED
    BY <1>1, <1>5, <1>8, <2>3, <2>4 DEF Written
<1>10. View(g, t) = Append(View(heap, s), e)
  <2>1. /\ View(heap, s) \in Seq(Entity) /\ Len(View(heap, s)) = s.len
        /\ \A i \in 1..s.len : View(heap, s)[i] = heap[s.array][i]
    BY ViewOfWritten
  <2>2. /\ View(g, t) \in Seq(Entity) /\ Len(View(g, t)) = s.len + 1
        /\ \A i \in 1..(s.len + 1) : View(g, t)[i] = g[s.array][i]
    BY <1>8, <1>9, ViewOfWritten
  <2>3. /\ Append(View(heap, s), e) \in Seq(Entity)
        /\ Len(Append(View(heap, s), e)) = s.len + 1
        /\ \A i \in 1..s.len : Append(View(heap, s), e)[i] = View(heap, s)[i]
        /\ Append(View(heap, s), e)[s.len + 1] = e
    BY <2>1, AppendProperties
  <2>4. \A i \in 1..(s.len + 1) : View(g, t)[i] = Append(View(heap, s), e)[i]
    <3>1. ASSUME NEW i \in 1..s.len
          PROVE  View(g, t)[i] = Append(View(heap, s), e)[i]
      <4>1. i \in 1..(s.len + 1) /\ i \in 1..Len(heap[s.array]) /\ i # s.len + 1
        BY <1>1
      <4>2. QED
        BY <1>5, <2>1, <2>2, <2>3, <4>1
    <3>2. View(g, t)[s.len + 1] = e
      BY <1>1, <1>5, <2>2
    <3>3. \A i \in 1..(s.len + 1) : i = s.len + 1 \/ i \in 1..s.len
      BY <1>1
    <3>4. QED
      BY <2>3, <3>1, <3>2, <3>3
  <2>5. QED
    BY <2>2, <2>3, <2>4, SeqEqual
<1>11. QED
  BY <1>1, <1>6, <1>7, <1>8, <1>9, <1>10

LEMMA AppendToCopy ==
  ASSUME NEW heap, GoodHeap(heap), NEW s, Written(heap, s), NEW e \in Entity, ~HasRoom(heap, s),
         NEW g, g = AppendHeap(heap, s, e),
         NEW t, t = AppendSlice(heap, s)
  PROVE  /\ GoodHeap(g)
         /\ t.array \notin DOMAIN heap /\ t.array # 0 /\ t.len = s.len + 1
         /\ Written(g, t)
         /\ View(g, t) = Append(View(heap, s), e)
         /\ \A u : Written(heap, u) => Written(g, u) /\ View(g, u) = View(heap, u)
<1> DEFINE elements == Append(View(heap, s), e)
<1> DEFINE capacity == IF s.len = 0 THEN 1 ELSE 2 * s.len
<1>1. elements \in Seq(Entity) /\ Len(elements) = s.len + 1 /\ s.len \in Nat
  BY ViewOfWritten, AppendProperties
<1>2. capacity \in Nat /\ Len(elements) <= capacity
  BY <1>1
<1>3. g = Allocate(heap, elements, capacity)
  BY DEF AppendHeap
<1>4. t = [array |-> FreeArray(heap), len |-> Len(elements)]
  BY <1>1 DEF AppendSlice
<1> HIDE DEF elements, capacity
<1>5. /\ GoodHeap(g)
      /\ \A b \in DOMAIN heap : g[b] = heap[b] /\ b \in DOMAIN g
      /\ Written(g, t)
      /\ View(g, t) = elements
  BY <1>1, <1>2, <1>3, <1>4, AllocateProperties
<1>6. ASSUME NEW u, Written(heap, u)
      PROVE  Written(g, u) /\ View(g, u) = View(heap, u)
  BY <1>5, <1>6, SameArray DEF Written
<1>7. t.array \notin DOMAIN heap /\ t.array # 0 /\ t.len = s.len + 1
  BY <1>1, <1>4, FreeArrayIsFree
<1>8. QED
  BY <1>5, <1>6, <1>7 DEF elements

\* The sort of a slice in its array.
LEMMA SortCells ==
  ASSUME NEW cells \in Seq(Cell), NEW n \in Nat, n <= Len(cells),
         \A i \in 1..n : cells[i] \in Entity
  PROVE  LET first == Sorted(SubSeq(cells, 1, n))
             all == first \o SubSeq(cells, n + 1, Len(cells))
         IN  /\ SubSeq(cells, 1, n) \in Seq(Entity)
             /\ first \in Seq(Entity) /\ Len(first) = n
             /\ all \in Seq(Cell)
             /\ Len(all) = Len(cells)
             /\ \A i \in 1..n : all[i] = first[i] /\ all[i] \in Entity
             /\ \A i \in 1..Len(cells) : i > n => all[i] = cells[i]
<1> DEFINE shown == SubSeq(cells, 1, n)
<1> DEFINE first == Sorted(shown)
<1> DEFINE rest == SubSeq(cells, n + 1, Len(cells))
<1>1. Len(cells) \in Nat /\ \A i \in 1..Len(cells) : cells[i] \in Cell
  BY SeqShape
<1>2. shown \in Seq(Entity) /\ Len(shown) = n
  BY SubSeqProperties
<1>3. first \in Seq(Entity) /\ Len(first) = n
  BY <1>2, SortedProperties
<1>4. /\ rest \in Seq(Cell)
      /\ Len(rest) = Len(cells) - n
      /\ \A i \in 1..(Len(cells) - n) : rest[i] = cells[n + i]
  <2>1. \A i \in (n + 1)..Len(cells) : cells[i] \in Cell
    BY <1>1
  <2>2. /\ rest \in Seq(Cell)
        /\ Len(rest) = IF n + 1 <= Len(cells) THEN Len(cells) - (n + 1) + 1 ELSE 0
        /\ \A i \in 1..(Len(cells) - (n + 1) + 1) : rest[i] = cells[n + 1 + i - 1]
    BY <1>1, <2>1, SubSeqProperties
  <2> HIDE DEF rest
  <2>3. \A i \in 1..(Len(cells) - n) : i \in 1..(Len(cells) - (n + 1) + 1) /\ n + 1 + i - 1 = n + i
    BY <1>1
  <2>4. QED
    BY <1>1, <2>2, <2>3
<1>5. first \in Seq(Cell) /\ \A i \in 1..n : first[i] \in Entity
  BY <1>3, SeqShape, SeqMonotonic DEF Cell
<1> HIDE DEF shown, first, rest
<1>6. /\ first \o rest \in Seq(Cell)
      /\ Len(first \o rest) = Len(cells)
      /\ \A i \in 1..Len(cells) :
           (first \o rest)[i] = IF i <= n THEN first[i] ELSE rest[i - n]
  <2>1. /\ first \o rest \in Seq(Cell)
        /\ Len(first \o rest) = Len(first) + Len(rest)
        /\ \A i \in 1..(Len(first) + Len(rest)) :
             (first \o rest)[i] = IF i <= Len(first) THEN first[i] ELSE rest[i - Len(first)]
    BY <1>4, <1>5, ConcatProperties
  <2>2. Len(first) + Len(rest) = Len(cells)
    BY <1>1, <1>3, <1>4
  <2>3. QED
    BY <1>3, <2>1, <2>2
<1>7. \A i \in 1..n : (first \o rest)[i] = first[i] /\ (first \o rest)[i] \in Entity
  BY <1>1, <1>5, <1>6
<1>8. ASSUME NEW i \in 1..Len(cells), i > n
      PROVE  (first \o rest)[i] = cells[i]
  <2>1. i - n \in 1..(Len(cells) - n) /\ n + (i - n) = i /\ ~(i <= n)
    BY <1>1, <1>8
  <2>2. QED
    BY <1>4, <1>6, <2>1
<1>9. QED
  BY <1>2, <1>3, <1>6, <1>7, <1>8 DEF shown, first, rest

\* What a plan's slices are to one another: the slices of two kinds never share
\* an array.
KindsApart(p, q) ==
  \A k, l \in Kind : k # l /\ p[k].array = q[l].array => p[k].array = 0

\* The sort of a plan permutes what its slices show.  A slice that somebody else
\* has of one of the arrays may come to show something else, but only entities.
LEMMA SortPlanProperties ==
  ASSUME NEW heap, GoodHeap(heap), NEW p, \A k \in Kind : Written(heap, p[k]),
         NEW g, g = SortPBXPlan(heap, p)
  PROVE  /\ GoodHeap(g)
         /\ DOMAIN g = DOMAIN heap
         /\ \A u : Written(heap, u) => Written(g, u)
         /\ \A b \in DOMAIN heap : (\A k \in Kind : p[k].array # b) => g[b] = heap[b]
         /\ KindsApart(p, p) =>
              \A k \in Kind :
                /\ View(g, p[k]) = Sorted(View(heap, p[k]))
                /\ InKeyOrder(View(heap, p[k])) /\ p[k].array # 0
                     => g[p[k].array] = heap[p[k].array]
<1> DEFINE lens(a) == {p[k].len : k \in {l \in Kind : p[l].array = a}}
<1> DEFINE n(a) == CHOOSE m \in lens(a) : TRUE
<1> DEFINE sorted(a) == Sorted(SubSeq(heap[a], 1, n(a))) \o SubSeq(heap[a], n(a) + 1, Len(heap[a]))
<1>1. g = [a \in DOMAIN heap |-> IF lens(a) = {} THEN heap[a] ELSE sorted(a)]
  BY DEF SortPBXPlan
<1>2. ASSUME NEW a \in DOMAIN heap, lens(a) # {}
      PROVE  \E k \in Kind : p[k].array = a /\ n(a) = p[k].len
  <2>1. n(a) \in lens(a)
    BY <1>2
  <2> HIDE DEF n
  <2>2. QED
    BY <2>1
<1>3. ASSUME NEW a \in DOMAIN heap, lens(a) # {}
      PROVE  /\ n(a) \in Nat /\ n(a) <= Len(heap[a])
             /\ \A i \in 1..n(a) : heap[a][i] \in Entity
  <2>1. PICK k \in Kind : p[k].array = a /\ n(a) = p[k].len
    BY <1>2, <1>3
  <2>2. Written(heap, p[k]) /\ a # 0
    BY DEF GoodHeap
  <2> HIDE DEF n
  <2>3. QED
    BY <2>1, <2>2 DEF Written, Slice
<1> HIDE DEF n, lens
<1>4. ASSUME NEW a \in DOMAIN heap
      PROVE  /\ g[a] \in Seq(Cell)
             /\ Len(g[a]) = Len(heap[a])
             /\ \A i \in 1..Len(heap[a]) : heap[a][i] \in Entity => g[a][i] \in Entity
             /\ lens(a) = {} => g[a] = heap[a]
             /\ lens(a) # {} =>
                  /\ \A i \in 1..n(a) : g[a][i] = Sorted(SubSeq(heap[a], 1, n(a)))[i]
                  /\ \A i \in 1..Len(heap[a]) : i > n(a) => g[a][i] = heap[a][i]
  <2>1. heap[a] \in Seq(Cell) /\ Len(heap[a]) \in Nat
    BY SeqShape DEF GoodHeap
  <2>2. CASE lens(a) = {}
    BY <1>1, <2>1, <2>2
  <2>3. CASE lens(a) # {}
    <3> DEFINE m == n(a)
    <3>1. /\ m \in Nat /\ m <= Len(heap[a])
          /\ \A i \in 1..m : heap[a][i] \in Entity
      BY <1>3, <2>3
    <3>2. g[a] = Sorted(SubSeq(heap[a], 1, m)) \o SubSeq(heap[a], m + 1, Len(heap[a]))
      BY <1>1, <2>3
    <3> HIDE DEF m
    <3>3. /\ g[a] \in Seq(Cell)
          /\ Len(g[a]) = Len(heap[a])
          /\ \A i \in 1..m : g[a][i] = Sorted(SubSeq(heap[a], 1, m))[i] /\ g[a][i] \in Entity
          /\ \A i \in 1..Len(heap[a]) : i > m => g[a][i] = heap[a][i]
      <4> DEFINE all == Sorted(SubSeq(heap[a], 1, m)) \o SubSeq(heap[a], m + 1, Len(heap[a]))
      <4>1. /\ all \in Seq(Cell)
            /\ Len(all) = Len(heap[a])
            /\ \A i \in 1..m : all[i] = Sorted(SubSeq(heap[a], 1, m))[i] /\ all[i] \in Entity
            /\ \A i \in 1..Len(heap[a]) : i > m => all[i] = heap[a][i]
        BY <2>1, <3>1, SortCells
      <4>2. g[a] = all
        BY <3>2
      <4> HIDE DEF all
      <4>3. QED
        BY <4>1, <4>2
    <3>4. \A i \in 1..Len(heap[a]) : i \in 1..m \/ i > m
      BY <2>1, <3>1
    <3>5. QED
      BY <2>3, <3>3, <3>4 DEF m
  <2>4. QED
    BY <2>2, <2>3
<1>5. DOMAIN g = DOMAIN heap /\ g = [a \in DOMAIN g |-> g[a]]
  BY <1>1
<1>6. GoodHeap(g)
  BY <1>4, <1>5 DEF GoodHeap
<1>7. ASSUME NEW u, Written(heap, u)
      PROVE  Written(g, u)
  <2>1. CASE u.array = 0
    BY <1>7, <2>1 DEF Written
  <2>2. CASE u.array # 0
    <3>1. /\ u \in Slice /\ u.len \in Nat /\ u.array \in DOMAIN heap
          /\ u.len <= Len(heap[u.array]) /\ Len(heap[u.array]) \in Nat
          /\ \A i \in 1..u.len : heap[u.array][i] \in Entity
      BY <1>7, <2>2, SeqShape DEF Written, Slice, GoodHeap
    <3>2. \A i \in 1..u.len : g[u.array][i] \in Entity
      BY <1>4, <3>1
    <3>3. QED
      BY <1>4, <1>5, <2>2, <3>1, <3>2 DEF Written
  <2>3. QED
    BY <2>1, <2>2
<1>8. ASSUME NEW b \in DOMAIN heap, \A k \in Kind : p[k].array # b
      PROVE  g[b] = heap[b]
  <2>1. lens(b) = {}
    BY <1>8 DEF lens
  <2>2. QED
    BY <1>4, <2>1
<1>9. ASSUME KindsApart(p, p), NEW k \in Kind
      PROVE  View(g, p[k]) = Sorted(View(heap, p[k]))
  <2>1. CASE p[k].array = 0
    <3>1. View(g, p[k]) = <<>> /\ View(heap, p[k]) = <<>>
      BY <2>1 DEF View
    <3>2. Sorted(<<>>) \in Seq(Entity) /\ Len(Sorted(<<>>)) = 0
      BY SortedProperties, EmptySeq
    <3>3. Sorted(<<>>) = <<>>
      BY <3>2, EmptySeq
    <3>4. QED
      BY <3>1, <3>3
  <2>2. CASE p[k].array # 0
    <3> DEFINE a == p[k].array
    <3>1. a \in DOMAIN heap /\ p[k].len \in Nat
      BY <2>2 DEF Written, Slice
    <3>2. lens(a) = {p[k].len}
      BY <1>9, <2>2 DEF lens, KindsApart
    <3>3. n(a) = p[k].len
      BY <3>2 DEF n
    <3>4. View(heap, p[k]) = SubSeq(heap[a], 1, p[k].len)
      BY <2>2 DEF View
    <3>5. View(heap, p[k]) \in Seq(Entity) /\ Len(View(heap, p[k])) = p[k].len
      BY ViewOfWritten
    <3>6. /\ Sorted(View(heap, p[k])) \in Seq(Entity)
          /\ Len(Sorted(View(heap, p[k]))) = p[k].len
      BY <3>5, SortedProperties
    <3>7. \A i \in 1..p[k].len : g[a][i] = Sorted(View(heap, p[k]))[i]
      <4>1. \A i \in 1..n(a) : g[a][i] = Sorted(SubSeq(heap[a], 1, n(a)))[i]
        BY <1>4, <3>1, <3>2
      <4>2. SubSeq(heap[a], 1, n(a)) = View(heap, p[k])
        BY <3>3, <3>4
      <4>3. QED
        BY <3>3, <4>1, <4>2
    <3>8. Written(g, p[k])
      BY <1>7
    <3>9. /\ View(g, p[k]) \in Seq(Entity) /\ Len(View(g, p[k])) = p[k].len
          /\ \A i \in 1..p[k].len : View(g, p[k])[i] = g[a][i]
      BY <3>8, ViewOfWritten
    <3>10. PICK u, v : u = View(g, p[k]) /\ v = Sorted(View(heap, p[k]))
      OBVIOUS
    <3>11. u \in Seq(Entity) /\ v \in Seq(Entity) /\ Len(u) = Len(v)
      BY <3>6, <3>9, <3>10
    <3>12. \A i \in 1..Len(u) : u[i] = v[i]
      BY <3>7, <3>9, <3>10
    <3>13. u = v
      BY <3>11, <3>12, SeqEqual
    <3>14. QED
      BY <3>10, <3>13
  <2>3. QED
    BY <2>1, <2>2
<1>10. ASSUME KindsApart(p, p), NEW k \in Kind,
              InKeyOrder(View(heap, p[k])), p[k].array # 0
       PROVE  g[p[k].array] = heap[p[k].array]
  <2> DEFINE a == p[k].array
  <2>1. /\ a \in DOMAIN heap /\ p[k].len \in Nat
        /\ heap[a] \in Seq(Cell) /\ p[k].len <= Len(heap[a])
    BY <1>10 DEF Written, Slice, GoodHeap
  <2>2. View(g, p[k]) = View(heap, p[k])
    BY <1>9, <1>10, SortedAgain, ViewOfWritten
  <2>3. ASSUME NEW i \in 1..Len(heap[a])
        PROVE  g[a][i] = heap[a][i]
    <3>1. CASE i \in 1..p[k].len
      BY <1>7, <2>2, <3>1, ViewOfWritten
    <3>2. CASE i \notin 1..p[k].len
      <4>1. lens(a) = {p[k].len} /\ n(a) = p[k].len
        BY <1>10 DEF lens, n, KindsApart
      <4>2. i > n(a)
        BY <2>1, <3>2, <4>1
      <4>3. QED
        BY <1>4, <2>1, <4>1, <4>2
    <3>3. QED
      BY <3>1, <3>2
  <2>4. g[a] \in Seq(Cell) /\ Len(g[a]) = Len(heap[a])
    BY <1>4, <2>1
  <2>5. PICK u, v : u = g[a] /\ v = heap[a]
    OBVIOUS
  <2>6. u = v
    BY <2>1, <2>3, <2>4, <2>5, SeqEqual
  <2>7. QED
    BY <2>5, <2>6
<1>11. QED
  BY <1>5, <1>6, <1>7, <1>8, <1>9, <1>10

-----------------------------------------------------------------------------
(***************************************************************************)
(* The next ID, and what deleteFromSlice leaves.                           *)
(***************************************************************************)

LEMMA MaxOfIDs ==
  ASSUME NEW S \in SUBSET Nat, IsFiniteSet(S)
  PROVE  Max(S \cup {0}) \in Nat /\ \A y \in S : y <= Max(S \cup {0})
<1>1. IsFiniteSet(S \cup {0}) /\ S \cup {0} # {} /\ S \cup {0} \in SUBSET Nat
  BY FS_AddElement
<1>2. \E x \in S \cup {0} : \A y \in S \cup {0} : y <= x
  BY <1>1, GreatestOfFinite
<1>3. \E x \in S \cup {0} : \A y \in S \cup {0} : x >= y
  BY <1>1, <1>2
<1>4. Max(S \cup {0}) \in S \cup {0} /\ \A y \in S \cup {0} : Max(S \cup {0}) >= y
  BY <1>3 DEF Max
<1>5. QED
  BY <1>1, <1>4

LEMMA NextIDIsNew ==
  ASSUME NEW elements \in Seq(Entity)
  PROVE  /\ NextID(elements) \in Nat \ {0}
         /\ \A i \in DOMAIN elements : elements[i].id < NextID(elements)
<1> DEFINE D == DOMAIN elements
<1> DEFINE id == [i \in D |-> elements[i].id]
<1> DEFINE S == {elements[i].id : i \in D}
<1>1. IsFiniteSet(D)
  BY SeqShape, FS_Interval
<1>2. S \in SUBSET Nat /\ \A i \in D : elements[i].id \in S
  BY EntityFields
<1>3. id \in Surjection(D, S)
  BY DEF Surjection
<1>4. IsFiniteSet(S)
  BY <1>1, <1>3, FS_Surjection
<1>5. Max(S \cup {0}) \in Nat /\ \A y \in S : y <= Max(S \cup {0})
  BY <1>2, <1>4, MaxOfIDs
<1>6. NextID(elements) = Max(S \cup {0}) + 1
  BY DEF NextID
<1> DEFINE m == Max(S \cup {0})
<1> HIDE DEF m, S
<1>7. m \in Nat /\ (\A y \in S : y <= m) /\ NextID(elements) = m + 1
  BY <1>5, <1>6 DEF m
<1>8. \A i \in D : elements[i].id \in Nat /\ elements[i].id <= m
  BY <1>2, <1>7
<1>9. QED
  BY <1>7, <1>8

LEMMA WithoutIDIs ==
  ASSUME NEW elements \in Seq(Entity), NEW id
  PROVE  \/ /\ \A i \in DOMAIN elements : elements[i].id # id
            /\ WithoutID(elements, id) = elements
         \/ \E i \in DOMAIN elements :
              /\ elements[i].id = id
              /\ WithoutID(elements, id) = RemoveAt(elements, i)
<1>1. DOMAIN elements = 1..Len(elements) /\ Len(elements) \in Nat
  BY SeqShape
<1>2. CASE \A i \in DOMAIN elements : elements[i].id # id
  BY <1>1, <1>2 DEF WithoutID, RemoveFirstMatch
<1>3. CASE \E i \in DOMAIN elements : elements[i].id = id
  <2> DEFINE I == {i \in 1..Len(elements) : elements[i].id = id}
  <2>1. I # {} /\ I \in SUBSET Nat
    BY <1>1, <1>3
  <2>2. Min(I) \in I
    BY <2>1, LeastNatural DEF Min
  <2>3. WithoutID(elements, id) = RemoveAt(elements, Min(I))
    BY <1>1, <1>3, <2>1 DEF WithoutID, RemoveFirstMatch, SelectInSeq
  <2>4. QED
    BY <1>1, <2>2, <2>3
<1>4. QED
  BY <1>2, <1>3

LEMMA RemoveAtProperties ==
  ASSUME NEW elements \in Seq(Entity), NEW i \in DOMAIN elements
  PROVE  /\ RemoveAt(elements, i) \in Seq(Entity)
         /\ Len(RemoveAt(elements, i)) = Len(elements) - 1
         /\ \A j \in 1..(Len(elements) - 1) :
              RemoveAt(elements, i)[j] = IF j < i THEN elements[j] ELSE elements[j + 1]
<1> DEFINE n == Len(elements)
<1> DEFINE head == SubSeq(elements, 1, i - 1)
<1> DEFINE tail == SubSeq(elements, i + 1, n)
<1>1. n \in Nat /\ i \in 1..n /\ \A j \in 1..n : elements[j] \in Entity
  BY SeqShape
<1>2. /\ head \in Seq(Entity) /\ Len(head) = i - 1
      /\ \A j \in 1..(i - 1) : head[j] = elements[j]
  <2>1. /\ head \in Seq(Entity)
        /\ Len(head) = IF 1 <= i - 1 THEN (i - 1) - 1 + 1 ELSE 0
        /\ \A j \in 1..((i - 1) - 1 + 1) : head[j] = elements[1 + j - 1]
    BY <1>1, SubSeqProperties
  <2> HIDE DEF head
  <2>2. (i - 1) - 1 + 1 = i - 1 /\ \A j \in 1..(i - 1) : 1 + j - 1 = j
    BY <1>1
  <2>3. QED
    BY <1>1, <2>1, <2>2
<1>3. /\ tail \in Seq(Entity) /\ Len(tail) = n - i
      /\ \A j \in 1..(n - i) : tail[j] = elements[i + j]
  <2>1. /\ tail \in Seq(Entity)
        /\ Len(tail) = IF i + 1 <= n THEN n - (i + 1) + 1 ELSE 0
        /\ \A j \in 1..(n - (i + 1) + 1) : tail[j] = elements[i + 1 + j - 1]
    BY <1>1, SubSeqProperties
  <2> HIDE DEF tail
  <2>2. n - (i + 1) + 1 = n - i /\ \A j \in 1..(n - i) : i + 1 + j - 1 = i + j
    BY <1>1
  <2>3. QED
    BY <1>1, <2>1, <2>2
<1>4. RemoveAt(elements, i) = head \o tail
  BY DEF RemoveAt
<1> HIDE DEF n, head, tail
<1>5. /\ head \o tail \in Seq(Entity)
      /\ Len(head \o tail) = Len(head) + Len(tail)
      /\ \A j \in 1..(Len(head) + Len(tail)) :
           (head \o tail)[j] = IF j <= Len(head) THEN head[j] ELSE tail[j - Len(head)]
  BY <1>2, <1>3, ConcatProperties
<1>6. Len(head) + Len(tail) = n - 1
  BY <1>1, <1>2, <1>3
<1>7. ASSUME NEW j \in 1..(n - 1)
      PROVE  (head \o tail)[j] = IF j < i THEN elements[j] ELSE elements[j + 1]
  <2>1. CASE j < i
    <3>1. j \in 1..(i - 1) /\ j <= Len(head)
      BY <1>1, <1>2, <2>1
    <3>2. QED
      BY <1>2, <1>5, <1>6, <2>1, <3>1
  <2>2. CASE ~(j < i)
    <3>1. /\ j - (i - 1) \in 1..(n - i) /\ ~(j <= Len(head))
          /\ i + (j - (i - 1)) = j + 1
      BY <1>1, <1>2, <2>2
    <3>2. (head \o tail)[j] = tail[j - (i - 1)]
      BY <1>2, <1>5, <1>6, <3>1
    <3>3. QED
      BY <1>3, <2>2, <3>1, <3>2
  <2>3. QED
    BY <2>1, <2>2
<1>8. QED
  BY <1>4, <1>5, <1>6, <1>7 DEF n

\* Of entities with IDs of their own exactly the one with the ID goes.
LEMMA RemoveAtRemovesOne ==
  ASSUME NEW elements \in Seq(Entity), DistinctIDs(elements), NEW i \in DOMAIN elements
  PROVE  /\ DistinctIDs(RemoveAt(elements, i))
         /\ ToSet(RemoveAt(elements, i)) = {e \in ToSet(elements) : e.id # elements[i].id}
<1> DEFINE n == Len(elements)
<1> DEFINE rest == RemoveAt(elements, i)
<1> DEFINE from(j) == IF j < i THEN j ELSE j + 1
<1>1. n \in Nat /\ DOMAIN elements = 1..n /\ i \in 1..n
  BY SeqShape
<1>2. DOMAIN rest = 1..(n - 1)
  BY RemoveAtProperties, SeqShape
<1>3. \A j \in 1..(n - 1) : from(j) \in 1..n /\ from(j) # i /\ rest[j] = elements[from(j)]
  BY <1>1, RemoveAtProperties
<1>4. \A j, k \in 1..(n - 1) : j # k => from(j) # from(k)
  BY <1>1
<1>5. ASSUME NEW m \in 1..n, m # i
      PROVE  \E j \in 1..(n - 1) : from(j) = m
  <2>1. CASE m < i
    <3>1. m \in 1..(n - 1) /\ from(m) = m
      BY <1>1, <2>1
    <3>2. QED
      BY <3>1
  <2>2. CASE i < m
    <3>1. m - 1 \in 1..(n - 1) /\ from(m - 1) = m
      BY <1>1, <2>2
    <3>2. QED
      BY <3>1
  <2>3. QED
    BY <1>1, <1>5, <2>1, <2>2
<1> HIDE DEF n, rest, from
<1>6. DistinctIDs(rest)
  BY <1>1, <1>2, <1>3, <1>4 DEF DistinctIDs
<1>7. ToSet(rest) = {e \in ToSet(elements) : e.id # elements[i].id}
  <2>1. \A m \in 1..n : m # i <=> elements[m].id # elements[i].id
    BY <1>1 DEF DistinctIDs
  <2>2. \A e : e \in ToSet(rest) <=> \E j \in 1..(n - 1) : e = rest[j]
    BY <1>2 DEF ToSet
  <2>3. \A e : e \in ToSet(elements) <=> \E m \in 1..n : e = elements[m]
    BY <1>1 DEF ToSet
  <2>4. ASSUME NEW e \in ToSet(rest)
        PROVE  e \in ToSet(elements) /\ e.id # elements[i].id
    BY <1>3, <2>1, <2>2, <2>3
  <2>5. ASSUME NEW e \in ToSet(elements), e.id # elements[i].id
        PROVE  e \in ToSet(rest)
    <3>1. PICK m \in 1..n : e = elements[m]
      BY <2>3
    <3>2. m # i
      BY <2>1, <2>5, <3>1
    <3>3. PICK j \in 1..(n - 1) : from(j) = m
      BY <1>5, <3>2
    <3>4. QED
      BY <1>3, <2>2, <3>1, <3>3
  <2>6. QED
    BY <2>4, <2>5
<1>8. QED
  BY <1>6, <1>7 DEF rest

LEMMA WithoutIDProperties ==
  ASSUME NEW elements \in Seq(Entity), NEW id
  PROVE  /\ WithoutID(elements, id) \in Seq(Entity)
         /\ Len(WithoutID(elements, id)) <= Len(elements)
         /\ WithoutID(elements, id) # elements => \E e \in ToSet(elements) : e.id = id
         /\ DistinctIDs(elements) /\ WithoutID(elements, id) # elements =>
              /\ DistinctIDs(WithoutID(elements, id))
              /\ ToSet(WithoutID(elements, id)) = {e \in ToSet(elements) : e.id # id}
<1>1. CASE WithoutID(elements, id) = elements
  BY <1>1, SeqShape
<1>2. CASE \E i \in DOMAIN elements :
             elements[i].id = id /\ WithoutID(elements, id) = RemoveAt(elements, i)
  <2>1. PICK i \in DOMAIN elements :
          elements[i].id = id /\ WithoutID(elements, id) = RemoveAt(elements, i)
    BY <1>2
  <2>2. /\ RemoveAt(elements, i) \in Seq(Entity)
        /\ Len(RemoveAt(elements, i)) <= Len(elements)
    BY RemoveAtProperties, SeqShape
  <2>3. elements[i] \in ToSet(elements)
    BY DEF ToSet
  <2>4. QED
    BY <2>1, <2>2, <2>3, RemoveAtRemovesOne
<1>3. QED
  BY <1>1, <1>2, WithoutIDIs

-----------------------------------------------------------------------------
(***************************************************************************)
(* The tables, whatever requests run at the same time.                     *)
(***************************************************************************)

TablesInv ==
  /\ GoodHeap(arrays)
  /\ plan \in [Kind -> Slice]
  /\ held \in [Request -> [Kind -> Slice]]
  /\ \A k \in Kind : Written(arrays, plan[k])
  /\ \A r \in Request, k \in Kind : Written(arrays, held[r][k])

WriterStep == {"idle", "number", "append", "filter", "sort", "save"}

Job == [op: {"none", "create", "delete", "list"}, kind: Kind \cup {"none"},
        id: Nat, key: Key \cup {0}]

\* What a writer was sent for goes with the step it is at.
JobsInv ==
  /\ DOMAIN pc = Request
  /\ job \in [Request -> Job]
  /\ acked \in [Kind -> SUBSET Entity]
  /\ \A w \in Writer :
       /\ pc[w] \in WriterStep
       /\ pc[w] # "idle" => job[w].kind \in Kind
       /\ pc[w] \in {"number", "append"} => job[w].op = "create"
       /\ pc[w] = "filter" => job[w].op = "delete"
       /\ pc[w] \in {"sort", "save"} => job[w].op \in {"create", "delete"}
       /\ job[w].op = "create" => job[w].key \in Key
       /\ pc[w] \in {"append", "sort", "save"} /\ job[w].op = "create" => job[w].id # 0

\* The garbage collector takes no array that somebody has a slice of.
LEMMA Collected ==
  ASSUME NEW heap, GoodHeap(heap), Update(heap),
         plan' \in [Kind -> Slice], held' \in [Request -> [Kind -> Slice]],
         \A k \in Kind : Written(heap, plan'[k]),
         \A r \in Request, k \in Kind : Written(heap, held'[r][k])
  PROVE  /\ TablesInv'
         /\ \A k \in Kind : View(arrays', plan'[k]) = View(heap, plan'[k])
         /\ \A r \in Request, k \in Kind : View(arrays', held'[r][k]) = View(heap, held'[r][k])
<1> DEFINE plans == {plan'} \cup {held'[r] : r \in Request}
<1> DEFINE live == {p[k].array : p \in plans, k \in Kind} \ {0}
<1>1. arrays' = [a \in DOMAIN heap \cap live |-> heap[a]]
  BY DEF Update, Collect
<1>2. \A k \in Kind : plan'[k].array # 0 => plan'[k].array \in live
  OBVIOUS
<1>3. \A r \in Request, k \in Kind : held'[r][k].array # 0 => held'[r][k].array \in live
  OBVIOUS
<1> HIDE DEF live
<1>4. /\ DOMAIN arrays' = DOMAIN heap \cap live
      /\ \A a \in DOMAIN heap \cap live : arrays'[a] = heap[a]
  BY <1>1
<1>5. GoodHeap(arrays')
  <2>1. IsFiniteSet(DOMAIN heap \cap live)
    BY FS_Subset DEF GoodHeap
  <2>2. QED
    BY <1>1, <1>4, <2>1 DEF GoodHeap
<1>6. \A k \in Kind : /\ Written(arrays', plan'[k])
                      /\ View(arrays', plan'[k]) = View(heap, plan'[k])
  BY <1>2, <1>4, SameArray DEF Written
<1>7. \A r \in Request, k \in Kind :
        Written(arrays', held'[r][k]) /\ View(arrays', held'[r][k]) = View(heap, held'[r][k])
  BY <1>3, <1>4, SameArray DEF Written
<1>8. QED
  BY <1>5, <1>6, <1>7 DEF TablesInv

LEMMA EmptyIsWritten ==
  ASSUME NEW heap
  PROVE  NoPlan \in [Kind -> Slice] /\ \A k \in Kind : Written(heap, NoPlan[k])
BY DEF NoPlan, EmptySlice, Slice, Written

\* Reading the plan gives a request the stored slices, not copies of them.
LEMMA ShareStep ==
  ASSUME TablesInv, NEW r \in Request, held' = [held EXCEPT ![r] = plan],
         UNCHANGED <<arrays, plan>>
  PROVE  TablesInv'
<1>1. /\ held' \in [Request -> [Kind -> Slice]]
      /\ \A q \in Request : held'[q] = IF q = r THEN plan ELSE held[q]
  BY DEF TablesInv
<1>2. QED
  BY <1>1 DEF TablesInv

\* A request that answers drops its slices.
LEMMA DropStep ==
  ASSUME TablesInv, NEW r \in Request, held' = [held EXCEPT ![r] = NoPlan],
         plan' = plan, Update(arrays)
  PROVE  /\ TablesInv'
         /\ \A k \in Kind : View(arrays', plan'[k]) = View(arrays, plan[k])
         /\ \A q \in Request, k \in Kind :
              View(arrays', held'[q][k]) = View(arrays, held'[q][k])
<1>1. PICK heap : heap = arrays
  OBVIOUS
<1>2. /\ held' \in [Request -> [Kind -> Slice]]
      /\ \A q \in Request : held'[q] = IF q = r THEN NoPlan ELSE held[q]
  BY EmptyIsWritten DEF TablesInv
<1>3. \A q \in Request, k \in Kind : Written(heap, held'[q][k])
  BY <1>1, <1>2, EmptyIsWritten DEF TablesInv
<1>4. /\ GoodHeap(heap) /\ Update(heap) /\ plan' \in [Kind -> Slice]
      /\ \A k \in Kind : Written(heap, plan'[k])
  BY <1>1 DEF TablesInv
<1>5. QED
  BY <1>1, <1>2, <1>3, <1>4, Collected

Handed(r, k, s) == held' = [held EXCEPT ![r][k] = s]

LEMMA HeldChange ==
  ASSUME TablesInv, NEW w \in Request, NEW k \in Kind, NEW t \in Slice,
         Handed(w, k, t)
  PROVE  /\ held' \in [Request -> [Kind -> Slice]]
         /\ \A q \in Request, l \in Kind :
              held'[q][l] = IF q = w /\ l = k THEN t ELSE held[q][l]
<1>1. held' = [held EXCEPT ![w] = [held[w] EXCEPT ![k] = t]]
  BY DEF TablesInv, Handed
<1>2. held[w] \in [Kind -> Slice]
  BY DEF TablesInv
<1>3. [held[w] EXCEPT ![k] = t] \in [Kind -> Slice]
  BY <1>2
<1>4. \A l \in Kind : [held[w] EXCEPT ![k] = t][l] = IF l = k THEN t ELSE held[w][l]
  BY <1>2
<1>5. PICK p : p = [held[w] EXCEPT ![k] = t]
  OBVIOUS
<1>6. /\ held' \in [Request -> [Kind -> Slice]]
      /\ \A q \in Request : held'[q] = IF q = w THEN p ELSE held[q]
  <2>1. held' = [held EXCEPT ![w] = p] /\ p \in [Kind -> Slice]
    BY <1>1, <1>3, <1>5
  <2>2. held \in [Request -> [Kind -> Slice]]
    BY DEF TablesInv
  <2>3. QED
    BY <2>1, <2>2
<1>7. \A l \in Kind : p[l] = IF l = k THEN t ELSE held[w][l]
  BY <1>4, <1>5
<1>8. ASSUME NEW q \in Request, NEW l \in Kind
      PROVE  held'[q][l] = IF q = w /\ l = k THEN t ELSE held[q][l]
  <2>1. held'[q] = IF q = w THEN p ELSE held[q]
    BY <1>6
  <2>2. CASE q = w
    BY <1>7, <2>1, <2>2, Zenon
  <2>3. CASE q # w
    BY <2>1, <2>3, Zenon
  <2>4. QED
    BY <2>2, <2>3, Zenon
<1>9. QED
  BY <1>6, <1>8

\* The step that appends.  Only a slice of the same array, and of more cells than
\* the one that is appended to, can come to show something else.
LEMMA AppendStep ==
  ASSUME TablesInv, JobsInv, NEW w \in Writer, CreateAppend(w),
         NEW k, k = job[w].kind,
         NEW s, s = held[w][k],
         NEW e, e = [id |-> job[w].id, key |-> job[w].key]
  PROVE  /\ TablesInv'
         /\ k \in Kind /\ e \in Entity
         /\ plan' = plan
         /\ \A q \in Request, l \in Kind : q # w \/ l # k => held'[q][l] = held[q][l]
         /\ View(arrays', held'[w][k]) = Append(View(arrays, s), e)
         /\ held'[w][k].len = s.len + 1
         /\ held'[w][k].array # 0
         /\ held'[w][k].array = s.array \/ held'[w][k].array \notin DOMAIN arrays
         /\ \A l \in Kind :
              plan[l].array # s.array \/ plan[l].len <= s.len
                => View(arrays', plan[l]) = View(arrays, plan[l])
         /\ \A q \in Request, l \in Kind :
              (q # w \/ l # k) /\ (held[q][l].array # s.array \/ held[q][l].len <= s.len)
                => View(arrays', held[q][l]) = View(arrays, held[q][l])
<1>1. PICK heap : heap = arrays
  OBVIOUS
<1>2. PICK g : g = AppendHeap(heap, s, e)
  OBVIOUS
<1>3. PICK t : t = AppendSlice(heap, s)
  OBVIOUS
<1>4. w \in Request /\ pc[w] = "append"
  BY DEF Request, CreateAppend
<1>5. k \in Kind /\ e \in Entity
  BY <1>4 DEF JobsInv, Job, Entity
<1>6. GoodHeap(heap) /\ Written(heap, s)
  BY <1>1, <1>4, <1>5, ZenonT(40) DEF TablesInv
<1>7. /\ GoodHeap(g)
      /\ Written(g, t)
      /\ View(g, t) = Append(View(heap, s), e)
      /\ t.len = s.len + 1 /\ t.array # 0
      /\ t.array = s.array \/ t.array \notin DOMAIN heap
      /\ \A u : Written(heap, u) =>
           /\ Written(g, u)
           /\ u.array # s.array \/ u.len <= s.len => View(g, u) = View(heap, u)
  BY <1>3, <1>2, <1>5, <1>6, AppendInPlace, AppendToCopy
<1>8. Update(g) /\ Handed(w, k, t) /\ plan' = plan
  BY <1>3, <1>2, <1>1 DEF CreateAppend, Mine, Handed
<1>9. t \in Slice
  BY <1>7 DEF Written
<1>10. /\ held' \in [Request -> [Kind -> Slice]]
       /\ \A q \in Request, l \in Kind :
            held'[q][l] = IF q = w /\ l = k THEN t ELSE held[q][l]
  BY <1>4, <1>5, <1>8, <1>9, HeldChange
<1>11. /\ \A l \in Kind : Written(g, plan'[l])
       /\ \A q \in Request, l \in Kind : Written(g, held'[q][l])
  BY <1>1, <1>7, <1>8, <1>10 DEF TablesInv
<1>12. /\ TablesInv'
       /\ \A l \in Kind : View(arrays', plan'[l]) = View(g, plan'[l])
       /\ \A q \in Request, l \in Kind : View(arrays', held'[q][l]) = View(g, held'[q][l])
  <2>1. GoodHeap(g) /\ Update(g) /\ plan' \in [Kind -> Slice]
    BY <1>7, <1>8, SMTT(30) DEF TablesInv
  <2>2. QED
    BY <1>10, <1>11, <2>1, Collected
<1>13. View(arrays', held'[w][k]) = Append(View(arrays, s), e)
  BY <1>1, <1>4, <1>5, <1>7, <1>10, <1>12
<1>14. \A l \in Kind : plan[l].array # s.array \/ plan[l].len <= s.len
         => View(arrays', plan[l]) = View(arrays, plan[l])
  BY <1>1, <1>7, <1>8, <1>12 DEF TablesInv
<1>15. ASSUME NEW q \in Request, NEW l \in Kind, q # w \/ l # k,
              held[q][l].array # s.array \/ held[q][l].len <= s.len
       PROVE  View(arrays', held[q][l]) = View(arrays, held[q][l])
  <2>1. PICK v : v = held[q][l]
    OBVIOUS
  <2>2. Written(heap, v) /\ held'[q][l] = v
    BY <1>1, <1>10, <1>15, <2>1 DEF TablesInv
  <2>3. View(g, v) = View(heap, v)
    BY <1>7, <1>15, <2>1, <2>2
  <2>4. QED
    BY <1>1, <1>12, <2>1, <2>2, <2>3
<1>16. /\ held'[w][k].len = s.len + 1 /\ held'[w][k].array # 0
       /\ held'[w][k].array = s.array \/ held'[w][k].array \notin DOMAIN arrays
  <2>1. held'[w][k] = t
    BY <1>4, <1>5, <1>10
  <2>2. QED
    BY <1>1, <1>7, <2>1
<1>17. \A q \in Request, l \in Kind : q # w \/ l # k => held'[q][l] = held[q][l]
  BY <1>10
<1>18. \A q \in Request, l \in Kind :
         (q # w \/ l # k) /\ (held[q][l].array # s.array \/ held[q][l].len <= s.len)
           => View(arrays', held[q][l]) = View(arrays, held[q][l])
  BY <1>15
<1>19. TablesInv' /\ plan' = plan
  BY <1>8, <1>12
<1>20. QED
  BY Zenon, <1>5, <1>13, <1>14, <1>16, <1>17, <1>18, <1>19

\* The step that filters copies, so nothing that anybody holds changes.
LEMMA FilterStep ==
  ASSUME TablesInv, JobsInv, NEW w \in Writer, DeleteFilter(w), pc'[w] # "idle",
         NEW k, k = job[w].kind,
         NEW s, s = held[w][k],
         NEW rest, rest = WithoutID(View(arrays, s), job[w].id)
  PROVE  /\ TablesInv'
         /\ k \in Kind
         /\ rest # View(arrays, s)
         /\ plan' = plan
         /\ \A q \in Request, l \in Kind : q # w \/ l # k =>
              held'[q][l] = held[q][l] /\ View(arrays', held[q][l]) = View(arrays, held[q][l])
         /\ View(arrays', held'[w][k]) = rest
         /\ held'[w][k].array # 0 /\ held'[w][k].array \notin DOMAIN arrays
         /\ \A l \in Kind : View(arrays', plan[l]) = View(arrays, plan[l])
<1>1. PICK heap : heap = arrays
  OBVIOUS
<1>2. PICK elements : elements = View(heap, s)
  OBVIOUS
<1>3. PICK g : g = Allocate(heap, rest, Len(elements))
  OBVIOUS
<1>4. PICK t : t = [array |-> FreeArray(heap), len |-> Len(rest)]
  OBVIOUS
<1>5. w \in Request /\ pc[w] = "filter" /\ k \in Kind
  BY DEF Request, DeleteFilter, JobsInv
<1>6. rest # elements
  BY <1>1, <1>2, <1>5 DEF DeleteFilter, End, Goto, Mine, JobsInv
<1>7. /\ Update(g) /\ plan' = plan
      /\ Handed(w, k, t)
  BY <1>1, <1>2, <1>3, <1>4, <1>6 DEF DeleteFilter, Mine, Filtered, Handed
<1>8. GoodHeap(heap) /\ Written(heap, s)
  BY <1>1, <1>5 DEF TablesInv
<1>9. elements \in Seq(Entity) /\ Len(elements) \in Nat
  BY <1>2, <1>8, ViewOfWritten
<1>10. rest \in Seq(Entity) /\ Len(rest) <= Len(elements)
  BY <1>1, <1>2, <1>9, WithoutIDProperties
<1>11. /\ GoodHeap(g)
       /\ \A b \in DOMAIN heap : b \in DOMAIN g /\ g[b] = heap[b]
       /\ Written(g, t)
       /\ View(g, t) = rest
  BY <1>3, <1>4, <1>8, <1>9, <1>10, AllocateProperties, SMTT(30)
<1>12. t \in Slice /\ t.array # 0 /\ t.array \notin DOMAIN heap
  BY <1>4, <1>8, <1>11, FreeArrayIsFree DEF Written
<1>13. \A u : Written(heap, u) => Written(g, u) /\ View(g, u) = View(heap, u)
  BY <1>11, SameArray DEF Written
<1>14. /\ held' \in [Request -> [Kind -> Slice]]
       /\ \A q \in Request, l \in Kind :
            held'[q][l] = IF q = w /\ l = k THEN t ELSE held[q][l]
  <2>1. t \in Slice /\ Handed(w, k, t)
    BY <1>7, <1>12
  <2>2. w \in Request /\ k \in Kind
    BY <1>5
  <2>3. QED
    BY <2>1, <2>2, HeldChange
<1>15. /\ \A l \in Kind : Written(g, plan'[l])
       /\ \A q \in Request, l \in Kind : Written(g, held'[q][l])
  BY <1>1, <1>7, <1>11, <1>13, <1>14 DEF TablesInv
<1>16. /\ TablesInv'
       /\ \A l \in Kind : View(arrays', plan'[l]) = View(g, plan'[l])
       /\ \A q \in Request, l \in Kind : View(arrays', held'[q][l]) = View(g, held'[q][l])
  <2>1. GoodHeap(g) /\ Update(g) /\ plan' \in [Kind -> Slice]
    BY <1>7, <1>11 DEF TablesInv
  <2>2. QED
    BY <1>14, <1>15, <2>1, Collected
<1>17. View(arrays', held'[w][k]) = rest
  BY <1>5, <1>11, <1>14, <1>16
<1>18. \A l \in Kind : View(arrays', plan[l]) = View(arrays, plan[l])
  BY <1>1, <1>7, <1>13, <1>16 DEF TablesInv
<1>19. \A q \in Request, l \in Kind : q # w \/ l # k =>
         held'[q][l] = held[q][l] /\ View(arrays', held[q][l]) = View(arrays, held[q][l])
  BY <1>1, <1>13, <1>14, <1>16 DEF TablesInv
<1>20. QED
  BY <1>1, <1>2, <1>5, <1>6, <1>7, <1>12, <1>14, <1>16, <1>17, <1>18, <1>19

\* The steps that sort, once before the save and once in it.
LEMMA SortStep ==
  ASSUME TablesInv, NEW w \in Request, Update(SortPBXPlan(arrays, held[w])),
         plan' = plan \/ plan' = held[w],
         held' = held \/ held' = [held EXCEPT ![w] = NoPlan],
         NEW p, p = held[w]
  PROVE  /\ TablesInv'
         /\ \A k \in Kind :
              (\A l \in Kind : p[l].array # plan'[k].array \/ plan'[k].array = 0)
                => View(arrays', plan'[k]) = View(arrays, plan'[k])
         /\ KindsApart(p, p) => \A k \in Kind :
              /\ plan'[k] = p[k] => View(arrays', plan'[k]) = Sorted(View(arrays, p[k]))
              /\ \A q \in Request : held'[q][k] = p[k]
                   => View(arrays', held'[q][k]) = Sorted(View(arrays, p[k]))
         /\ KindsApart(p, p) /\ (\A k \in Kind : InKeyOrder(View(arrays, p[k])))
              => /\ \A k \in Kind : View(arrays', plan'[k]) = View(arrays, plan'[k])
                 /\ \A q \in Request, k \in Kind :
                      View(arrays', held'[q][k]) = View(arrays, held'[q][k])
         /\ \A q \in Request, k \in Kind :
              (\A l \in Kind : p[l].array # held'[q][k].array \/ held'[q][k].array = 0)
                => View(arrays', held'[q][k]) = View(arrays, held'[q][k])
<1>1. PICK heap : heap = arrays
  OBVIOUS
<1>2. PICK g : g = SortPBXPlan(heap, p)
  OBVIOUS
<1>3. GoodHeap(heap) /\ \A k \in Kind : Written(heap, p[k])
  BY <1>1 DEF TablesInv
<1>4. /\ GoodHeap(g)
      /\ DOMAIN g = DOMAIN heap
      /\ \A u : Written(heap, u) => Written(g, u)
      /\ \A b \in DOMAIN heap : (\A k \in Kind : p[k].array # b) => g[b] = heap[b]
      /\ KindsApart(p, p) =>
           \A k \in Kind :
             /\ View(g, p[k]) = Sorted(View(heap, p[k]))
             /\ InKeyOrder(View(heap, p[k])) /\ p[k].array # 0
                  => g[p[k].array] = heap[p[k].array]
  BY <1>2, <1>3, SortPlanProperties
<1>5. /\ plan' \in [Kind -> Slice] /\ held' \in [Request -> [Kind -> Slice]]
      /\ \A k \in Kind : Written(heap, plan'[k])
      /\ \A q \in Request, k \in Kind : Written(heap, held'[q][k])
  <2>1. NoPlan \in [Kind -> Slice] /\ \A k \in Kind : Written(heap, NoPlan[k])
    BY EmptyIsWritten
  <2>2. \A q \in Request : held'[q] = held[q] \/ held'[q] = NoPlan
    BY DEF TablesInv
  <2>3. held' \in [Request -> [Kind -> Slice]]
    BY <2>1 DEF TablesInv
  <2>4. QED
    BY <1>1, <2>1, <2>2, <2>3 DEF TablesInv
<1>6. /\ TablesInv'
      /\ \A k \in Kind : View(arrays', plan'[k]) = View(g, plan'[k])
      /\ \A q \in Request, k \in Kind : View(arrays', held'[q][k]) = View(g, held'[q][k])
  <2>1. Update(g)
    BY <1>1, <1>2
  <2>2. \A k \in Kind : Written(g, plan'[k])
    BY <1>4, <1>5
  <2>3. \A q \in Request, k \in Kind : Written(g, held'[q][k])
    BY <1>4, <1>5
  <2>4. QED
    BY <1>4, <1>5, <2>1, <2>2, <2>3, Collected
<1>7. ASSUME NEW u, Written(heap, u),
             \A l \in Kind : p[l].array # u.array \/ u.array = 0
      PROVE  View(g, u) = View(heap, u)
  <2>1. u.array # 0 => u.array \in DOMAIN heap /\ g[u.array] = heap[u.array]
    BY <1>4, <1>7 DEF Written
  <2>2. QED
    BY <1>4, <1>7, <2>1, SameArray
<1>8. ASSUME KindsApart(p, p), \A k \in Kind : InKeyOrder(View(arrays, p[k])),
             NEW u, Written(heap, u)
      PROVE  View(g, u) = View(heap, u)
  <2>1. CASE \A l \in Kind : p[l].array # u.array \/ u.array = 0
    BY <1>7, <1>8, <2>1
  <2>2. CASE \E l \in Kind : p[l].array = u.array /\ u.array # 0
    <3>1. PICK l \in Kind : p[l].array = u.array /\ u.array # 0
      BY <2>2
    <3>2. u.array \in DOMAIN g /\ g[u.array] = heap[u.array]
      BY <1>1, <1>4, <1>8, <3>1 DEF Written
    <3>3. QED
      BY <1>8, <3>2, SameArray
  <2>3. QED
    BY <2>1, <2>2
<1>9. \A k \in Kind :
        (\A l \in Kind : p[l].array # plan'[k].array \/ plan'[k].array = 0)
          => View(arrays', plan'[k]) = View(arrays, plan'[k])
  BY <1>1, <1>5, <1>6, <1>7
<1>10. \A q \in Request, k \in Kind :
         (\A l \in Kind : p[l].array # held'[q][k].array \/ held'[q][k].array = 0)
           => View(arrays', held'[q][k]) = View(arrays, held'[q][k])
  BY <1>1, <1>5, <1>6, <1>7
<1>11. ASSUME KindsApart(p, p), NEW k \in Kind
       PROVE  /\ plan'[k] = p[k] => View(arrays', plan'[k]) = Sorted(View(arrays, p[k]))
              /\ \A q \in Request : held'[q][k] = p[k]
                   => View(arrays', held'[q][k]) = Sorted(View(arrays, p[k]))
  BY <1>1, <1>4, <1>6, <1>11
<1>12. ASSUME KindsApart(p, p), \A k \in Kind : InKeyOrder(View(arrays, p[k]))
       PROVE  /\ \A k \in Kind : View(arrays', plan'[k]) = View(arrays, plan'[k])
              /\ \A q \in Request, k \in Kind :
                   View(arrays', held'[q][k]) = View(arrays, held'[q][k])
  BY <1>1, <1>5, <1>6, <1>8, <1>12
<1>13. QED
  BY <1>6, <1>9, <1>10, <1>11, <1>12

-----------------------------------------------------------------------------
(***************************************************************************)
(* Every step keeps the tables in order.                                   *)
(***************************************************************************)

LEMMA NextIDOfHeld ==
  ASSUME TablesInv, JobsInv, NEW w \in Writer, CreateNumber(w)
  PROVE  /\ NextID(View(arrays, Mine(w))) \in Nat \ {0}
         /\ job' = [job EXCEPT ![w] = [job[w] EXCEPT !.id = NextID(View(arrays, Mine(w)))]]
         /\ job'[w] \in Job
         /\ job'[w].op = job[w].op /\ job'[w].kind = job[w].kind /\ job'[w].key = job[w].key
         /\ job'[w].id = NextID(View(arrays, Mine(w)))
<1>1. w \in Request /\ pc[w] = "number" /\ job[w].kind \in Kind /\ job[w] \in Job
  BY DEF Request, CreateNumber, JobsInv
<1>2. Written(arrays, Mine(w))
  BY <1>1 DEF TablesInv, Mine
<1>3. PICK heap, s : heap = arrays /\ s = Mine(w)
  OBVIOUS
<1>4. View(heap, s) \in Seq(Entity)
  BY <1>2, <1>3, ViewOfWritten
<1>5. NextID(View(heap, s)) \in Nat \ {0}
  BY <1>4, NextIDIsNew
<1>6. PICK id : id = NextID(View(heap, s))
  OBVIOUS
<1>7. job' = [job EXCEPT ![w] = [job[w] EXCEPT !.id = id]]
  BY <1>1, <1>3, <1>6 DEF CreateNumber, JobsInv
<1>8. PICK j : j = job[w]
  OBVIOUS
<1>9. /\ [j EXCEPT !.id = id] \in Job
      /\ [j EXCEPT !.id = id].op = j.op /\ [j EXCEPT !.id = id].kind = j.kind
      /\ [j EXCEPT !.id = id].key = j.key /\ [j EXCEPT !.id = id].id = id
  BY <1>1, <1>5, <1>6, <1>8 DEF Job
<1>10. job'[w] = [j EXCEPT !.id = id]
  BY <1>1, <1>7, <1>8 DEF JobsInv
<1>11. QED
  BY <1>3, <1>5, <1>6, <1>7, <1>8, <1>9, <1>10

\* A step moves one request, and what that one is sent for goes with its step.
LEMMA JobsStep ==
  ASSUME JobsInv, NEW r \in Request, NEW step,
         pc' = [pc EXCEPT ![r] = step],
         job' \in [Request -> Job],
         \A q \in Request \ {r} : job'[q] = job[q],
         acked' \in [Kind -> SUBSET Entity],
         r \in Writer =>
           /\ step \in WriterStep
           /\ step # "idle" => job'[r].kind \in Kind
           /\ step \in {"number", "append"} => job'[r].op = "create"
           /\ step = "filter" => job'[r].op = "delete"
           /\ step \in {"sort", "save"} => job'[r].op \in {"create", "delete"}
           /\ job'[r].op = "create" => job'[r].key \in Key
           /\ step \in {"append", "sort", "save"} /\ job'[r].op = "create" => job'[r].id # 0
  PROVE  JobsInv'
<1>1. /\ DOMAIN pc' = Request
      /\ pc'[r] = step
      /\ \A q \in Request \ {r} : pc'[q] = pc[q]
  BY DEF JobsInv
<1>2. Writer \subseteq Request
  BY DEF Request
<1>3. QED
  BY <1>1, <1>2 DEF JobsInv

LEMMA BeginStep ==
  ASSUME TablesInv, JobsInv, NEW r \in Request, NEW j \in Job, NEW step, Begin(r, j, step),
         r \in Writer =>
           /\ step \in {"number", "filter"} /\ j.kind \in Kind
           /\ step = "number" <=> j.op = "create"
           /\ step = "filter" => j.op = "delete"
           /\ j.op = "create" => j.key \in Key
  PROVE  TablesInv' /\ JobsInv'
<1>1. TablesInv'
  BY ShareStep DEF Begin
<1>2. /\ job' = [job EXCEPT ![r] = j] /\ job' \in [Request -> Job]
      /\ job'[r] = j /\ \A q \in Request \ {r} : job'[q] = job[q]
  BY DEF Begin, JobsInv
<1>3. JobsInv'
  BY <1>2, JobsStep DEF Begin, Goto, WriterStep, JobsInv
<1>4. QED
  BY <1>1, <1>3

\* A request that has answered.
LEMMA EndJobs ==
  ASSUME JobsInv, NEW r \in Request, End(r), acked' \in [Kind -> SUBSET Entity]
  PROVE  JobsInv'
<1>1. NoJob \in Job /\ NoJob.op = "none"
  BY DEF NoJob, Job
<1>2. /\ job' \in [Request -> Job] /\ job'[r] = NoJob
      /\ \A q \in Request \ {r} : job'[q] = job[q]
  BY <1>1 DEF End, JobsInv
<1>3. QED
  BY <1>1, <1>2, JobsStep DEF End, Goto, WriterStep

LEMMA CreateReadStep ==
  ASSUME TablesInv, JobsInv, NEW w \in Writer, NEW k \in Kind, NEW key \in Key \cup {0},
         CreateRead(w, k, key)
  PROVE  TablesInv' /\ JobsInv'
<1> DEFINE j == [op |-> "create", kind |-> k, id |-> 0, key |-> key]
<1>1. j \in Job /\ j.op = "create" /\ j.kind = k /\ j.key = key /\ key \in Key
  BY DEF Job, CreateRead, Valid
<1>2. Begin(w, j, "number") /\ w \in Request
  BY DEF CreateRead, Request
<1> HIDE DEF j
<1>3. QED
  BY <1>1, <1>2, BeginStep

LEMMA CreateNumberStep ==
  ASSUME TablesInv, JobsInv, NEW w \in Writer, CreateNumber(w)
  PROVE  TablesInv' /\ JobsInv'
<1>1. TablesInv'
  BY DEF CreateNumber, TablesInv
<1>2. w \in Request /\ pc[w] = "number"
  BY DEF Request, CreateNumber
<1>3. job' \in [Request -> Job] /\ \A q \in Request \ {w} : job'[q] = job[q]
  BY <1>2, NextIDOfHeld DEF JobsInv
<1>4. /\ job'[w].op = "create" /\ job'[w].kind \in Kind /\ job'[w].key \in Key
      /\ job'[w].id # 0
  BY <1>2, NextIDOfHeld DEF JobsInv
<1>5. acked' \in [Kind -> SUBSET Entity] /\ pc' = [pc EXCEPT ![w] = "append"]
  BY DEF CreateNumber, Goto, JobsInv
<1>6. JobsInv'
  BY <1>2, <1>3, <1>4, <1>5, JobsStep DEF WriterStep
<1>7. QED
  BY <1>1, <1>6

LEMMA CreateAppendStep ==
  ASSUME TablesInv, JobsInv, NEW w \in Writer, CreateAppend(w)
  PROVE  TablesInv' /\ JobsInv'
<1>1. TablesInv'
  BY AppendStep
<1>2. w \in Request /\ pc[w] = "append"
  BY DEF Request, CreateAppend
<1>3. JobsInv'
  BY <1>2, JobsStep DEF CreateAppend, Goto, WriterStep, JobsInv
<1>4. QED
  BY <1>1, <1>3

LEMMA DeleteReadStep ==
  ASSUME TablesInv, JobsInv, NEW w \in Writer, NEW k \in Kind, NEW id \in 1..(MaxID + 1),
         DeleteRead(w, k, id)
  PROVE  TablesInv' /\ JobsInv'
<1> DEFINE j == [op |-> "delete", kind |-> k, id |-> id, key |-> 0]
<1>1. j \in Job /\ j.op = "delete" /\ j.kind = k
  BY DEF Job
<1>2. Begin(w, j, "filter") /\ w \in Request
  BY DEF DeleteRead, Request
<1> HIDE DEF j
<1>3. QED
  BY <1>1, <1>2, BeginStep

LEMMA DeleteFilterStep ==
  ASSUME TablesInv, JobsInv, NEW w \in Writer, DeleteFilter(w)
  PROVE  TablesInv' /\ JobsInv'
<1>1. w \in Request /\ pc[w] = "filter" /\ acked' = acked /\ job[w].op = "delete"
  BY DEF Request, DeleteFilter, JobsInv
<1>2. CASE End(w) /\ plan' = plan /\ Update(arrays)
  <2>1. TablesInv'
    BY <1>1, <1>2, DropStep DEF End
  <2>2. JobsInv'
    BY <1>1, <1>2, EndJobs DEF JobsInv
  <2>3. QED
    BY <2>1, <2>2
<1>3. CASE Goto(w, "sort") /\ job' = job
  <2>1. pc'[w] # "idle"
    BY <1>1, <1>3 DEF Goto, JobsInv
  <2>2. TablesInv'
    BY <2>1, FilterStep
  <2>3. JobsInv'
    BY <1>1, <1>3, JobsStep DEF Goto, WriterStep, JobsInv
  <2>4. QED
    BY <2>2, <2>3
<1>4. QED
  BY <1>2, <1>3 DEF DeleteFilter

LEMMA SortsStep ==
  ASSUME TablesInv, JobsInv, NEW w \in Writer, Sort(w)
  PROVE  TablesInv' /\ JobsInv'
<1>1. w \in Request /\ pc[w] = "sort"
  BY DEF Request, Sort
<1>2. TablesInv'
  BY <1>1, SortStep DEF Sort
<1>3. JobsInv'
  BY <1>1, JobsStep DEF Sort, Goto, WriterStep, JobsInv
<1>4. QED
  BY <1>2, <1>3

LEMMA AckedEntities ==
  ASSUME JobsInv, NEW w \in Writer, pc[w] = "save", acked' = Acknowledged(w)
  PROVE  /\ acked' \in [Kind -> SUBSET Entity]
         /\ \A k \in Kind : acked'[k] =
              IF k # job[w].kind THEN acked[k]
              ELSE IF job[w].op = "create"
                   THEN acked[k] \cup {[id |-> job[w].id, key |-> job[w].key]}
                   ELSE {e \in acked[k] : e.id # job[w].id}
<1>1. w \in Request /\ job[w].kind \in Kind /\ job[w] \in Job
  BY DEF Request, JobsInv
<1>2. \A k \in Kind : acked'[k] =
        IF k # job[w].kind THEN acked[k]
        ELSE IF job[w].op = "create"
             THEN acked[k] \cup {[id |-> job[w].id, key |-> job[w].key]}
             ELSE {e \in acked[k] : e.id # job[w].id}
  BY <1>1 DEF Acknowledged, JobsInv
<1>3. job[w].op = "create" => [id |-> job[w].id, key |-> job[w].key] \in Entity
  BY <1>1 DEF JobsInv, Job, Entity
<1>4. acked' = [k \in Kind |-> acked'[k]]
  BY DEF Acknowledged, JobsInv
<1>5. ASSUME NEW k \in Kind
      PROVE  acked'[k] \in SUBSET Entity
  <2>1. acked[k] \subseteq Entity
    BY DEF JobsInv
  <2>2. CASE k # job[w].kind
    BY <1>2, <2>1, <2>2
  <2>3. CASE k = job[w].kind /\ job[w].op = "create"
    <3>1. acked'[k] = acked[k] \cup {[id |-> job[w].id, key |-> job[w].key]}
      BY <1>2, <2>3
    <3>2. QED
      BY <1>3, <2>1, <2>3, <3>1
  <2>4. CASE k = job[w].kind /\ job[w].op # "create"
    <3>1. acked'[k] = {e \in acked[k] : e.id # job[w].id}
      BY <1>2, <2>4
    <3>2. \A e \in acked'[k] : e \in acked[k]
      BY <3>1
    <3>3. QED
      BY <2>1, <3>2
  <2>5. QED
    BY <2>2, <2>3, <2>4
<1>6. QED
  BY <1>2, <1>4, <1>5

LEMMA SaveStep ==
  ASSUME TablesInv, JobsInv, NEW w \in Writer, Save(w)
  PROVE  TablesInv' /\ JobsInv'
<1>1. w \in Request /\ pc[w] = "save"
  BY DEF Request, Save
<1>2. TablesInv'
  BY <1>1, SortStep DEF Save, End
<1>3. JobsInv'
  BY <1>1, AckedEntities, EndJobs DEF Save
<1>4. QED
  BY <1>2, <1>3

LEMMA WriteKeepsTables ==
  ASSUME TablesInv, JobsInv, NEW w \in Writer, Write(w)
  PROVE  TablesInv' /\ JobsInv'
BY CreateReadStep, CreateNumberStep, CreateAppendStep, DeleteReadStep, DeleteFilterStep,
   SortsStep, SaveStep DEF Write, Create, Delete

LEMMA ListKeepsTables ==
  ASSUME TablesInv, JobsInv, NEW r \in Reader, List(r)
  PROVE  TablesInv' /\ JobsInv'
<1>1. r \in Request /\ r \notin Writer
  BY PBXAssumption DEF Request
<1>2. ASSUME NEW k \in Kind, ListRead(r, k)
      PROVE  TablesInv' /\ JobsInv'
  <2> DEFINE j == [op |-> "list", kind |-> k, id |-> 0, key |-> 0]
  <2>1. j \in Job /\ Begin(r, j, "show")
    BY <1>2 DEF Job, ListRead
  <2> HIDE DEF j
  <2>2. QED
    BY <1>1, <2>1, BeginStep
<1>3. CASE ListShow(r)
  <2>1. TablesInv'
    BY <1>1, <1>3, DropStep DEF ListShow, End
  <2>2. JobsInv'
    BY <1>1, <1>3, EndJobs DEF ListShow, JobsInv
  <2>3. QED
    BY <2>1, <2>2
<1>4. QED
  BY <1>2, <1>3 DEF List

-----------------------------------------------------------------------------
(***************************************************************************)
(* No slice shows a cell that nobody has written.                          *)
(***************************************************************************)

Step == WriterStep \cup {"show"}

CellsInv ==
  /\ TablesInv
  /\ JobsInv
  /\ pc \in [Request -> Step]

LEMMA InitTables ==
  ASSUME Init
  PROVE  CellsInv
<1>1. DOMAIN <<>> = {} /\ IsFiniteSet({})
  BY FS_EmptySet
<1>2. GoodHeap(arrays)
  <2>1. DOMAIN arrays = {}
    BY <1>1 DEF Init
  <2>2. arrays = [a \in {} |-> arrays[a]]
    BY DEF Init
  <2>3. QED
    BY <1>1, <2>1, <2>2 DEF GoodHeap
<1>3. NoPlan \in [Kind -> Slice] /\ \A heap : \A k \in Kind : Written(heap, NoPlan[k])
  BY EmptyIsWritten
<1>4. TablesInv
  BY <1>2, <1>3 DEF Init, TablesInv
<1>5. NoJob \in Job /\ NoJob.op = "none"
  BY DEF NoJob, Job
<1>6. job \in [Request -> Job] /\ Writer \subseteq Request
  BY <1>5 DEF Init, Request
<1>7. acked \in [Kind -> SUBSET Entity]
  BY DEF Init
<1>8. JobsInv
  BY <1>5, <1>6, <1>7 DEF Init, JobsInv, WriterStep
<1>9. QED
  BY <1>4, <1>8 DEF Init, CellsInv, Step, WriterStep

LEMMA WriteMoves ==
  ASSUME NEW w \in Writer, Write(w)
  PROVE  \E step \in WriterStep : pc' = [pc EXCEPT ![w] = step]
BY DEF Write, Create, CreateRead, CreateNumber, CreateAppend, Delete, DeleteRead, DeleteFilter,
       Sort, Save, Begin, End, Goto, WriterStep

LEMMA ListMoves ==
  ASSUME NEW r \in Reader, List(r)
  PROVE  \E step \in {"idle", "show"} : pc' = [pc EXCEPT ![r] = step]
BY DEF List, ListRead, ListShow, Begin, End, Goto

LEMMA NextCells ==
  ASSUME CellsInv, [Next]_vars
  PROVE  CellsInv'
<1>1. ASSUME NEW w \in Writer, Write(w)
      PROVE  CellsInv'
  <2>1. TablesInv' /\ JobsInv'
    BY <1>1, WriteKeepsTables DEF CellsInv
  <2>2. pc' \in [Request -> Step]
    BY <1>1, WriteMoves DEF CellsInv, Step, Request
  <2>3. QED
    BY <2>1, <2>2 DEF CellsInv
<1>2. ASSUME NEW r \in Reader, List(r)
      PROVE  CellsInv'
  <2>1. TablesInv' /\ JobsInv'
    BY <1>2, ListKeepsTables DEF CellsInv
  <2>2. pc' \in [Request -> Step]
    BY <1>2, ListMoves DEF CellsInv, Step, WriterStep, Request
  <2>3. QED
    BY <2>1, <2>2 DEF CellsInv
<1>3. CASE UNCHANGED vars
  BY <1>3 DEF vars, CellsInv, TablesInv, JobsInv
<1>4. QED
  BY <1>1, <1>2, <1>3 DEF Next

\* What the entities of a written slice are.
LEMMA ShownIsWritten ==
  ASSUME NEW heap, NEW s, Written(heap, s)
  PROVE  Contents(heap, s) \subseteq Entity /\ Blank \notin Contents(heap, s)
<1>1. \A i \in DOMAIN View(heap, s) : View(heap, s)[i] \in Entity
  BY ViewOfWritten, SeqShape
<1>2. Contents(heap, s) \subseteq Entity
  BY <1>1 DEF Contents, ToSet
<1>3. Blank \notin Entity
  BY DEF Blank, Entity
<1>4. QED
  BY <1>2, <1>3

LEMMA CellsAreTyped ==
  ASSUME CellsInv
  PROVE  NoBlankShown
<1>1. \A k \in Kind : SliceOK(plan[k])
  BY DEF CellsInv, TablesInv, Written, SliceOK
<1>2. \A r \in Request : \A k \in Kind : SliceOK(held[r][k])
  BY DEF CellsInv, TablesInv, Written, SliceOK
<1>3. \A a \in DOMAIN arrays : \A i \in DOMAIN arrays[a] : arrays[a][i] \in Entity \cup {Blank}
  BY SeqShape DEF CellsInv, TablesInv, GoodHeap, Cell
<1>4. TypeOK
  BY <1>1, <1>2, <1>3 DEF CellsInv, TablesInv, JobsInv, TypeOK, Step, WriterStep
<1>5. \A p \in {plan} \cup {held[r] : r \in Request} : \A k \in Kind : Written(arrays, p[k])
  BY DEF CellsInv, TablesInv
<1>6. QED
  BY <1>4, <1>5, ShownIsWritten DEF NoBlankShown

\* Whatever requests run at the same time, and however their slices alias the
\* stored ones, a slice of the store or of a request lies within its array and
\* shows only entities: appends that overwrite one another's cells, and sorts of
\* arrays that others read, lose entities and never leave a hole.
THEOREM CellsWritten == Spec => []NoBlankShown
<1>1. Init => CellsInv
  BY InitTables
<1>2. CellsInv /\ [Next]_vars => CellsInv'
  BY NextCells
<1>3. CellsInv => NoBlankShown
  BY CellsAreTyped
<1>4. QED
  BY <1>1, <1>2, <1>3, PTL DEF Spec

-----------------------------------------------------------------------------
(***************************************************************************)
(* The slices of two kinds are never on one array, whoever holds them.     *)
(***************************************************************************)

Plans == {plan} \cup {held[r] : r \in Request}

ApartInv == \A p, q \in Plans : KindsApart(p, q)

\* No plan comes about but those there were, and the one without any slice.
LEMMA NoNewPlan ==
  ASSUME TablesInv, ApartInv, Plans' \subseteq Plans \cup {NoPlan}
  PROVE  ApartInv'
<1>1. \A p \in Plans, k \in Kind : p[k].array = 0 \/ p[k].array # 0
  OBVIOUS
<1>2. \A k \in Kind : NoPlan[k].array = 0
  BY DEF NoPlan, EmptySlice
<1>3. \A p, q \in Plans \cup {NoPlan} : KindsApart(p, q)
  BY <1>2 DEF ApartInv, KindsApart
<1>4. QED
  BY <1>3 DEF ApartInv

\* A request's slice of one kind moves to an array nobody had, or stays on its own.
LEMMA OneNewSlice ==
  ASSUME TablesInv, ApartInv, NEW w \in Request, NEW k \in Kind, NEW t \in Slice,
         t.array # 0, t.array = held[w][k].array \/ t.array \notin DOMAIN arrays,
         Handed(w, k, t), plan' = plan
  PROVE  ApartInv'
<1>1. \A q \in Request, l \in Kind : held'[q][l] = IF q = w /\ l = k THEN t ELSE held[q][l]
  BY HeldChange
<1>2. \A p \in Plans, l \in Kind : p[l].array # 0 => p[l].array \in DOMAIN arrays
  BY DEF Plans, TablesInv, Written
<1>3. \A p \in Plans, l \in Kind : l # k => p[l].array # t.array
  <2>1. ASSUME NEW p \in Plans, NEW l \in Kind, l # k, p[l].array = t.array
        PROVE  FALSE
    <3>1. t.array = held[w][k].array
      BY <1>2, <2>1
    <3>2. held[w] \in Plans
      BY DEF Plans
    <3>3. KindsApart(p, held[w])
      BY <3>2 DEF ApartInv
    <3>4. QED
      BY <2>1, <3>1, <3>3 DEF KindsApart
  <2>2. QED
    BY <2>1
<1>4. ASSUME NEW p \in Plans'
      PROVE  \E o \in Plans : \A l \in Kind :
               p[l].array = o[l].array \/ (l = k /\ p[l].array = t.array)
  <2>1. CASE p = plan'
    BY <2>1 DEF Plans
  <2>2. ASSUME NEW q \in Request, p = held'[q]
        PROVE  \E o \in Plans : \A l \in Kind :
                 p[l].array = o[l].array \/ (l = k /\ p[l].array = t.array)
    <3>1. held[q] \in Plans
      BY DEF Plans
    <3>2. \A l \in Kind : p[l].array = held[q][l].array \/ (l = k /\ p[l].array = t.array)
      BY <1>1, <2>2
    <3>3. QED
      BY <3>1, <3>2
  <2>3. QED
    BY <2>1, <2>2 DEF Plans
<1>5. ASSUME NEW p \in Plans', NEW q \in Plans', NEW l \in Kind, NEW m \in Kind,
             l # m, p[l].array = q[m].array
      PROVE  p[l].array = 0
  <2>1. PICK o \in Plans : \A i \in Kind :
               p[i].array = o[i].array \/ (i = k /\ p[i].array = t.array)
    BY <1>4
  <2>2. PICK u \in Plans : \A i \in Kind :
               q[i].array = u[i].array \/ (i = k /\ q[i].array = t.array)
    BY <1>4
  <2>3. p[l].array = o[l].array /\ q[m].array = u[m].array
    BY <1>3, <1>5, <2>1, <2>2
  <2>4. QED
    BY <1>5, <2>3 DEF ApartInv, KindsApart
<1>6. QED
  BY <1>5 DEF ApartInv, KindsApart

LEMMA ApartStep ==
  ASSUME TablesInv, JobsInv, ApartInv, NEW w \in Writer, Write(w)
  PROVE  ApartInv'
<1>1. w \in Request
  BY DEF Request
<1>2. CASE CreateAppend(w)
  <2>1. PICK k, t : k = job[w].kind /\ t = AppendSlice(arrays, held[w][k])
    OBVIOUS
  <2>2. k \in Kind /\ Handed(w, k, t)
    BY <1>1, <1>2, <2>1 DEF CreateAppend, Mine, JobsInv, Handed
  <2>3. held'[w][k] = t
    BY <1>1, <2>2 DEF TablesInv, Handed
  <2>4. PICK s, e : s = held[w][k] /\ e = [id |-> job[w].id, key |-> job[w].key]
    OBVIOUS
  <2>5. /\ TablesInv' /\ plan' = plan /\ held'[w][k].array # 0
        /\ held'[w][k].array = s.array \/ held'[w][k].array \notin DOMAIN arrays
    BY <1>2, <2>1, <2>4, AppendStep
  <2>6. t \in Slice /\ t.array # 0
    BY <1>1, <2>2, <2>3, <2>5 DEF TablesInv
  <2>7. t.array = held[w][k].array \/ t.array \notin DOMAIN arrays
    BY <2>3, <2>4, <2>5
  <2>8. QED
    BY <1>1, <2>2, <2>5, <2>6, <2>7, OneNewSlice
<1>3. CASE DeleteFilter(w) /\ Goto(w, "sort")
  <2>1. PICK k, t : k = job[w].kind /\ t = [array |-> FreeArray(arrays),
                                           len |-> Len(WithoutID(View(arrays, held[w][k]), job[w].id))]
    OBVIOUS
  <2>2. pc'[w] # "idle"
    BY <1>1, <1>3 DEF Goto, JobsInv
  <2>3. k \in Kind /\ Handed(w, k, t)
    BY <1>1, <1>3, <2>1, <2>2 DEF DeleteFilter, Filtered, Mine, JobsInv, End, Goto, Handed
  <2>4. held'[w][k] = t
    BY <1>1, <2>3 DEF TablesInv, Handed
  <2>5. TablesInv' /\ plan' = plan /\ t.array # 0 /\ t.array \notin DOMAIN arrays
    BY <1>3, <2>1, <2>2, <2>4, FilterStep
  <2>6. t \in Slice
    BY <1>1, <2>3, <2>4, <2>5 DEF TablesInv
  <2>7. QED
    BY <1>1, <2>3, <2>5, <2>6, OneNewSlice
<1>4. ASSUME plan' = plan \/ plan' = held[w],
             \/ held' = held
             \/ held' = [held EXCEPT ![w] = plan]
             \/ held' = [held EXCEPT ![w] = NoPlan]
      PROVE  ApartInv'
  <2>1. \A r \in Request : held'[r] \in {held[r], plan, NoPlan}
    BY <1>1, <1>4 DEF TablesInv
  <2>2. \A r \in Request : held[r] \in Plans
    BY DEF Plans
  <2>3. plan' \in Plans /\ plan \in Plans
    BY <1>1, <1>4, <2>2 DEF Plans
  <2>4. Plans' \subseteq Plans \cup {NoPlan}
    BY <2>1, <2>2, <2>3 DEF Plans
  <2>5. QED
    BY <2>4, NoNewPlan
<1>5. ASSUME NEW k \in Kind, NEW key \in Key \cup {0}, CreateRead(w, k, key)
      PROVE  ApartInv'
  BY <1>4, <1>5 DEF CreateRead, Begin
<1>6. CASE CreateNumber(w)
  BY <1>4, <1>6 DEF CreateNumber
<1>7. ASSUME NEW k \in Kind, NEW id \in 1..(MaxID + 1), DeleteRead(w, k, id)
      PROVE  ApartInv'
  BY <1>4, <1>7 DEF DeleteRead, Begin
<1>8. CASE DeleteFilter(w) /\ ~Goto(w, "sort")
  BY <1>4, <1>8 DEF DeleteFilter, End
<1>9. CASE Sort(w) \/ Save(w)
  BY <1>4, <1>9 DEF Sort, Save, End
<1>10. QED
  BY <1>2, <1>3, <1>5, <1>6, <1>7, <1>8, <1>9 DEF Write, Create, Delete

LEMMA ListApart ==
  ASSUME TablesInv, ApartInv, NEW r \in Reader, List(r)
  PROVE  ApartInv'
<1>1. /\ plan' = plan
      /\ held' = [held EXCEPT ![r] = plan] \/ held' = [held EXCEPT ![r] = NoPlan]
  BY DEF List, ListRead, ListShow, Begin, End
<1>2. \A q \in Request : held'[q] \in {held[q], plan, NoPlan}
  BY <1>1 DEF TablesInv
<1>3. Plans' \subseteq Plans \cup {NoPlan}
  BY <1>1, <1>2 DEF Plans
<1>4. QED
  BY <1>3, NoNewPlan

LEMMA InitApart ==
  ASSUME Init
  PROVE  ApartInv
BY DEF Init, ApartInv, Plans, KindsApart, NoPlan, EmptySlice

\* Whatever requests run at the same time, no array is under slices of two kinds:
\* what aliases a slice is an older or a newer slice of the same kind.
THEOREM KindsStayApart == Spec => []ApartInv
<1>1. Init => CellsInv /\ ApartInv
  BY InitTables, InitApart
<1>2. CellsInv /\ ApartInv /\ [Next]_vars => (CellsInv /\ ApartInv)'
  <2>1. CellsInv /\ [Next]_vars => CellsInv'
    BY NextCells
  <2>2. ASSUME CellsInv, ApartInv, Next
        PROVE  ApartInv'
    BY <2>2, ApartStep, ListApart DEF Next, CellsInv
  <2>3. ApartInv /\ UNCHANGED vars => ApartInv'
    BY DEF vars, ApartInv, Plans, KindsApart
  <2>4. QED
    BY <2>1, <2>2, <2>3
<1>3. QED
  BY <1>1, <1>2, PTL DEF Spec

-----------------------------------------------------------------------------
(***************************************************************************)
(* Requests that run one at a time.  With one writer the plan in its hands *)
(* is the stored one until it changes it, and what it holds from then on   *)
(* is what callers will have been told when it is saved.                   *)
(***************************************************************************)

OneWriter == \A v, w \in Writer : v = w

Records(elements, entities) == ToSet(elements) = entities /\ DistinctIDs(elements)

\* The ID that the next one of these gets.
NewID(entities) == Max({e.id : e \in entities} \cup {0}) + 1

RecordInv ==
  /\ (\A w \in Writer : pc[w] \notin {"sort", "save"}) =>
       \A k \in Kind : /\ Records(View(arrays, plan[k]), acked[k])
                       /\ InKeyOrder(View(arrays, plan[k]))
  /\ IDsUnique
  /\ \A w \in Writer :
       /\ pc[w] \in {"number", "append", "filter"} => held[w] = plan
       /\ pc[w] \in {"append", "sort", "save"} /\ job[w].op = "create" =>
            /\ job[w].id = NewID(acked[job[w].kind])
            /\ \A e \in acked[job[w].kind] : e.id < job[w].id
       /\ pc[w] \in {"sort", "save"} =>
            \A k \in Kind : Records(View(arrays, held[w][k]), Acknowledged(w)[k])
       /\ pc[w] \in {"sort", "save"} /\ job[w].op = "delete" =>
            \E e \in acked[job[w].kind] : e.id = job[w].id

SerialInv == CellsInv /\ ApartInv /\ RecordInv

\* The new entity joins those that were there.
LEMMA AppendRecords ==
  ASSUME NEW elements \in Seq(Entity), NEW entities, Records(elements, entities),
         NEW e \in Entity, \A f \in entities : f.id < e.id
  PROVE  Records(Append(elements, e), entities \cup {e})
<1> DEFINE n == Len(elements)
<1>1. n \in Nat /\ DOMAIN elements = 1..n
  BY SeqShape
<1>2. /\ DOMAIN Append(elements, e) = 1..(n + 1)
      /\ \A i \in 1..n : Append(elements, e)[i] = elements[i]
      /\ Append(elements, e)[n + 1] = e
  BY <1>1
<1>3. \A i \in 1..n : elements[i].id < e.id
  BY <1>1 DEF Records, ToSet
<1>4. ToSet(Append(elements, e)) = entities \cup {e}
  <2>1. ToSet(elements) = {elements[i] : i \in 1..n}
    BY <1>1 DEF ToSet
  <2>2. 1..(n + 1) = 1..n \cup {n + 1}
    BY <1>1
  <2>3. ToSet(Append(elements, e)) = {Append(elements, e)[i] : i \in 1..n \cup {n + 1}}
    BY <1>2, <2>2 DEF ToSet
  <2> DEFINE longer == Append(elements, e)
  <2>4. /\ \A i \in 1..n : longer[i] = elements[i]
        /\ longer[n + 1] = e
        /\ ToSet(longer) = {longer[i] : i \in 1..n \cup {n + 1}}
    BY <1>2, <2>3
  <2> HIDE DEF longer
  <2>5. ToSet(longer) = {elements[i] : i \in 1..n} \cup {e}
    BY <2>4
  <2>6. QED
    BY <2>1, <2>5 DEF Records, longer
<1>5. DistinctIDs(Append(elements, e))
  <2> DEFINE longer == Append(elements, e)
  <2>1. /\ DOMAIN longer = 1..(n + 1)
        /\ \A i \in 1..n : longer[i] = elements[i]
        /\ longer[n + 1] = e
    BY <1>2
  <2> HIDE DEF longer, n
  <2>2. \A i, j \in 1..n : i # j => elements[i].id # elements[j].id
    BY <1>1 DEF Records, DistinctIDs
  <2>3. \A i \in 1..n : elements[i].id \in Nat
    BY <1>1, EntityFields
  <2>4. e.id \in Nat
    BY DEF Entity
  <2>5. \A i \in 1..n : longer[i].id # longer[n + 1].id
    BY <1>3, <2>1, <2>3, <2>4
  <2>6. \A i, j \in 1..(n + 1) : i # j => longer[i].id # longer[j].id
    BY <1>1, <2>1, <2>2, <2>5
  <2>7. QED
    BY <2>1, <2>6 DEF DistinctIDs, longer
<1>6. QED
  BY <1>4, <1>5 DEF Records

\* A slice that records a set has as many elements as the set.
LEMMA RecordsLength ==
  ASSUME NEW elements \in Seq(Entity), NEW entities, Records(elements, entities)
  PROVE  Len(elements) = Cardinality(entities)
<1> DEFINE n == Len(elements)
<1>1. n \in Nat /\ DOMAIN elements = 1..n /\ elements \in [1..n -> Entity]
  BY SeqShape
<1>2. \A i, j \in 1..n : elements[i] = elements[j] => i = j
  BY <1>1 DEF Records, DistinctIDs
<1>3. entities = {elements[i] : i \in 1..n}
  BY <1>1 DEF Records, ToSet
<1>4. elements \in [1..n -> entities] /\ \A e \in entities : \E i \in 1..n : elements[i] = e
  BY <1>1, <1>3
<1>5. elements \in Bijection(1..n, entities)
  BY <1>2, <1>4 DEF Bijection, Injection, Surjection, IsInjective
<1>6. ExistsBijection(1..n, entities)
  BY <1>5 DEF ExistsBijection
<1>7. IsFiniteSet(1..n) /\ Cardinality(1..n) = n
  BY <1>1, FS_Interval
<1> HIDE DEF n
<1>8. n = Cardinality(entities)
  BY <1>6, <1>7, FS_Bijection
<1>9. QED
  BY <1>8 DEF n

LEMMA RecordIsPlan ==
  ASSUME SerialInv
  PROVE  PlanIsRecord
<1>1. SUFFICES ASSUME AtRest, NEW k \in Kind,
                      NEW elements, elements = View(arrays, plan[k])
               PROVE  /\ ToSet(elements) = acked[k]
                      /\ Len(elements) = Cardinality(acked[k])
                      /\ \A i, j \in DOMAIN elements : i < j =>
                           /\ elements[i].key <= elements[j].key
                           /\ elements[i].id # elements[j].id
  BY DEF PlanIsRecord
<1>2. Records(elements, acked[k]) /\ InKeyOrder(elements)
  BY <1>1 DEF AtRest, SerialInv, RecordInv
<1>3. elements \in Seq(Entity)
  BY <1>1, ViewOfWritten DEF SerialInv, CellsInv, TablesInv
<1>4. \A i, j \in DOMAIN elements : i < j => i # j
  BY <1>3, SeqShape
<1>5. QED
  BY <1>2, <1>3, <1>4, RecordsLength DEF Records, InKeyOrder, DistinctIDs

\* The sort leaves what the slice records as it was.
LEMMA SortRecords ==
  ASSUME NEW elements \in Seq(Entity), NEW entities, Records(elements, entities)
  PROVE  Records(Sorted(elements), entities) /\ InKeyOrder(Sorted(elements))
BY SortedProperties DEF Records

LEMMA RecordedOnce ==
  ASSUME NEW elements \in Seq(Entity), NEW entities, Records(elements, entities)
  PROVE  \A e, f \in entities : e.id = f.id => e = f
BY SeqShape DEF Records, DistinctIDs, ToSet

LEMMA AcknowledgedIs ==
  ASSUME JobsInv, NEW w \in Writer, pc[w] # "idle"
  PROVE  \A k \in Kind : Acknowledged(w)[k] =
           IF k # job[w].kind THEN acked[k]
           ELSE IF job[w].op = "create"
                THEN acked[k] \cup {[id |-> job[w].id, key |-> job[w].key]}
                ELSE {e \in acked[k] : e.id # job[w].id}
BY DEF Acknowledged, JobsInv

\* What the one writer's plan holds while it is not changing it.
LEMMA AtHand ==
  ASSUME OneWriter, SerialInv, NEW w \in Writer, pc[w] \notin {"sort", "save"},
         NEW k \in Kind
  PROVE  /\ View(arrays, plan[k]) \in Seq(Entity)
         /\ Records(View(arrays, plan[k]), acked[k])
         /\ InKeyOrder(View(arrays, plan[k]))
<1>1. \A v \in Writer : pc[v] \notin {"sort", "save"}
  BY DEF OneWriter
<1>2. View(arrays, plan[k]) \in Seq(Entity)
  BY ViewOfWritten DEF SerialInv, CellsInv, TablesInv
<1>3. QED
  BY <1>1, <1>2 DEF SerialInv, RecordInv

LEMMA BeginRecord ==
  ASSUME OneWriter, SerialInv, NEW w \in Writer, NEW j, NEW step \in {"number", "filter"},
         Begin(w, j, step)
  PROVE  RecordInv'
<1>1. /\ w \in Request /\ pc[w] = "idle" /\ pc'[w] = step
      /\ held'[w] = plan
      /\ plan' = plan /\ arrays' = arrays /\ acked' = acked
  BY DEF Begin, Goto, Request, SerialInv, CellsInv, TablesInv, JobsInv
<1>2. \A k \in Kind : /\ Records(View(arrays, plan[k]), acked[k])
                      /\ InKeyOrder(View(arrays, plan[k]))
  BY <1>1, AtHand
<1>3. \A v \in Writer : v = w
  BY DEF OneWriter
<1>4. IDsUnique'
  BY <1>1 DEF SerialInv, RecordInv, IDsUnique
<1>5. QED
  BY <1>1, <1>2, <1>3, <1>4 DEF RecordInv

LEMMA NumberRecord ==
  ASSUME OneWriter, SerialInv, NEW w \in Writer, CreateNumber(w)
  PROVE  RecordInv'
<1>1. /\ w \in Request /\ pc[w] = "number" /\ pc'[w] = "append"
      /\ held' = held /\ held[w] = plan
      /\ plan' = plan /\ arrays' = arrays /\ acked' = acked
  BY DEF CreateNumber, Goto, Request, SerialInv, CellsInv, JobsInv, RecordInv
<1>2. \A k \in Kind : /\ Records(View(arrays, plan[k]), acked[k])
                      /\ InKeyOrder(View(arrays, plan[k]))
  BY <1>1, AtHand
<1>3. PICK k, elements, entities :
        k = job[w].kind /\ elements = View(arrays, plan[k]) /\ entities = acked[k]
  OBVIOUS
<1>4. k \in Kind /\ Mine(w) = plan[k]
  BY <1>1, <1>3 DEF SerialInv, CellsInv, JobsInv, Mine
<1>5. elements \in Seq(Entity) /\ Records(elements, entities)
  BY <1>1, <1>3, <1>4, AtHand
<1>6. job'[w].kind = k /\ job'[w].id = NextID(elements)
  BY <1>1, <1>3, <1>4, NextIDOfHeld DEF SerialInv, CellsInv
<1>7. /\ NextID(elements) = NewID(entities)
      /\ \A e \in entities : e.id < NextID(elements)
  <2>1. entities = {elements[i] : i \in DOMAIN elements}
    BY <1>5 DEF Records, ToSet
  <2>2. {elements[i].id : i \in DOMAIN elements} = {e.id : e \in entities}
    BY <2>1
  <2>3. NextID(elements) = NewID(entities)
    BY <2>2 DEF NextID, NewID
  <2>4. \A i \in DOMAIN elements : elements[i].id < NextID(elements)
    BY <1>5, NextIDIsNew
  <2>5. QED
    BY <2>1, <2>3, <2>4
<1>8. \A v \in Writer : v = w
  BY DEF OneWriter
<1>9. IDsUnique'
  BY <1>1 DEF SerialInv, RecordInv, IDsUnique
<1>10. QED
  BY <1>1, <1>2, <1>3, <1>6, <1>7, <1>8, <1>9 DEF RecordInv

LEMMA AppendRecord ==
  ASSUME OneWriter, SerialInv, NEW w \in Writer, CreateAppend(w)
  PROVE  RecordInv'
<1>1. /\ w \in Request /\ pc[w] = "append" /\ pc'[w] = "sort"
      /\ held[w] = plan /\ acked' = acked /\ job' = job /\ job[w].op = "create"
  BY DEF CreateAppend, Goto, Request, SerialInv, CellsInv, JobsInv, RecordInv
<1>2. PICK k, s, e :
        k = job[w].kind /\ s = held[w][k] /\ e = [id |-> job[w].id, key |-> job[w].key]
  OBVIOUS
<1>3. /\ k \in Kind /\ e \in Entity
      /\ \A q \in Request, l \in Kind : q # w \/ l # k => held'[q][l] = held[q][l]
      /\ View(arrays', held'[w][k]) = Append(View(arrays, s), e)
      /\ \A q \in Request, l \in Kind :
           (q # w \/ l # k) /\ (held[q][l].array # s.array \/ held[q][l].len <= s.len)
             => View(arrays', held[q][l]) = View(arrays, held[q][l])
  <2>1. TablesInv /\ JobsInv
    BY DEF SerialInv, CellsInv
  <2>2. k \in Kind /\ e \in Entity
    BY <1>2, <2>1, AppendStep
  <2>3. \A q \in Request, l \in Kind : q # w \/ l # k => held'[q][l] = held[q][l]
    BY <1>2, <2>1, AppendStep
  <2>4. View(arrays', held'[w][k]) = Append(View(arrays, s), e)
    BY <1>2, <2>1, AppendStep
  <2>5. \A q \in Request, l \in Kind :
          (q # w \/ l # k) /\ (held[q][l].array # s.array \/ held[q][l].len <= s.len)
            => View(arrays', held[q][l]) = View(arrays, held[q][l])
    BY <1>2, <2>1, AppendStep
  <2>6. QED
    BY <2>2, <2>3, <2>4, <2>5
<1>4. \A l \in Kind : Acknowledged(w)'[l] = IF l = k THEN acked[l] \cup {e} ELSE acked[l]
  <2>1. Acknowledged(w)' = Acknowledged(w)
    BY <1>1 DEF Acknowledged
  <2>2. QED
    BY <1>1, <1>2, <2>1, AcknowledgedIs DEF SerialInv, CellsInv
<1>5. e.id = job[w].id /\ \A f \in acked[k] : f.id < e.id
  BY <1>1, <1>2 DEF SerialInv, RecordInv
<1>6. ASSUME NEW l \in Kind
      PROVE  Records(View(arrays', held'[w][l]), Acknowledged(w)'[l])
  <2>1. PICK elements, entities : elements = View(arrays, plan[l]) /\ entities = acked[l]
    OBVIOUS
  <2>2. elements \in Seq(Entity) /\ Records(elements, entities)
    BY <1>1, <2>1, AtHand
  <2>3. CASE l = k
    <3>1. Records(Append(elements, e), entities \cup {e})
      BY <1>3, <1>5, <2>1, <2>2, <2>3, AppendRecords
    <3>2. View(arrays', held'[w][l]) = Append(elements, e)
      BY <1>1, <1>2, <1>3, <2>1, <2>3
    <3>3. Acknowledged(w)'[l] = entities \cup {e}
      BY <1>4, <2>1, <2>3
    <3>4. QED
      BY <3>1, <3>2, <3>3
  <2>4. CASE l # k
    <3>1. held[w] \in Plans
      BY <1>1 DEF Plans
    <3>2. KindsApart(held[w], held[w])
      BY <3>1 DEF SerialInv, ApartInv
    <3>3. Written(arrays, held[w][l]) /\ Written(arrays, s)
      BY <1>1, <1>2, <1>3 DEF SerialInv, CellsInv, TablesInv
    <3>4. held[w][l].array # s.array \/ held[w][l].len <= s.len
      <4>1. held[w][l].array # s.array \/ held[w][l].array = 0
        BY <1>2, <1>3, <2>4, <3>2 DEF KindsApart
      <4>2. held[w][l].array = 0 => held[w][l].len = 0
        BY <3>3 DEF Written
      <4>3. s.len \in Nat
        BY <3>3, ViewOfWritten
      <4>4. QED
        BY <4>1, <4>2, <4>3
    <3>5. View(arrays', held'[w][l]) = elements
      BY <1>1, <1>3, <2>1, <2>4, <3>4
    <3>6. QED
      BY <1>4, <2>1, <2>2, <2>4, <3>5
  <2>5. QED
    BY <2>3, <2>4
<1>7. \A v \in Writer : v = w
  BY DEF OneWriter
<1>8. IDsUnique'
  BY <1>1 DEF SerialInv, RecordInv, IDsUnique
<1>9. job[w].id = NewID(acked[job[w].kind])
  BY <1>1 DEF SerialInv, RecordInv
<1>10. QED
  BY <1>1, <1>2, <1>5, <1>6, <1>7, <1>8, <1>9 DEF RecordInv

LEMMA FilterRecord ==
  ASSUME OneWriter, SerialInv, NEW w \in Writer, DeleteFilter(w)
  PROVE  RecordInv'
<1>1. /\ w \in Request /\ pc[w] = "filter" /\ held[w] = plan
      /\ acked' = acked /\ job[w].op = "delete"
  BY DEF DeleteFilter, Request, SerialInv, CellsInv, JobsInv, RecordInv
<1>2. \A v \in Writer : v = w
  BY DEF OneWriter
<1>3. IDsUnique'
  BY <1>1 DEF SerialInv, RecordInv, IDsUnique
<1>4. \A k \in Kind : /\ Records(View(arrays, plan[k]), acked[k])
                      /\ InKeyOrder(View(arrays, plan[k]))
  BY <1>1, AtHand
<1>5. CASE End(w) /\ plan' = plan /\ Update(arrays)
  <2>1. \A k \in Kind : View(arrays', plan'[k]) = View(arrays, plan[k])
    BY <1>1, <1>5, DropStep DEF End, SerialInv, CellsInv
  <2>2. pc'[w] = "idle"
    BY <1>1, <1>5 DEF End, Goto, SerialInv, CellsInv, JobsInv
  <2>3. QED
    BY <1>1, <1>2, <1>3, <1>4, <2>1, <2>2 DEF RecordInv
<1>6. CASE Goto(w, "sort") /\ job' = job
  <2>1. pc'[w] = "sort"
    BY <1>1, <1>6 DEF Goto, SerialInv, CellsInv, JobsInv
  <2>2. PICK k, s, id, rest :
          /\ k = job[w].kind /\ s = held[w][k] /\ id = job[w].id
          /\ rest = WithoutID(View(arrays, s), id)
    OBVIOUS
  <2>3. /\ k \in Kind
        /\ rest # View(arrays, s)
        /\ \A q \in Request, l \in Kind : q # w \/ l # k =>
             held'[q][l] = held[q][l] /\ View(arrays', held[q][l]) = View(arrays, held[q][l])
        /\ View(arrays', held'[w][k]) = rest
    BY <2>1, <2>2, FilterStep DEF SerialInv, CellsInv
  <2>4. \A l \in Kind : Acknowledged(w)'[l] =
          IF l = k THEN {e \in acked[l] : e.id # id} ELSE acked[l]
    <3>1. Acknowledged(w)' = Acknowledged(w)
      BY <1>1, <1>6 DEF Acknowledged
    <3>2. \A l \in Kind : Acknowledged(w)[l] =
            IF l # k THEN acked[l]
            ELSE IF job[w].op = "create"
                 THEN acked[l] \cup {[id |-> job[w].id, key |-> job[w].key]}
                 ELSE {e \in acked[l] : e.id # job[w].id}
      BY <1>1, <2>2, AcknowledgedIs DEF SerialInv, CellsInv
    <3>3. ASSUME NEW l \in Kind
          PROVE  Acknowledged(w)[l] = IF l = k THEN {e \in acked[l] : e.id # id} ELSE acked[l]
      <4>1. CASE l # k
        BY <3>2, <4>1
      <4>2. CASE l = k
        <5>1. Acknowledged(w)[l] = {e \in acked[l] : e.id # job[w].id}
          BY <1>1, <3>2, <4>2
        <5>2. QED
          BY <2>2, <4>2, <5>1
      <4>3. QED
        BY <4>1, <4>2
    <3>4. QED
      BY <3>1, <3>3
  <2>5. PICK elements, entities : elements = View(arrays, plan[k]) /\ entities = acked[k]
    OBVIOUS
  <2>6. elements \in Seq(Entity) /\ Records(elements, entities)
    BY <1>1, <2>3, <2>5, AtHand
  <2>7. rest = WithoutID(elements, id) /\ rest # elements
    BY <1>1, <2>2, <2>3, <2>5
  <2>8. Records(rest, {e \in entities : e.id # id}) /\ \E e \in entities : e.id = id
    BY <2>6, <2>7, WithoutIDProperties DEF Records
  <2>9. \A l \in Kind : Records(View(arrays', held'[w][l]), Acknowledged(w)'[l])
    <3>1. Records(View(arrays', held'[w][k]), Acknowledged(w)'[k])
      <4>1. Acknowledged(w)'[k] = {e \in entities : e.id # id}
        BY <2>3, <2>4, <2>5
      <4>2. QED
        BY <2>3, <2>8, <4>1
    <3>2. ASSUME NEW l \in Kind, l # k
          PROVE  Records(View(arrays', held'[w][l]), Acknowledged(w)'[l])
      BY <1>1, <1>4, <2>3, <2>4, <3>2
    <3>3. QED
      BY <3>1, <3>2
  <2>10. \E e \in acked'[job'[w].kind] : e.id = job'[w].id
    BY <1>1, <1>6, <2>2, <2>5, <2>8
  <2>11. job'[w].op = "delete"
    BY <1>1, <1>6
  <2>12. QED
    BY <1>2, <1>3, <2>1, <2>9, <2>10, <2>11 DEF RecordInv
<1>7. QED
  BY <1>5, <1>6 DEF DeleteFilter

LEMMA SortRecord ==
  ASSUME OneWriter, SerialInv, NEW w \in Writer, Sort(w)
  PROVE  RecordInv'
<1>1. /\ w \in Request /\ pc[w] = "sort" /\ pc'[w] = "save"
      /\ plan' = plan /\ acked' = acked /\ job' = job /\ held' = held
      /\ Update(SortPBXPlan(arrays, held[w]))
  BY DEF Sort, Goto, Request, SerialInv, CellsInv, JobsInv
<1>2. PICK p : p = held[w]
  OBVIOUS
<1>3. KindsApart(p, p)
  BY <1>1, <1>2 DEF SerialInv, ApartInv, Plans
<1>4. \A k \in Kind : View(arrays', held'[w][k]) = Sorted(View(arrays, p[k]))
  BY <1>1, <1>2, <1>3, SortStep DEF SerialInv, CellsInv
<1>5. Acknowledged(w)' = Acknowledged(w)
  BY <1>1 DEF Acknowledged
<1>6. ASSUME NEW k \in Kind
      PROVE  Records(View(arrays', held'[w][k]), Acknowledged(w)'[k])
  <2>1. View(arrays, p[k]) \in Seq(Entity)
    BY <1>1, <1>2, ViewOfWritten DEF SerialInv, CellsInv, TablesInv
  <2>2. Records(View(arrays, p[k]), Acknowledged(w)[k])
    BY <1>1, <1>2 DEF SerialInv, RecordInv
  <2>3. QED
    BY <1>4, <1>5, <2>1, <2>2, SortRecords
<1>7. \A v \in Writer : v = w
  BY DEF OneWriter
<1>8. IDsUnique'
  BY <1>1 DEF SerialInv, RecordInv, IDsUnique
<1>9. /\ job[w].op = "create" =>
           /\ job[w].id = NewID(acked[job[w].kind])
           /\ \A e \in acked[job[w].kind] : e.id < job[w].id
      /\ job[w].op = "delete" => \E e \in acked[job[w].kind] : e.id = job[w].id
  BY <1>1 DEF SerialInv, RecordInv
<1>10. QED
  BY <1>1, <1>6, <1>7, <1>8, <1>9 DEF RecordInv

LEMMA SaveRecord ==
  ASSUME OneWriter, SerialInv, NEW w \in Writer, Save(w)
  PROVE  RecordInv'
<1>1. /\ w \in Request /\ pc[w] = "save" /\ pc'[w] = "idle"
      /\ plan' = held[w] /\ acked' = Acknowledged(w)
      /\ held' = [held EXCEPT ![w] = NoPlan]
      /\ Update(SortPBXPlan(arrays, held[w]))
  BY DEF Save, End, Goto, Request, SerialInv, CellsInv, JobsInv
<1>2. PICK p : p = held[w]
  OBVIOUS
<1>3. KindsApart(p, p)
  BY <1>1, <1>2 DEF SerialInv, ApartInv, Plans
<1>4. \A k \in Kind : View(arrays', plan'[k]) = Sorted(View(arrays, p[k]))
  <2>1. TablesInv
    BY DEF SerialInv, CellsInv
  <2>2. /\ w \in Request /\ Update(SortPBXPlan(arrays, held[w]))
        /\ plan' = plan \/ plan' = held[w]
        /\ held' = held \/ held' = [held EXCEPT ![w] = NoPlan]
    BY <1>1
  <2>3. KindsApart(p, p) => \A k \in Kind :
          /\ plan'[k] = p[k] => View(arrays', plan'[k]) = Sorted(View(arrays, p[k]))
          /\ held'[w][k] = p[k] => View(arrays', held'[w][k]) = Sorted(View(arrays, p[k]))
    BY <1>2, <2>1, <2>2, SortStep
  <2>4. plan' = p
    BY <1>1, <1>2
  <2>5. QED
    BY <1>3, <2>3, <2>4
<1>5. ASSUME NEW k \in Kind
      PROVE  /\ Records(View(arrays', plan'[k]), acked'[k])
             /\ InKeyOrder(View(arrays', plan'[k]))
             /\ \A e, f \in acked'[k] : e.id = f.id => e = f
  <2>1. View(arrays, p[k]) \in Seq(Entity)
    BY <1>1, <1>2, ViewOfWritten DEF SerialInv, CellsInv, TablesInv
  <2>2. Records(View(arrays, p[k]), acked'[k])
    BY <1>1, <1>2 DEF SerialInv, RecordInv
  <2>3. QED
    BY <1>4, <2>1, <2>2, SortRecords, RecordedOnce
<1>6. \A v \in Writer : v = w
  BY DEF OneWriter
<1>7. IDsUnique'
  BY <1>5 DEF IDsUnique
<1>8. QED
  BY <1>1, <1>5, <1>6, <1>7 DEF RecordInv

\* Requests that only read change neither what is stored nor what a writer holds.
LEMMA ListRecord ==
  ASSUME SerialInv, NEW r \in Reader, List(r)
  PROVE  RecordInv'
<1>1. /\ r \in Request /\ r \notin Writer /\ Writer \subseteq Request
      /\ plan' = plan /\ acked' = acked
  BY PBXAssumption DEF Request, List, ListRead, ListShow, Begin
<1>2. \A w \in Writer : pc'[w] = pc[w] /\ job'[w] = job[w] /\ held'[w] = held[w]
  BY <1>1 DEF List, ListRead, ListShow, Begin, End, Goto, SerialInv, CellsInv, JobsInv, TablesInv
<1>3. /\ \A k \in Kind : View(arrays', plan'[k]) = View(arrays, plan[k])
      /\ \A w \in Writer, k \in Kind : View(arrays', held'[w][k]) = View(arrays, held[w][k])
  <2>1. ASSUME arrays' = arrays, NEW s
        PROVE  View(arrays', s) = View(arrays, s)
    BY <2>1
  <2>2. CASE ListShow(r)
    <3>1. TablesInv /\ held' = [held EXCEPT ![r] = NoPlan] /\ Update(arrays)
      BY <2>2 DEF ListShow, End, SerialInv, CellsInv
    <3>2. /\ \A k \in Kind : View(arrays', plan'[k]) = View(arrays, plan[k])
          /\ \A q \in Request, k \in Kind :
               View(arrays', held'[q][k]) = View(arrays, held'[q][k])
      BY <1>1, <3>1, DropStep
    <3>3. QED
      BY <1>1, <1>2, <3>2
  <2>3. CASE arrays' = arrays
    BY <1>1, <1>2, <2>1, <2>3
  <2>4. arrays' = arrays \/ ListShow(r)
    BY DEF List, ListRead, Begin
  <2>5. QED
    BY <2>2, <2>3, <2>4
<1>4. ASSUME NEW w \in Writer
      PROVE  Acknowledged(w)' = Acknowledged(w)
  <2>1. job'[w] = job[w] /\ acked' = acked
    BY <1>1, <1>2
  <2>2. QED
    BY <2>1, Zenon DEF Acknowledged
<1>5. IDsUnique'
  BY <1>1 DEF SerialInv, RecordInv, IDsUnique
<1>6. (\A w \in Writer : pc'[w] \notin {"sort", "save"}) =>
        \A k \in Kind : /\ Records(View(arrays', plan'[k]), acked'[k])
                        /\ InKeyOrder(View(arrays', plan'[k]))
  BY <1>1, <1>2, <1>3 DEF SerialInv, RecordInv
<1>7. ASSUME NEW w \in Writer, pc'[w] \in {"sort", "save"}
      PROVE  \A k \in Kind : Records(View(arrays', held'[w][k]), Acknowledged(w)'[k])
  <2>1. \A k \in Kind : Records(View(arrays, held[w][k]), Acknowledged(w)[k])
    BY <1>2, <1>7 DEF SerialInv, RecordInv
  <2>2. QED
    BY <1>3, <1>4, <2>1
<1>8. ASSUME NEW w \in Writer
      PROVE  /\ pc'[w] \in {"number", "append", "filter"} => held'[w] = plan'
             /\ pc'[w] \in {"append", "sort", "save"} /\ job'[w].op = "create" =>
                  /\ job'[w].id = NewID(acked'[job'[w].kind])
                  /\ \A e \in acked'[job'[w].kind] : e.id < job'[w].id
             /\ pc'[w] \in {"sort", "save"} /\ job'[w].op = "delete" =>
                  \E e \in acked'[job'[w].kind] : e.id = job'[w].id
  BY <1>1, <1>2 DEF SerialInv, RecordInv
<1>9. QED
  BY <1>5, <1>6, <1>7, <1>8 DEF RecordInv

LEMMA WriteRecord ==
  ASSUME OneWriter, SerialInv, NEW w \in Writer, Write(w)
  PROVE  RecordInv'
<1>1. ASSUME NEW k \in Kind, NEW key \in Key \cup {0}, CreateRead(w, k, key)
      PROVE  RecordInv'
  BY <1>1, BeginRecord DEF CreateRead
<1>2. ASSUME NEW k \in Kind, NEW id \in 1..(MaxID + 1), DeleteRead(w, k, id)
      PROVE  RecordInv'
  BY <1>2, BeginRecord DEF DeleteRead
<1>3. QED
  BY <1>1, <1>2, NumberRecord, AppendRecord, FilterRecord, SortRecord, SaveRecord
     DEF Write, Create, Delete

LEMMA InitRecord ==
  ASSUME Init
  PROVE  RecordInv
<1>1. \A k \in Kind : View(arrays, plan[k]) = <<>> /\ acked[k] = {}
  BY DEF Init, View, NoPlan, EmptySlice
<1>2. Records(<<>>, {}) /\ InKeyOrder(<<>>)
  BY DEF Records, InKeyOrder, DistinctIDs, ToSet
<1>3. \A w \in Writer : pc[w] = "idle"
  BY DEF Init, Request
<1>4. QED
  BY <1>1, <1>2, <1>3 DEF RecordInv, IDsUnique

LEMMA SerialIsInvariant ==
  ASSUME OneWriter
  PROVE  /\ Init => SerialInv
         /\ SerialInv /\ [Next]_vars => SerialInv'
<1>1. Init => SerialInv
  BY InitTables, InitApart, InitRecord DEF SerialInv
<1>2. ASSUME SerialInv, NEW w \in Writer, Write(w)
      PROVE  SerialInv'
  <2>1. CellsInv'
    BY <1>2, NextCells DEF SerialInv, Next
  <2>2. ApartInv'
    BY <1>2, ApartStep DEF SerialInv, CellsInv
  <2>3. RecordInv'
    BY <1>2, WriteRecord
  <2>4. QED
    BY <2>1, <2>2, <2>3 DEF SerialInv
<1>3. ASSUME SerialInv, NEW r \in Reader, List(r)
      PROVE  SerialInv'
  <2>1. CellsInv'
    BY <1>3, NextCells DEF SerialInv, Next
  <2>2. ApartInv'
    BY <1>3, ListApart DEF SerialInv, CellsInv
  <2>3. RecordInv'
    BY <1>3, ListRecord
  <2>4. QED
    BY <2>1, <2>2, <2>3 DEF SerialInv
<1>4. ASSUME SerialInv, UNCHANGED vars
      PROVE  SerialInv'
  <2>1. CellsInv'
    BY <1>4, NextCells DEF SerialInv
  <2>2. ApartInv'
    BY <1>4 DEF vars, SerialInv, ApartInv, Plans, KindsApart
  <2>3. /\ arrays' = arrays /\ plan' = plan /\ pc' = pc /\ job' = job
        /\ held' = held /\ acked' = acked
    BY <1>4 DEF vars
  <2>4. /\ IDsUnique'
        /\ \A w \in Writer : Acknowledged(w)' = Acknowledged(w)
    BY <1>4, <2>3 DEF SerialInv, RecordInv, IDsUnique, Acknowledged
  <2>5. RecordInv'
    BY <1>4, <2>3, <2>4 DEF SerialInv, RecordInv
  <2>6. QED
    BY <2>1, <2>2, <2>5 DEF SerialInv
<1>5. QED
  BY <1>1, <1>2, <1>3, <1>4 DEF Next

\* Requests that run one at a time leave a plan that is the record of what they
\* answered: of each kind what was created and not deleted, once, in order, and
\* under IDs of their own.
THEOREM SerialPlan == ASSUME OneWriter PROVE Spec => []PlanIsRecord
<1>1. (Init => SerialInv) /\ (SerialInv /\ [Next]_vars => SerialInv')
  BY SerialIsInvariant
<1>2. SerialInv => PlanIsRecord
  BY RecordIsPlan
<1>3. QED
  BY <1>1, <1>2, PTL DEF Spec

-----------------------------------------------------------------------------
(***************************************************************************)
(* The service implements the registry: the save is where a create or a    *)
(* delete takes effect, and every other step stutters.                     *)
(***************************************************************************)

LEMMA SaveTakesEffect ==
  ASSUME SerialInv, NEW w \in Writer, Save(w)
  PROVE  Registry!Next
<1>1. /\ w \in Request /\ pc[w] = "save" /\ acked' = Acknowledged(w)
      /\ job[w].op \in {"create", "delete"} /\ job[w].kind \in Kind
  BY DEF Save, Request, SerialInv, CellsInv, JobsInv
<1>2. PICK k, id, key : k = job[w].kind /\ id = job[w].id /\ key = job[w].key
  OBVIOUS
<1>3. CASE job[w].op = "create"
  <2>1. key \in Key
    BY <1>1, <1>2, <1>3 DEF SerialInv, CellsInv, JobsInv
  <2>2. acked' = [acked EXCEPT ![k] = @ \cup {[id |-> id, key |-> key]}]
    BY <1>1, <1>2, <1>3 DEF Acknowledged
  <2>3. id = NewID(acked[k])
    BY <1>1, <1>2, <1>3 DEF SerialInv, RecordInv
  <2>4. id = Registry!Max(Registry!IDs(k) \cup {0}) + 1
    BY <2>3 DEF NewID, Max, Registry!Max, Registry!IDs
  <2>5. Registry!Create(k, key)
    BY <2>2, <2>4 DEF Registry!Create
  <2>6. QED
    BY <1>1, <1>2, <2>1, <2>5 DEF Registry!Next
<1>4. CASE job[w].op = "delete"
  <2>1. acked' = [acked EXCEPT ![k] = {e \in @ : e.id # id}]
    BY <1>1, <1>2, <1>4 DEF Acknowledged
  <2>2. id \in Registry!IDs(k)
    BY <1>1, <1>2, <1>4 DEF SerialInv, RecordInv, Registry!IDs
  <2>3. Registry!Delete(k, id)
    BY <2>1, <2>2 DEF Registry!Delete
  <2>4. QED
    BY <1>1, <1>2, <2>2, <2>3 DEF Registry!Next
<1>5. QED
  BY <1>1, <1>3, <1>4

\* Requests that run one at a time are served by the registry their callers take
\* the service for: each create and each delete takes effect at once, at the save,
\* and a create gets the ID after the largest there is at that moment, though it
\* was computed from a plan read four steps earlier.
THEOREM SerialRegistry == ASSUME OneWriter PROVE Spec => ImplementsRegistry
<1>1. (Init => SerialInv) /\ (SerialInv /\ [Next]_vars => SerialInv')
  BY SerialIsInvariant
<1>2. Init => Registry!Init
  BY DEF Init, Registry!Init
<1>3. SerialInv /\ [Next]_vars => [Registry!Next]_acked
  <2>1. ASSUME SerialInv, NEW w \in Writer, Write(w)
        PROVE  Registry!Next \/ acked' = acked
    BY <2>1, SaveTakesEffect
       DEF Write, Create, CreateRead, CreateNumber, CreateAppend, Delete, DeleteRead,
           DeleteFilter, Sort, Begin
  <2>2. ASSUME NEW r \in Reader, List(r)
        PROVE  acked' = acked
    BY <2>2 DEF List, ListRead, ListShow, Begin
  <2>3. UNCHANGED vars => acked' = acked
    BY DEF vars
  <2>4. QED
    BY <2>1, <2>2, <2>3 DEF Next
<1>4. QED
  BY <1>1, <1>2, <1>3, PTL DEF Spec, ImplementsRegistry, Registry!Spec

=============================================================================
