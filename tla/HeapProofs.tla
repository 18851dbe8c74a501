----------------------------- MODULE HeapProofs -----------------------------
(***************************************************************************)
(* Proofs about Heap for every set of elements, every compare callback and *)
(* every UINT32_MAX: the calls keep the heap order and stay in memory.     *)
(*                                                                         *)
(* The loops are the point.  Between two iterations the order is broken in *)
(* one place; ButAt and ButBelow say where, and the four lemmas about them *)
(* are the whole argument.                                                 *)
(***************************************************************************)
EXTENDS Heap, DArrayOpsProofs

\* The order while emerge is at p: only p may rank above its parent.
ButAt(a, p) ==
    \A i \in Index \ {0} : i < a.length =>
        /\ i # p => Rank(a, i) <= Rank(a, Parent(i))
        /\ Parent(i) = p /\ p # 0 => Rank(a, i) <= Rank(a, Parent(p))

\* The order while sink is at p: only the children of p may.
ButBelow(a, p) ==
    \A i \in Index \ {0} : i < a.length =>
        /\ Parent(i) # p => Rank(a, i) <= Rank(a, Parent(i))
        /\ Parent(i) = p /\ p # 0 => Rank(a, i) <= Rank(a, Parent(p))

\* The length at which no index computed from a position of the heap wraps.
Narrow(a) == 2 * a.length <= MaxU32 + 1

-----------------------------------------------------------------------------
(***************************************************************************)
(* Index arithmetic and ranks                                              *)
(***************************************************************************)

\* parent() undoes both child macros and goes up.
LEMMA ParentFacts ==
    ASSUME NEW i \in Nat \ {0}
    PROVE  /\ Parent(i) \in Nat
           /\ Parent(i) < i
           /\ i = 2 * Parent(i) + 1 \/ i = 2 * Parent(i) + 2
BY DEF Parent

\* A number a uint32_t holds is not changed by being one.
LEMMA WrapSmall ==
    ASSUME NEW n \in Nat, n <= MaxU32
    PROVE  Wrap(n) = n
BY OpsAssumption DEF Wrap

\* In a narrow heap the index macros compute what they say.
LEMMA ChildIndexes ==
    ASSUME NEW a, Good(a), Narrow(a), NEW p \in Nat, p < a.length
    PROVE  /\ LastIndex(a) = a.length - 1
           /\ LeftChild(p) = 2 * p + 1
           /\ 2 * p + 1 < a.length => RightChild(p) = 2 * p + 2
<1>1. a.length \in Nat /\ a.length <= MaxU32 /\ MaxU32 \in Nat
  BY OpsAssumption DEF Good, Array, U32
<1>2. a.length - 1 \in Nat /\ a.length - 1 <= MaxU32
  BY <1>1
<1>3. 2 * p + 1 \in Nat /\ 2 * p + 1 <= MaxU32
  BY <1>1 DEF Narrow
<1>4. 2 * p + 1 < a.length => 2 * p + 2 \in Nat /\ 2 * p + 2 <= MaxU32
  BY <1>1
<1> QED BY <1>2, <1>3, <1>4, WrapSmall DEF LastIndex, LeftChild, RightChild

\* Slots in use have a rank.
LEMMA RankInt ==
    ASSUME NEW a, Good(a), NEW i \in Nat, i < a.length
    PROVE  i \in Index /\ Rank(a, i) \in Int
<1>1. i \in Index
  BY OpsAssumption DEF Good, Array, U32, Index
<1>2. a.data[i] \in Elem
  BY <1>1 DEF Good, BlockSound
<1>3. a.compare \in [Elem -> Int]
  BY OpsAssumption DEF Good, Array
<1> QED BY <1>1, <1>2, <1>3 DEF Rank

\* Swapping two slots in use keeps the array good and exchanges two ranks.
LEMMA SwapFacts ==
    ASSUME NEW a, Good(a), NEW i \in Nat, NEW j \in Nat, i < a.length, j < a.length
    PROVE  /\ Good(Swap(a, i, j))
           /\ Swap(a, i, j).length = a.length
           /\ \A k \in Index : Rank(Swap(a, i, j), k) =
                IF k = j THEN Rank(a, i) ELSE IF k = i THEN Rank(a, j) ELSE Rank(a, k)
<1> DEFINE b == Swap(a, i, j)
<1>1. i \in Index /\ j \in Index
  BY RankInt
<1>2. a.data[i] \in Elem /\ a.data[j] \in Elem
  BY <1>1 DEF Good, BlockSound
<1>3. /\ b.length = a.length /\ b.capacity = a.capacity
      /\ b.slots = a.slots /\ b.compare = a.compare
  BY DEF Swap, Good, Array
<1>4. b.data = [a.data EXCEPT ![i] = a.data[j], ![j] = a.data[i]]
  BY DEF Swap, Good, Array
<1>5. b \in Array
  BY <1>1, <1>2 DEF Swap, Good, Array
<1>6. \A k \in Index : b.data[k] = IF k = j THEN a.data[i] ELSE IF k = i THEN a.data[j]
                                   ELSE a.data[k]
  BY <1>1, <1>4 DEF Good, Array
<1>7. Good(b)
  BY <1>2, <1>3, <1>5, <1>6 DEF Good, BlockSound
<1>8. \A k \in Index : Rank(b, k) = IF k = j THEN Rank(a, i)
                                    ELSE IF k = i THEN Rank(a, j) ELSE Rank(a, k)
  BY <1>3, <1>6 DEF Rank
<1> QED BY <1>3, <1>7, <1>8

-----------------------------------------------------------------------------
(***************************************************************************)
(* The loops                                                               *)
(***************************************************************************)

\* An iteration of emerge moves the one broken place to the parent.
LEMMA EmergeKeepsOrder ==
    ASSUME NEW a, Good(a), NEW p \in Nat \ {0}, p < a.length, ButAt(a, p),
           Rank(a, p) > Rank(a, Parent(p))
    PROVE  ButAt(Swap(a, p, Parent(p)), Parent(p))
<1> DEFINE q == Parent(p)
           b == Swap(a, p, q)
<1>1. q \in Nat /\ q < p /\ q < a.length /\ a.length \in Nat
  BY ParentFacts, OpsAssumption DEF Good, Array, U32
<1>2. /\ b.length = a.length
      /\ \A k \in Index : Rank(b, k) = IF k = q THEN Rank(a, p)
                                      ELSE IF k = p THEN Rank(a, q) ELSE Rank(a, k)
  BY <1>1, SwapFacts
<1> SUFFICES ASSUME NEW i \in Index \ {0}, i < a.length
               PROVE  /\ i # q => Rank(b, i) <= Rank(b, Parent(i))
                      /\ Parent(i) = q /\ q # 0 => Rank(b, i) <= Rank(b, Parent(q))
  BY <1>2 DEF ButAt
<1>4. i \in Nat /\ Parent(i) \in Nat /\ Parent(i) < i /\ Parent(i) < a.length
  BY <1>1, ParentFacts DEF Index
<1>5. /\ p \in Index /\ q \in Index /\ Parent(i) \in Index
      /\ Rank(a, p) \in Int /\ Rank(a, q) \in Int
      /\ Rank(a, i) \in Int /\ Rank(a, Parent(i)) \in Int
  BY <1>1, <1>4, RankInt
<1>6. /\ i # p => Rank(a, i) <= Rank(a, Parent(i))
      /\ Parent(i) = p => Rank(a, i) <= Rank(a, q)
  BY DEF ButAt
<1>7. ASSUME i # q
      PROVE  Rank(b, i) <= Rank(b, Parent(i))
  <2>1. CASE i = p
    BY <1>1, <1>2, <1>5, <2>1
  <2>2. CASE i # p /\ Parent(i) = p
    BY <1>1, <1>2, <1>5, <1>6, <1>7, <2>2
  <2>3. CASE i # p /\ Parent(i) = q
    BY <1>1, <1>2, <1>5, <1>6, <1>7, <2>3
  <2>4. CASE i # p /\ Parent(i) # p /\ Parent(i) # q
    BY <1>1, <1>2, <1>5, <1>6, <1>7, <2>4
  <2> QED BY <2>1, <2>2, <2>3, <2>4
<1>8. ASSUME Parent(i) = q, q # 0
      PROVE  Rank(b, i) <= Rank(b, Parent(q))
  <2>1. Parent(q) \in Nat /\ Parent(q) < q /\ Parent(q) < a.length
    BY <1>1, <1>8, ParentFacts
  <2>2. Parent(q) \in Index /\ Rank(a, Parent(q)) \in Int
    BY <2>1, RankInt
  <2>3. Rank(b, Parent(q)) = Rank(a, Parent(q))
    BY <1>1, <1>2, <2>1, <2>2
  <2>4. Rank(a, q) <= Rank(a, Parent(q))
    BY <1>1, <1>5, <1>8 DEF ButAt
  <2>5. CASE i = p
    BY <1>1, <1>2, <1>5, <2>2, <2>3, <2>4, <2>5
  <2>6. CASE i # p
    <3>1. Rank(b, i) = Rank(a, i)
      BY <1>2, <1>4, <1>8, <2>6
    <3> QED BY <1>5, <1>6, <1>8, <2>2, <2>3, <2>4, <2>6, <3>1
  <2> QED BY <2>5, <2>6
<1> QED BY <1>7, <1>8

\* When emerge stops, nothing is broken any more.
LEMMA EmergeRestoresOrder ==
    ASSUME NEW a, NEW p, ButAt(a, p), p = 0 \/ Rank(a, p) <= Rank(a, Parent(p))
    PROVE  HeapOrdered(a)
BY DEF ButAt, HeapOrdered

\* The slot sink picks is a child, above p in rank and not below the other child.
LEMMA MaxIndexFacts ==
    ASSUME NEW a, Good(a), Narrow(a), NEW p \in Nat, 2 * p + 1 < a.length
    PROVE  LET m == MaxIndex(a, p)
           IN  /\ m = p \/ m = 2 * p + 1 \/ m = 2 * p + 2
               /\ m # p => m < a.length /\ Rank(a, m) > Rank(a, p)
               /\ Rank(a, 2 * p + 1) <= Rank(a, m)
               /\ 2 * p + 2 < a.length => Rank(a, 2 * p + 2) <= Rank(a, m)
<1>1. a.length \in Nat /\ p < a.length
  BY OpsAssumption DEF Good, Array, U32
<1>2. LastIndex(a) = a.length - 1 /\ LeftChild(p) = 2 * p + 1 /\ RightChild(p) = 2 * p + 2
  BY <1>1, ChildIndexes
<1>3. Rank(a, p) \in Int /\ Rank(a, 2 * p + 1) \in Int
  BY <1>1, RankInt
<1>4. 2 * p + 2 < a.length => Rank(a, 2 * p + 2) \in Int
  BY RankInt
<1> DEFINE l == IF Rank(a, p) < Rank(a, 2 * p + 1) THEN 2 * p + 1 ELSE p
<1>5. MaxIndex(a, p) = IF 2 * p + 2 <= a.length - 1 /\ Rank(a, l) < Rank(a, 2 * p + 2)
                       THEN 2 * p + 2 ELSE l
  BY <1>2 DEF MaxIndex
<1>6. CASE Rank(a, p) < Rank(a, 2 * p + 1)
  BY <1>1, <1>3, <1>4, <1>5, <1>6
<1>7. CASE ~(Rank(a, p) < Rank(a, 2 * p + 1))
  BY <1>1, <1>3, <1>4, <1>5, <1>7
<1> QED BY <1>6, <1>7

\* An iteration of sink moves the broken places below the child it picked.
LEMMA SinkKeepsOrder ==
    ASSUME NEW a, Good(a), Narrow(a), NEW p \in Nat, 2 * p + 1 < a.length,
           ButBelow(a, p), MaxIndex(a, p) # p
    PROVE  ButBelow(Swap(a, p, MaxIndex(a, p)), MaxIndex(a, p))
<1> DEFINE m == MaxIndex(a, p)
           b == Swap(a, p, m)
<1>1. /\ m = 2 * p + 1 \/ m = 2 * p + 2
      /\ m \in Nat /\ m < a.length /\ p < m /\ p < a.length /\ a.length \in Nat
      /\ Rank(a, m) > Rank(a, p)
      /\ Rank(a, 2 * p + 1) <= Rank(a, m)
      /\ 2 * p + 2 < a.length => Rank(a, 2 * p + 2) <= Rank(a, m)
  BY MaxIndexFacts, OpsAssumption DEF Good, Array, U32
<1>2. /\ b.length = a.length
      /\ \A k \in Index : Rank(b, k) = IF k = m THEN Rank(a, p)
                                      ELSE IF k = p THEN Rank(a, m) ELSE Rank(a, k)
  BY <1>1, SwapFacts
<1>3. m # 0 /\ Parent(m) = p
  <2>1. m \in Nat \ {0}
    BY <1>1
  <2>2. Parent(m) \in Nat /\ (m = 2 * Parent(m) + 1 \/ m = 2 * Parent(m) + 2)
    BY <2>1, ParentFacts
  <2> QED BY <1>1, <2>1, <2>2
<1> HIDE DEF m
<1> SUFFICES ASSUME NEW i \in Index \ {0}, i < a.length
               PROVE  /\ Parent(i) # m => Rank(b, i) <= Rank(b, Parent(i))
                      /\ Parent(i) = m => Rank(b, i) <= Rank(b, p)
  BY <1>2, <1>3 DEF ButBelow, m
<1>5. /\ i \in Nat /\ Parent(i) \in Nat /\ Parent(i) < i /\ Parent(i) < a.length
      /\ i = 2 * Parent(i) + 1 \/ i = 2 * Parent(i) + 2
  BY <1>1, ParentFacts DEF Index
<1>6. /\ p \in Index /\ m \in Index /\ Parent(i) \in Index
      /\ Rank(a, p) \in Int /\ Rank(a, m) \in Int
      /\ Rank(a, i) \in Int /\ Rank(a, Parent(i)) \in Int
  BY <1>1, <1>5, RankInt
<1>7. Parent(i) # p => Rank(a, i) <= Rank(a, Parent(i))
  BY DEF ButBelow
<1>8. ASSUME Parent(i) # m
      PROVE  Rank(b, i) <= Rank(b, Parent(i))
  <2>1. CASE i = m
    BY <1>1, <1>2, <1>3, <1>6, <2>1
  <2>2. CASE i = p
    <3>1. Rank(a, m) <= Rank(a, Parent(p))
      BY <1>1, <1>3, <1>6, <2>2 DEF ButBelow
    <3> QED BY <1>2, <1>5, <1>6, <1>8, <2>2, <3>1
  <2>3. CASE i # m /\ i # p /\ Parent(i) = p
    <3>1. Rank(a, i) <= Rank(a, m)
      BY <1>1, <1>5, <2>3
    <3> QED BY <1>1, <1>2, <1>6, <2>3, <3>1
  <2>4. CASE i # m /\ i # p /\ Parent(i) # p
    BY <1>2, <1>6, <1>7, <1>8, <2>4
  <2> QED BY <2>1, <2>2, <2>3, <2>4
<1>9. ASSUME Parent(i) = m
      PROVE  Rank(b, i) <= Rank(b, p)
  <2>1. Rank(a, i) <= Rank(a, m)
    BY <1>1, <1>7, <1>9
  <2>2. i # m /\ i # p
    BY <1>1, <1>5, <1>9
  <2> QED BY <1>1, <1>2, <1>6, <2>1, <2>2
<1> QED BY <1>8, <1>9

\* When sink stops, at a leaf or above no larger child, nothing is broken.
LEMMA SinkRestoresOrder ==
    ASSUME NEW a, Good(a), Narrow(a), NEW p \in Nat, p < a.length, ButBelow(a, p),
           \/ 2 * p + 1 >= a.length
           \/ 2 * p + 1 < a.length /\ MaxIndex(a, p) = p
    PROVE  HeapOrdered(a)
<1> SUFFICES ASSUME NEW i \in Index \ {0}, i < a.length
             PROVE  Rank(a, i) <= Rank(a, Parent(i))
  BY DEF HeapOrdered
<1>1. /\ i \in Nat /\ a.length \in Nat
      /\ i = 2 * Parent(i) + 1 \/ i = 2 * Parent(i) + 2
  BY ParentFacts, OpsAssumption DEF Index, Good, Array, U32
<1>2. CASE Parent(i) # p
  BY <1>2 DEF ButBelow
<1>3. CASE Parent(i) = p
  <2>1. 2 * p + 1 < a.length /\ MaxIndex(a, p) = p
    BY <1>1, <1>3
  <2>2. /\ Rank(a, 2 * p + 1) <= Rank(a, p)
        /\ 2 * p + 2 < a.length => Rank(a, 2 * p + 2) <= Rank(a, p)
    BY <2>1, MaxIndexFacts
  <2> QED BY <1>1, <1>3, <2>2
<1> QED BY <1>2, <1>3

-----------------------------------------------------------------------------
(***************************************************************************)
(* Where the loops start                                                   *)
(***************************************************************************)

\* A root replaced in an ordered heap leaves only its children in doubt: what
\* heap_pop and heap_replace hand to sink.
LEMMA RootInDoubt ==
    ASSUME NEW a, Good(a), HeapOrdered(a), NEW b, Good(b),
           b.length <= a.length, b.compare = a.compare,
           \A i \in Index \ {0} : i < b.length => b.data[i] = a.data[i]
    PROVE  ButBelow(b, 0)
<1> SUFFICES ASSUME NEW i \in Index \ {0}, i < b.length, Parent(i) # 0
             PROVE  Rank(b, i) <= Rank(b, Parent(i))
  BY DEF ButBelow
<1>1. i \in Nat /\ Parent(i) \in Nat /\ Parent(i) < i /\ Parent(i) \in Index
  BY ParentFacts, OpsAssumption DEF Index
<1>2. b.length \in Nat /\ a.length \in Nat
  BY OpsAssumption DEF Good, Array, U32
<1>3. Parent(i) < b.length /\ i < a.length
  BY <1>1, <1>2
<1>4. Rank(b, i) = Rank(a, i) /\ Rank(b, Parent(i)) = Rank(a, Parent(i))
  BY <1>1, <1>3 DEF Rank
<1> QED BY <1>3, <1>4 DEF HeapOrdered

\* An element appended to an ordered heap is the only one in doubt: what
\* heap_insert hands to emerge.
LEMMA LastInDoubt ==
    ASSUME NEW a, Good(a), HeapOrdered(a), NEW b, Good(b),
           b.length = a.length + 1, b.compare = a.compare,
           \A i \in Index : i < a.length => b.data[i] = a.data[i]
    PROVE  ButAt(b, a.length)
<1> SUFFICES ASSUME NEW i \in Index \ {0}, i < b.length
             PROVE  /\ i # a.length => Rank(b, i) <= Rank(b, Parent(i))
                    /\ Parent(i) # a.length
  BY DEF ButAt
<1>1. i \in Nat /\ Parent(i) \in Nat /\ Parent(i) < i /\ Parent(i) \in Index
  BY ParentFacts, OpsAssumption DEF Index
<1>2. a.length \in Nat
  BY OpsAssumption DEF Good, Array, U32
<1>3. ASSUME i # a.length
      PROVE  Rank(b, i) <= Rank(b, Parent(i))
  <2>1. i < a.length /\ Parent(i) < a.length
    BY <1>1, <1>2, <1>3
  <2>2. Rank(b, i) = Rank(a, i) /\ Rank(b, Parent(i)) = Rank(a, Parent(i))
    BY <1>1, <2>1 DEF Rank
  <2> QED BY <2>1, <2>2 DEF HeapOrdered
<1> QED BY <1>1, <1>2, <1>3

\* One element at most is always in order.
LEMMA ShortIsOrdered ==
    ASSUME NEW a, Good(a), a.length <= 1
    PROVE  HeapOrdered(a)
BY OpsAssumption DEF HeapOrdered, Good, Array, U32, Index

\* Taking the root out: short heaps stay ordered, longer ones are sunk.
LEMMA TakeRootKeeps ==
    ASSUME Good(heap), Narrow(heap), HeapOrdered(heap), heap.length # 0,
           pc = "idle", TakeRoot
    PROVE  /\ Good(heap') /\ Narrow(heap')
           /\ \/ pc' = "idle" /\ pos' = pos /\ HeapOrdered(heap')
              \/ pc' = "sink" /\ pos' = 0 /\ 0 < heap'.length /\ ButBelow(heap', 0)
<1>1. heap.length \in Nat /\ heap.length > 0 /\ heap.length <= MaxU32 /\ MaxU32 \in Nat
  BY OpsAssumption DEF Good, Array, U32
<1>2. CASE /\ heap.length < 3
           /\ heap' \in Trimmed(RemoveSlot(heap, 0))
           /\ UNCHANGED <<pc, pos>>
  <2>1. Good(RemoveSlot(heap, 0)) /\ RemoveSlot(heap, 0).length = heap.length - 1
    BY <1>1, RemoveSlotGood DEF U32
  <2>2. PICK b \in Trimmed(RemoveSlot(heap, 0)) : heap' = b
    BY <1>2
  <2>3. Good(b) /\ b.length = heap.length - 1
    BY <2>1, <2>2, TrimmedGood
  <2>4. HeapOrdered(b) /\ Narrow(b)
    BY <1>1, <1>2, <2>3, ShortIsOrdered, OpsAssumption DEF Narrow
  <2> QED BY <1>2, <2>2, <2>3, <2>4
<1>3. CASE /\ heap.length >= 3
           /\ \E b \in Trimmed(RemoveSlot(heap, heap.length - 1)) :
                 heap' = WriteSlot(b, 0, heap.data[heap.length - 1])
           /\ pc' = "sink"
           /\ pos' = 0
  <2> DEFINE last == heap.length - 1
             cut == RemoveSlot(heap, last)
             x == heap.data[last]
  <2>1. last \in U32 /\ last \in Index /\ 0 \in U32 /\ 0 \in Index /\ last < heap.length
    BY <1>1, <1>3 DEF U32, Index
  <2>2. Good(cut) /\ cut.length = last
    BY <2>1, RemoveSlotGood
  <2>3. cut.compare = heap.compare /\ \A i \in Index : i < last => cut.data[i] = heap.data[i]
    BY RemoveSlotData
  <2>4. PICK b \in Trimmed(cut) : heap' = WriteSlot(b, 0, x)
    BY <1>3
  <2>5. /\ Good(b) /\ b.length = last /\ b.compare = heap.compare
        /\ \A i \in Index : i < last => b.data[i] = heap.data[i]
    BY <2>2, <2>3, <2>4, TrimmedGood
  <2>6. x \in Elem
    BY <2>1 DEF Good, BlockSound
  <2> DEFINE d == WriteSlot(b, 0, x)
  <2>7. 0 < b.length /\ b.length < heap.length
    BY <1>1, <1>3, <2>5
  <2>8. Good(d)
    BY <2>1, <2>5, <2>6, <2>7, WriteSlotGood
  <2>9. /\ d.length = last /\ d.compare = heap.compare
        /\ \A i \in Index \ {0} : d.data[i] = b.data[i]
    BY <2>1, <2>5, WriteSlotData
  <2>10. d.length <= heap.length /\ 0 < d.length
    BY <1>1, <2>5, <2>7, <2>9
  <2>11. ButBelow(d, 0)
    BY <2>5, <2>8, <2>9, <2>10, RootInDoubt
  <2>12. Narrow(d)
    BY <1>1, <2>9, OpsAssumption DEF Narrow
  <2> QED BY <1>3, <2>4, <2>8, <2>10, <2>11, <2>12
<1> QED BY <1>2, <1>3 DEF TakeRoot

-----------------------------------------------------------------------------
(***************************************************************************)
(* The invariant: between calls the heap is ordered, and in the middle of  *)
(* a loop it is but for the place the loop is at.  OrderedAtRest alone is  *)
(* not inductive, for it says nothing of the states the loops go through.  *)
(***************************************************************************)
Shape ==
    /\ ~Absent => Narrow(heap)
    /\ pc # "idle" => ~Absent /\ pos < heap.length
    /\ pending => ~Absent

Order ==
    /\ pc = "idle" /\ ~Absent => HeapOrdered(heap)
    /\ pc = "emerge" => ButAt(heap, pos)
    /\ pc = "sink" => ButBelow(heap, pos)

IInv == TypeOK /\ Sound /\ MemorySafe /\ Shape /\ Order

LEMMA HeapGood ==
    ASSUME IInv, ~Absent
    PROVE  Good(heap) /\ Narrow(heap) /\ heap # Null
BY DEF IInv, TypeOK, Sound, Shape, Absent, Good

LEMMA InitKeeps == Init => IInv
<1> SUFFICES ASSUME Init PROVE IInv
  OBVIOUS
<1>1. 0 \in U32 /\ Null \in Result
  BY OpsAssumption DEF U32, Result
<1>2. TypeOK
  BY <1>1 DEF Init, TypeOK
<1>3. Sound /\ MemorySafe
  BY DEF Init, Sound, MemorySafe, Absent
<1>4. Shape /\ Order
  BY DEF Init, Shape, Order, Absent
<1> QED BY <1>2, <1>3, <1>4 DEF IInv

\* What a step that leaves a heap behind has to show.
LEMMA LiveKeeps ==
    ASSUME Good(heap'), Narrow(heap'), held' \subseteq Elem, freed' \subseteq Elem,
           ret' \in Result, fault' = FALSE, pos' \in U32, pending' \in BOOLEAN,
           \/ pc' = "idle" /\ HeapOrdered(heap')
           \/ pc' = "emerge" /\ pos' < heap'.length /\ ButAt(heap', pos')
           \/ pc' = "sink" /\ pos' < heap'.length /\ ButBelow(heap', pos')
    PROVE  IInv'
<1>1. heap' \in Array /\ heap' # Null
  BY HeapAssumption DEF Good
<1>2. TypeOK'
  BY <1>1 DEF TypeOK
<1>3. Sound' /\ MemorySafe'
  BY DEF Sound, MemorySafe, Good
<1>4. Shape'
  BY <1>1 DEF Shape, Absent, Narrow
<1>5. Order'
  BY DEF Order, HeapOrdered, ButAt, ButBelow, Rank
<1> QED BY <1>2, <1>3, <1>4, <1>5 DEF IInv

LEMMA AnswerKeeps ==
    ASSUME IInv, NEW result \in Result, Answer(result)
    PROVE  IInv'
<1>1. TypeOK'
  BY DEF IInv, TypeOK, Answer
<1>2. Sound' /\ MemorySafe'
  BY DEF IInv, Sound, MemorySafe, Absent, Answer
<1>3. Shape' /\ Order'
  BY DEF IInv, Shape, Order, Absent, Narrow, HeapOrdered, ButAt, ButBelow, Rank, Answer
<1> QED BY <1>1, <1>2, <1>3 DEF IInv

\* One iteration of emerge.
LEMMA EmergeKeeps ==
    ASSUME IInv, EmergeStep
    PROVE  IInv' /\ (pc' = "emerge" => pos' < pos) /\ pc' # "sink"
<1>1. /\ ~Absent /\ Good(heap) /\ Narrow(heap) /\ pos \in Nat /\ pos < heap.length
      /\ ButAt(heap, pos) /\ heap # Null
  BY HeapGood, OpsAssumption DEF EmergeStep, IInv, TypeOK, Shape, Order, U32
<1>2. UNCHANGED <<held, freed, ret, fault, pending>>
  BY DEF EmergeStep
<1>3. /\ held' \subseteq Elem /\ freed' \subseteq Elem /\ ret' \in Result
      /\ fault' = FALSE /\ pending' \in BOOLEAN /\ pc = "emerge" /\ pos \in U32
  BY <1>2 DEF IInv, TypeOK, MemorySafe, EmergeStep
<1>4. CASE /\ pos # 0 /\ Rank(heap, pos) > Rank(heap, Parent(pos))
           /\ heap' = Swap(heap, pos, Parent(pos))
           /\ pos' = Parent(pos)
           /\ UNCHANGED pc
  <2> DEFINE b == Swap(heap, pos, Parent(pos))
  <2>1. pos \in Nat \ {0} /\ Parent(pos) \in Nat /\ Parent(pos) < pos
    BY <1>1, <1>4, ParentFacts
  <2>2. heap.length \in Nat /\ heap.length <= MaxU32 /\ MaxU32 \in Nat
    BY <1>1, OpsAssumption DEF Good, Array, U32
  <2>3. Parent(pos) < heap.length /\ Parent(pos) \in U32
    BY <1>1, <2>1, <2>2 DEF U32
  <2>4. Good(b) /\ b.length = heap.length
    BY <1>1, <2>1, <2>3, SwapFacts
  <2>5. ButAt(b, Parent(pos))
    BY <1>1, <1>4, <2>1, EmergeKeepsOrder
  <2>6. Narrow(b)
    BY <1>1, <2>4 DEF Narrow
  <2> HIDE DEF b
  <2>7. heap' = b
    BY <1>4 DEF b
  <2>8. IInv'
    BY <1>3, <1>4, <2>3, <2>4, <2>5, <2>6, <2>7, LiveKeeps
  <2> QED BY <1>3, <1>4, <2>1, <2>8
<1>5. CASE /\ pos = 0 \/ Rank(heap, pos) <= Rank(heap, Parent(pos))
           /\ pc' = "idle"
           /\ UNCHANGED <<heap, pos>>
  <2>1. HeapOrdered(heap)
    BY <1>1, <1>5, EmergeRestoresOrder
  <2>2. Good(heap') /\ Narrow(heap') /\ HeapOrdered(heap')
    BY <1>1, <1>5, <2>1
  <2>3. IInv'
    BY <1>3, <1>5, <2>2, LiveKeeps
  <2> QED BY <1>5, <2>3
<1> QED BY <1>4, <1>5 DEF EmergeStep

\* One iteration of sink.
LEMMA SinkKeeps ==
    ASSUME IInv, SinkStep
    PROVE  IInv' /\ (pc' = "sink" => pos' > pos) /\ pc' # "emerge"
<1>1. /\ ~Absent /\ Good(heap) /\ Narrow(heap) /\ pos \in Nat /\ pos < heap.length
      /\ ButBelow(heap, pos) /\ heap # Null
  BY HeapGood, OpsAssumption DEF SinkStep, IInv, TypeOK, Shape, Order, U32
<1>2. UNCHANGED <<held, freed, ret, fault, pending>>
  BY DEF SinkStep
<1>3. /\ held' \subseteq Elem /\ freed' \subseteq Elem /\ ret' \in Result
      /\ fault' = FALSE /\ pending' \in BOOLEAN /\ pc = "sink" /\ pos \in U32
  BY <1>2 DEF IInv, TypeOK, MemorySafe, SinkStep
<1>4. heap.length \in Nat /\ heap.length <= MaxU32 /\ MaxU32 \in Nat
  BY <1>1, OpsAssumption DEF Good, Array, U32
<1>5. LastIndex(heap) = heap.length - 1 /\ LeftChild(pos) = 2 * pos + 1
  BY <1>1, ChildIndexes
<1>6. CASE /\ LeftChild(pos) <= LastIndex(heap)
           /\ MaxIndex(heap, pos) # pos
           /\ heap' = Swap(heap, pos, MaxIndex(heap, pos))
           /\ pos' = MaxIndex(heap, pos)
           /\ UNCHANGED pc
  <2> DEFINE m == MaxIndex(heap, pos)
             b == Swap(heap, pos, m)
  <2>1. 2 * pos + 1 < heap.length
    BY <1>1, <1>4, <1>5, <1>6
  <2>2. m \in Nat /\ m < heap.length /\ pos < m
    BY <1>1, <1>6, <2>1, MaxIndexFacts
  <2>3. Good(b) /\ b.length = heap.length
    BY <1>1, <2>2, SwapFacts
  <2>4. ButBelow(b, m)
    BY <1>1, <1>6, <2>1, SinkKeepsOrder
  <2>5. Narrow(b)
    BY <1>1, <2>3 DEF Narrow
  <2>6. m \in U32
    BY <1>4, <2>2 DEF U32
  <2>7. heap' = b /\ pos' = m
    BY <1>6
  <2> HIDE DEF b, m
  <2>8. IInv'
    BY <1>3, <1>6, <2>2, <2>3, <2>4, <2>5, <2>6, <2>7, LiveKeeps
  <2> QED BY <1>1, <1>3, <1>6, <2>2, <2>7, <2>8
<1>7. CASE /\ \/ LeftChild(pos) > LastIndex(heap)
              \/ LeftChild(pos) <= LastIndex(heap) /\ MaxIndex(heap, pos) = pos
           /\ pc' = "idle"
           /\ UNCHANGED <<heap, pos>>
  <2>1. \/ 2 * pos + 1 >= heap.length
        \/ 2 * pos + 1 < heap.length /\ MaxIndex(heap, pos) = pos
    BY <1>1, <1>4, <1>5, <1>7
  <2>2. HeapOrdered(heap)
    BY <1>1, <2>1, SinkRestoresOrder
  <2>3. Good(heap') /\ Narrow(heap') /\ HeapOrdered(heap')
    BY <1>1, <1>7, <2>2
  <2>4. IInv'
    BY <1>3, <1>7, <2>3, LiveKeeps
  <2> QED BY <1>7, <2>4
<1> QED BY <1>6, <1>7 DEF SinkStep

\* heap_create.
LEMMA CreateKeeps ==
    ASSUME IInv, NEW c \in Compare \cup {Null}, NEW n \in Capacities, Create(c, n)
    PROVE  IInv'
<1>1. CASE Answer(Null)
  BY <1>1, AnswerKeeps DEF Result
<1>2. CASE ~Answer(Null)
  <2> DEFINE b == NewArray(IF c = Null THEN DefaultCompare ELSE c, n)
  <2>1. heap' = b /\ ret' = OK /\ UNCHANGED <<held, freed, fault, pc, pos, pending>>
    BY <1>2 DEF Create
  <2>2. n \in U32 /\ (IF c = Null THEN DefaultCompare ELSE c) \in Compare
    BY OpsAssumption, HeapAssumption
  <2>3. Good(b) /\ b.length = 0
    BY <2>2, NewArrayGood
  <2> HIDE DEF b
  <2>4. HeapOrdered(b) /\ Narrow(b)
    BY <2>3, ShortIsOrdered, OpsAssumption DEF Narrow
  <2>5. OK \in Result
    BY OpsAssumption DEF OK, Result
  <2>6. /\ held' \subseteq Elem /\ freed' \subseteq Elem /\ ret' \in Result
        /\ fault' = FALSE /\ pos' \in U32 /\ pending' \in BOOLEAN
    BY <2>1, <2>5 DEF IInv, TypeOK, MemorySafe
  <2>7. pc' = "idle"
    BY <2>1 DEF Create, Ready
  <2> QED BY <2>1, <2>3, <2>4, <2>6, <2>7, LiveKeeps
<1> QED BY <1>1, <1>2

\* heap_insert.
LEMMA InsertKeeps ==
    ASSUME Contract, IInv, NEW x \in Mine, Insert(x)
    PROVE  IInv'
<1>1. CASE Answer(ERR)
  BY <1>1, AnswerKeeps, OpsAssumption DEF Result, ERR
<1>2. CASE ~Answer(ERR)
  <2>1. /\ ~Absent /\ x # Null /\ pc = "idle" /\ ~pending
        /\ 2 * (heap.length + 1) <= MaxU32 + 1
        /\ held' = held \ {x} /\ ret' = OK /\ UNCHANGED <<freed, pending>>
    BY <1>2 DEF Insert, Contract, Ready
  <2>2. PICK b \in Roomy(heap) :
           /\ heap' = InsertSlot(b, b.length, x)
           /\ fault' = ~InBlock(b, b.length + 1)
           /\ IF b.length + 1 # 1
                THEN pc' = "emerge" /\ pos' = b.length
                ELSE UNCHANGED <<pc, pos>>
    BY <1>2 DEF Insert
  <2>3. Good(heap) /\ HeapOrdered(heap) /\ x \in Elem
    BY <2>1, HeapGood DEF IInv, TypeOK, Order, Mine
  <2>4. /\ Good(b) /\ b.length = heap.length /\ b.length < b.slots
        /\ b.compare = heap.compare
        /\ \A i \in Index : i < heap.length => b.data[i] = heap.data[i]
    BY <2>3, RoomyGood
  <2>5. b.length \in U32 /\ b.length \in Nat /\ b.slots \in Nat /\ b.slots <= MaxU32
    BY <2>4, OpsAssumption DEF Good, Array, U32
  <2> DEFINE d == InsertSlot(b, b.length, x)
  <2>6. Good(d) /\ d.length = heap.length + 1
    BY <2>3, <2>4, <2>5, InsertSlotGood
  <2>7. /\ d.compare = heap.compare
        /\ \A i \in Index : i < heap.length => d.data[i] = heap.data[i]
    BY <2>4, InsertSlotData
  <2>8. heap' = d
    BY <2>2
  <2> HIDE DEF d
  <2>9. ButAt(d, heap.length)
    BY <2>3, <2>6, <2>7, LastInDoubt
  <2>10. Narrow(d)
    BY <2>1, <2>6 DEF Narrow
  <2>11. InBlock(b, b.length + 1)
    BY <2>4, <2>5 DEF InBlock
  <2>12. OK \in Result
    BY OpsAssumption DEF OK, Result
  <2>13. /\ held' \subseteq Elem /\ freed' \subseteq Elem /\ ret' \in Result
         /\ pending' \in BOOLEAN
    BY <2>1, <2>12 DEF IInv, TypeOK
  <2>14. fault' = FALSE
    BY <2>2, <2>11
  <2>15. CASE heap.length = 0
    <3>1. pc' = "idle" /\ pos' \in U32
      BY <2>1, <2>2, <2>4, <2>15 DEF IInv, TypeOK
    <3>2. HeapOrdered(d)
      BY <2>6, <2>15, ShortIsOrdered
    <3> QED BY <2>6, <2>8, <2>10, <2>13, <2>14, <3>1, <3>2, LiveKeeps
  <2>16. CASE heap.length # 0
    <3>1. pc' = "emerge" /\ pos' = heap.length
      BY <2>2, <2>4, <2>5, <2>16
    <3>2. pos' \in U32 /\ pos' < d.length
      BY <2>4, <2>5, <2>6, <3>1
    <3> QED BY <2>6, <2>8, <2>9, <2>10, <2>13, <2>14, <3>1, <3>2, LiveKeeps
  <2> QED BY <2>15, <2>16
<1> QED BY <1>1, <1>2

\* What heap_pop and both halves of heap_delete_max_index do to the heap.
LEMMA RootLeaves ==
    ASSUME IInv, ~Absent, heap.length # 0, pc = "idle", TakeRoot,
           held' \subseteq Elem, freed' \subseteq Elem, ret' \in Result,
           fault' = ~InBlock(heap, heap.length), pending' \in BOOLEAN
    PROVE  IInv'
<1>1. Good(heap) /\ Narrow(heap) /\ HeapOrdered(heap)
  BY HeapGood DEF IInv, Order
<1>2. /\ Good(heap') /\ Narrow(heap')
      /\ \/ pc' = "idle" /\ pos' = pos /\ HeapOrdered(heap')
         \/ pc' = "sink" /\ pos' = 0 /\ 0 < heap'.length /\ ButBelow(heap', 0)
  BY <1>1, TakeRootKeeps
<1>3. fault' = FALSE
  BY <1>1 DEF InBlock, Good, BlockSound
<1>4. pos' \in U32
  BY <1>2, OpsAssumption DEF IInv, TypeOK, U32
<1> QED BY <1>2, <1>3, <1>4, LiveKeeps

\* The root of a heap that is not empty is an element.
LEMMA RootElem ==
    ASSUME IInv, ~Absent, heap.length # 0
    PROVE  heap.data[0] \in Elem
<1>1. Good(heap)
  BY HeapGood
<1>2. 0 \in Index /\ 0 < heap.length
  BY <1>1, OpsAssumption DEF Good, Array, U32, Index
<1> QED BY <1>1, <1>2 DEF Good, BlockSound

\* heap_pop.
LEMMA PopKeeps ==
    ASSUME IInv, Pop
    PROVE  IInv'
<1>1. CASE Answer(Null)
  BY <1>1, AnswerKeeps DEF Result
<1>2. CASE ~Answer(Null)
  <2>1. /\ ~Absent /\ heap.length # 0 /\ TakeRoot /\ pc = "idle"
        /\ held' = held \cup {heap.data[0]} /\ ret' = heap.data[0]
        /\ fault' = ~InBlock(heap, heap.length)
        /\ UNCHANGED <<freed, pending>>
    BY <1>2 DEF Pop, Ready
  <2>2. heap.data[0] \in Elem
    BY <2>1, RootElem
  <2>3. held' \subseteq Elem /\ freed' \subseteq Elem /\ ret' \in Result
        /\ pending' \in BOOLEAN
    BY <2>1, <2>2 DEF IInv, TypeOK, Result
  <2> QED BY <2>1, <2>3, RootLeaves
<1> QED BY <1>1, <1>2

\* heap_replace.
LEMMA ReplaceKeeps ==
    ASSUME Contract, IInv, NEW y \in Mine, NEW d \in BOOLEAN, Replace(y, d)
    PROVE  IInv'
<1>1. CASE Answer(ERR)
  BY <1>1, AnswerKeeps, OpsAssumption DEF Result, ERR
<1>2. CASE ~Answer(ERR)
  <2>1. /\ ~Absent /\ y # Null /\ heap.length # 0 /\ pc = "idle"
        /\ heap' = WriteSlot(heap, 0, y)
        /\ freed' = freed \cup {heap.data[0]}
        /\ held' = held \ {y}
        /\ ret' = OK /\ pc' = "sink" /\ pos' = 0
        /\ fault' = ~InBlock(heap, 1)
        /\ UNCHANGED pending
    BY <1>2 DEF Replace, Contract, Ready
  <2>2. y \in Elem /\ Good(heap) /\ Narrow(heap) /\ HeapOrdered(heap)
    BY <2>1, HeapGood DEF IInv, TypeOK, Mine, Order
  <2>3. 0 \in U32 /\ 0 \in Index /\ 0 < heap.length /\ 1 <= heap.slots
    BY <2>1, <2>2, OpsAssumption DEF Good, BlockSound, Array, U32, Index
  <2> DEFINE b == WriteSlot(heap, 0, y)
  <2>4. Good(b)
    BY <2>2, <2>3, WriteSlotGood
  <2>5. /\ b.length = heap.length /\ b.compare = heap.compare
        /\ \A i \in Index \ {0} : b.data[i] = heap.data[i]
    BY <2>2, <2>3, WriteSlotData
  <2> HIDE DEF b
  <2>6. heap.length \in Int
    BY <2>2, OpsAssumption DEF Good, Array, U32
  <2>7. ButBelow(b, 0)
    BY <2>2, <2>4, <2>5, <2>6, RootInDoubt
  <2>8. Narrow(b)
    BY <2>2, <2>5 DEF Narrow
  <2>9. fault' = FALSE
    BY <2>1, <2>3 DEF InBlock
  <2>10. OK \in Result
    BY OpsAssumption DEF OK, Result
  <2>11. heap.data[0] \in Elem
    BY <2>1, RootElem
  <2>12. /\ held' \subseteq Elem /\ freed' \subseteq Elem /\ ret' \in Result
         /\ pending' \in BOOLEAN
    BY <2>1, <2>10, <2>11 DEF IInv, TypeOK
  <2>13. heap' = b
    BY <2>1 DEF b
  <2> QED BY <2>1, <2>3, <2>4, <2>5, <2>7, <2>8, <2>9, <2>12, <2>13, LiveKeeps
<1> QED BY <1>1, <1>2

\* heap_delete_max_index, its first pop and its second.
LEMMA DeleteMaxKeeps ==
    ASSUME IInv, NEW d \in BOOLEAN, DeleteMax(d)
    PROVE  IInv'
<1>1. CASE Answer(ERR)
  BY <1>1, AnswerKeeps, OpsAssumption DEF Result, ERR
<1>2. CASE ~Answer(ERR)
  <2>1. /\ ~Absent /\ heap.length # 0 /\ TakeRoot /\ pc = "idle"
        /\ pending' = TRUE /\ ret' = OK
        /\ fault' = ~InBlock(heap, heap.length)
        /\ UNCHANGED <<held, freed>>
    BY <1>2 DEF DeleteMax, Ready
  <2>2. OK \in Result
    BY OpsAssumption DEF OK, Result
  <2>3. held' \subseteq Elem /\ freed' \subseteq Elem /\ ret' \in Result
    BY <2>1, <2>2 DEF IInv, TypeOK
  <2> QED BY <2>1, <2>3, RootLeaves
<1> QED BY <1>1, <1>2

LEMMA DeleteMaxAgainKeeps ==
    ASSUME IInv, DeleteMaxAgain
    PROVE  IInv'
<1>1. /\ pc = "idle" /\ pending /\ pending' = FALSE /\ UNCHANGED <<held, ret>>
  BY DEF DeleteMaxAgain
<1>2. ~Absent
  BY <1>1 DEF IInv, Shape
<1>3. held' \subseteq Elem /\ ret' \in Result /\ pending' \in BOOLEAN
  BY <1>1 DEF IInv, TypeOK
<1>4. CASE heap.length = 0 /\ UNCHANGED <<heap, freed, fault, pc, pos>>
  <2>1. Good(heap) /\ Narrow(heap) /\ HeapOrdered(heap)
    BY <1>1, <1>2, HeapGood DEF IInv, Order
  <2>2. Good(heap') /\ Narrow(heap') /\ HeapOrdered(heap') /\ pc' = "idle"
    BY <1>1, <1>4, <2>1
  <2>3. freed' \subseteq Elem /\ fault' = FALSE /\ pos' \in U32
    BY <1>4 DEF IInv, TypeOK, MemorySafe
  <2> QED BY <1>3, <2>2, <2>3, LiveKeeps
<1>5. CASE /\ heap.length # 0
           /\ TakeRoot
           /\ freed' = freed \cup {heap.data[0]}
           /\ fault' = ~InBlock(heap, heap.length)
  <2>1. freed' \subseteq Elem
    BY <1>2, <1>5, RootElem DEF IInv, TypeOK
  <2> QED BY <1>1, <1>2, <1>3, <1>5, <2>1, RootLeaves
<1> QED BY <1>4, <1>5 DEF DeleteMaxAgain

\* heap_find_max_index and heap_is_empty.
LEMMA QuestionKeeps ==
    ASSUME IInv, FindMax \/ IsEmpty
    PROVE  IInv'
<1>1. ASSUME NEW r \in Result, Answer(r)
      PROVE  IInv'
  BY <1>1, AnswerKeeps
<1>2. Null \in Result /\ ERR \in Result /\ Elem \subseteq Result
  BY OpsAssumption DEF ERR, Result
<1>3. ~Absent => AsInt(heap.length) \in Result
  <2> SUFFICES ASSUME ~Absent
               PROVE  AsInt(heap.length) \in Result
    OBVIOUS
  <2>1. heap.length \in 0..MaxU32 /\ MaxU32 \in Nat
    BY HeapGood, OpsAssumption DEF Good, Array, U32
  <2>2. IntMax \in Nat
    BY <2>1 DEF IntMax
  <2>3. AsInt(heap.length) \in (-MaxU32)..MaxU32
    BY <2>1, <2>2 DEF AsInt
  <2> QED BY <2>3 DEF Result
<1>4. CASE FindMax
  <2>1. Answer(Null) \/ (~Absent /\ heap.length # 0 /\ Answer(heap.data[0]))
    BY <1>4 DEF FindMax
  <2> QED BY <1>1, <1>2, <2>1, RootElem
<1>5. CASE IsEmpty
  BY <1>1, <1>2, <1>3, <1>5 DEF IsEmpty
<1> QED BY <1>4, <1>5

\* heap_destroy.
LEMMA DestroyKeeps ==
    ASSUME IInv, NEW d \in BOOLEAN, Destroy(d)
    PROVE  IInv'
<1>1. CASE Answer(ERR)
  BY <1>1, AnswerKeeps, OpsAssumption DEF Result, ERR
<1>2. CASE ~Answer(ERR)
  <2>1. /\ ~Absent /\ heap' = Null /\ freed' = freed \cup Stored(heap) /\ ret' = OK
        /\ fault' = ~InBlock(heap, heap.length)
        /\ UNCHANGED <<held, pc, pos, pending>> /\ pc = "idle" /\ ~pending
    BY <1>2 DEF Destroy, Ready
  <2>2. Good(heap)
    BY <2>1, HeapGood
  <2>3. Stored(heap) \subseteq Elem
    <3> SUFFICES ASSUME NEW i \in 0..(heap.length - 1)
                 PROVE  heap.data[i] \in Elem
      BY DEF Stored
    <3>1. i \in Index /\ i < heap.length
      BY <2>2, OpsAssumption DEF Good, Array, U32, Index
    <3> QED BY <2>2, <3>1 DEF Good, BlockSound
  <2>4. fault' = FALSE
    BY <2>1, <2>2 DEF InBlock, Good, BlockSound
  <2>5. OK \in Result
    BY OpsAssumption DEF OK, Result
  <2>6. TypeOK'
    BY <2>1, <2>3, <2>4, <2>5 DEF IInv, TypeOK
  <2> QED BY <2>1, <2>4, <2>6 DEF IInv, Sound, MemorySafe, Shape, Order, Absent
<1> QED BY <1>1, <1>2

LEMMA NextKeeps == Contract /\ IInv /\ [Next]_vars => IInv'
<1> SUFFICES ASSUME Contract, IInv, [Next]_vars
             PROVE  IInv'
  OBVIOUS
<1>1. CASE UNCHANGED vars
  BY <1>1 DEF vars, IInv, TypeOK, Sound, MemorySafe, Shape, Order, Absent, Narrow,
              HeapOrdered, ButAt, ButBelow, Rank
<1> QED
  BY <1>1, EmergeKeeps, SinkKeeps, CreateKeeps, InsertKeeps, PopKeeps, ReplaceKeeps,
     DeleteMaxKeeps, DeleteMaxAgainKeeps, QuestionKeeps, DestroyKeeps DEF Next

-----------------------------------------------------------------------------
(***************************************************************************)
(* The theorems                                                            *)
(***************************************************************************)

\* As long as heap_replace is not called on an empty heap and the heap stays below
\* half of the index range: whatever is called, with whatever equal ranks, no call
\* leaves its memory block, and every call leaves the heap ordered.
THEOREM Safety ==
    Contract => (Spec => [](TypeOK /\ Sound /\ MemorySafe /\ OrderedAtRest))
<1> SUFFICES ASSUME Contract
             PROVE  Spec => [](TypeOK /\ Sound /\ MemorySafe /\ OrderedAtRest)
  OBVIOUS
<1>1. Init => IInv
  BY InitKeeps
<1>2. IInv /\ [Next]_vars => IInv'
  BY NextKeeps
<1>3. IInv => TypeOK /\ Sound /\ MemorySafe /\ OrderedAtRest
  BY DEF IInv, Order, OrderedAtRest
<1> QED BY <1>1, <1>2, <1>3, PTL DEF Spec

\* In the middle of a loop the order is broken at the place the loop is at, and
\* nowhere else.
THEOREM LoopOrder == Contract => (Spec => []OrderedButForLoop)
<1> SUFFICES ASSUME Contract
             PROVE  Spec => []OrderedButForLoop
  OBVIOUS
<1>1. Init => IInv
  BY InitKeeps
<1>2. IInv /\ [Next]_vars => IInv'
  BY NextKeeps
<1>3. IInv => OrderedButForLoop
  <2> SUFFICES ASSUME IInv, ~Absent
               PROVE  /\ pc # "idle" => pos < heap.length
                      /\ \A i \in Index \ {0} : i < heap.length =>
                           /\ ~MayOutrank(i) => Rank(heap, i) <= Rank(heap, Parent(i))
                           /\ pc # "idle" /\ Parent(i) = pos /\ pos # 0 =>
                                Rank(heap, i) <= Rank(heap, Parent(pos))
    BY DEF OrderedButForLoop
  <2>1. CASE pc = "idle"
    BY <2>1 DEF IInv, Order, MayOutrank, HeapOrdered
  <2>2. CASE pc = "emerge"
    BY <2>2 DEF IInv, Shape, Order, MayOutrank, ButAt
  <2>3. CASE pc = "sink"
    BY <2>3 DEF IInv, Shape, Order, MayOutrank, ButBelow
  <2> QED BY <2>1, <2>2, <2>3 DEF IInv, TypeOK
<1> QED BY <1>1, <1>2, <1>3, PTL DEF Spec

\* emerge and sink never revisit a position: the first only climbs, the second only
\* descends, so neither can run forever.
THEOREM LoopsEnd == Contract => (Spec => LoopsAdvance)
<1> SUFFICES ASSUME Contract
             PROVE  Spec => LoopsAdvance
  OBVIOUS
<1> DEFINE Advance == /\ pc = "emerge" /\ pc' = "emerge" => pos' < pos
                      /\ pc = "sink" /\ pc' = "sink" => pos' > pos
<1>1. Init => IInv
  BY InitKeeps
<1>2. IInv /\ [Next]_vars => IInv'
  BY NextKeeps
<1>3. IInv /\ [Next]_vars => [Advance]_vars
  <2> SUFFICES ASSUME IInv, Next
               PROVE  Advance
    OBVIOUS
  <2>1. CASE EmergeStep
    BY <2>1, EmergeKeeps DEF EmergeStep
  <2>2. CASE SinkStep
    BY <2>2, SinkKeeps DEF SinkStep
  <2>3. CASE pc = "idle"
    BY <2>3
  <2>4. EmergeStep \/ SinkStep \/ pc = "idle"
    BY DEF Next, Ready, Create, Insert, Pop, Replace, DeleteMax, DeleteMaxAgain,
           FindMax, IsEmpty, Destroy
  <2> QED BY <2>1, <2>2, <2>3, <2>4
<1> QED BY <1>1, <1>2, <1>3, PTL DEF Spec, LoopsAdvance
=============================================================================
