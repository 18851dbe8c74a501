--------------------------- MODULE HeapRefinement ----------------------------
(***************************************************************************)
(* Proofs about Heap for every set of elements, every compare callback and *)
(* every UINT32_MAX: the calls keep track of every element and implement   *)
(* the priority queue PriorityQueue.                                       *)
(*                                                                         *)
(* The books (Owned) say which set of elements the heap holds, and that it *)
(* holds none twice; with the order of HeapProofs, which says that no      *)
(* element outranks the root, that is all a priority queue shows.          *)
(***************************************************************************)
EXTENDS HeapProofs, HeapMerge, SequenceTheorems

\* The usage under which the calls are a priority queue: heap_delete_max_index,
\* which loses an element, is not called either.
Clean == Beyond = {}

-----------------------------------------------------------------------------
(***************************************************************************)
(* The elements of an array under the steps of a heap                      *)
(***************************************************************************)

\* A swap stores the same elements.
LEMMA SwapStored ==
    ASSUME NEW a, Good(a), NEW n \in Nat, NEW j \in Nat, n # j,
           n < a.length, j < a.length
    PROVE  /\ Stored(Swap(a, n, j)) = Stored(a)
           /\ Distinct(a) => Distinct(Swap(a, n, j))
           /\ Swap(a, n, j).compare = a.compare
<1> DEFINE b == Swap(a, n, j)
           I == 0..(a.length - 1)
           T(k) == IF k = j THEN n ELSE IF k = n THEN j ELSE k
<1>1. a.length \in Nat /\ n \in I /\ j \in I /\ I \subseteq Index
  BY StoredElem
<1>2. b.length = a.length /\ b.compare = a.compare
  BY DEF Swap, Good, Array
<1>3. b.data = [a.data EXCEPT ![n] = a.data[j], ![j] = a.data[n]]
  BY DEF Swap, Good, Array
<1>4. \A k \in I : b.data[k] = a.data[T(k)]
  BY <1>1, <1>3 DEF Good, Array
<1>5. \A k \in I : T(k) \in I /\ T(T(k)) = k
  BY <1>1
<1> HIDE DEF b, T
<1>6. Stored(b) = Stored(a)
  <2>1. ASSUME NEW k \in I
        PROVE  b.data[k] \in Stored(a)
    BY <1>4, <1>5 DEF Stored
  <2>2. ASSUME NEW k \in I
        PROVE  a.data[k] \in Stored(b)
    <3>1. T(k) \in I /\ b.data[T(k)] = a.data[k]
      BY <1>4, <1>5
    <3> QED BY <1>2, <3>1 DEF Stored
  <2> QED BY <1>2, <2>1, <2>2 DEF Stored
<1>7. Distinct(a) => Distinct(b)
  <2> SUFFICES ASSUME Distinct(a), NEW k \in I, NEW l \in I, b.data[k] = b.data[l]
               PROVE  k = l
    BY <1>2 DEF Distinct
  <2>1. a.data[T(k)] = a.data[T(l)] /\ T(k) \in I /\ T(l) \in I
    BY <1>4, <1>5
  <2>2. T(k) = T(l)
    BY <2>1 DEF Distinct
  <2> QED BY <1>5, <2>2
<1> QED BY <1>2, <1>6, <1>7 DEF b

\* No element of an ordered heap outranks its root: the lowest position that did
\* would have a parent that does, too.
LEMMA RootIsHighest ==
    ASSUME NEW a, Good(a), HeapOrdered(a), a.length # 0
    PROVE  /\ a.data[0] \in Stored(a)
           /\ \A x \in Stored(a) : a.compare[x] <= a.compare[a.data[0]]
<1> DEFINE Above == {n \in Nat : n < a.length /\ ~(Rank(a, n) <= Rank(a, 0))}
<1>1. a.length \in Nat /\ 0 < a.length /\ 0 \in 0..(a.length - 1)
  BY StoredElem
<1>2. Above = {}
  <2> SUFFICES ASSUME Above # {}
               PROVE  FALSE
    OBVIOUS
  <2>1. PICK n \in Above : \A j \in Above : ~(<<j, n>> \in OpToRel(<, Nat))
    BY WFMin, NatLessThanWellFounded
  <2>2. Rank(a, 0) \in Int /\ Rank(a, n) \in Int
    BY <1>1, RankInt
  <2>3. n \in Nat \ {0}
    BY <2>2
  <2>4. Parent(n) \in Nat /\ Parent(n) < n /\ Parent(n) < a.length
    BY <1>1, <2>3, ParentFacts
  <2>5. Rank(a, n) <= Rank(a, Parent(n)) /\ Rank(a, Parent(n)) \in Int
    BY <2>3, <2>4, RankInt DEF HeapOrdered
  <2>6. Parent(n) \in Above
    BY <2>2, <2>4, <2>5
  <2> DEFINE e == <<Parent(n), n>>
  <2>7. e \in Nat \X Nat /\ e[1] < e[2]
    BY <2>3, <2>4
  <2>8. e \in {ss \in Nat \X Nat : ss[1] < ss[2]}
    BY <2>7
  <2>9. e \in OpToRel(<, Nat)
    BY <2>8 DEF OpToRel
  <2> QED BY <2>1, <2>6, <2>9
<1>3. \A n \in 0..(a.length - 1) : Rank(a, n) <= Rank(a, 0)
  BY <1>1, <1>2
<1> QED BY <1>1, <1>3 DEF Stored, Rank

-----------------------------------------------------------------------------
(***************************************************************************)
(* The books: every element is the client's, freed, or in the heap, and    *)
(* nowhere else as well.  They hold in the middle of a loop, too.          *)
(***************************************************************************)
Holds == IF Absent THEN {} ELSE Stored(heap)

Owned ==
    /\ ~pending
    /\ held \cap freed = {}
    /\ ~Absent => Distinct(heap)
    /\ Holds \cap (held \cup freed) = {}
    /\ Elem \subseteq held \cup freed \cup Holds

\* The books say what Ownership says.
LEMMA OwnedIsOwnership == IInv /\ Owned => Ownership
<1> SUFFICES ASSUME IInv, Owned
             PROVE  Ownership
  OBVIOUS
<1> DEFINE InUse(n) == ~Absent /\ n < heap.length
<1>1. ~Absent =>
         /\ heap.length \in Nat /\ 0..(heap.length - 1) \subseteq Index
         /\ Holds = {heap.data[n] : n \in 0..(heap.length - 1)}
  BY HeapGood, StoredElem DEF Holds, Stored
<1>2. \A n \in Index : InUse(n) => ~Absent /\ n \in 0..(heap.length - 1)
  BY <1>1, OpsAssumption DEF Index
<1>3. \A n \in Index : InUse(n) => heap.data[n] \notin held \cup freed
  BY <1>1, <1>2 DEF Owned
<1>4. \A n, j \in Index :
         InUse(n) /\ InUse(j) /\ heap.data[n] = heap.data[j] => n = j
  BY <1>2 DEF Owned, Distinct
<1>5. \A x \in Elem : \/ x \in held \cup freed
                      \/ \E n \in Index : InUse(n) /\ heap.data[n] = x
  <2> SUFFICES ASSUME NEW x \in Holds
               PROVE  \E n \in Index : InUse(n) /\ heap.data[n] = x
    BY DEF Owned
  <2>1. ~Absent
    BY DEF Holds
  <2>2. PICK n \in 0..(heap.length - 1) : heap.data[n] = x
    BY <1>1, <2>1
  <2> QED BY <1>1, <2>1, <2>2
<1> QED BY <1>3, <1>4, <1>5 DEF Ownership, Owned

\* What the client sees of the heap.
View == IF Absent THEN Null ELSE [members |-> Stored(heap), compare |-> heap.compare]

Shown(a) == [members |-> Stored(a), compare |-> a.compare]

\* A heap shows as a queue, and NULL as none.
LEMMA ShownIsQueue ==
    ASSUME NEW a, Good(a)
    PROVE  /\ Shown(a) # Null
           /\ Shown(a).members = Stored(a)
           /\ Shown(a).compare = a.compare
           /\ a # Null
<1>1. Stored(a) \subseteq Elem /\ a.compare \in Compare
  BY StoredElem DEF Good, Array
<1>2. Shown(a) \in [members : SUBSET Elem, compare : Compare]
  BY <1>1 DEF Shown
<1> QED BY <1>2, HeapAssumption DEF Shown, Good

LEMMA ViewHere ==
    ASSUME IInv
    PROVE  /\ Absent => View = Null /\ Holds = {}
           /\ ~Absent => /\ Good(heap)
                         /\ View = Shown(heap) /\ View # Null
                         /\ Holds = Stored(heap)
BY HeapGood, ShownIsQueue DEF View, Shown, Holds

\* What a step has to show: what the new heap b holds, and the books.
LEMMA Settles ==
    ASSUME NEW b, Good(b), heap' = b, Distinct(b), ~pending',
           held' \cap freed' = {}, Stored(b) \cap (held' \cup freed') = {},
           Elem \subseteq held' \cup freed' \cup Stored(b)
    PROVE  Owned' /\ View' = Shown(b)
<1>1. b # Null
  BY ShownIsQueue
<1>2. ~Absent' /\ Holds' = Stored(b) /\ View' = Shown(b) /\ Distinct(heap)'
  BY <1>1 DEF Absent, Holds, View, Shown, Stored, Distinct
<1> QED BY <1>2 DEF Owned

LEMMA StaysSame ==
    ASSUME Owned, UNCHANGED <<heap, held, freed, pending>>
    PROVE  Owned' /\ View' = View
BY DEF Owned, View, Holds, Stored, Distinct, Absent

-----------------------------------------------------------------------------
(***************************************************************************)
(* One lemma per operation: the books stay right, and the operation is one *)
(* of the priority queue or a step it does not see.                        *)
(***************************************************************************)

\* A swap, as the loops make them, is not seen.
LEMMA SwapUnseen ==
    ASSUME IInv, Owned, ~Absent, NEW n \in Nat, NEW j \in Nat, n # j,
           n < heap.length, j < heap.length, heap' = Swap(heap, n, j),
           UNCHANGED <<held, freed, pending>>
    PROVE  Owned' /\ View' = View
<1> DEFINE b == Swap(heap, n, j)
<1>1. Good(heap) /\ View = Shown(heap) /\ Holds = Stored(heap) /\ Distinct(heap)
  BY ViewHere DEF Owned
<1>2. Good(b)
  BY <1>1, SwapFacts
<1>3. Stored(b) = Stored(heap) /\ Distinct(b) /\ b.compare = heap.compare
  BY <1>1, SwapStored
<1> HIDE DEF b
<1>4. heap' = b
  BY DEF b
<1>5. Owned' /\ View' = Shown(b)
  BY <1>1, <1>2, <1>3, <1>4, Settles DEF Owned
<1> QED BY <1>1, <1>3, <1>5 DEF Shown

\* emerge and sink only move elements about: the queue does not see them.
LEMMA LoopUnseen ==
    ASSUME IInv, Owned, EmergeStep \/ SinkStep
    PROVE  Owned' /\ UNCHANGED <<View, held, freed, ret>>
<1>1. UNCHANGED <<held, freed, ret, pending>>
  BY DEF EmergeStep, SinkStep
<1>2. ~Absent /\ Good(heap) /\ Narrow(heap) /\ pos \in Nat /\ pos < heap.length
  BY HeapGood, OpsAssumption DEF EmergeStep, SinkStep, IInv, TypeOK, Shape, U32
<1>3. heap.length \in Nat
  BY <1>2, StoredElem
<1>4. CASE UNCHANGED heap
  BY <1>1, <1>4, StaysSame
<1>5. CASE /\ pos # 0
           /\ heap' = Swap(heap, pos, Parent(pos))
  <2>1. Parent(pos) \in Nat /\ Parent(pos) < pos
    BY <1>2, <1>5, ParentFacts
  <2>2. Parent(pos) < heap.length /\ Parent(pos) # pos
    BY <1>2, <1>3, <2>1
  <2> QED BY <1>1, <1>2, <1>5, <2>1, <2>2, SwapUnseen
<1>6. CASE /\ LeftChild(pos) <= LastIndex(heap)
           /\ MaxIndex(heap, pos) # pos
           /\ heap' = Swap(heap, pos, MaxIndex(heap, pos))
  <2> DEFINE m == MaxIndex(heap, pos)
  <2>1. 2 * pos + 1 < heap.length
    BY <1>2, <1>3, <1>6, ChildIndexes
  <2>2. m \in Nat /\ m < heap.length
    BY <1>2, <1>6, <2>1, MaxIndexFacts
  <2> QED BY <1>1, <1>2, <1>6, <2>2, SwapUnseen
<1> QED BY <1>4, <1>5, <1>6 DEF EmergeStep, SinkStep

\* A refused call is a refusal of the queue.
LEMMA RefusalRefines ==
    ASSUME Owned, NEW result, Answer(result)
    PROVE  Owned' /\ Queue!Refuse(result)
<1>1. Owned' /\ View' = View
  BY StaysSame DEF Answer
<1> QED BY <1>1 DEF Queue!Refuse, View, Answer

\* heap_create.
LEMMA CreateRefines ==
    ASSUME IInv, Owned, NEW c \in Compare \cup {Null}, NEW n \in U32, Absent,
           heap' = NewArray(IF c = Null THEN DefaultCompare ELSE c, n),
           ret' = OK, UNCHANGED <<held, freed, pending>>
    PROVE  Owned' /\ Queue!Create(c)
<1> DEFINE k == IF c = Null THEN DefaultCompare ELSE c
           b == NewArray(k, n)
<1>0. k \in Compare
  BY OpsAssumption
<1>1. Good(b) /\ b.length = 0 /\ b.compare = k
  <2> HIDE DEF k
  <2> QED BY <1>0, NewArrayGood DEF NewArray
<1>2. Stored(b) = {} /\ Distinct(b)
  BY <1>1 DEF Stored, Distinct
<1> HIDE DEF b
<1>3. heap' = b
  BY DEF b
<1>4. View = Null /\ Holds = {}
  BY ViewHere
<1>5. Owned' /\ View' = Shown(b)
  BY <1>1, <1>2, <1>3, <1>4, Settles DEF Owned
<1>6. View' = [members |-> {}, compare |-> k]
  BY <1>1, <1>2, <1>5 DEF Shown
<1>7. Queue!Create(c)
  BY <1>4, <1>6 DEF Queue!Create, Queue!OK, OK, View
<1> QED BY <1>5, <1>7

\* heap_insert, up to its call of emerge.
LEMMA InsertRefines ==
    ASSUME IInv, Owned, ~Absent, NEW x \in held, NEW b \in Roomy(heap),
           heap' = InsertSlot(b, b.length, x),
           held' = held \ {x}, ret' = OK, UNCHANGED <<freed, pending>>
    PROVE  Owned' /\ Queue!Insert(x)
<1> DEFINE d == InsertSlot(b, b.length, x)
<1>1. /\ Good(heap) /\ View = Shown(heap) /\ View # Null
      /\ Holds = Stored(heap) /\ Distinct(heap) /\ x \in Elem
  BY ViewHere DEF Owned, IInv, TypeOK
<1>2. /\ Good(b) /\ b.length = heap.length /\ b.length < b.slots
      /\ b.compare = heap.compare
      /\ \A n \in Index : n < heap.length => b.data[n] = heap.data[n]
  BY <1>1, RoomyGood
<1>3. Stored(b) = Stored(heap) /\ Distinct(b)
  BY <1>1, <1>2, SameStored
<1>4. b.length \in U32 /\ b.length <= b.length
  BY <1>2, OpsAssumption DEF Good, Array, U32
<1>5. x \notin Stored(b)
  BY <1>1, <1>3 DEF Owned
<1>6. Good(d)
  BY <1>1, <1>2, <1>4, InsertSlotGood
<1>7. Stored(d) = Stored(heap) \cup {x} /\ Distinct(d)
  BY <1>1, <1>2, <1>3, <1>4, <1>5, InsertSlotStored
<1>8. d.compare = heap.compare
  BY <1>2, InsertSlotData
<1> HIDE DEF d
<1>9. heap' = d
  BY DEF d
<1>10. Owned' /\ View' = Shown(d)
  BY <1>1, <1>6, <1>7, <1>9, Settles DEF Owned
<1>11. View' = [View EXCEPT !.members = @ \cup {x}]
  BY <1>1, <1>7, <1>8, <1>10 DEF Shown
<1>12. Queue!Insert(x)
  BY <1>1, <1>11 DEF Queue!Insert, Queue!OK, OK, View
<1> QED BY <1>10, <1>12

\* What TakeRoot leaves behind.
LEMMA TakeRootStored ==
    ASSUME NEW a, a = heap, Good(a), Distinct(a), a.length # 0, TakeRoot
    PROVE  \E d : /\ heap' = d /\ Good(d) /\ Distinct(d)
                  /\ Stored(d) = Stored(a) \ {a.data[0]}
                  /\ d.compare = a.compare
<1>1. a.length \in Nat /\ a.length > 0 /\ a.length <= MaxU32 /\ MaxU32 \in Nat
  BY StoredElem
<1>2. CASE /\ a.length < 3
           /\ heap' \in Trimmed(RemoveSlot(a, 0))
  <2> DEFINE cut == RemoveSlot(a, 0)
  <2>1. 0 \in U32 /\ 0 < a.length
    BY <1>1 DEF U32
  <2>2. Good(cut) /\ cut.compare = a.compare
    BY <2>1, RemoveSlotGood, RemoveSlotData
  <2>3. Stored(cut) = Stored(a) \ {a.data[0]} /\ Distinct(cut)
    BY <2>1, RemoveSlotStored
  <2>4. PICK d \in Trimmed(cut) : heap' = d
    BY <1>2
  <2> HIDE DEF cut
  <2>5. /\ Good(d) /\ d.length = cut.length /\ d.compare = cut.compare
        /\ \A n \in Index : n < cut.length => d.data[n] = cut.data[n]
    BY <2>2, <2>4, TrimmedGood
  <2>6. Stored(d) = Stored(cut) /\ Distinct(d)
    BY <2>2, <2>3, <2>5, SameStored
  <2> QED BY <2>2, <2>3, <2>4, <2>5, <2>6
<1>3. CASE /\ a.length >= 3
           /\ \E b \in Trimmed(RemoveSlot(a, a.length - 1)) :
                 heap' = WriteSlot(b, 0, a.data[a.length - 1])
  <2> DEFINE last == a.length - 1
             cut == RemoveSlot(a, last)
             x == a.data[last]
  <2>1. last \in U32 /\ last < a.length /\ last \in Nat /\ 0 \in U32 /\ 0 \in Index
    BY <1>1, <1>3 DEF U32, Index
  <2>2. Good(cut) /\ cut.compare = a.compare /\ cut.length = last
    BY <2>1, RemoveSlotGood, RemoveSlotData
  <2>3. Stored(cut) = Stored(a) \ {x} /\ Distinct(cut) /\ x \in Stored(a)
    BY <2>1, RemoveSlotStored
  <2>4. PICK b \in Trimmed(cut) : heap' = WriteSlot(b, 0, x)
    BY <1>3
  <2>5. \A n \in Index : n < last => cut.data[n] = a.data[n]
    BY <2>1, RemoveSlotData
  <2>6. a.data[0] # x
    <3>1. 0 \in 0..(a.length - 1) /\ last \in 0..(a.length - 1) /\ last # 0
      BY <1>1, <1>3
    <3> QED BY <3>1 DEF Distinct
  <2>7. x \in Elem
    BY <2>3, StoredElem
  <2> HIDE DEF cut, x
  <2>8. /\ Good(b) /\ b.length = last /\ b.compare = a.compare
        /\ \A n \in Index : n < last => b.data[n] = cut.data[n]
    BY <2>2, <2>4, TrimmedGood
  <2>9. Stored(b) = Stored(a) \ {x} /\ Distinct(b)
    BY <2>2, <2>3, <2>8, SameStored
  <2>10. 0 < last /\ 0 < b.length
    BY <1>1, <1>3, <2>8
  <2>11. b.data[0] = a.data[0]
    BY <2>1, <2>5, <2>8, <2>10
  <2>12. x \notin Stored(b)
    BY <2>9
  <2> DEFINE d == WriteSlot(b, 0, x)
  <2>13. Good(d) /\ d.compare = a.compare
    BY <2>1, <2>7, <2>8, <2>10, WriteSlotGood, WriteSlotData
  <2>14. Stored(d) = (Stored(b) \ {b.data[0]}) \cup {x} /\ Distinct(d)
    BY <2>1, <2>8, <2>9, <2>10, <2>12, WriteSlotStored
  <2>15. Stored(d) = Stored(a) \ {a.data[0]}
    BY <2>3, <2>6, <2>9, <2>11, <2>14
  <2> QED BY <2>4, <2>13, <2>14, <2>15
<1> QED BY <1>2, <1>3 DEF TakeRoot

\* The root is an element of highest rank.
LEMMA RootIsAnswer ==
    ASSUME IInv, ~Absent, heap.length # 0, pc = "idle"
    PROVE  heap.data[0] \in Queue!Highest /\ heap.data[0] \in Stored(heap)
<1>1. Good(heap) /\ HeapOrdered(heap) /\ View = Shown(heap)
  BY ViewHere DEF IInv, Order
<1>2. /\ heap.data[0] \in Stored(heap)
      /\ \A x \in Stored(heap) : heap.compare[x] <= heap.compare[heap.data[0]]
  BY <1>1, RootIsHighest
<1> QED BY <1>2 DEF Queue!Highest

\* heap_pop, up to its call of sink.
LEMMA PopRefines ==
    ASSUME IInv, Owned, ~Absent, heap.length # 0, pc = "idle", TakeRoot,
           held' = held \cup {heap.data[0]}, ret' = heap.data[0],
           UNCHANGED <<freed, pending>>
    PROVE  Owned' /\ Queue!Pop
<1> DEFINE x == heap.data[0]
<1>1. /\ Good(heap) /\ View = Shown(heap) /\ View # Null
      /\ Holds = Stored(heap) /\ Distinct(heap)
  BY ViewHere DEF Owned
<1>2. PICK d : /\ heap' = d /\ Good(d) /\ Distinct(d)
               /\ Stored(d) = Stored(heap) \ {x}
               /\ d.compare = heap.compare
  BY <1>1, TakeRootStored
<1>3. x \in Queue!Highest /\ x \in Stored(heap)
  BY RootIsAnswer
<1>4. /\ held' \cap freed' = {} /\ Stored(d) \cap (held' \cup freed') = {}
      /\ Elem \subseteq held' \cup freed' \cup Stored(d) /\ ~pending'
  BY <1>1, <1>2, <1>3 DEF Owned
<1>5. Owned' /\ View' = Shown(d)
  BY <1>2, <1>4, Settles
<1>6. View' = [View EXCEPT !.members = @ \ {x}]
  BY <1>1, <1>2, <1>5 DEF Shown
<1>7. ~Queue!Nothing
  BY <1>1, <1>3, ShownIsQueue DEF Queue!Nothing, View
<1>8. Queue!Pop
  BY <1>1, <1>3, <1>6, <1>7 DEF Queue!Pop, View
<1> QED BY <1>5, <1>8

\* heap_replace, up to its call of sink.
LEMMA ReplaceRefines ==
    ASSUME IInv, Owned, ~Absent, heap.length # 0, pc = "idle", NEW y \in held,
           heap' = WriteSlot(heap, 0, y), freed' = freed \cup {heap.data[0]},
           held' = held \ {y}, ret' = OK, UNCHANGED pending
    PROVE  Owned' /\ Queue!Replace(y, TRUE)
<1> DEFINE x == heap.data[0]
           d == WriteSlot(heap, 0, y)
<1>1. /\ Good(heap) /\ View = Shown(heap) /\ View # Null
      /\ Holds = Stored(heap) /\ Distinct(heap) /\ y \in Elem
  BY ViewHere DEF Owned, IInv, TypeOK
<1>2. 0 \in U32 /\ 0 \in Index /\ 0 < heap.length
  BY <1>1, StoredElem, OpsAssumption DEF U32, Index
<1>3. Good(d) /\ d.compare = heap.compare
  BY <1>1, <1>2, WriteSlotGood, WriteSlotData
<1>4. y \notin Stored(heap)
  BY <1>1 DEF Owned
<1>5. Stored(d) = (Stored(heap) \ {x}) \cup {y} /\ Distinct(d)
  BY <1>1, <1>2, <1>4, WriteSlotStored
<1>6. x \in Queue!Highest /\ x \in Stored(heap)
  BY RootIsAnswer
<1> HIDE DEF d
<1>7. heap' = d
  BY DEF d
<1>8. /\ held' \cap freed' = {} /\ Stored(d) \cap (held' \cup freed') = {}
      /\ Elem \subseteq held' \cup freed' \cup Stored(d) /\ ~pending'
  BY <1>1, <1>5, <1>6 DEF Owned
<1>9. Owned' /\ View' = Shown(d)
  BY <1>3, <1>5, <1>7, <1>8, Settles
<1>10. View' = [View EXCEPT !.members = (@ \ {x}) \cup {y}]
  <2>1. View.members = Stored(heap) /\ View.compare = heap.compare
    BY <1>1, ShownIsQueue
  <2>2. View' = [members |-> (View.members \ {x}) \cup {y}, compare |-> View.compare]
    BY <1>3, <1>5, <1>9, <2>1 DEF Shown
  <2>3. View = [members |-> View.members, compare |-> View.compare]
    BY <1>1, <2>1 DEF Shown
  <2> QED BY <2>2, <2>3
<1>11. ~Queue!Nothing
  BY <1>1, <1>6, ShownIsQueue DEF Queue!Nothing, View
<1>12. Queue!Replace(y, TRUE)
  BY <1>1, <1>6, <1>10, <1>11 DEF Queue!Replace, Queue!OK, OK, View
<1> QED BY <1>9, <1>12

\* heap_find_max_index answers with an element of highest rank.
LEMMA FindMaxRefines ==
    ASSUME IInv, Owned, ~Absent, heap.length # 0, pc = "idle", Answer(heap.data[0])
    PROVE  Owned' /\ Queue!FindMax
<1>1. View = Shown(heap) /\ Good(heap)
  BY ViewHere
<1>2. Owned' /\ View' = View
  BY StaysSame DEF Answer
<1>3. heap.data[0] \in Queue!Highest /\ heap.data[0] \in Stored(heap)
  BY RootIsAnswer
<1>4. ~Queue!Nothing
  BY <1>1, <1>3, ShownIsQueue DEF Queue!Nothing, View
<1>5. Queue!Highest' = Queue!Highest
  BY <1>2 DEF Queue!Highest, View
<1>6. ret' \in Queue!Highest
  BY <1>3 DEF Answer
<1> QED BY <1>2, <1>4, <1>6 DEF Queue!FindMax, View, Answer

\* The cardinality PriorityQueue speaks of is the one of FiniteSets.
LEMMA SameCardinality == \A S : Queue!Cardinality(S) = Cardinality(S)
BY DEF Queue!Cardinality, Cardinality

\* heap_is_empty answers with the number of elements, as far as an int can say it.
LEMMA IsEmptyRefines ==
    ASSUME IInv, Owned, ~Absent, heap.length <= IntMax, Answer(AsInt(heap.length))
    PROVE  Owned' /\ Queue!Size
<1>1. View # Null /\ View.members = Stored(heap)
  BY ViewHere, ShownIsQueue
<1>2. Owned' /\ View' = View
  BY StaysSame DEF Answer
<1>3. ret' = Cardinality(View.members)
  BY <1>1, ViewHere, StoredCount DEF Owned, Answer, AsInt
<1>4. Queue!Size
  BY <1>1, <1>2, <1>3, SameCardinality DEF Queue!Size, View, Answer
<1> QED BY <1>2, <1>4

\* heap_destroy gives every element to the callback.
LEMMA DestroyRefines ==
    ASSUME IInv, Owned, ~Absent, heap' = Null, freed' = freed \cup Stored(heap),
           ret' = OK, UNCHANGED <<held, pending>>
    PROVE  Owned' /\ Queue!Destroy(TRUE)
<1>1. View # Null /\ View.members = Stored(heap) /\ Holds = Stored(heap)
  BY ViewHere, ShownIsQueue
<1>2. Absent' /\ Holds' = {} /\ View' = Null
  BY DEF Absent, Holds, View
<1>3. Owned'
  BY <1>1, <1>2 DEF Owned
<1> QED BY <1>1, <1>2, <1>3 DEF Queue!Destroy, Queue!OK, OK, View

-----------------------------------------------------------------------------
LEMMA InitOwned == Init => Owned /\ Queue!Init
BY DEF Init, Owned, Holds, Absent, Queue!Init

\* Each call has the effect and the result of the call of the queue with its name.
LEMMA CallsRefine ==
    ASSUME Clean, IInv, Owned
    PROVE  /\ CallsAsPromised
           /\ Next => Owned' /\ (Queue!Next \/ UNCHANGED Queue!vars)
<1>a. /\ OK = Queue!OK /\ ERR = Queue!ERR
      /\ Absent => View = Null
      /\ ~Absent => View # Null /\ View.members = Stored(heap)
  BY ViewHere, ShownIsQueue DEF OK, ERR, Queue!OK, Queue!ERR
<1>b. Absent \/ heap.length = 0 => Queue!Nothing
  <2>1. ~Absent /\ heap.length = 0 => Stored(heap) = {}
    BY DEF Stored
  <2> QED BY <1>a, <2>1 DEF Queue!Nothing, View
<1>c. Absent <=> View = Null
  BY <1>a
<1>d. ASSUME NEW r, Answer(r)
      PROVE  Owned' /\ Queue!Refuse(r)
  BY <1>d, RefusalRefines
<1>1. ASSUME NEW c \in Compare \cup {Null}, NEW n \in Capacities, Create(c, n)
      PROVE  Owned' /\ Queue!Create(c)
  <2>1. CASE Answer(Null)
    BY <1>1, <1>c, <1>d, <2>1 DEF Create, Queue!Create, View
  <2>2. CASE ~Answer(Null)
    <3>1. n \in U32
      BY HeapAssumption
    <3>2. /\ heap' = NewArray(IF c = Null THEN DefaultCompare ELSE c, n)
          /\ ret' = OK /\ UNCHANGED <<held, freed, pending>> /\ Absent
      BY <1>1, <2>2 DEF Create
    <3> QED BY <3>1, <3>2, CreateRefines
  <2> QED BY <2>1, <2>2
<1>2. ASSUME NEW x \in Mine, Insert(x)
      PROVE  Owned' /\ Queue!Insert(x)
  <2>1. CASE Answer(ERR)
    BY <1>a, <1>d, <2>1 DEF Queue!Insert
  <2>2. CASE ~Answer(ERR)
    <3>1. /\ ~Absent /\ x \in held /\ held' = held \ {x} /\ ret' = OK
          /\ UNCHANGED <<freed, pending>>
      BY <1>2, <2>2 DEF Insert, Mine
    <3>2. PICK b \in Roomy(heap) : heap' = InsertSlot(b, b.length, x)
      BY <1>2, <2>2 DEF Insert
    <3> QED BY <3>1, <3>2, InsertRefines
  <2> QED BY <2>1, <2>2
<1>3. ASSUME Pop
      PROVE  Owned' /\ Queue!Pop
  <2>1. CASE (Absent \/ heap.length = 0) /\ Answer(Null)
    BY <1>b, <1>d, <2>1 DEF Queue!Pop
  <2>2. CASE /\ ~Absent /\ heap.length # 0 /\ TakeRoot
             /\ held' = held \cup {heap.data[0]} /\ ret' = heap.data[0]
             /\ UNCHANGED <<freed, pending>>
    BY <1>3, <2>2, PopRefines DEF Pop, Ready
  <2> QED BY <1>3, <2>1, <2>2 DEF Pop
<1>4. ASSUME NEW y \in Mine, NEW d \in BOOLEAN, Replace(y, d)
      PROVE  Owned' /\ Queue!Replace(y, d)
  <2>1. CASE (Absent \/ y = Null \/ ~d) /\ Answer(ERR)
    BY <1>a, <1>c, <1>d, <2>1 DEF Queue!Replace, View
  <2>2. CASE ~((Absent \/ y = Null \/ ~d) /\ Answer(ERR))
    <3>1. /\ ~Absent /\ y \in held /\ heap.length # 0 /\ pc = "idle" /\ d = TRUE
          /\ heap' = WriteSlot(heap, 0, y) /\ freed' = freed \cup {heap.data[0]}
          /\ held' = held \ {y} /\ ret' = OK /\ UNCHANGED pending
      BY <1>4, <2>2 DEF Replace, Mine, Clean, Ready
    <3> QED BY <3>1, ReplaceRefines
  <2> QED BY <2>1, <2>2
<1>5. ASSUME FindMax
      PROVE  Owned' /\ Queue!FindMax
  <2>1. CASE (Absent \/ heap.length = 0) /\ Answer(Null)
    BY <1>b, <1>d, <2>1 DEF Queue!FindMax
  <2>2. CASE ~Absent /\ heap.length # 0 /\ Answer(heap.data[0])
    BY <1>5, <2>2, FindMaxRefines DEF FindMax, Ready
  <2> QED BY <1>5, <2>1, <2>2 DEF FindMax
<1>6. ASSUME IsEmpty
      PROVE  Owned' /\ Queue!Size
  <2>1. CASE Absent /\ Answer(ERR)
    BY <1>a, <1>d, <2>1 DEF Queue!Size, View
  <2>2. CASE ~Absent /\ heap.length <= IntMax /\ Answer(AsInt(heap.length))
    BY <2>2, IsEmptyRefines
  <2> QED BY <1>6, <2>1, <2>2 DEF IsEmpty, Clean
<1>7. ASSUME NEW d \in BOOLEAN, Destroy(d)
      PROVE  Owned' /\ Queue!Destroy(d)
  <2>1. CASE (Absent \/ ~d) /\ Answer(ERR)
    BY <1>a, <1>c, <1>d, <2>1 DEF Queue!Destroy, View
  <2>2. CASE /\ ~Absent /\ d = TRUE /\ heap' = Null
             /\ freed' = freed \cup Stored(heap)
             /\ ret' = OK /\ UNCHANGED <<held, pending>>
    BY <2>2, DestroyRefines
  <2> QED BY <1>7, <2>1, <2>2 DEF Destroy
<1>8. ASSUME EmergeStep \/ SinkStep
      PROVE  Owned' /\ UNCHANGED Queue!vars
  BY <1>8, LoopUnseen DEF Queue!vars, View
<1>9. \A d \in BOOLEAN : ~DeleteMax(d) /\ ~DeleteMaxAgain
  BY DEF Clean, DeleteMax, DeleteMaxAgain, Owned
<1>10. CallsAsPromised
  BY <1>1, <1>2, <1>3, <1>4, <1>5, <1>6, <1>7, <1>8 DEF CallsAsPromised
<1>11. Next => Owned'
  BY <1>1, <1>2, <1>3, <1>4, <1>5, <1>6, <1>7, <1>8, <1>9 DEF Next
<1>12. Next => Queue!Next \/ UNCHANGED Queue!vars
  <2>1. Mine \subseteq Elem \cup {Null}
    BY DEF Mine, IInv, TypeOK
  <2> QED
    BY <1>1, <1>2, <1>3, <1>4, <1>5, <1>6, <1>7, <1>8, <1>9, <2>1 DEF Next, Queue!Next
<1> QED BY <1>10, <1>11, <1>12

LEMMA NextRefines ==
    Clean /\ IInv /\ Owned /\ [Next]_vars
      => Owned' /\ [Queue!Next]_(Queue!vars) /\ [CallsAsPromised]_vars
<1> SUFFICES ASSUME Clean, IInv, Owned, [Next]_vars
             PROVE  Owned' /\ [Queue!Next]_(Queue!vars) /\ [CallsAsPromised]_vars
  OBVIOUS
<1>1. CASE Next
  BY <1>1, CallsRefine
<1>2. CASE UNCHANGED vars
  BY <1>2, StaysSame DEF vars, Queue!vars, View
<1> QED BY <1>1, <1>2

-----------------------------------------------------------------------------
(***************************************************************************)
(* The theorems                                                            *)
(***************************************************************************)

\* Every element has one owner between calls, and in the middle of the loops, too:
\* the heap drops none and stores none twice, whatever its block does, and what it
\* gives to a callback it no longer stores.
THEOREM OneOwner == Clean => (Spec => []Ownership)
<1> SUFFICES ASSUME Clean
             PROVE  Spec => []Ownership
  OBVIOUS
<1>1. Contract
  BY DEF Clean, Contract
<1>2. Init => IInv /\ Owned
  BY InitKeeps, InitOwned
<1>3. IInv /\ Owned /\ [Next]_vars => (IInv /\ Owned)'
  BY <1>1, NextKeeps, NextRefines
<1>4. IInv /\ Owned => Ownership
  BY OwnedIsOwnership
<1> QED BY <1>2, <1>3, <1>4, PTL DEF Spec

\* The calls of heap.h are those of a priority queue, call by call: an element found,
\* popped or replaced has the highest rank of all that were put in and not yet taken
\* out, the number of elements is the one answered, and a call is refused only for
\* the reasons PriorityQueue gives.
THEOREM Refinement == Clean => (Spec => ImplementsPriorityQueue)
<1> SUFFICES ASSUME Clean
             PROVE  Spec => ImplementsPriorityQueue
  OBVIOUS
<1>1. Contract
  BY DEF Clean, Contract
<1>2. Init => IInv /\ Owned /\ Queue!Init
  BY InitKeeps, InitOwned
<1>3. IInv /\ Owned /\ [Next]_vars
        => /\ (IInv /\ Owned)'
           /\ [Queue!Next]_(Queue!vars)
           /\ [CallsAsPromised]_vars
  BY <1>1, NextKeeps, NextRefines
<1> QED BY <1>2, <1>3, PTL DEF Spec, ImplementsPriorityQueue, Queue!Spec

-----------------------------------------------------------------------------
(***************************************************************************)
(* heapify, heap_merge and heap_meld (HeapMerge).  That the result is made *)
(* of the elements of the operands, and that no loop leaves the array, is  *)
(* proved for every length, also beyond half of the index range; that it   *)
(* is ordered, for the lengths for which it is (SmallResult).              *)
(***************************************************************************)

\* The last position with a child, LastNode, of an array that long.
SplitAt(len) == Parent(len - 1)

MInv ==
    /\ TypeOK /\ MemorySafe
    /\ phase \in {"none", "leaves", "up", "down"} /\ i \in U32
    /\ \A a \in {array1, array2, heap} : a # Null => Good(a)
    /\ heap = Null => phase = "none" /\ array1 # Null /\ array2 # Null
    /\ pc # "idle" => phase # "none" /\ pos < heap.length
    /\ phase # "none" => heap.length > 1
    /\ phase = "leaves" => i <= heap.length
    /\ phase = "up" => i <= SplitAt(heap.length) + 1
    /\ phase = "down" => i <= SplitAt(heap.length)

\* The action property of ElementsKept, for one step.
Kept ==
    /\ heap = Null /\ heap' # Null =>
         \/ /\ array1' = Null /\ array2' # Null
            /\ Stored(heap') = Stored(array1)
         \/ /\ array1' = Null <=> array2' = Null
            /\ Stored(heap') = Stored(array1) \cup Stored(array2)
    /\ heap # Null => heap' # Null /\ Stored(heap') = Stored(heap)
                      /\ heap'.length = heap.length

LEMMA MInvIsTyped == MInv => MergeTypeOK
BY DEF MInv, MergeTypeOK, Good

\* The operands a run starts with are sound arrays.
LEMMA HoldingGood ==
    ASSUME NEW c \in Compare, NEW s \in Seq(Elem), NEW m \in U32, Len(s) <= m
    PROVE  Good(Holding(c, s, m))
<1> DEFINE b == Holding(c, s, m)
           d == [n \in Index |-> IF n < Len(s) THEN s[n + 1] ELSE Junk]
<1>0. Len(s) \in U32
  BY LenProperties, OpsAssumption DEF U32
<1>2. b = [compare |-> c, data |-> d, slots |-> m, capacity |-> m,
           length |-> Len(s), rate |-> DefaultRate]
  <2> DEFINE a == NewArray(c, m)
  <2>1. a = [compare |-> c, data |-> [n \in Index |-> Junk], slots |-> m,
             capacity |-> m, length |-> 0, rate |-> DefaultRate]
    BY DEF NewArray
  <2>2. b = [a EXCEPT !.length = Len(s), !.data = d]
    BY DEF Holding
  <2> HIDE DEF a, b, d
  <2> QED BY <2>1, <2>2
<1> HIDE DEF b
<1>3. \A n \in Index : n < Len(s) => s[n + 1] \in Elem
  <2> SUFFICES ASSUME NEW n \in Index, n < Len(s)
               PROVE  s[n + 1] \in Elem
    OBVIOUS
  <2>1. n + 1 \in 1..Len(s)
    BY OpsAssumption DEF Index
  <2> QED BY <2>1, ElementOfSeq
<1>3a. b.data = d /\ b.length = Len(s) /\ b.capacity = m /\ b.slots = m
  BY <1>2
<1>4. d \in [Index -> Elem \cup {Junk}]
  BY <1>3
<1>5. \A n \in Index : d[n] \in Elem <=> n < Len(s)
  BY <1>3, OpsAssumption
<1> HIDE DEF d
<1>6. b \in Array
  BY <1>0, <1>2, <1>4, OpsAssumption DEF Array
<1>7. BlockSound(b)
  BY <1>0, <1>3a, <1>5, OpsAssumption DEF BlockSound, U32
<1> QED BY <1>6, <1>7 DEF Good, b

LEMMA MergeInitKeeps == MergeInit => MInv
<1> SUFFICES ASSUME MergeInit PROVE MInv
  OBVIOUS
<1>1. PICK c \in Compare, n1 \in Lengths, n2 \in Lengths, spare \in Spares :
          /\ n1 + n2 <= Len(Deal)
          /\ n1 + spare <= MaxU32
          /\ array1 = Holding(c, SubSeq(Deal, 1, n1), n1 + spare)
          /\ array2 = Holding(c, SubSeq(Deal, n1 + 1, n1 + n2), n2)
  BY DEF MergeInit
<1>2. /\ n1 \in U32 /\ n2 \in U32 /\ n1 \in Nat /\ n2 \in Nat
      /\ Deal \in Seq(Elem) /\ Len(Deal) \in Nat
  BY HeapMergeAssumption, OpsAssumption, LenProperties DEF U32
<1>3. /\ SubSeq(Deal, 1, n1) \in Seq(Elem) /\ Len(SubSeq(Deal, 1, n1)) = n1
      /\ SubSeq(Deal, n1 + 1, n1 + n2) \in Seq(Elem)
      /\ Len(SubSeq(Deal, n1 + 1, n1 + n2)) = n2
  BY <1>1, <1>2, SubSeqProperties
<1>3a. n1 + spare \in U32 /\ n1 <= n1 + spare
  BY <1>1, <1>2, HeapMergeAssumption, OpsAssumption DEF U32
<1>4. Good(array1) /\ Good(array2)
  <2> DEFINE s1 == SubSeq(Deal, 1, n1)
             s2 == SubSeq(Deal, n1 + 1, n1 + n2)
  <2>1. /\ s1 \in Seq(Elem) /\ Len(s1) = n1 /\ array1 = Holding(c, s1, n1 + spare)
        /\ s2 \in Seq(Elem) /\ Len(s2) = n2 /\ array2 = Holding(c, s2, n2)
        /\ n2 \in U32 /\ n2 <= n2
    BY <1>1, <1>2, <1>3
  <2> HIDE DEF s1, s2
  <2>2. Good(Holding(c, s1, n1 + spare))
    BY <2>1, <1>3a, HoldingGood
  <2>3. Good(Holding(c, s2, n2))
    BY <2>1, HoldingGood
  <2> QED BY <2>1, <2>2, <2>3
<1>5. array1 # Null /\ array2 # Null
  BY <1>4, HeapAssumption DEF Good
<1>6. 0 \in U32 /\ Null \in Result
  BY OpsAssumption DEF U32, Result
<1> QED BY <1>4, <1>5, <1>6 DEF MergeInit, MInv, MemorySafe, TypeOK

\* A swap in the array: what an iteration of either loop does, if anything.
LEMMA LoopSwaps ==
    ASSUME MInv, EmergeStep \/ SinkStep
    PROVE  /\ UNCHANGED <<held, freed, ret, fault, pending>> /\ heap # Null
           /\ \/ heap' = heap /\ pc' = "idle" /\ pos' = pos
              \/ /\ pc' = pc /\ pos' # pos /\ pos' \in Nat /\ pos' < heap.length
                 /\ heap' = Swap(heap, pos, pos')
<1>1. /\ pc # "idle" /\ heap # Null /\ Good(heap)
      /\ pos \in Nat /\ pos < heap.length
  BY OpsAssumption DEF EmergeStep, SinkStep, MInv, TypeOK, U32
<1>2. heap.length \in Nat /\ heap.length <= MaxU32 /\ MaxU32 \in Nat
  BY <1>1, StoredElem
<1>3. CASE /\ pos # 0 /\ heap' = Swap(heap, pos, Parent(pos)) /\ pos' = Parent(pos)
           /\ UNCHANGED pc
  <2>1. Parent(pos) \in Nat /\ Parent(pos) < pos
    BY <1>1, <1>3, ParentFacts
  <2>2. Parent(pos) < heap.length /\ Parent(pos) # pos
    BY <1>1, <1>2, <2>1
  <2> QED BY <1>1, <1>3, <2>1, <2>2 DEF EmergeStep, SinkStep
<1>4. CASE /\ LeftChild(pos) <= LastIndex(heap)
           /\ MaxIndex(heap, pos) # pos
           /\ heap' = Swap(heap, pos, MaxIndex(heap, pos))
           /\ pos' = MaxIndex(heap, pos)
           /\ UNCHANGED pc
  <2>1. heap.length - 1 \in Nat /\ heap.length - 1 <= MaxU32
    BY <1>1, <1>2
  <2>2. LastIndex(heap) = heap.length - 1
    BY <2>1, WrapSmall DEF LastIndex
  <2>3. LeftChild(pos) \in Nat /\ RightChild(pos) \in Nat
    BY <1>1, <1>2 DEF LeftChild, RightChild, Wrap
  <2>4. \/ MaxIndex(heap, pos) = LeftChild(pos)
        \/ /\ MaxIndex(heap, pos) = RightChild(pos)
           /\ RightChild(pos) <= LastIndex(heap)
    BY <1>4 DEF MaxIndex
  <2>5. MaxIndex(heap, pos) \in Nat /\ MaxIndex(heap, pos) < heap.length
    BY <1>2, <1>4, <2>2, <2>3, <2>4
  <2> QED BY <1>1, <1>4, <2>5 DEF EmergeStep, SinkStep
<1> QED BY <1>1, <1>3, <1>4 DEF EmergeStep, SinkStep

LEMMA LoopKeepsElements ==
    ASSUME MInv, EmergeStep \/ SinkStep, UNCHANGED <<array1, array2, phase, i>>
    PROVE  MInv' /\ Kept
<1>1. /\ UNCHANGED <<held, freed, ret, fault, pending>> /\ heap # Null
      /\ \/ heap' = heap /\ pc' = "idle" /\ pos' = pos
         \/ /\ pc' = pc /\ pos' # pos /\ pos' \in Nat /\ pos' < heap.length
            /\ heap' = Swap(heap, pos, pos')
  BY LoopSwaps
<1>2. CASE heap' = heap /\ pc' = "idle" /\ pos' = pos
  BY <1>1, <1>2 DEF MInv, MemorySafe, TypeOK, Kept
<1>3. CASE /\ pc' = pc /\ pos' # pos /\ pos' \in Nat /\ pos' < heap.length
           /\ heap' = Swap(heap, pos, pos')
  <2>1. /\ pc # "idle" /\ Good(heap) /\ pos \in Nat /\ pos < heap.length
    BY <1>1, OpsAssumption DEF EmergeStep, SinkStep, MInv, TypeOK, U32
  <2>2. Good(heap') /\ heap'.length = heap.length
    BY <1>3, <2>1, SwapFacts
  <2>3. Stored(heap') = Stored(heap)
    BY <1>3, <2>1, SwapStored
  <2>4. heap' # Null /\ heap' \in Array
    BY <2>2, HeapAssumption DEF Good
  <2>5. pos' \in U32
    BY <1>3, <2>1, StoredElem DEF U32
  <2>6. TypeOK'
    BY <1>1, <1>3, <2>4, <2>5 DEF MInv, TypeOK
  <2>7. Kept
    BY <1>1, <2>2, <2>3, <2>4 DEF Kept
  <2>8. \A a \in {array1', array2', heap'} : a # Null => Good(a)
    BY <2>2 DEF MInv
  <2>9. MInv'
    BY <1>1, <1>3, <2>2, <2>4, <2>6, <2>8 DEF MInv, MemorySafe
  <2> QED BY <2>7, <2>9
<1> QED BY <1>1, <1>2, <1>3

\* heapify starts on a sound array of two elements or more.
LEMMA StartKeeps ==
    ASSUME MInv, Idle, NEW a, Good(a), a.length > 1, StartHeapify(a),
           array1' \in {array1, Null}, array2' \in {array2, Null}, fault' = FALSE
    PROVE  MInv'
<1>1. a.length \in Nat /\ a.length <= MaxU32 /\ MaxU32 \in Nat
  BY StoredElem
<1>2. LastIndex(a) = a.length - 1 /\ a.length - 1 \in Nat \ {0}
  <2>1. a.length - 1 \in Nat \ {0} /\ a.length - 1 <= MaxU32
    BY <1>1
  <2> QED BY <2>1, WrapSmall DEF LastIndex
<1>3. /\ Parent(LastIndex(a)) \in Nat
      /\ Parent(LastIndex(a)) < a.length - 1
  BY <1>2, ParentFacts
<1>4. i' \in U32 /\ i' <= a.length /\ heap' = a /\ phase' = "leaves" /\ pc' = "idle"
  BY <1>1, <1>3 DEF StartHeapify, Idle, U32
<1>5. a # Null /\ a \in Array
  BY HeapAssumption DEF Good
<1>6. TypeOK'
  BY <1>4, <1>5 DEF MInv, TypeOK, StartHeapify
<1>6a. MemorySafe'
  BY DEF MemorySafe
<1>7. \A b \in {array1', array2', heap'} : b # Null => Good(b)
  BY <1>4 DEF MInv
<1> QED BY <1>4, <1>5, <1>6, <1>6a, <1>7 DEF MInv

\* What an array holds is in its block.
LEMMA GoodInBlock ==
    ASSUME NEW a, Good(a)
    PROVE  InBlock(a, a.length)
BY DEF InBlock, Good, BlockSound

\* heapify.
LEMMA HeapifyKeeps ==
    ASSUME MInv, Heapify
    PROVE  MInv' /\ Kept
<1>1. CASE Decline
  <2>1. Null \in Result
    BY DEF Result
  <2> QED BY <1>1, <2>1 DEF Decline, MInv, TypeOK, MemorySafe, Kept
<1>2. CASE ~Decline
  <2>1. /\ Idle /\ array1 # Null /\ array1.length > 1 /\ StartHeapify(array1)
        /\ array1' = Null /\ UNCHANGED array2
        /\ fault' = ~InBlock(array1, array1.length)
    BY <1>2 DEF Heapify
  <2>2. Good(array1) /\ array2 # Null /\ heap = Null
    BY <2>1 DEF MInv, Idle
  <2>2a. fault' = FALSE
    BY <2>1, <2>2, GoodInBlock
  <2>3. MInv'
    BY <2>1, <2>2, <2>2a, StartKeeps
  <2>4. Kept
    BY <2>1, <2>2 DEF Kept, StartHeapify
  <2> QED BY <2>3, <2>4
<1> QED BY <1>1, <1>2

\* heap_merge and heap_meld: the joined array holds the elements of both.
LEMMA JoinedStored ==
    ASSUME NEW a, Good(a), NEW b, Good(b), Joinable(a, b),
           NEW w, Good(w), w.length = a.length, Stored(w) = Stored(a),
           a.length + b.length <= w.slots
    PROVE  /\ Good(Concat(w, b)) /\ Concat(w, b).length > 1
           /\ Concat(w, b).length = a.length + b.length
           /\ Stored(Concat(w, b)) = Stored(a) \cup Stored(b)
<1>1. a.length \in Nat \ {0} /\ b.length \in Nat \ {0}
  BY StoredElem DEF Joinable
<1>2. Concat(w, b).length = a.length + b.length
  BY DEF Concat, Good, Array
<1> QED BY <1>1, <1>2, ConcatGood, ConcatStored

\* The array heap_merge hands to heapify.
LEMMA Merged ==
    ASSUME MergeContract, NEW a, Good(a), NEW b, Good(b), Joinable(a, b),
           NEW wide \in Widened(a, a.length + b.length)
    PROVE  /\ Good(Concat(wide, b)) /\ Concat(wide, b).length > 1
           /\ Concat(wide, b).length = a.length + b.length
           /\ Stored(Concat(wide, b)) = Stored(a) \cup Stored(b)
           /\ InBlock(wide, a.length + b.length)
<1> DEFINE total == a.length + b.length
<1>1. /\ a.length \in Nat /\ b.length \in Nat /\ total <= MaxU32
      /\ a.capacity \in Nat /\ a.slots = a.capacity
      /\ total \in U32 /\ a.length <= total
  BY OpsAssumption DEF Joinable, Good, Array, BlockSound, U32
<1>2. /\ Good(wide) /\ wide.length = a.length /\ total <= wide.slots
      /\ Stored(wide) = Stored(a)
  <2>1. CASE a.capacity >= total
    BY <1>1, <2>1 DEF Widened
  <2>2. CASE ~(a.capacity >= total)
    <3>1. wide = Exactly(a, total)
      BY <2>2 DEF Widened, MergeContract
    <3>2. /\ Good(wide) /\ wide.length = a.length /\ wide.slots = total
          /\ \A n \in Index : n < a.length => wide.data[n] = a.data[n]
      BY <1>1, <3>1, ExactlyGood
    <3> QED BY <1>1, <3>2, SameStored
  <2> QED BY <2>1, <2>2
<1> QED BY <1>2, JoinedStored DEF InBlock

\* The array heap_meld hands to heapify.
LEMMA Melded ==
    ASSUME NEW a, Good(a), NEW b, Good(b), Joinable(a, b)
    PROVE  LET total == a.length + b.length
               d     == Concat(Concat(NewArray(a.compare, total), a), b)
           IN  /\ Good(d) /\ d.length > 1 /\ d.length = total
               /\ Stored(d) = Stored(a) \cup Stored(b)
               /\ InBlock(NewArray(a.compare, total), total)
<1> DEFINE total == a.length + b.length
           empty == NewArray(a.compare, total)
           w == Concat(empty, a)
<1>1. /\ a.length \in Nat /\ b.length \in Nat /\ total \in U32
      /\ a.compare \in Compare /\ a.length <= total
  BY OpsAssumption DEF Joinable, Good, Array, U32
<1>2. /\ Good(empty) /\ empty.length = 0 /\ empty.slots = total
      /\ Stored(empty) = {}
  BY <1>1, NewArrayGood DEF NewArray, Stored
<1> HIDE DEF empty
<1>3. /\ w.length = 0 + a.length /\ w.slots = total
  BY <1>2 DEF Concat, Good, Array
<1>4. Good(w) /\ Stored(w) = Stored(empty) \cup Stored(a)
  <2>1. empty.length + a.length <= empty.slots
    BY <1>1, <1>2
  <2> QED BY <1>2, <2>1, ConcatGood, ConcatStored
<1> HIDE DEF w
<1>5. w.length = a.length /\ Stored(w) = Stored(a) /\ a.length + b.length <= w.slots
  BY <1>1, <1>2, <1>3, <1>4, OpsAssumption DEF U32
<1>6. /\ Good(Concat(w, b)) /\ Concat(w, b).length > 1
      /\ Concat(w, b).length = total
      /\ Stored(Concat(w, b)) = Stored(a) \cup Stored(b)
  BY <1>4, <1>5, JoinedStored
<1>7. InBlock(empty, total)
  BY <1>1, <1>2, OpsAssumption DEF InBlock, U32
<1> QED BY <1>6, <1>7 DEF w, empty

\* heap_merge.
LEMMA MergeKeeps ==
    ASSUME MergeContract, MInv, Merge
    PROVE  MInv' /\ Kept
<1>1. CASE Decline
  <2>1. Null \in Result
    BY DEF Result
  <2> QED BY <1>1, <2>1 DEF Decline, MInv, TypeOK, MemorySafe, Kept
<1>2. CASE ~Decline
  <2>1. /\ Idle /\ array1 # Null /\ array2 # Null /\ Joinable(array1, array2)
        /\ array1' = Null /\ array2' = Null
    BY <1>2 DEF Merge, Heaps
  <2>1a. PICK wide \in Widened(array1, array1.length + array2.length) : Joined(wide)
    BY <1>2 DEF Merge
  <2>2. Good(array1) /\ Good(array2) /\ heap = Null
    BY <2>1 DEF MInv, Idle
  <2> DEFINE d == Concat(wide, array2)
  <2>3. /\ Good(d) /\ d.length > 1
        /\ Stored(d) = Stored(array1) \cup Stored(array2)
        /\ InBlock(wide, array1.length + array2.length)
    BY <2>1, <2>2, Merged
  <2>3a. StartHeapify(d) /\ fault' = FALSE
    BY <2>1a, <2>2, <2>3, GoodInBlock DEF Joined
  <2> HIDE DEF d
  <2>4. MInv'
    BY <2>1, <2>3, <2>3a, StartKeeps
  <2>5. Kept
    BY <2>1, <2>2, <2>3, <2>3a DEF Kept, StartHeapify
  <2> QED BY <2>4, <2>5
<1> QED BY <1>1, <1>2

\* heap_meld.
LEMMA MeldKeeps ==
    ASSUME MergeContract, MInv, Meld
    PROVE  MInv' /\ Kept
<1>1. CASE Decline
  <2>1. Null \in Result
    BY DEF Result
  <2> QED BY <1>1, <2>1 DEF Decline, MInv, TypeOK, MemorySafe, Kept
<1> DEFINE total == array1.length + array2.length
           empty == NewArray(array1.compare, total)
           d == Concat(Concat(empty, array1), array2)
<1>2. CASE /\ Idle /\ Heaps /\ Joinable(array1, array2)
           /\ StartHeapify(d)
           /\ fault' = ~( /\ InBlock(empty, total)
                          /\ InBlock(array1, array1.length)
                          /\ InBlock(array2, array2.length) )
           /\ UNCHANGED <<array1, array2>>
  <2>1. array1 # Null /\ array2 # Null /\ Good(array1) /\ Good(array2) /\ heap = Null
    BY <1>2 DEF MInv, Idle, Heaps
  <2>2. /\ Good(d) /\ d.length > 1
        /\ Stored(d) = Stored(array1) \cup Stored(array2)
        /\ InBlock(empty, total)
    BY <1>2, <2>1, Melded
  <2>2a. fault' = FALSE
    BY <1>2, <2>1, <2>2, GoodInBlock
  <2> HIDE DEF d
  <2>3. MInv'
    BY <1>2, <2>2, <2>2a, StartKeeps
  <2>4. Kept
    BY <1>2, <2>1, <2>2 DEF Kept, StartHeapify
  <2> QED BY <2>3, <2>4
<1> QED BY <1>1, <1>2 DEF Meld, MergeContract

\* The loops of heapify call emerge and sink on positions in use.
LEMMA NextNodeKeeps ==
    ASSUME MInv, NextLeaf \/ NextNodeUp \/ NextNodeDown
    PROVE  MInv' /\ Kept
<1>1. heap # Null /\ Good(heap) /\ heap.length > 1 /\ pc = "idle" /\ i \in Nat
  BY OpsAssumption DEF NextLeaf, NextNodeUp, NextNodeDown, MInv, U32
<1>2. heap.length \in Nat /\ heap.length <= MaxU32 /\ MaxU32 \in Nat
  BY <1>1, StoredElem
<1>3. heap.length - 1 \in Nat \ {0} /\ heap.length - 1 <= MaxU32
  BY <1>1, <1>2
<1>4. /\ SplitAt(heap.length) \in Nat /\ SplitAt(heap.length) < heap.length - 1
      /\ LastNode = SplitAt(heap.length)
  BY <1>3, ParentFacts, WrapSmall DEF SplitAt, LastNode, LastIndex
<1>5. UNCHANGED <<heap, held, freed, ret, fault, pending, array1, array2>>
  BY DEF NextLeaf, NextNodeUp, NextNodeDown, Call, vars
<1>6. /\ phase' \in {"none", "leaves", "up", "down"}
      /\ i' \in U32
      /\ pc' \in {"idle", "emerge", "sink"} /\ pos' \in U32
      /\ pc' # "idle" => phase' # "none" /\ pos' < heap.length
      /\ phase' = "leaves" => i' <= heap.length
      /\ phase' = "up" => i' <= SplitAt(heap.length) + 1
      /\ phase' = "down" => i' <= SplitAt(heap.length)
  <2>1. CASE NextLeaf
    BY <1>1, <1>2, <1>4, <2>1 DEF NextLeaf, Call, MInv, TypeOK, U32, vars
  <2>2. CASE NextNodeUp
    BY <1>1, <1>2, <1>4, <2>2 DEF NextNodeUp, Call, MInv, TypeOK, U32, vars
  <2>3. CASE NextNodeDown
    BY <1>1, <1>2, <1>4, <2>3 DEF NextNodeDown, Call, MInv, TypeOK, U32, vars
  <2> QED BY <2>1, <2>2, <2>3
<1>7. TypeOK'
  BY <1>5, <1>6 DEF MInv, TypeOK
<1>8. MInv'
  BY <1>1, <1>5, <1>6, <1>7 DEF MInv, MemorySafe
<1> QED BY <1>1, <1>5, <1>8 DEF Kept

LEMMA MergeNextKeeps ==
    MergeContract /\ MInv /\ [MergeNext]_mergeVars => MInv' /\ [Kept]_mergeVars
<1> SUFFICES ASSUME MergeContract, MInv, [MergeNext]_mergeVars
             PROVE  MInv' /\ [Kept]_mergeVars
  OBVIOUS
<1>1. CASE UNCHANGED mergeVars
  BY <1>1 DEF mergeVars, vars, MInv, MemorySafe, TypeOK
<1>2. CASE MergeNext
  BY <1>2, HeapifyKeeps, MergeKeeps, MeldKeeps, NextNodeKeeps, LoopKeepsElements
     DEF MergeNext, Inner
<1> QED BY <1>1, <1>2

\* As long as the memory requests of heap_merge and heap_meld whose refusal they
\* overlook are granted: no memcpy and no loop of heapify leaves its block, and no
\* index, not even one computed past the middle of the index range, leaves the array.
THEOREM MergeSafe == MergeContract => (MergeSpec => [](MergeTypeOK /\ MemorySafe))
<1> SUFFICES ASSUME MergeContract
             PROVE  MergeSpec => [](MergeTypeOK /\ MemorySafe)
  OBVIOUS
<1>1. MInv /\ [MergeNext]_mergeVars => MInv'
  BY MergeNextKeeps
<1>2. MInv => MergeTypeOK /\ MemorySafe
  BY MInvIsTyped DEF MInv
<1> QED BY <1>1, <1>2, MergeInitKeeps, PTL DEF MergeSpec

\* Under the same condition heapify, heap_merge and heap_meld start from exactly the
\* elements of their operands, and none of the nested loops loses one, whatever the
\* length.
THEOREM MergeKeepsElements == MergeContract => (MergeSpec => ElementsKept)
<1> SUFFICES ASSUME MergeContract
             PROVE  MergeSpec => ElementsKept
  OBVIOUS
<1>1. MInv /\ [MergeNext]_mergeVars => MInv' /\ [Kept]_mergeVars
  BY MergeNextKeeps
<1>2. Kept <=> (/\ heap = Null /\ heap' # Null =>
                    \/ /\ array1' = Null /\ array2' # Null
                       /\ Stored(heap') = Stored(array1)
                    \/ /\ array1' = Null <=> array2' = Null
                       /\ Stored(heap') = Stored(array1) \cup Stored(array2)
                /\ heap # Null => heap' # Null /\ Stored(heap') = Stored(heap)
                                  /\ heap'.length = heap.length)
  BY DEF Kept
<1> QED BY <1>1, MergeInitKeeps, PTL DEF MergeSpec, ElementsKept, Kept

-----------------------------------------------------------------------------
(***************************************************************************)
(* heapify of up to seven elements.  The leaves emerge first, then every   *)
(* inner node, from the root on, emerges and sinks, once each.  A leaf     *)
(* that has emerged does not rank above both its parent and the root, so   *)
(* the root is highest once it has sunk; then nothing emerges any more,    *)
(* and as the nodes below the root have leaves as children, one sinking    *)
(* each is enough.  With eight elements it is not.                         *)
(***************************************************************************)

\* Slot j does not rank above both its parent and the root.
Covered(a, j) == Rank(a, j) <= Rank(a, Parent(j)) \/ Rank(a, j) <= Rank(a, 0)

\* ... for every leaf before n, but for position p.
LeavesCovered(a, n, p) ==
    \A j \in Index : SplitAt(a.length) < j /\ j < n /\ j # p => Covered(a, j)

RootHighest(a) == \A j \in Index : j < a.length => Rank(a, j) <= Rank(a, 0)

\* The nodes before n, but for the root and position p, do not rank below their children.
Settled(a, n, p) ==
    \A j \in Index : /\ j # 0 /\ j < a.length
                     /\ Parent(j) # 0 /\ Parent(j) < n /\ Parent(j) # p
                     => Rank(a, j) <= Rank(a, Parent(j))

\* What the loop over the inner nodes has done when it comes to node n.
Arrived(a, n) ==
    IF n = 0 THEN LeavesCovered(a, a.length, 0) ELSE RootHighest(a) /\ Settled(a, n, 0)

\* How far heapify has got.
Stage ==
    /\ heap = Null => array1.length + array2.length <= Len(Deal)
    /\ heap # Null => heap.length <= Len(Deal)
    /\ phase = "none" /\ heap # Null => HeapOrdered(heap)
    /\ phase = "leaves" => /\ pc # "sink"
                           /\ SplitAt(heap.length) < i
                           /\ LeavesCovered(heap, i, IF pc = "emerge" THEN pos ELSE 0)
    /\ phase = "down" => /\ pc # "sink"
                         /\ pc = "emerge" => pos = i
                         /\ Arrived(heap, i)
    /\ phase = "up" => /\ pc # "emerge"
                       /\ pc = "idle" => Arrived(heap, i)
                       /\ pc = "sink" =>
                            \/ i = 1 /\ pos = 0 /\ LeavesCovered(heap, heap.length, 0)
                            \/ /\ i >= 1 /\ pos >= 1 /\ pos >= i - 1
                               /\ RootHighest(heap) /\ Settled(heap, i, pos)

\* The inputs for which this is enough, and no index wraps.
Few == Len(Deal) <= 7 /\ 2 * Len(Deal) <= MaxU32 + 1

\* The positions of a tree of three levels.
LEMMA ThreeLevels ==
    ASSUME NEW n \in Nat, n > 1, n <= 7
    PROVE  /\ SplitAt(n) \in {0, 1, 2} /\ SplitAt(n) < n - 1
           /\ \A j \in Nat : 0 < j /\ j < n =>
                /\ Parent(j) \in {0, 1, 2} /\ Parent(j) < j /\ Parent(j) <= SplitAt(n)
                /\ Parent(j) = 0 <=> j \in {1, 2}
                /\ j = 2 * Parent(j) + 1 \/ j = 2 * Parent(j) + 2
<1>1. ASSUME NEW j \in Nat, 0 < j, j < n
      PROVE  /\ Parent(j) \in {0, 1, 2} /\ Parent(j) < j
             /\ Parent(j) = 0 <=> j \in {1, 2}
             /\ j = 2 * Parent(j) + 1 \/ j = 2 * Parent(j) + 2
  <2>1. /\ Parent(j) \in Nat /\ Parent(j) < j
        /\ j = 2 * Parent(j) + 1 \/ j = 2 * Parent(j) + 2
    BY <1>1, ParentFacts
  <2> QED BY <1>1, <2>1
<1>2. n - 1 \in Nat /\ 0 < n - 1 /\ n - 1 < n
  OBVIOUS
<1>3. /\ SplitAt(n) \in {0, 1, 2} /\ SplitAt(n) < n - 1
      /\ n - 1 = 2 * SplitAt(n) + 1 \/ n - 1 = 2 * SplitAt(n) + 2
  BY <1>1, <1>2 DEF SplitAt
<1>4. ASSUME NEW j \in Nat, 0 < j, j < n
      PROVE  Parent(j) <= SplitAt(n)
  BY <1>1, <1>2, <1>3, <1>4
<1> QED BY <1>1, <1>3, <1>4

\* What is known of an array of two to seven elements: its length, positions and ranks.
LEMMA FewFacts ==
    ASSUME NEW a, Good(a), a.length > 1, a.length <= 7
    PROVE  /\ a.length \in Nat /\ SplitAt(a.length) \in {0, 1, 2}
           /\ \A j \in Nat : j < a.length => j \in Index /\ Rank(a, j) \in Int
           /\ \A j \in Index : j \in Nat
<1>1. a.length \in Nat
  BY OpsAssumption DEF Good, Array, U32
<1>2. \A j \in Index : j \in Nat
  BY OpsAssumption DEF Index
<1> QED BY <1>1, <1>2, RankInt, ThreeLevels

\* An iteration of emerge that swaps leaves the leaves covered, the lower one included.
LEMMA EmergeCovers ==
    ASSUME NEW a, Good(a), a.length > 1, a.length <= 7, NEW n \in Nat, n <= a.length,
           NEW p \in Nat \ {0}, p < a.length, Rank(a, p) > Rank(a, Parent(p)),
           LeavesCovered(a, n, p)
    PROVE  LeavesCovered(Swap(a, p, Parent(p)), n, Parent(p))
<1> DEFINE q == Parent(p)
           b == Swap(a, p, q)
           s == SplitAt(a.length)
<1>1. a.length \in Nat /\ s \in {0, 1, 2}
      /\ \A j \in Nat : 0 < j /\ j < a.length =>
           /\ Parent(j) \in {0, 1, 2} /\ Parent(j) < j /\ Parent(j) <= s
           /\ Parent(j) = 0 <=> j \in {1, 2}
  BY FewFacts, ThreeLevels
<1>2. q \in {0, 1, 2} /\ q < p /\ q <= s /\ q < a.length
  BY <1>1
<1>3. b.length = a.length /\ \A k \in Nat : k < a.length =>
         /\ Rank(b, k) = IF k = q THEN Rank(a, p) ELSE IF k = p THEN Rank(a, q) ELSE Rank(a, k)
         /\ Rank(a, k) \in Int
  BY <1>2, SwapFacts, FewFacts
<1> SUFFICES ASSUME NEW j \in Index, s < j, j < n, j # q
             PROVE  Covered(b, j)
  BY <1>3 DEF LeavesCovered
<1>4. j \in Nat /\ j < a.length /\ 0 < j /\ 0 < a.length
  BY <1>1, FewFacts
<1>5. Parent(j) \in {0, 1, 2} /\ Parent(j) <= s /\ Parent(j) < a.length
  BY <1>1, <1>4
<1>6. Rank(b, 0) >= Rank(a, 0) /\ Rank(b, q) > Rank(a, q) /\ Rank(b, q) = Rank(a, p)
      /\ Rank(b, p) = Rank(a, q)
      /\ Rank(a, 0) \in Int /\ Rank(a, q) \in Int /\ Rank(a, p) \in Int
      /\ Rank(b, 0) \in Int /\ Rank(b, q) \in Int
  BY <1>2, <1>3, <1>4
<1> HIDE DEF b, q
<1>7. CASE j = p
  <2>1. Rank(b, j) <= Rank(b, Parent(j))
    BY <1>6, <1>7 DEF q
  <2> QED BY <2>1 DEF Covered
<1>8. CASE j # p
  <2>1. Rank(b, j) = Rank(a, j) /\ Rank(a, j) \in Int
    BY <1>3, <1>4, <1>8
  <2>2. Rank(a, j) <= Rank(a, Parent(j)) \/ Rank(a, j) <= Rank(a, 0)
    BY <1>8 DEF LeavesCovered, Covered
  <2>3. CASE Rank(a, j) <= Rank(a, 0)
    BY <1>6, <2>1, <2>3 DEF Covered
  <2>4. CASE Rank(a, j) <= Rank(a, Parent(j)) /\ Parent(j) = q
    BY <1>6, <2>1, <2>4 DEF Covered
  <2>5. CASE Rank(a, j) <= Rank(a, Parent(j)) /\ Parent(j) = p
    <3>1. q = 0
      BY <1>1, <1>5, <2>5 DEF q
    <3> QED BY <1>6, <2>1, <2>5, <3>1 DEF Covered
  <2>6. CASE Rank(a, j) <= Rank(a, Parent(j)) /\ Parent(j) # q /\ Parent(j) # p
    <3>1. Rank(b, Parent(j)) = Rank(a, Parent(j))
      BY <1>3, <1>5, <2>6
    <3> QED BY <2>1, <2>6, <3>1 DEF Covered
  <2> QED BY <2>2, <2>3, <2>4, <2>5, <2>6
<1> QED BY <1>7, <1>8

\* When emerge stops, the position it stops at is covered too.
LEMMA EmergeCovered ==
    ASSUME NEW a, NEW n, NEW p, LeavesCovered(a, n, p), SplitAt(a.length) >= 0,
           SplitAt(a.length) \in Int, p = 0 \/ Rank(a, p) <= Rank(a, Parent(p))
    PROVE  LeavesCovered(a, n, 0)
<1> SUFFICES ASSUME NEW j \in Index, SplitAt(a.length) < j, j < n, j # 0
             PROVE  Covered(a, j)
  BY DEF LeavesCovered
<1>1. CASE j = p
  BY <1>1 DEF Covered
<1>2. CASE j # p
  BY <1>2 DEF LeavesCovered
<1> QED BY <1>1, <1>2

\* The root sinks: whether it swaps or not, it is then the highest.
LEMMA RootSinks ==
    ASSUME NEW a, Good(a), Narrow(a), a.length > 1, a.length <= 7,
           LeavesCovered(a, a.length, 0)
    PROVE  LET m == MaxIndex(a, 0)
           IN  /\ m = 0 => RootHighest(a)
               /\ m # 0 => m \in {1, 2} /\ m < a.length /\ RootHighest(Swap(a, 0, m))
<1> DEFINE m == MaxIndex(a, 0)
<1>1. /\ a.length \in Nat /\ SplitAt(a.length) \in {0, 1, 2}
      /\ \A j \in Nat : j < a.length => j \in Index /\ Rank(a, j) \in Int
      /\ \A j \in Index : j \in Nat
  BY FewFacts
<1>2. /\ m = 0 \/ m = 1 \/ m = 2
      /\ m # 0 => m < a.length /\ Rank(a, m) > Rank(a, 0)
      /\ Rank(a, 1) <= Rank(a, m)
      /\ 2 < a.length => Rank(a, 2) <= Rank(a, m)
  <2>1. 2 * 0 + 1 = 1 /\ 2 * 0 + 2 = 2 /\ 2 * 0 + 1 < a.length /\ 0 \in Nat
    BY <1>1
  <2> QED BY <2>1, MaxIndexFacts
<1> HIDE DEF m
<1>3. m \in Nat /\ m < a.length /\ 0 < a.length
  BY <1>1, <1>2
<1>4. ASSUME NEW j \in Nat, j < a.length
      PROVE  Rank(a, j) <= Rank(a, m)
  <2>1. Rank(a, 0) <= Rank(a, m)
    BY <1>1, <1>2, <1>3
  <2>2. CASE j \in {0, 1, 2}
    BY <1>2, <1>4, <2>1, <2>2
  <2>3. CASE j > 2
    <3>1. Parent(j) \in {1, 2} /\ Parent(j) < a.length /\ j \in Index
      BY <1>1, <1>4, <2>3, ThreeLevels
    <3>2. Rank(a, Parent(j)) <= Rank(a, m)
      BY <1>2, <3>1
    <3>3. SplitAt(a.length) < j
      BY <1>1, <2>3
    <3>4. Rank(a, j) <= Rank(a, Parent(j)) \/ Rank(a, j) <= Rank(a, 0)
      BY <1>4, <2>3, <3>1, <3>3 DEF LeavesCovered, Covered
    <3>5. /\ Rank(a, j) \in Int /\ Rank(a, Parent(j)) \in Int
          /\ Rank(a, 0) \in Int /\ Rank(a, m) \in Int
      BY <1>1, <1>3, <1>4, <3>1
    <3> QED BY <2>1, <3>2, <3>4, <3>5
  <2> QED BY <1>4, <2>2, <2>3
<1>5. CASE m = 0
  BY <1>1, <1>4, <1>5 DEF RootHighest, m
<1>6. CASE m # 0
  <2> DEFINE b == Swap(a, 0, m)
  <2>1. b.length = a.length /\ \A k \in Nat : k < a.length =>
          Rank(b, k) = IF k = m THEN Rank(a, 0) ELSE IF k = 0 THEN Rank(a, m) ELSE Rank(a, k)
    BY <1>1, <1>3, SwapFacts
  <2> HIDE DEF b
  <2>2. Rank(b, 0) = Rank(a, m)
    BY <1>3, <1>6, <2>1
  <2>3. ASSUME NEW j \in Index, j < b.length
        PROVE  Rank(b, j) <= Rank(b, 0)
    <3>1. j \in Nat /\ j < a.length
      BY <1>1, <2>1, <2>3
    <3> QED BY <1>3, <1>4, <2>1, <2>2, <3>1
  <2>4. RootHighest(b)
    BY <2>3 DEF RootHighest
  <2> QED BY <1>2, <1>6, <2>4 DEF m, b
<1> QED BY <1>5, <1>6 DEF m

\* A lower node sinks by a swap: the root stays the highest, and the node is settled.
LEMMA NodeSinks ==
    ASSUME NEW a, Good(a), Narrow(a), a.length > 1, a.length <= 7,
           NEW n \in Nat, n <= SplitAt(a.length) + 1,
           NEW p \in Nat \ {0}, 2 * p + 1 < a.length, p >= n - 1,
           RootHighest(a), Settled(a, n, p), MaxIndex(a, p) # p
    PROVE  LET m == MaxIndex(a, p)
           IN  /\ m \in Nat /\ m < a.length /\ m > p
               /\ RootHighest(Swap(a, p, m)) /\ Settled(Swap(a, p, m), n, m)
<1> DEFINE m == MaxIndex(a, p)
           b == Swap(a, p, m)
<1>1. /\ a.length \in Nat /\ SplitAt(a.length) \in {0, 1, 2}
      /\ \A j \in Nat : j < a.length => j \in Index /\ Rank(a, j) \in Int
      /\ \A j \in Index : j \in Nat
  BY FewFacts
<1>2. /\ m = 2 * p + 1 \/ m = 2 * p + 2
      /\ m < a.length /\ Rank(a, m) > Rank(a, p)
      /\ Rank(a, 2 * p + 1) <= Rank(a, m)
      /\ 2 * p + 2 < a.length => Rank(a, 2 * p + 2) <= Rank(a, m)
  BY MaxIndexFacts
<1> HIDE DEF m
<1>3. m \in Nat /\ m > p /\ m > 2 /\ p \in {1, 2} /\ p < a.length /\ 0 < a.length
  BY <1>1, <1>2
<1>4. b.length = a.length /\ \A k \in Nat : k < a.length =>
        Rank(b, k) = IF k = m THEN Rank(a, p) ELSE IF k = p THEN Rank(a, m) ELSE Rank(a, k)
  BY <1>1, <1>2, <1>3, SwapFacts
<1> HIDE DEF b
<1>5. RootHighest(b)
  <2>1. \A j \in Nat : j < a.length => Rank(a, j) <= Rank(a, 0)
    BY <1>1 DEF RootHighest
  <2>2. Rank(b, 0) = Rank(a, 0)
    BY <1>3, <1>4
  <2>3. ASSUME NEW j \in Index, j < b.length
        PROVE  Rank(b, j) <= Rank(b, 0)
    <3>1. j \in Nat /\ j < a.length
      BY <1>1, <1>4, <2>3
    <3> QED BY <1>2, <1>3, <1>4, <2>1, <2>2, <3>1
  <2> QED BY <2>3 DEF RootHighest
<1>6. ASSUME NEW j \in Index, j # 0, j < b.length,
             Parent(j) # 0, Parent(j) < n, Parent(j) # m
      PROVE  Rank(b, j) <= Rank(b, Parent(j))
  <2>1. j \in Nat /\ 0 < j /\ j < a.length
    BY <1>1, <1>4, <1>6
  <2>2. /\ Parent(j) \in {1, 2} /\ Parent(j) < j
        /\ j = 2 * Parent(j) + 1 \/ j = 2 * Parent(j) + 2
    <3>1. /\ Parent(j) \in {0, 1, 2} /\ Parent(j) < j
          /\ j = 2 * Parent(j) + 1 \/ j = 2 * Parent(j) + 2
      BY <1>1, <2>1, ThreeLevels
    <3> QED BY <1>6, <3>1
  <2>3. CASE Parent(j) = p
    <3>1. Rank(a, j) <= Rank(a, m) /\ j # p
      BY <1>2, <2>1, <2>2, <2>3
    <3>2. Rank(b, p) = Rank(a, m) /\ Rank(a, p) <= Rank(a, m)
      BY <1>1, <1>2, <1>3, <1>4
    <3> QED BY <1>4, <2>1, <2>3, <3>1, <3>2
  <2>4. CASE Parent(j) # p
    <3>1. j # m /\ j # p
      BY <1>2, <1>3, <2>2, <2>4
    <3>2. Rank(a, j) <= Rank(a, Parent(j))
      BY <1>6, <2>1, <2>4 DEF Settled
    <3>3. Rank(b, j) = Rank(a, j)
      BY <1>4, <2>1, <3>1
    <3>4. Parent(j) \in Nat /\ Parent(j) < a.length
      BY <1>1, <2>1, <2>2
    <3>5. Rank(b, Parent(j)) = Rank(a, Parent(j))
      BY <1>4, <1>6, <2>4, <3>4
    <3> QED BY <3>2, <3>3, <3>5
  <2> QED BY <2>3, <2>4
<1>7. Settled(b, n, m)
  BY <1>6 DEF Settled
<1> QED BY <1>2, <1>3, <1>5, <1>7 DEF m, b

\* A lower node has sunk.
LEMMA NodeSettles ==
    ASSUME NEW a, Good(a), Narrow(a), a.length > 1, a.length <= 7, NEW n,
           NEW p \in Nat \ {0}, p < a.length, Settled(a, n, p),
           2 * p + 1 < a.length => MaxIndex(a, p) = p
    PROVE  Settled(a, n, 0)
<1> SUFFICES ASSUME NEW j \in Index, j # 0, j < a.length, Parent(j) # 0, Parent(j) < n
             PROVE  Rank(a, j) <= Rank(a, Parent(j))
  BY DEF Settled
<1>1. CASE Parent(j) # p
  BY <1>1 DEF Settled
<1>2. CASE Parent(j) = p
  <2>1. j \in Nat /\ 0 < j /\ (j = 2 * p + 1 \/ j = 2 * p + 2) /\ 2 * p + 1 < a.length
    <3>1. j \in Nat /\ 0 < j /\ a.length \in Nat
      BY FewFacts
    <3> QED BY <1>2, <3>1, ThreeLevels
  <2>2. MaxIndex(a, p) = p
    BY <2>1
  <2>3. /\ Rank(a, 2 * p + 1) <= Rank(a, p)
        /\ 2 * p + 2 < a.length => Rank(a, 2 * p + 2) <= Rank(a, p)
    BY <2>1, <2>2, MaxIndexFacts
  <2> QED BY <1>2, <2>1, <2>3
<1> QED BY <1>1, <1>2

\* When all nodes have sunk, the array is a heap.
LEMMA ArrivedIsHeap ==
    ASSUME NEW a, Good(a), a.length > 1, a.length <= 7,
           NEW n \in Nat, n > SplitAt(a.length), Arrived(a, n)
    PROVE  HeapOrdered(a)
<1> SUFFICES ASSUME NEW j \in Index \ {0}, j < a.length
             PROVE  Rank(a, j) <= Rank(a, Parent(j))
  BY DEF HeapOrdered
<1>1. j \in Nat /\ 0 < j /\ a.length \in Nat /\ SplitAt(a.length) \in {0, 1, 2}
  BY FewFacts
<1>2. Parent(j) \in {0, 1, 2} /\ Parent(j) <= SplitAt(a.length)
  BY <1>1, ThreeLevels
<1>3. RootHighest(a) /\ Settled(a, n, 0)
  BY <1>1 DEF Arrived
<1>4. CASE Parent(j) = 0
  BY <1>3, <1>4 DEF RootHighest
<1>5. CASE Parent(j) # 0
  <2>1. Parent(j) < n
    BY <1>1, <1>2
  <2> QED BY <1>3, <1>5, <2>1 DEF Settled
<1> QED BY <1>4, <1>5

\* A run starts with two operands that can be dealt.
LEMMA MergeInitStage == MergeInit => Stage
<1> SUFFICES ASSUME MergeInit PROVE Stage
  OBVIOUS
<1>1. PICK c \in Compare, n1 \in Lengths, n2 \in Lengths, spare \in Spares :
          /\ n1 + n2 <= Len(Deal)
          /\ n1 + spare <= MaxU32
          /\ array1 = Holding(c, SubSeq(Deal, 1, n1), n1 + spare)
          /\ array2 = Holding(c, SubSeq(Deal, n1 + 1, n1 + n2), n2)
  BY DEF MergeInit
<1>2. /\ n1 \in U32 /\ n2 \in U32 /\ n1 \in Nat /\ n2 \in Nat
      /\ Deal \in Seq(Elem) /\ Len(Deal) \in Nat
  BY HeapMergeAssumption, OpsAssumption, LenProperties DEF U32
<1>3. /\ SubSeq(Deal, 1, n1) \in Seq(Elem) /\ Len(SubSeq(Deal, 1, n1)) = n1
      /\ SubSeq(Deal, n1 + 1, n1 + n2) \in Seq(Elem)
      /\ Len(SubSeq(Deal, n1 + 1, n1 + n2)) = n2
  BY <1>1, <1>2, SubSeqProperties
<1>4. \A s, m : Holding(c, s, m).length = Len(s)
  BY DEF Holding, NewArray
<1>5. array1.length = n1 /\ array2.length = n2
  BY <1>1, <1>3, <1>4
<1> QED BY <1>1, <1>5 DEF MergeInit, Stage

\* heapify starts: no leaf has emerged.
LEMMA StartStage ==
    ASSUME MInv, Idle, NEW a, Good(a), a.length > 1, a.length <= Len(Deal), StartHeapify(a)
    PROVE  Stage'
<1>1. a.length \in Nat /\ a.length <= MaxU32 /\ MaxU32 \in Nat
  BY StoredElem
<1>2. LastIndex(a) = a.length - 1
  <2>1. a.length - 1 \in Nat /\ a.length - 1 <= MaxU32
    BY <1>1
  <2> QED BY <2>1, WrapSmall DEF LastIndex
<1>3. SplitAt(a.length) \in Nat
  <2>1. a.length - 1 \in Nat \ {0}
    BY <1>1
  <2> QED BY <2>1, ParentFacts DEF SplitAt
<1>4. /\ heap' = a /\ phase' = "leaves" /\ pc' = "idle"
      /\ i' = SplitAt(a.length) + 1
  BY <1>2 DEF StartHeapify, Idle, SplitAt
<1>5. a # Null
  BY HeapAssumption DEF Good
<1>6. LeavesCovered(a, SplitAt(a.length) + 1, 0)
  <2>1. \A j \in Index : ~(SplitAt(a.length) < j /\ j < SplitAt(a.length) + 1)
    BY <1>3, OpsAssumption DEF Index
  <2> QED BY <2>1 DEF LeavesCovered
<1> QED BY <1>3, <1>4, <1>5, <1>6 DEF Stage

\* A refused call.
LEMMA DeclineStage == Stage /\ Decline => Stage'
BY DEF Decline, Stage

\* heapify, merge and meld start with no more elements than are dealt.
LEMMA CallsStage ==
    ASSUME MergeContract, MInv, Stage, Heapify \/ Merge \/ Meld
    PROVE  Stage'
<1>1. CASE Decline
  BY <1>1, DeclineStage
<1>2. CASE ~Decline /\ Heapify
  <2>1. /\ Idle /\ array1 # Null /\ array1.length > 1 /\ StartHeapify(array1)
    BY <1>2 DEF Heapify
  <2>2. Good(array1) /\ Good(array2) /\ heap = Null
    BY <2>1 DEF MInv, Idle
  <2>3. array1.length \in Nat /\ array2.length \in Nat
    BY <2>2, StoredElem
  <2>4. array1.length <= Len(Deal)
    <3>1. array1.length + array2.length <= Len(Deal) /\ Len(Deal) \in Nat
      BY <2>2, HeapMergeAssumption, LenProperties DEF Stage
    <3> QED BY <2>3, <3>1
  <2> QED BY <2>1, <2>2, <2>4, StartStage
<1>3. CASE ~Decline /\ Merge
  <2>1. /\ Idle /\ array1 # Null /\ array2 # Null /\ Joinable(array1, array2)
    BY <1>3 DEF Merge, Heaps
  <2>1a. PICK wide \in Widened(array1, array1.length + array2.length) : Joined(wide)
    BY <1>3 DEF Merge
  <2> DEFINE total == array1.length + array2.length
             d     == Concat(wide, array2)
  <2>2. Good(array1) /\ Good(array2) /\ heap = Null
    BY <2>1 DEF MInv, Idle
  <2>3. Good(d) /\ d.length > 1 /\ d.length = total
    BY <2>1, <2>2, Merged
  <2>4. total <= Len(Deal)
    BY <2>2 DEF Stage
  <2>5. StartHeapify(d)
    BY <2>1a DEF Joined
  <2> HIDE DEF d, total
  <2> QED BY <2>1, <2>3, <2>4, <2>5, StartStage
<1> DEFINE total == array1.length + array2.length
           d == Concat(Concat(NewArray(array1.compare, total), array1), array2)
<1>4. CASE /\ Idle /\ Heaps /\ Joinable(array1, array2)
           /\ StartHeapify(d)
           /\ UNCHANGED <<array1, array2>>
  <2>1. array1 # Null /\ array2 # Null /\ Good(array1) /\ Good(array2) /\ heap = Null
    BY <1>4 DEF MInv, Idle, Heaps
  <2>2. Good(d) /\ d.length > 1 /\ d.length = total
    BY <1>4, <2>1, Melded
  <2>3. total <= Len(Deal)
    BY <2>1 DEF Stage
  <2> HIDE DEF d, total
  <2> QED BY <1>4, <2>2, <2>3, StartStage
<1> QED BY <1>1, <1>2, <1>3, <1>4 DEF Meld, MergeContract

\* A loop of heapify takes its next position.
LEMMA NextNodeStage ==
    ASSUME Few, MInv, Stage, NextLeaf \/ NextNodeUp \/ NextNodeDown
    PROVE  Stage'
<1> DEFINE len == heap.length
           s == SplitAt(heap.length)
<1>1. heap # Null /\ Good(heap) /\ len > 1 /\ pc = "idle" /\ i \in Nat /\ fault' = fault
  BY OpsAssumption DEF NextLeaf, NextNodeUp, NextNodeDown, MInv, U32, Call, vars
<1>2. len \in Nat /\ len <= 7 /\ len <= MaxU32 /\ MaxU32 \in Nat
  <2>1. len <= Len(Deal) /\ Len(Deal) \in Nat
    BY <1>1, HeapMergeAssumption, LenProperties DEF Stage
  <2> QED BY <1>1, <2>1, StoredElem DEF Few
<1>3. s \in {0, 1, 2} /\ LastNode = s
  <2>1. len - 1 \in Nat /\ len - 1 <= MaxU32
    BY <1>1, <1>2
  <2> QED BY <1>1, <1>2, <2>1, ThreeLevels, WrapSmall DEF SplitAt, LastNode, LastIndex
<1>4. UNCHANGED <<heap, array1, array2>> /\ heap.length <= Len(Deal)
  BY <1>1 DEF NextLeaf, NextNodeUp, NextNodeDown, Call, vars, Stage
<1>5. CASE phase = "leaves" /\ i < len /\ NextLeaf
  <2>1. phase' = "leaves" /\ pc' = "emerge" /\ pos' = i /\ i' = i + 1
    BY <1>1, <1>2, <1>5 DEF NextLeaf, Call
  <2>2. s < i /\ LeavesCovered(heap, i, 0)
    BY <1>1, <1>5 DEF Stage
  <2>3. LeavesCovered(heap, i + 1, i)
    <3>1. ASSUME NEW j \in Index, SplitAt(len) < j, j < i + 1, j # i
          PROVE  Covered(heap, j)
      <4>1. j \in Nat /\ j < i /\ j # 0
        BY <1>1, <1>3, <3>1, OpsAssumption DEF Index
      <4> QED BY <2>2, <3>1, <4>1 DEF LeavesCovered
    <3> QED BY <3>1 DEF LeavesCovered
  <2>4. s < i + 1
    BY <1>1, <1>3, <2>2
  <2> QED BY <1>1, <1>4, <2>1, <2>3, <2>4 DEF Stage
<1>6. CASE phase = "leaves" /\ ~(i < len) /\ NextLeaf
  <2>1. phase' = "up" /\ pc' = "idle" /\ i' = 0
    BY <1>1, <1>2, <1>6 DEF NextLeaf, Call, vars
  <2>2. i = len
    BY <1>1, <1>2, <1>6 DEF MInv
  <2>3. LeavesCovered(heap, len, 0)
    BY <1>1, <1>6, <2>2 DEF Stage
  <2> QED BY <1>1, <1>4, <2>1, <2>3 DEF Stage, Arrived
<1>7. CASE phase = "up" /\ i <= s /\ NextNodeUp
  <2>1. phase' = "down" /\ pc' = "emerge" /\ pos' = i /\ i' = i
    BY <1>1, <1>3, <1>7 DEF NextNodeUp, Call
  <2>2. Arrived(heap, i)
    BY <1>1, <1>7 DEF Stage
  <2> QED BY <1>1, <1>4, <2>1, <2>2 DEF Stage
<1>8. CASE phase = "up" /\ ~(i <= s) /\ NextNodeUp
  <2>1. phase' = "none" /\ pc' = "idle" /\ i' = i
    BY <1>1, <1>3, <1>8 DEF NextNodeUp, Call, vars
  <2>2. Arrived(heap, i) /\ i > s
    BY <1>1, <1>3, <1>8 DEF Stage
  <2>3. HeapOrdered(heap)
    BY <1>1, <1>2, <2>2, ArrivedIsHeap
  <2> QED BY <1>1, <1>4, <2>1, <2>3 DEF Stage
<1>9. CASE phase = "down" /\ NextNodeDown
  <2>1. phase' = "up" /\ pc' = "sink" /\ pos' = i /\ i' = i + 1
    BY <1>9 DEF NextNodeDown, Call
  <2>2. Arrived(heap, i)
    BY <1>9 DEF Stage
  <2>3. \/ i + 1 = 1 /\ i = 0 /\ LeavesCovered(heap, len, 0)
        \/ /\ i + 1 >= 1 /\ i >= 1 /\ i >= (i + 1) - 1
           /\ RootHighest(heap) /\ Settled(heap, i + 1, i)
    <3>1. CASE i = 0
      BY <2>2, <3>1 DEF Arrived
    <3>2. CASE i # 0
      <4>1. RootHighest(heap) /\ Settled(heap, i, 0)
        BY <2>2, <3>2 DEF Arrived
      <4>2. ASSUME NEW j \in Index, j # 0, j < len,
                   Parent(j) # 0, Parent(j) < i + 1, Parent(j) # i
            PROVE  Rank(heap, j) <= Rank(heap, Parent(j))
        <5>1. j \in Nat /\ 0 < j
          BY <4>2, OpsAssumption DEF Index
        <5>2. Parent(j) \in {0, 1, 2}
          BY <1>1, <1>2, <4>2, <5>1, ThreeLevels
        <5>3. Parent(j) < i
          BY <1>1, <4>2, <5>2
        <5> QED BY <4>1, <4>2, <5>3 DEF Settled
      <4>3. Settled(heap, i + 1, i)
        BY <4>2 DEF Settled
      <4> QED BY <1>1, <3>2, <4>1, <4>3
    <3> QED BY <3>1, <3>2
  <2> QED BY <1>1, <1>4, <2>1, <2>3 DEF Stage
<1> QED BY <1>5, <1>6, <1>7, <1>8, <1>9 DEF NextLeaf, NextNodeUp, NextNodeDown

\* emerge: the leaves come to be covered; after them it has nothing to do.
LEMMA EmergeStage ==
    ASSUME Few, MInv, Stage, EmergeStep, UNCHANGED <<array1, array2, phase, i>>
    PROVE  Stage'
<1> DEFINE len == heap.length
           s == SplitAt(heap.length)
<1>1. pc = "emerge" /\ heap # Null /\ Good(heap) /\ len > 1 /\ i \in Nat /\ pos \in Nat /\ pos < len
      /\ phase \in {"leaves", "down"}
  BY OpsAssumption DEF EmergeStep, MInv, TypeOK, Stage, U32
<1>2. len \in Nat /\ len <= 7 /\ heap.length <= Len(Deal)
  <2>1. len <= Len(Deal) /\ Len(Deal) \in Nat
    BY <1>1, HeapMergeAssumption, LenProperties DEF Stage
  <2> QED BY <1>1, <2>1, StoredElem DEF Few
<1>3. s \in {0, 1, 2}
  BY <1>1, <1>2, ThreeLevels
<1>4. CASE phase = "leaves"
  <2>1. s < i /\ LeavesCovered(heap, i, pos) /\ i <= len
    BY <1>1, <1>4 DEF Stage, MInv
  <2>2. CASE /\ pos # 0 /\ Rank(heap, pos) > Rank(heap, Parent(pos))
             /\ heap' = Swap(heap, pos, Parent(pos)) /\ pos' = Parent(pos) /\ pc' = pc
    <3>1. Parent(pos) \in Nat /\ Parent(pos) < len
      <4>1. pos \in Nat \ {0}
        BY <1>1, <2>2
      <4> QED BY <1>1, <1>2, <4>1, ParentFacts
    <3>2. Good(heap') /\ heap'.length = len
      BY <1>1, <2>2, <3>1, SwapFacts
    <3>3. LeavesCovered(heap', i, pos')
      BY <1>1, <1>2, <2>1, <2>2, EmergeCovers
    <3>4. heap' # Null
      BY <3>2, HeapAssumption DEF Good
    <3> QED BY <1>1, <1>2, <1>4, <2>1, <2>2, <3>2, <3>3, <3>4 DEF Stage
  <2>3. CASE heap' = heap /\ pc' = "idle" /\ (pos = 0 \/ Rank(heap, pos) <= Rank(heap, Parent(pos)))
    <3>1. LeavesCovered(heap, i, 0)
      BY <1>3, <2>1, <2>3, EmergeCovered
    <3> QED BY <1>1, <1>2, <1>4, <2>1, <2>3, <3>1 DEF Stage
  <2> QED BY <2>2, <2>3 DEF EmergeStep
<1>5. CASE phase = "down"
  <2>1. pos = i /\ Arrived(heap, i) /\ i <= s
    BY <1>1, <1>5 DEF Stage, MInv
  <2>2. pos # 0 => Rank(heap, pos) <= Rank(heap, Parent(pos))
    <3> SUFFICES ASSUME pos # 0
                 PROVE  Rank(heap, pos) <= Rank(heap, Parent(pos))
      OBVIOUS
    <3>1. RootHighest(heap)
      BY <2>1 DEF Arrived
    <3>2. pos \in {1, 2}
      BY <1>1, <1>3, <2>1
    <3>3. Parent(pos) = 0
      BY <1>1, <1>2, <3>2, ThreeLevels
    <3> QED BY <1>1, <3>1, <3>3, FewFacts, <1>2 DEF RootHighest
  <2>3. pos # 0 => ~(Rank(heap, pos) > Rank(heap, Parent(pos)))
    <3> SUFFICES ASSUME pos # 0
                 PROVE  ~(Rank(heap, pos) > Rank(heap, Parent(pos)))
      OBVIOUS
    <3>1. Parent(pos) \in Nat /\ Parent(pos) < len
      <4>1. pos \in Nat \ {0}
        BY <1>1
      <4> QED BY <1>1, <1>2, <4>1, ParentFacts
    <3>2. Rank(heap, pos) \in Int /\ Rank(heap, Parent(pos)) \in Int
      BY <1>1, <1>2, <3>1, FewFacts
    <3> QED BY <2>2, <3>2
  <2>4. heap' = heap /\ pc' = "idle"
    BY <2>3 DEF EmergeStep
  <2> QED BY <1>1, <1>2, <1>5, <2>1, <2>4 DEF Stage
<1> QED BY <1>1, <1>4, <1>5

\* sink: first the root, then the nodes below it.
LEMMA SinkStage ==
    ASSUME Few, MInv, Stage, SinkStep, UNCHANGED <<array1, array2, phase, i>>
    PROVE  Stage'
<1> DEFINE len == heap.length
           s == SplitAt(heap.length)
           m == MaxIndex(heap, pos)
<1>1. pc = "sink" /\ heap # Null /\ Good(heap) /\ len > 1 /\ i \in Nat /\ pos \in Nat /\ pos < len
      /\ phase = "up" /\ i <= s + 1
  BY OpsAssumption DEF SinkStep, MInv, TypeOK, Stage, U32
<1>2. len \in Nat /\ len <= 7 /\ heap.length <= Len(Deal) /\ Narrow(heap)
  <2>1. len <= Len(Deal) /\ Len(Deal) \in Nat
    BY <1>1, HeapMergeAssumption, LenProperties DEF Stage
  <2>2. MaxU32 \in Nat /\ len \in Nat
    BY <1>1, StoredElem
  <2> QED BY <1>1, <2>1, <2>2 DEF Few, Narrow
<1>3. s \in {0, 1, 2} /\ LeftChild(pos) = 2 * pos + 1 /\ LastIndex(heap) = len - 1
  BY <1>1, <1>2, ThreeLevels, ChildIndexes
<1>4. \/ /\ heap' = heap /\ pc' = "idle"
         /\ 2 * pos + 1 < len => m = pos
      \/ /\ 2 * pos + 1 < len /\ m # pos
         /\ heap' = Swap(heap, pos, m) /\ pos' = m /\ pc' = "sink"
  <2>1. 2 * pos + 1 <= len - 1 <=> 2 * pos + 1 < len
    BY <1>1, <1>2
  <2>2. 2 * pos + 1 > len - 1 <=> ~(2 * pos + 1 < len)
    BY <1>1, <1>2
  <2> QED BY <1>1, <1>3, <2>1, <2>2 DEF SinkStep
<1> HIDE DEF m
<1>5. ASSUME NEW k \in Nat, k < len, heap' = Swap(heap, pos, k)
      PROVE  heap' # Null /\ heap'.length = len
  <2>1. Good(heap') /\ heap'.length = len
    BY <1>1, <1>5, SwapFacts
  <2> QED BY <2>1, HeapAssumption DEF Good
<1>6. CASE i = 1 /\ pos = 0 /\ LeavesCovered(heap, len, 0)
  <2>1. /\ m = 0 => RootHighest(heap)
        /\ m # 0 => m \in {1, 2} /\ m < len /\ RootHighest(Swap(heap, 0, m))
    BY <1>1, <1>2, <1>6, RootSinks DEF m
  <2>2. \A a, p : Settled(a, 1, p)
    <3> SUFFICES ASSUME NEW a, NEW j \in Index, j # 0, Parent(j) # 0, Parent(j) < 1
                 PROVE  FALSE
      BY DEF Settled
    <3>1. j \in Nat \ {0}
      BY OpsAssumption DEF Index
    <3>2. Parent(j) \in Nat
      BY <3>1, ParentFacts
    <3> QED BY <3>2
  <2>3. CASE heap' = heap /\ pc' = "idle" /\ m = 0
    <3>1. Arrived(heap, 1)
      BY <2>1, <2>2, <2>3 DEF Arrived
    <3> QED BY <1>1, <1>2, <1>6, <2>3, <3>1 DEF Stage
  <2>4. CASE m # 0 /\ heap' = Swap(heap, 0, m) /\ pos' = m /\ pc' = "sink"
    <3>1. m \in Nat /\ m < len /\ m >= 1 /\ RootHighest(heap') /\ Settled(heap', 1, m)
      BY <2>1, <2>2, <2>4
    <3>2. heap' # Null /\ heap'.length = len
      BY <1>5, <1>6, <2>4, <3>1
    <3> QED BY <1>1, <1>2, <1>6, <2>4, <3>1, <3>2 DEF Stage
  <2>5. 2 * 0 + 1 < len
    BY <1>1, <1>2
  <2> QED BY <1>4, <1>6, <2>3, <2>4, <2>5
<1>7. CASE i >= 1 /\ pos >= 1 /\ pos >= i - 1 /\ RootHighest(heap) /\ Settled(heap, i, pos)
  <2>1. CASE heap' = heap /\ pc' = "idle" /\ (2 * pos + 1 < len => m = pos)
    <3>1. Settled(heap, i, 0)
      BY <1>1, <1>2, <1>7, <2>1, NodeSettles DEF m
    <3>2. Arrived(heap, i)
      BY <1>1, <1>7, <3>1 DEF Arrived
    <3> QED BY <1>1, <1>2, <2>1, <3>2 DEF Stage
  <2>2. CASE 2 * pos + 1 < len /\ m # pos /\ heap' = Swap(heap, pos, m) /\ pos' = m /\ pc' = "sink"
    <3>1. pos \in Nat \ {0}
      BY <1>1, <1>7
    <3>2. /\ m \in Nat /\ m < len /\ m > pos
          /\ RootHighest(Swap(heap, pos, m)) /\ Settled(Swap(heap, pos, m), i, m)
      BY <1>1, <1>2, <1>7, <2>2, <3>1, NodeSinks DEF m
    <3>3. heap' # Null /\ heap'.length = len
      BY <1>5, <2>2, <3>2
    <3>4. m >= 1 /\ m >= i - 1
      BY <1>1, <1>7, <3>2
    <3> QED BY <1>1, <1>2, <1>7, <2>2, <3>2, <3>3, <3>4 DEF Stage
  <2> QED BY <1>4, <2>1, <2>2
<1> QED BY <1>1, <1>6, <1>7 DEF Stage

\* heapify, heap_merge and heap_meld return a heap when it has at most seven elements,
\* whatever the elements, their order and their ranks, and as long as the requests of
\* MergeContract are granted.
THEOREM SmallResult == MergeContract /\ Few => (MergeSpec => []ResultIsHeap)
<1> SUFFICES ASSUME MergeContract, Few PROVE MergeSpec => []ResultIsHeap
  OBVIOUS
<1>1. MergeInit => MInv /\ Stage
  BY MergeInitKeeps, MergeInitStage
<1>2. MInv /\ Stage /\ [MergeNext]_mergeVars => (MInv /\ Stage)'
  <2> SUFFICES ASSUME MInv, Stage, [MergeNext]_mergeVars
               PROVE  MInv' /\ Stage'
    OBVIOUS
  <2>1. MInv'
    BY MergeNextKeeps
  <2>2. CASE UNCHANGED mergeVars
    <3>1. UNCHANGED <<heap, pc, pos, array1, array2, phase, i>>
      BY <2>2 DEF mergeVars, vars
    <3> QED BY <2>1, <3>1 DEF Stage
  <2>3. CASE MergeNext
    <3>1. CASE Heapify \/ Merge \/ Meld
      BY <2>1, <3>1, CallsStage
    <3>2. CASE NextLeaf \/ NextNodeUp \/ NextNodeDown
      BY <2>1, <3>2, NextNodeStage
    <3>3. CASE Inner(EmergeStep)
      BY <2>1, <3>3, EmergeStage DEF Inner
    <3>4. CASE Inner(SinkStep)
      BY <2>1, <3>4, SinkStage DEF Inner
    <3> QED BY <2>3, <3>1, <3>2, <3>3, <3>4 DEF MergeNext
  <2> QED BY <2>1, <2>2, <2>3
<1>3. MInv /\ Stage => ResultIsHeap
  BY DEF Stage, ResultIsHeap, Finished
<1> QED BY <1>1, <1>2, <1>3, PTL DEF MergeSpec
=============================================================================
