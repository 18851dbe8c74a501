-------------------------- MODULE DArrayOpsProofs --------------------------
(***************************************************************************)
(* What the steps of DArrayOps preserve and compute, one lemma per step,   *)
(* for every array, element and position.  The proofs about the arrays,    *)
(* the heap and the hash map cite them by name.                            *)
(***************************************************************************)
EXTENDS DArrayOps, FiniteSetTheorems, TLAPS

\* A well-typed array whose block, capacity and length agree.
Good(a) == a \in Array /\ BlockSound(a)

\* A new array is sound, whatever its capacity (d_array_create).
LEMMA NewArrayGood ==
    ASSUME NEW c \in Compare, NEW n \in U32
    PROVE  Good(NewArray(c, n)) /\ NewArray(c, n).length = 0
BY OpsAssumption DEF Good, Array, BlockSound, NewArray, U32, Index

\* Resizing to a size that still holds every element loses none (d_array_resize
\* and the assignment of capacity after it).
LEMMA ExactlyGood ==
    ASSUME NEW a, Good(a), NEW n \in U32, a.length <= n
    PROVE  /\ Good(Exactly(a, n))
           /\ Exactly(a, n).length = a.length
           /\ Exactly(a, n).slots = n
           /\ Exactly(a, n).compare = a.compare
           /\ \A i \in Index : i < a.length => Exactly(a, n).data[i] = a.data[i]
<1> DEFINE b == Exactly(a, n)
           kept == [i \in Index |-> IF i < n THEN a.data[i] ELSE Junk]
<1>1. b \in Array
  BY OpsAssumption DEF Good, Array, Exactly, Resize, U32, Index
<1>2. b.slots = n /\ b.capacity = n /\ b.compare = a.compare
  BY OpsAssumption DEF Good, Array, Exactly, Resize, U32
<1>3. b.length = a.length
  BY OpsAssumption DEF Good, Array, Exactly, Resize, U32
<1>4. b.data = kept
  BY OpsAssumption DEF Good, Array, Exactly, Resize, U32, Index
<1>5. \A i \in Index : i < a.length => b.data[i] = a.data[i]
  BY <1>4, OpsAssumption DEF Good, Array, U32, Index
<1>6. \A i \in Index : b.data[i] \in Elem <=> i < b.length
  BY <1>3, <1>4, OpsAssumption DEF Good, BlockSound, Array, U32, Index
<1>7. Good(b)
  BY <1>1, <1>2, <1>3, <1>6 DEF Good, BlockSound
<1> QED BY <1>2, <1>3, <1>5, <1>7

\* Growing is resizing to capacity + expand_rate (d_array_grow).
LEMMA RoomyGood ==
    ASSUME NEW a, Good(a), NEW b \in Roomy(a)
    PROVE  /\ Good(b)
           /\ b.length = a.length
           /\ b.length < b.slots
           /\ b.compare = a.compare
           /\ \A i \in Index : i < a.length => b.data[i] = a.data[i]
<1>1. CASE ~MustGrow(a)
  BY <1>1, OpsAssumption DEF Roomy, MustGrow, Good, BlockSound, Array, U32
<1>2. CASE MustGrow(a)
  <2>1. a.capacity + a.rate \in U32 /\ a.rate > 0 /\ b = Grow(a)
    BY <1>2, OpsAssumption DEF Roomy, Good, Array, U32
  <2>2. Grow(a) = Exactly(a, a.capacity + a.rate)
    <3>1. Resize(a, a.capacity + a.rate).capacity = a.capacity
      BY <2>1, OpsAssumption DEF Resize, Good, Array, U32
    <3> QED BY <3>1 DEF Grow, Exactly
  <2>3. a.length <= a.capacity + a.rate
    BY OpsAssumption DEF Good, BlockSound, Array, U32
  <2>4. a.length < a.capacity + a.rate
    BY OpsAssumption DEF Good, BlockSound, Array, U32
  <2> HIDE DEF Good
  <2> QED BY <2>1, <2>2, <2>3, <2>4, ExactlyGood
<1> QED BY <1>1, <1>2

\* Giving memory back keeps every element (the tail of the removing functions).
LEMMA TrimmedGood ==
    ASSUME NEW a, Good(a), NEW b \in Trimmed(a)
    PROVE  /\ Good(b)
           /\ b.length = a.length
           /\ b.compare = a.compare
           /\ \A i \in Index : i < a.length => b.data[i] = a.data[i]
<1>1. CASE b = a
  BY <1>1
<1>2. CASE a.capacity - a.rate >= a.length /\ b = Shrink(a)
  <2>1. a.capacity - a.rate \in U32
    BY <1>2, OpsAssumption DEF Good, Array, U32
  <2>2. CASE a.capacity - a.rate = 0
    <3>1. Shrink(a) = Exactly(a, 0)
      BY <2>2, OpsAssumption DEF Shrink, Exactly, Resize, Good, Array, U32
    <3>2. 0 \in U32 /\ a.length <= 0
      BY <1>2, <2>2, OpsAssumption DEF U32
    <3> QED BY <1>2, <3>1, <3>2, ExactlyGood
  <2>3. CASE a.capacity - a.rate # 0
    <3>1. Shrink(a) = Exactly(a, a.capacity - a.rate)
      <4>1. Resize(a, a.capacity - a.rate).capacity = a.capacity
        BY <2>3, OpsAssumption DEF Resize, Good, Array, U32
      <4>2. a.capacity # 0
        BY <2>1, OpsAssumption DEF Good, Array, U32
      <4> QED BY <4>1, <4>2 DEF Shrink, Exactly
    <3> QED BY <1>2, <2>1, <3>1, ExactlyGood
  <2> QED BY <2>2, <2>3
<1> QED BY <1>1, <1>2, OpsAssumption DEF Trimmed, Good, Array, U32

\* An element enters an array with room: the ones before it stay, the ones
\* after it move up one (the shifting loops of push_front and insert_at).
LEMMA InsertSlotGood ==
    ASSUME NEW a, Good(a), a.length < a.slots, NEW x \in Elem,
           NEW p \in U32, p <= a.length
    PROVE  /\ Good(InsertSlot(a, p, x))
           /\ InsertSlot(a, p, x).length = a.length + 1
<1> DEFINE b == InsertSlot(a, p, x)
<1>1. a.length + 1 \in U32
  BY OpsAssumption DEF Good, BlockSound, Array, U32
<1>2. /\ b.length = a.length + 1 /\ b.slots = a.slots /\ b.capacity = a.capacity
      /\ b.compare = a.compare /\ b.rate = a.rate
  BY DEF InsertSlot, Good, Array
<1>3. b.data = [i \in Index |-> IF i < p THEN a.data[i]
                               ELSE IF i = p THEN x
                               ELSE IF i <= a.length THEN a.data[i - 1] ELSE Junk]
  BY DEF InsertSlot, Good, Array
<1>4. \A i \in Index : b.data[i] \in Elem \cup {Junk} /\ (b.data[i] \in Elem <=> i < b.length)
  <2> SUFFICES ASSUME NEW i \in Index
               PROVE  b.data[i] \in Elem \cup {Junk} /\ (b.data[i] \in Elem <=> i < a.length + 1)
    BY <1>2
  <2>1. a.length \in Nat /\ p \in Nat /\ i \in Nat /\ MaxU32 \in Nat
    BY OpsAssumption DEF Good, Array, U32, Index
  <2>2. CASE i < p
    BY <1>3, <2>1, <2>2, OpsAssumption DEF Good, BlockSound, Array
  <2>3. CASE i = p
    BY <1>3, <2>1, <2>3, OpsAssumption
  <2>4. CASE p < i /\ i <= a.length
    <3>1. b.data[i] = a.data[i - 1]
      BY <1>3, <2>1, <2>4
    <3>2. i - 1 \in Index /\ i - 1 < a.length
      BY <2>1, <2>4 DEF Index
    <3> QED BY <2>1, <2>4, <3>1, <3>2 DEF Good, BlockSound
  <2>5. CASE a.length < i
    BY <1>3, <2>1, <2>5, OpsAssumption
  <2> QED BY <2>1, <2>2, <2>3, <2>4, <2>5
<1>5. b.data \in [Index -> Elem \cup {Junk}]
  BY <1>3, <1>4
<1>6. b \in Array
  BY <1>1, <1>2, <1>5 DEF InsertSlot, Good, Array
<1> QED BY <1>2, <1>4, <1>6, OpsAssumption DEF Good, BlockSound, Array, U32

\* An element leaves: the ones after it close the gap, and its slot is stale
\* (the shifting loops of pop_front, remove_at, delete_at and delete).
LEMMA RemoveSlotGood ==
    ASSUME NEW a, Good(a), NEW p \in U32, p < a.length
    PROVE  /\ Good(RemoveSlot(a, p))
           /\ RemoveSlot(a, p).length = a.length - 1
<1> DEFINE b == RemoveSlot(a, p)
<1>1. a.length - 1 \in U32
  BY OpsAssumption DEF Good, BlockSound, Array, U32
<1>2. /\ b.length = a.length - 1 /\ b.slots = a.slots /\ b.capacity = a.capacity
      /\ b.compare = a.compare /\ b.rate = a.rate
  BY DEF RemoveSlot, Good, Array
<1>3. b.data = [i \in Index |-> IF i < p THEN a.data[i]
                               ELSE IF i < a.length - 1 THEN a.data[i + 1] ELSE Junk]
  BY DEF RemoveSlot, Good, Array
<1>4. \A i \in Index : b.data[i] \in Elem \cup {Junk} /\ (b.data[i] \in Elem <=> i < b.length)
  BY <1>2, <1>3, OpsAssumption DEF Good, BlockSound, Array, U32, Index
<1>5. b.data \in [Index -> Elem \cup {Junk}]
  BY <1>3, <1>4
<1>6. b \in Array
  BY <1>1, <1>2, <1>5 DEF RemoveSlot, Good, Array
<1> QED BY <1>2, <1>4, <1>6, OpsAssumption DEF Good, BlockSound, Array, U32

\* A slot in use is overwritten (d_array_set).
LEMMA WriteSlotGood ==
    ASSUME NEW a, Good(a), NEW x \in Elem, NEW p \in U32, p < a.length
    PROVE  Good(WriteSlot(a, p, x))
<1>1. p \in Index
  BY OpsAssumption DEF Good, BlockSound, Array, U32, Index
<1>2. WriteSlot(a, p, x).data = [a.data EXCEPT ![p] = x]
  BY DEF WriteSlot, Good, Array
<1>3. WriteSlot(a, p, x) \in Array
  BY <1>1 DEF WriteSlot, Good, Array
<1>4. /\ WriteSlot(a, p, x).length = a.length
      /\ WriteSlot(a, p, x).capacity = a.capacity
      /\ WriteSlot(a, p, x).slots = a.slots
  BY DEF WriteSlot, Good, Array
<1>5. \A i \in Index : WriteSlot(a, p, x).data[i] \in Elem <=> i < a.length
  BY <1>1, <1>2 DEF Good, BlockSound, Array
<1> QED BY <1>3, <1>4, <1>5 DEF Good, BlockSound

\* The elements of b are copied behind those of a, which has room for them
\* (the memcpy of d_array_join).
LEMMA ConcatGood ==
    ASSUME NEW a, Good(a), NEW b, Good(b), a.length + b.length <= a.slots
    PROVE  Good(Concat(a, b))
<1> DEFINE d == Concat(a, b)
<1>1. /\ a.length \in Nat /\ b.length \in Nat /\ MaxU32 \in Nat
      /\ a.length + b.length \in U32
  BY OpsAssumption DEF Good, Array, U32
<1>2. /\ d.length = a.length + b.length /\ d.slots = a.slots
      /\ d.capacity = a.capacity
  BY DEF Concat, Good, Array
<1>3. d.data = [i \in Index |-> IF i < a.length \/ i >= a.length + b.length
                               THEN a.data[i] ELSE b.data[i - a.length]]
  BY DEF Concat, Good, Array
<1>4. \A i \in Index : /\ d.data[i] \in Elem \cup {Junk}
                       /\ d.data[i] \in Elem <=> i < d.length
  <2> SUFFICES ASSUME NEW i \in Index
               PROVE  /\ d.data[i] \in Elem \cup {Junk}
                      /\ d.data[i] \in Elem <=> i < a.length + b.length
    BY <1>2
  <2>1. i \in Nat
    BY DEF Index
  <2>2. CASE i < a.length \/ i >= a.length + b.length
    BY <1>1, <1>3, <2>1, <2>2 DEF Good, BlockSound, Array
  <2>3. CASE a.length <= i /\ i < a.length + b.length
    <3>1. i - a.length \in Index /\ i - a.length < b.length
      BY <1>1, <2>1, <2>3 DEF Index
    <3>2. d.data[i] = b.data[i - a.length]
      BY <1>1, <1>3, <2>1, <2>3
    <3> QED BY <2>3, <3>1, <3>2 DEF Good, BlockSound
  <2> QED BY <1>1, <2>1, <2>2, <2>3
<1>5. d.data \in [Index -> Elem \cup {Junk}]
  BY <1>3, <1>4
<1>6. d \in Array
  BY <1>1, <1>5 DEF Concat, Good, Array
<1> QED BY <1>2, <1>4, <1>6 DEF Good, BlockSound

\* What the shifting loops put where.
LEMMA InsertSlotData ==
    ASSUME NEW a, Good(a), NEW x, NEW p
    PROVE  /\ InsertSlot(a, p, x).compare = a.compare
           /\ \A i \in Index : InsertSlot(a, p, x).data[i] =
                IF i < p THEN a.data[i]
                ELSE IF i = p THEN x
                ELSE IF i <= a.length THEN a.data[i - 1] ELSE Junk
BY DEF InsertSlot, Good, Array

LEMMA RemoveSlotData ==
    ASSUME NEW a, Good(a), NEW p
    PROVE  /\ RemoveSlot(a, p).compare = a.compare
           /\ \A i \in Index : RemoveSlot(a, p).data[i] =
                IF i < p THEN a.data[i]
                ELSE IF i < a.length - 1 THEN a.data[i + 1] ELSE Junk
BY DEF RemoveSlot, Good, Array

LEMMA WriteSlotData ==
    ASSUME NEW a, Good(a), NEW x, NEW p \in Index
    PROVE  /\ WriteSlot(a, p, x).compare = a.compare
           /\ WriteSlot(a, p, x).length = a.length
           /\ WriteSlot(a, p, x).slots = a.slots
           /\ \A i \in Index : WriteSlot(a, p, x).data[i] = IF i = p THEN x ELSE a.data[i]
BY DEF WriteSlot, Good, Array

-----------------------------------------------------------------------------
(***************************************************************************)
(* Which elements the array holds after each step, and that it holds none  *)
(* twice if it did not before.                                             *)
(***************************************************************************)

\* No element is stored twice.
Distinct(a) == \A i, j \in 0..(a.length - 1) : a.data[i] = a.data[j] => i = j

\* What the slots below length are.
LEMMA StoredElem ==
    ASSUME NEW a, Good(a)
    PROVE  /\ a.length \in Nat /\ a.length <= MaxU32 /\ MaxU32 \in Nat
           /\ 0..(a.length - 1) \subseteq Index
           /\ Stored(a) \subseteq Elem
           /\ \A i \in 0..(a.length - 1) : a.data[i] \in Elem
<1>1. a.length \in Nat /\ a.length <= MaxU32 /\ MaxU32 \in Nat
  BY OpsAssumption DEF Good, Array, U32
<1>2. 0..(a.length - 1) \subseteq Index
  BY <1>1 DEF Index
<1>3. \A i \in 0..(a.length - 1) : a.data[i] \in Elem
  BY <1>1, <1>2 DEF Good, BlockSound
<1> QED BY <1>1, <1>2, <1>3 DEF Stored

\* Without repetition there are as many elements as the length says.
LEMMA StoredCount ==
    ASSUME NEW a, Good(a), Distinct(a)
    PROVE  IsFiniteSet(Stored(a)) /\ Cardinality(Stored(a)) = a.length
<1> DEFINE n == a.length
           f == [k \in 1..n |-> a.data[k - 1]]
<1>1. n \in Nat
  BY StoredElem
<1>2. f \in [1..n -> Stored(a)]
  BY <1>1 DEF Stored
<1>3. \A j, k \in 1..n : f[j] = f[k] => j = k
  <2> SUFFICES ASSUME NEW j \in 1..n, NEW k \in 1..n, f[j] = f[k]
               PROVE  j = k
    OBVIOUS
  <2>1. j - 1 \in 0..(n - 1) /\ k - 1 \in 0..(n - 1) /\ j \in Int /\ k \in Int
    BY <1>1
  <2>2. j - 1 = k - 1
    BY <2>1 DEF Distinct
  <2> QED BY <2>1, <2>2
<1>4. \A x \in Stored(a) : \E k \in 1..n : f[k] = x
  <2> SUFFICES ASSUME NEW i \in 0..(n - 1)
               PROVE  \E k \in 1..n : f[k] = a.data[i]
    BY DEF Stored
  <2>1. i + 1 \in 1..n /\ f[i + 1] = a.data[i]
    BY <1>1
  <2> QED BY <2>1
<1> HIDE DEF f
<1>5. f \in Bijection(1..n, Stored(a))
  BY <1>2, <1>3, <1>4 DEF Bijection, Injection, Surjection, IsInjective
<1>6. ExistsBijection(1..n, Stored(a))
  BY <1>5 DEF ExistsBijection
<1> QED BY <1>1, <1>6, FS_CountingElements, FS_NatBijection

\* Moving the block changes nothing (growing, shrinking, resizing).
LEMMA SameStored ==
    ASSUME NEW a, Good(a), NEW b, b.length = a.length,
           \A i \in Index : i < a.length => b.data[i] = a.data[i]
    PROVE  /\ Stored(b) = Stored(a)
           /\ Distinct(a) => Distinct(b)
<1>1. a.length \in Nat /\ 0..(a.length - 1) \subseteq Index
  BY StoredElem
<1>2. \A i \in 0..(a.length - 1) : b.data[i] = a.data[i]
  BY <1>1
<1> QED BY <1>2 DEF Stored, Distinct

\* The element put in is the only one that is new.
LEMMA InsertSlotStored ==
    ASSUME NEW a, Good(a), a.length < a.slots, NEW x \in Elem,
           NEW p \in U32, p <= a.length
    PROVE  /\ Stored(InsertSlot(a, p, x)) = Stored(a) \cup {x}
           /\ Distinct(a) /\ x \notin Stored(a) => Distinct(InsertSlot(a, p, x))
<1> DEFINE b == InsertSlot(a, p, x)
           n == a.length
<1>1. /\ n \in Nat /\ p \in Nat /\ p <= n /\ n < MaxU32 /\ MaxU32 \in Nat
      /\ b.length = n + 1
  BY InsertSlotGood, StoredElem, OpsAssumption DEF Good, Array, U32
<1>2. \A i \in Index : b.data[i] = IF i < p THEN a.data[i]
                                   ELSE IF i = p THEN x
                                   ELSE IF i <= n THEN a.data[i - 1] ELSE Junk
  BY InsertSlotData
<1> HIDE DEF b, n
<1>3. \A i \in 0..n : i \in Index /\ b.data[i] = IF i < p THEN a.data[i]
                                   ELSE IF i = p THEN x ELSE a.data[i - 1]
  BY <1>1, <1>2 DEF Index
<1>4. Stored(b) = {b.data[i] : i \in 0..n} /\ Stored(a) = {a.data[i] : i \in 0..(n - 1)}
  BY <1>1 DEF Stored, n
<1>5. Stored(b) \subseteq Stored(a) \cup {x}
  <2> SUFFICES ASSUME NEW i \in 0..n
               PROVE  b.data[i] \in Stored(a) \cup {x}
    BY <1>4
  <2>1. CASE i < p
    BY <1>1, <1>3, <1>4, <2>1
  <2>2. CASE i = p
    BY <1>1, <1>3, <2>2
  <2>3. CASE i > p
    <3>1. i - 1 \in 0..(n - 1) /\ b.data[i] = a.data[i - 1]
      BY <1>1, <1>3, <2>3
    <3> QED BY <1>4, <3>1
  <2> QED BY <1>1, <2>1, <2>2, <2>3
<1>6. Stored(a) \cup {x} \subseteq Stored(b)
  <2>1. p \in 0..n /\ b.data[p] = x
    BY <1>1, <1>3
  <2>2. ASSUME NEW i \in 0..(n - 1)
        PROVE  a.data[i] \in Stored(b)
    <3>1. CASE i < p
      <4>1. i \in 0..n /\ b.data[i] = a.data[i]
        BY <1>1, <1>3, <3>1
      <4> QED BY <1>4, <4>1
    <3>2. CASE i >= p
      <4>1. i + 1 \in 0..n /\ b.data[i + 1] = a.data[i]
        BY <1>1, <1>3, <3>2
      <4> QED BY <1>4, <4>1
    <3> QED BY <1>1, <3>1, <3>2
  <2> QED BY <1>4, <2>1, <2>2
<1>7. ASSUME Distinct(a), x \notin Stored(a)
      PROVE  Distinct(b)
  <2> SUFFICES ASSUME NEW i \in 0..n, NEW j \in 0..n, b.data[i] = b.data[j]
               PROVE  i = j
    BY <1>1 DEF Distinct
  <2>1. \A k, l \in 0..(n - 1) : a.data[k] = a.data[l] => k = l
    BY <1>7 DEF Distinct, n
  <2>2. \A k \in 0..(n - 1) : a.data[k] # x
    BY <1>4, <1>7
  <2>3. /\ i < p => i \in 0..(n - 1)
        /\ j < p => j \in 0..(n - 1)
        /\ i > p => i - 1 \in 0..(n - 1)
        /\ j > p => j - 1 \in 0..(n - 1)
        /\ i < p \/ i = p \/ i > p
        /\ j < p \/ j = p \/ j > p
    BY <1>1
  <2>4. CASE i = p
    BY <1>1, <1>3, <2>2, <2>3, <2>4
  <2>5. CASE j = p
    BY <1>1, <1>3, <2>2, <2>3, <2>5
  <2>6. CASE i # p /\ j # p
    <3>1. \A k \in {i, j} : /\ k < p => b.data[k] = a.data[k]
                            /\ k > p => b.data[k] = a.data[k - 1]
      BY <1>1, <1>3
    <3>2. CASE (i < p) = (j < p)
      BY <1>1, <2>1, <2>3, <2>6, <3>1, <3>2
    <3>3. CASE i < p /\ j > p
      <4>1. i = j - 1
        BY <2>1, <2>3, <3>1, <3>3
      <4> QED BY <1>1, <3>3, <4>1
    <3>4. CASE i > p /\ j < p
      <4>1. i - 1 = j
        BY <2>1, <2>3, <3>1, <3>4
      <4> QED BY <1>1, <3>4, <4>1
    <3> QED BY <2>3, <2>6, <3>2, <3>3, <3>4
  <2> QED BY <2>4, <2>5, <2>6
<1> QED BY <1>5, <1>6, <1>7 DEF b

\* The element taken out is the only one that is gone.
LEMMA RemoveSlotStored ==
    ASSUME NEW a, Good(a), Distinct(a), NEW p \in U32, p < a.length
    PROVE  /\ Stored(RemoveSlot(a, p)) = Stored(a) \ {a.data[p]}
           /\ Distinct(RemoveSlot(a, p))
           /\ a.data[p] \in Stored(a)
<1> DEFINE b == RemoveSlot(a, p)
           n == a.length
<1>1. /\ n \in Nat /\ p \in Nat /\ p < n /\ n <= MaxU32 /\ MaxU32 \in Nat
      /\ b.length = n - 1
  BY RemoveSlotGood, StoredElem DEF U32
<1>2. \A i \in Index : b.data[i] = IF i < p THEN a.data[i]
                                   ELSE IF i < n - 1 THEN a.data[i + 1] ELSE Junk
  BY RemoveSlotData
<1>3. \A i, j \in 0..(n - 1) : a.data[i] = a.data[j] => i = j
  BY DEF Distinct
<1>4. Stored(b) = {b.data[i] : i \in 0..(n - 1 - 1)} /\ Stored(a) = {a.data[i] : i \in 0..(n - 1)}
  BY <1>1 DEF Stored
<1> HIDE DEF b, n
<1>5. \A i \in 0..(n - 2) :
         /\ i < p => b.data[i] = a.data[i] /\ i \in 0..(n - 1)
         /\ i >= p => b.data[i] = a.data[i + 1] /\ i + 1 \in 0..(n - 1)
  BY <1>1, <1>2 DEF Index
<1>6. p \in 0..(n - 1)
  BY <1>1
<1>7. ASSUME NEW i \in 0..(n - 2)
      PROVE  b.data[i] \in Stored(a) \ {a.data[p]}
  <2>1. CASE i < p
    BY <1>1, <1>3, <1>4, <1>5, <1>6, <2>1
  <2>2. CASE i >= p
    <3>1. b.data[i] = a.data[i + 1] /\ i + 1 \in 0..(n - 1) /\ i + 1 # p
      BY <1>1, <1>5, <2>2
    <3> QED BY <1>3, <1>4, <1>6, <3>1
  <2> QED BY <1>1, <2>1, <2>2
<1>8. ASSUME NEW i \in 0..(n - 1), a.data[i] # a.data[p]
      PROVE  \E j \in 0..(n - 2) : b.data[j] = a.data[i]
  <2>1. CASE i < p
    <3>1. i \in 0..(n - 2)
      BY <1>1, <2>1
    <3> QED BY <1>5, <2>1, <3>1
  <2>2. CASE i > p
    <3>1. i - 1 \in 0..(n - 2) /\ i - 1 >= p /\ (i - 1) + 1 = i
      BY <1>1, <2>2
    <3>2. b.data[i - 1] = a.data[i]
      BY <1>5, <3>1
    <3> QED BY <3>1, <3>2
  <2>3. i # p
    BY <1>8
  <2> QED BY <1>1, <2>1, <2>2, <2>3
<1>9. n - 1 - 1 = n - 2
  BY <1>1
<1>10. Stored(b) = Stored(a) \ {a.data[p]}
  BY <1>4, <1>7, <1>8, <1>9
<1>11. Distinct(b)
  <2> SUFFICES ASSUME NEW i \in 0..(n - 2), NEW j \in 0..(n - 2), b.data[i] = b.data[j]
               PROVE  i = j
    BY <1>1, <1>9 DEF Distinct
  <2>1. CASE i < p /\ j < p
    BY <1>3, <1>5, <2>1
  <2>2. CASE i >= p /\ j >= p
    <3>1. i + 1 = j + 1
      BY <1>3, <1>5, <2>2
    <3> QED BY <1>1, <3>1
  <2>3. CASE i < p /\ j >= p
    <3>1. i = j + 1
      BY <1>3, <1>5, <2>3
    <3> QED BY <1>1, <2>3, <3>1
  <2>4. CASE i >= p /\ j < p
    <3>1. i + 1 = j
      BY <1>3, <1>5, <2>4
    <3> QED BY <1>1, <2>4, <3>1
  <2> QED BY <1>1, <2>1, <2>2, <2>3, <2>4
<1> QED BY <1>4, <1>6, <1>10, <1>11 DEF b, n

\* The element written takes the place of the one that was there.
LEMMA WriteSlotStored ==
    ASSUME NEW a, Good(a), Distinct(a), NEW p \in U32, p < a.length,
           NEW x, x \notin Stored(a)
    PROVE  /\ Stored(WriteSlot(a, p, x)) = (Stored(a) \ {a.data[p]}) \cup {x}
           /\ Distinct(WriteSlot(a, p, x))
           /\ a.data[p] \in Stored(a)
<1> DEFINE b == WriteSlot(a, p, x)
           I == 0..(a.length - 1)
<1>1. /\ p \in I /\ I \subseteq Index
  BY StoredElem DEF U32
<1>2. /\ b.length = a.length
      /\ \A i \in I : b.data[i] = IF i = p THEN x ELSE a.data[i]
  BY <1>1, WriteSlotData
<1>3. \A i, j \in I : a.data[i] = a.data[j] => i = j
  BY DEF Distinct
<1>4. Stored(b) = {b.data[i] : i \in I} /\ Stored(a) = {a.data[i] : i \in I}
  BY <1>2 DEF Stored
<1>5. Distinct(b) <=> \A i, j \in I : b.data[i] = b.data[j] => i = j
  BY <1>2 DEF Distinct
<1> HIDE DEF b, I
<1>6. \A i \in I : a.data[i] # x
  BY <1>4
<1>7. Stored(b) = (Stored(a) \ {a.data[p]}) \cup {x}
  BY <1>1, <1>2, <1>3, <1>4
<1>8. Distinct(b)
  BY <1>2, <1>3, <1>5, <1>6
<1> QED BY <1>1, <1>4, <1>7, <1>8 DEF b

\* Joining puts the elements of both into one array.
LEMMA ConcatStored ==
    ASSUME NEW a, Good(a), NEW b, Good(b), a.length + b.length <= a.slots
    PROVE  /\ Stored(Concat(a, b)) = Stored(a) \cup Stored(b)
           /\ Distinct(a) /\ Distinct(b) /\ Stored(a) \cap Stored(b) = {}
                => Distinct(Concat(a, b))
<1> DEFINE d == Concat(a, b)
           n == a.length
           m == b.length
<1>1. /\ n \in Nat /\ m \in Nat /\ MaxU32 \in Nat /\ n + m <= MaxU32
      /\ d.length = n + m
  BY StoredElem, OpsAssumption DEF Concat, Good, Array, U32
<1>2. \A i \in Index : d.data[i] = IF i < n \/ i >= n + m THEN a.data[i] ELSE b.data[i - n]
  BY DEF Concat, Good, Array
<1>3. /\ Stored(a) = {a.data[i] : i \in 0..(n - 1)}
      /\ Stored(b) = {b.data[i] : i \in 0..(m - 1)}
      /\ Stored(d) = {d.data[i] : i \in 0..(n + m - 1)}
  BY <1>1 DEF Stored
<1>4. Distinct(d) <=> \A i, j \in 0..(n + m - 1) : d.data[i] = d.data[j] => i = j
  BY <1>1 DEF Distinct
<1> HIDE DEF d
<1>5. \A i \in 0..(n + m - 1) :
         /\ i < n => i \in 0..(n - 1) /\ d.data[i] = a.data[i]
         /\ i >= n => i - n \in 0..(m - 1) /\ d.data[i] = b.data[i - n]
  BY <1>1, <1>2 DEF Index
<1>6. Stored(d) \subseteq Stored(a) \cup Stored(b)
  BY <1>1, <1>3, <1>5
<1>7. Stored(a) \subseteq Stored(d)
  <2>1. \A i \in 0..(n - 1) : i \in 0..(n + m - 1) /\ i < n
    BY <1>1
  <2> QED BY <1>3, <1>5, <2>1
<1>8. Stored(b) \subseteq Stored(d)
  <2> SUFFICES ASSUME NEW i \in 0..(m - 1)
               PROVE  b.data[i] \in Stored(d)
    BY <1>3
  <2>1. i + n \in 0..(n + m - 1) /\ i + n >= n /\ (i + n) - n = i
    BY <1>1
  <2>2. d.data[i + n] = b.data[i]
    BY <1>5, <2>1
  <2> QED BY <1>3, <2>1, <2>2
<1>9. ASSUME Distinct(a), Distinct(b), Stored(a) \cap Stored(b) = {}
      PROVE  Distinct(d)
  <2> SUFFICES ASSUME NEW i \in 0..(n + m - 1), NEW j \in 0..(n + m - 1),
                      d.data[i] = d.data[j]
               PROVE  i = j
    BY <1>4
  <2>1. \A k, l \in 0..(n - 1) : a.data[k] = a.data[l] => k = l
    BY <1>9 DEF Distinct
  <2>2. \A k, l \in 0..(m - 1) : b.data[k] = b.data[l] => k = l
    BY <1>9 DEF Distinct
  <2>3. CASE i < n /\ j < n
    BY <1>5, <2>1, <2>3
  <2>4. CASE i >= n /\ j >= n
    <3>1. i - n = j - n
      BY <1>5, <2>2, <2>4
    <3> QED BY <1>1, <3>1
  <2>5. CASE i < n /\ j >= n
    <3>1. d.data[i] \in Stored(a) /\ d.data[j] \in Stored(b)
      BY <1>3, <1>5, <2>5
    <3> QED BY <1>9, <3>1
  <2>6. CASE i >= n /\ j < n
    <3>1. d.data[i] \in Stored(b) /\ d.data[j] \in Stored(a)
      BY <1>3, <1>5, <2>6
    <3> QED BY <1>9, <3>1
  <2> QED BY <1>1, <2>3, <2>4, <2>5, <2>6
<1> QED BY <1>6, <1>7, <1>8, <1>9 DEF d
=============================================================================
