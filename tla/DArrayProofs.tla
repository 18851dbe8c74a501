---------------------------- MODULE DArrayProofs ----------------------------
(***************************************************************************)
(* Proofs about DArray for every set of elements, pointers and compare     *)
(* callbacks, every UINT32_MAX and every bound on the client's arguments.  *)
(*                                                                         *)
(* The facts about one array come first: the lemmas of DArrayOpsProofs and *)
(* the ones below about splitting and clearing.  The theorems about types, *)
(* memory and refusals combine them.                                       *)
(*                                                                         *)
(* Then come the owners and the refinement of ArrayADT: what each kind of  *)
(* call does to the sequence a client sees and to the set of elements an   *)
(* array holds, the books of the owners, and the map of every step to one  *)
(* of ArrayADT.                                                            *)
(***************************************************************************)
EXTENDS DArray, DArrayOpsProofs, SequenceTheorems

-----------------------------------------------------------------------------
\* Clearing leaves the block and no element (d_array_clear).
LEMMA EmptiedGood ==
    ASSUME NEW a, Good(a)
    PROVE  Good(Emptied(a))
<1> DEFINE b == Emptied(a)
<1>1. b.data = [i \in Index |-> Junk] /\ b.length = 0
  BY DEF Emptied, Good, Array
<1>2. b.capacity = a.capacity /\ b.slots = a.slots
  BY DEF Emptied, Good, Array
<1>3. b \in Array
  <2>1. b.data \in [Index -> Elem \cup {Junk}] /\ 0 \in U32
    BY <1>1, OpsAssumption DEF U32
  <2> QED BY <2>1 DEF Emptied, Good, Array
<1>4. a.capacity >= 0
  BY OpsAssumption DEF Good, Array, U32
<1> QED BY <1>1, <1>2, <1>3, <1>4, OpsAssumption DEF Good, BlockSound, Index

\* The part a split takes away fills its block exactly (d_array_split).
LEMMA CutPartGood ==
    ASSUME NEW a, Good(a), NEW from \in U32, NEW to \in U32, Splittable(a, from, to)
    PROVE  Good(CutPart(a, from, to))
<1> DEFINE n == to - from
           d == CutPart(a, from, to)
<1>1. /\ from \in Nat /\ to \in Nat /\ a.length \in Nat /\ MaxU32 \in Nat
      /\ a.length <= MaxU32 /\ from < to /\ to <= a.length
      /\ n \in U32 /\ n > 0
  BY OpsAssumption DEF Splittable, Good, Array, U32
<1>2. Good(NewArray(a.compare, n))
  BY <1>1, NewArrayGood DEF Good, Array
<1>3. d.length = n /\ d.capacity = n /\ d.slots = n
  BY DEF CutPart, NewArray
<1>4. d.data = [i \in Index |-> IF i < n THEN a.data[from + i] ELSE Junk]
  BY DEF CutPart, NewArray
<1>5. \A i \in Index : /\ d.data[i] \in Elem \cup {Junk}
                       /\ d.data[i] \in Elem <=> i < n
  <2> SUFFICES ASSUME NEW i \in Index
               PROVE  /\ d.data[i] \in Elem \cup {Junk}
                      /\ d.data[i] \in Elem <=> i < n
    OBVIOUS
  <2>1. i \in Nat
    BY DEF Index
  <2>2. CASE i < n
    <3>1. from + i \in Index /\ from + i < a.length
      BY <1>1, <2>1, <2>2 DEF Index
    <3> QED BY <1>4, <2>2, <3>1 DEF Good, BlockSound
  <2>3. CASE ~(i < n)
    BY <1>4, <2>3, OpsAssumption
  <2> QED BY <2>2, <2>3
<1>6. d.data \in [Index -> Elem \cup {Junk}]
  BY <1>4, <1>5
<1>7. d \in Array
  BY <1>1, <1>2, <1>6 DEF CutPart, NewArray, Good, Array
<1> QED BY <1>1, <1>3, <1>5, <1>7 DEF Good, BlockSound

\* What a split leaves fits its block exactly, provided something is left: with
\* nothing left the resize zeroes length before the subtraction.
LEMMA CutRestGood ==
    ASSUME NEW a, Good(a), NEW from \in U32, NEW to \in U32,
           Splittable(a, from, to), to - from # a.length
    PROVE  Good(CutRest(a, from, to))
<1> DEFINE n == to - from
           m == a.length - n
           moved == [i \in Index |-> IF i < from THEN a.data[i]
                                    ELSE IF i < a.length - n THEN a.data[i + n] ELSE Junk]
           closed == [a EXCEPT !.data = moved]
           sized == Resize(closed, m)
           d == CutRest(a, from, to)
<1>1. /\ from \in Nat /\ to \in Nat /\ a.length \in Nat /\ MaxU32 \in Nat
      /\ a.length <= MaxU32 /\ from < to /\ to <= a.length
      /\ n \in U32 /\ n > 0 /\ m \in U32 /\ m > 0 /\ from <= m
  BY OpsAssumption DEF Splittable, Good, Array, U32
<1>2. closed.length = a.length /\ closed.data = moved
  BY DEF Good, Array
<1>3. closed \in [compare : Compare, data : {moved}, slots : U32,
                 capacity : U32, length : U32, rate : 1..MaxU32]
  BY DEF Good, Array
<1>4. /\ sized.length = a.length /\ sized.slots = m
      /\ sized.data = [i \in Index |-> IF i < m THEN moved[i] ELSE Junk]
  BY <1>1, <1>2, <1>3 DEF Resize
<1>5. (sized.length - n) % (MaxU32 + 1) = m
  BY <1>1, <1>4 DEF U32
<1>6. d = [sized EXCEPT !.length = m, !.capacity = m]
  BY <1>5 DEF CutRest
<1>7. \A i \in Index : /\ sized.data[i] \in Elem \cup {Junk}
                       /\ sized.data[i] \in Elem <=> i < m
  <2> SUFFICES ASSUME NEW i \in Index
               PROVE  /\ sized.data[i] \in Elem \cup {Junk}
                      /\ sized.data[i] \in Elem <=> i < m
    OBVIOUS
  <2>1. i \in Nat
    BY DEF Index
  <2>2. CASE i < from
    BY <1>1, <1>4, <2>1, <2>2 DEF Good, BlockSound, Array
  <2>3. CASE from <= i /\ i < m
    <3>1. i + n \in Index /\ i + n < a.length
      BY <1>1, <2>1, <2>3 DEF Index
    <3>2. sized.data[i] = a.data[i + n]
      BY <1>1, <1>4, <2>1, <2>3
    <3> QED BY <2>3, <3>1, <3>2 DEF Good, BlockSound
  <2>4. CASE m <= i
    BY <1>1, <1>4, <2>1, <2>4, OpsAssumption
  <2> QED BY <1>1, <2>1, <2>2, <2>3, <2>4
<1>8. sized.data \in [Index -> Elem \cup {Junk}]
  BY <1>4, <1>7
<1>9. sized \in Array
  BY <1>1, <1>3, <1>4, <1>8 DEF Resize, Array
<1>10. d \in Array /\ d.data = sized.data /\ d.length = m /\ d.capacity = m /\ d.slots = m
  BY <1>1, <1>4, <1>6, <1>9 DEF Array
<1> QED BY <1>1, <1>7, <1>10 DEF Good, BlockSound

-----------------------------------------------------------------------------
(***************************************************************************)
(* The invariant.  MemorySafe alone is not inductive: whether the next     *)
(* call stays in its block depends on capacity and length describing the   *)
(* block, which is Sound, and on the fields being numbers, which is TypeOK. *)
(***************************************************************************)
IInv == TypeOK /\ Sound /\ MemorySafe

\* The array behind a pointer in use is good.
LEMMA BehindPointer ==
    ASSUME IInv, NEW h \in Handle, ~Absent(h)
    PROVE  Good(arr[h])
BY DEF IInv, TypeOK, Sound, Absent, Good

\* Replacing one array by a good one, or by none, keeps them all good.
LEMMA UpdateOne ==
    ASSUME IInv, NEW h \in Handle, NEW b, Good(b) \/ b = Null,
           arr' = [arr EXCEPT ![h] = b]
    PROVE  arr' \in [Handle -> Array \cup {Null}] /\ Sound'
<1>1. arr' \in [Handle -> Array \cup {Null}]
  BY DEF IInv, TypeOK, Good
<1>2. \A g \in Handle : arr'[g] # Null => BlockSound(arr'[g])
  BY DEF IInv, TypeOK, Sound, Absent, Good
<1> QED BY <1>1, <1>2 DEF Sound, Absent

\* The same for the two arrays that joining and splitting touch.
LEMMA UpdateTwo ==
    ASSUME IInv, NEW h \in Handle, NEW g \in Handle, NEW b, NEW d,
           Good(b) \/ b = Null, Good(d) \/ d = Null,
           arr' = [arr EXCEPT ![h] = b, ![g] = d]
    PROVE  arr' \in [Handle -> Array \cup {Null}] /\ Sound'
<1>1. arr' \in [Handle -> Array \cup {Null}]
  BY DEF IInv, TypeOK, Good
<1>2. \A f \in Handle : arr'[f] # Null => BlockSound(arr'[f])
  BY DEF IInv, TypeOK, Sound, Absent, Good
<1> QED BY <1>1, <1>2 DEF Sound, Absent

\* A call that is refused keeps the invariant.
LEMMA RejectKeeps ==
    ASSUME IInv, NEW result \in {ERR, Null}, Reject(result)
    PROVE  IInv'
<1>1. result \in Result
  BY OpsAssumption DEF Result, ERR
<1>2. TypeOK'
  BY <1>1 DEF IInv, TypeOK, Reject
<1>3. Sound'
  BY DEF IInv, Sound, Absent, Reject
<1>4. MemorySafe'
  BY DEF IInv, MemorySafe, Reject
<1> QED BY <1>2, <1>3, <1>4 DEF IInv

\* The insertions: an element the client owns enters at a position up to length.
LEMMA EnterKeeps ==
    ASSUME IInv, NEW h \in Handle, ~Absent(h), NEW x \in Elem,
           NEW p \in U32, p <= arr[h].length, Enter(h, p, x)
    PROVE  IInv'
<1>1. CASE Reject(ERR)
  BY <1>1, RejectKeeps
<1>2. ASSUME NEW b \in Roomy(arr[h]),
             arr' = [arr EXCEPT ![h] = InsertSlot(b, p, x)],
             held' = held \ {x}, ret' = OK,
             fault' = ~InBlock(b, b.length + 1), freed' = freed
      PROVE  IInv'
  <2>1. /\ Good(b) /\ b.length = arr[h].length /\ b.length < b.slots
        /\ b.length \in Int /\ b.slots \in Int
    <3>1. Good(arr[h])
      BY BehindPointer
    <3>2. Good(b) /\ b.length = arr[h].length /\ b.length < b.slots
      BY <1>2, <3>1, RoomyGood
    <3> QED BY <3>2, OpsAssumption DEF Good, Array, U32
  <2>2. Good(InsertSlot(b, p, x))
    BY <2>1, InsertSlotGood
  <2>3. arr' \in [Handle -> Array \cup {Null}] /\ Sound'
    BY <1>2, <2>2, UpdateOne
  <2>4. fault' = FALSE
    <3>1. b.length + 1 <= b.slots
      BY <2>1
    <3> QED BY <1>2, <3>1 DEF InBlock
  <2>5. TypeOK'
    BY <1>2, <2>3, <2>4, OpsAssumption DEF IInv, TypeOK, Result, OK
  <2> QED BY <2>3, <2>4, <2>5 DEF IInv, MemorySafe
<1> QED BY <1>1, <1>2 DEF Enter

\* The removals: the slot read is in use, and what is left is good.
LEMMA LeaveKeeps ==
    ASSUME IInv, NEW h \in Handle, ~Absent(h),
           NEW p \in U32, p < arr[h].length, Leave(h, p)
    PROVE  /\ arr' \in [Handle -> Array \cup {Null}]
           /\ Sound' /\ fault' = FALSE
           /\ arr[h].data[p] \in Elem
<1>1. Good(arr[h])
  BY BehindPointer
<1>2. Good(RemoveSlot(arr[h], p))
  BY <1>1, RemoveSlotGood
<1>3. PICK b \in Trimmed(RemoveSlot(arr[h], p)) : arr' = [arr EXCEPT ![h] = b]
  BY DEF Leave
<1>4. Good(b)
  BY <1>2, TrimmedGood
<1>5. arr' \in [Handle -> Array \cup {Null}] /\ Sound'
  BY <1>3, <1>4, UpdateOne
<1>6. fault' = FALSE
  BY <1>1 DEF Leave, InBlock, Good, BlockSound
<1>7. p \in Index
  BY <1>1, OpsAssumption DEF Good, BlockSound, Array, U32, Index
<1> QED BY <1>1, <1>5, <1>6, <1>7 DEF Good, BlockSound

LEMMA TakeOutKeeps ==
    ASSUME IInv, NEW h \in Handle, ~Absent(h),
           NEW p \in U32, p < arr[h].length, TakeOut(h, p)
    PROVE  IInv'
<1>1. /\ arr' \in [Handle -> Array \cup {Null}] /\ Sound' /\ fault' = FALSE
      /\ arr[h].data[p] \in Elem
  BY LeaveKeeps DEF TakeOut
<1>2. TypeOK'
  BY <1>1 DEF IInv, TypeOK, TakeOut, Result
<1> QED BY <1>1, <1>2 DEF IInv, MemorySafe

\* Clearing and destroying: every element stored is handed to the callback.
LEMMA ReleaseKeeps ==
    ASSUME IInv, NEW h \in Handle, NEW d, NEW rest,
           ~Absent(h) => Good(rest) \/ rest = Null, Release(h, d, rest)
    PROVE  IInv'
<1>1. CASE Reject(ERR)
  BY <1>1, RejectKeeps
<1>2. CASE /\ ~Absent(h) /\ d
           /\ arr' = [arr EXCEPT ![h] = rest]
           /\ freed' = freed \cup Stored(arr[h])
           /\ ret' = OK
           /\ fault' = ~InBlock(arr[h], arr[h].length)
           /\ UNCHANGED held
  <2>1. Good(arr[h])
    BY <1>2, BehindPointer
  <2>2. arr' \in [Handle -> Array \cup {Null}] /\ Sound'
    BY <1>2, UpdateOne
  <2>3. fault' = FALSE
    BY <1>2, <2>1 DEF InBlock, Good, BlockSound
  <2>4. Stored(arr[h]) \subseteq Elem
    <3>1. \A i \in 0..(arr[h].length - 1) : i \in Index /\ i < arr[h].length
      BY <2>1, OpsAssumption DEF Good, Array, U32, Index
    <3> QED BY <2>1, <3>1 DEF Stored, Good, BlockSound
  <2>5. TypeOK'
    BY <1>2, <2>2, <2>3, <2>4, OpsAssumption DEF IInv, TypeOK, Result, OK
  <2> QED BY <2>2, <2>3, <2>5 DEF IInv, MemorySafe
<1> QED BY <1>1, <1>2 DEF Release

-----------------------------------------------------------------------------
\* The initial state: no array yet.
LEMMA InitKeeps == Init => IInv
BY OpsAssumption DEF Init, IInv, TypeOK, Sound, MemorySafe, Absent, Result

\* Every call of the interface keeps the invariant, within the contract.
LEMMA NextKeeps == Contract /\ IInv /\ [Next]_vars => IInv'
<1> SUFFICES ASSUME Contract, IInv, [Next]_vars
             PROVE  IInv'
  OBVIOUS
<1> USE DEF Position
<1>a. \A h \in Handle : ~Absent(h) => Good(arr[h])
  BY BehindPointer
<1>b. \A h \in Handle : ~Absent(h) => arr[h].length \in U32 /\ arr[h].length \in Int
  BY <1>a, OpsAssumption DEF Good, Array, U32
<1>c. ERR \in {ERR, Null} /\ Null \in {ERR, Null}
  OBVIOUS
<1>1. ASSUME NEW h \in Handle, NEW c \in Compare \cup {Null}, NEW n \in Capacities,
             Create(h, c, n)
      PROVE  IInv'
  <2>1. CASE Reject(Null)
    BY <2>1, <1>c, RejectKeeps
  <2>2. ASSUME NEW d \in Compare, arr' = [arr EXCEPT ![h] = NewArray(d, n)],
               ret' = h, UNCHANGED <<held, freed, fault>>
        PROVE  IInv'
    <3>1. Good(NewArray(d, n))
      BY NewArrayGood, DArrayAssumption
    <3>2. arr' \in [Handle -> Array \cup {Null}] /\ Sound'
      BY <2>2, <3>1, UpdateOne
    <3> QED BY <2>2, <3>2 DEF IInv, TypeOK, MemorySafe, Result
  <2>3. (IF c = Null THEN DefaultCompare ELSE c) \in Compare
    BY OpsAssumption
  <2> QED BY <1>1, <2>1, <2>2, <2>3 DEF Create
<1>2. ASSUME NEW h \in Handle, NEW x \in Mine, PushBack(h, x)
      PROVE  IInv'
  BY <1>2, <1>b, <1>c, RejectKeeps, EnterKeeps DEF PushBack, Mine, IInv, TypeOK
<1>3. ASSUME NEW h \in Handle, NEW x \in Mine, PushFront(h, x)
      PROVE  IInv'
  BY <1>3, <1>b, <1>c, RejectKeeps, EnterKeeps, OpsAssumption
     DEF PushFront, Mine, IInv, TypeOK, U32
<1>4. ASSUME NEW h \in Handle, NEW p \in Position, NEW x \in Mine, InsertAt(h, p, x)
      PROVE  IInv'
  <2>1. ~Absent(h) /\ p < arr[h].length => p <= arr[h].length
    BY <1>b, OpsAssumption DEF U32
  <2> QED BY <1>4, <2>1, <1>c, RejectKeeps, EnterKeeps DEF InsertAt, Mine, IInv, TypeOK
<1>5. ASSUME NEW h \in Handle, PopBack(h)
      PROVE  IInv'
  <2>1. ~Absent(h) /\ arr[h].length > 0 =>
          arr[h].length - 1 \in U32 /\ arr[h].length - 1 < arr[h].length
    BY <1>b, OpsAssumption DEF U32
  <2> QED BY <1>5, <2>1, <1>c, RejectKeeps, TakeOutKeeps DEF PopBack
<1>6. ASSUME NEW h \in Handle, PopFront(h)
      PROVE  IInv'
  <2>1. ~Absent(h) /\ arr[h].length > 0 => 0 \in U32 /\ 0 < arr[h].length
    BY <1>b, OpsAssumption DEF U32
  <2> QED BY <1>6, <2>1, <1>c, RejectKeeps, TakeOutKeeps DEF PopFront
<1>7. ASSUME NEW h \in Handle, NEW p \in Position, RemoveAt(h, p)
      PROVE  IInv'
  BY <1>7, <1>c, RejectKeeps, TakeOutKeeps DEF RemoveAt
<1>8. ASSUME NEW h \in Handle, NEW p \in Position, NEW d \in BOOLEAN, DeleteAt(h, p, d)
      PROVE  IInv'
  <2>1. CASE Reject(ERR)
    BY <2>1, RejectKeeps
  <2>2. CASE /\ ~Absent(h) /\ d /\ p < arr[h].length
             /\ Leave(h, p)
             /\ freed' = freed \cup {arr[h].data[p]}
             /\ ret' = OK
             /\ UNCHANGED held
    <3>1. /\ arr' \in [Handle -> Array \cup {Null}] /\ Sound' /\ fault' = FALSE
          /\ arr[h].data[p] \in Elem
      BY <2>2, LeaveKeeps
    <3>2. OK \in Result
      BY OpsAssumption DEF Result, OK
    <3>3. TypeOK'
      BY <2>2, <3>1, <3>2 DEF IInv, TypeOK
    <3> QED BY <3>1, <3>3 DEF IInv, MemorySafe
  <2> QED BY <1>8, <2>1, <2>2 DEF DeleteAt
<1>9. ASSUME NEW h \in Handle, NEW x \in Known, NEW d \in BOOLEAN, Delete(h, x, d)
      PROVE  IInv'
  <2>1. CASE Reject(ERR)
    BY <2>1, RejectKeeps
  <2>2. ASSUME ~Absent(h), x # Null, NEW p \in Index, IsFirstMatch(arr[h], x, p),
               Leave(h, p), held' = held \ {x}, freed' = freed \cup {x}, ret' = OK
        PROVE  IInv'
    <3>1. p \in U32 /\ p < arr[h].length
      BY <2>2, OpsAssumption DEF IsFirstMatch, Matches, Index, U32
    <3>2. arr' \in [Handle -> Array \cup {Null}] /\ Sound' /\ fault' = FALSE
      BY <2>2, <3>1, LeaveKeeps
    <3>3. x \in Elem
      BY <2>2 DEF Known
    <3>4. OK \in Result
      BY OpsAssumption DEF Result, OK
    <3>5. TypeOK'
      BY <2>2, <3>2, <3>3, <3>4 DEF IInv, TypeOK
    <3> QED BY <3>2, <3>5 DEF IInv, MemorySafe
  <2> QED BY <1>9, <2>1, <2>2 DEF Delete
<1>10. ASSUME NEW h \in Handle, NEW p \in Position, NEW x \in Mine, Set(h, p, x)
       PROVE  IInv'
  <2>1. CASE Reject(ERR)
    BY <2>1, RejectKeeps
  <2>2. CASE /\ ~Absent(h) /\ x # Null /\ p < arr[h].length
             /\ arr' = [arr EXCEPT ![h] = WriteSlot(@, p, x)]
             /\ held' = (held \ {x}) \cup {arr[h].data[p]}
             /\ ret' = OK
             /\ fault' = ~InBlock(arr[h], p + 1)
             /\ UNCHANGED freed
    <3>1. x \in Elem
      BY <2>2 DEF Mine, IInv, TypeOK
    <3>2. Good(WriteSlot(arr[h], p, x))
      BY <1>a, <2>2, <3>1, WriteSlotGood
    <3>3. arr' \in [Handle -> Array \cup {Null}] /\ Sound'
      BY <2>2, <3>2, UpdateOne DEF IInv, TypeOK
    <3>4. p \in Index /\ p + 1 <= arr[h].slots
      BY <1>a, <2>2, OpsAssumption DEF Good, BlockSound, Array, U32, Index
    <3>5. arr[h].data[p] \in Elem
      BY <1>a, <2>2, <3>4 DEF Good, BlockSound
    <3>6. fault' = FALSE
      BY <2>2, <3>4 DEF InBlock
    <3> QED BY <2>2, <3>3, <3>5, <3>6, OpsAssumption DEF IInv, TypeOK, MemorySafe, Result, OK
  <2> QED BY <1>10, <2>1, <2>2 DEF Set
<1>11. ASSUME NEW h \in Handle, NEW p \in Position, Get(h, p)
       PROVE  IInv'
  <2>1. CASE Reject(Null)
    BY <2>1, <1>c, RejectKeeps
  <2>2. CASE /\ ~Absent(h) /\ p < arr[h].length
             /\ ret' = arr[h].data[p]
             /\ fault' = ~InBlock(arr[h], p + 1)
             /\ UNCHANGED <<arr, held, freed>>
    <3>1. p \in Index /\ p + 1 <= arr[h].slots
      BY <1>a, <2>2, OpsAssumption DEF Good, BlockSound, Array, U32, Index
    <3>2. arr[h].data[p] \in Elem
      BY <1>a, <2>2, <3>1 DEF Good, BlockSound
    <3>3. fault' = FALSE
      BY <2>2, <3>1 DEF InBlock
    <3>4. TypeOK'
      BY <2>2, <3>2, <3>3 DEF IInv, TypeOK, Result
    <3> QED BY <2>2, <3>3, <3>4 DEF IInv, Sound, Absent, MemorySafe
  <2> QED BY <1>11, <2>1, <2>2 DEF Get
<1>12. ASSUME NEW h \in Handle, NEW x \in Known, IndexOf(h, x)
       PROVE  IInv'
  <2>1. CASE Reject(ERR)
    BY <2>1, RejectKeeps
  <2>2. CASE /\ ~Absent(h) /\ ret' \in Index \cup {ERR}
             /\ fault' = ~InBlock(arr[h], arr[h].length)
             /\ UNCHANGED <<arr, held, freed>>
    <3>1. fault' = FALSE
      BY <1>a, <2>2 DEF InBlock, Good, BlockSound
    <3>2. ret' \in Result
      BY <2>2, OpsAssumption DEF Result, Index, ERR
    <3>3. TypeOK'
      BY <2>2, <3>1, <3>2 DEF IInv, TypeOK
    <3> QED BY <2>2, <3>1, <3>3 DEF IInv, Sound, Absent, MemorySafe
  <2> QED BY <1>12, <2>1, <2>2 DEF IndexOf
<1>13. ASSUME NEW h \in Handle, NEW n \in Capacities, Expand(h, n)
       PROVE  IInv'
  <2>1. CASE Reject(ERR)
    BY <2>1, RejectKeeps
  <2>2. CASE /\ ~Absent(h) /\ n > arr[h].capacity
             /\ arr' = [arr EXCEPT ![h] = Exactly(@, n)]
             /\ ret' = OK
             /\ UNCHANGED <<held, freed, fault>>
    <3>1. n \in U32 /\ arr[h].length <= n
      BY <1>a, <2>2, DArrayAssumption, OpsAssumption DEF Good, BlockSound, Array, U32
    <3>2. Good(Exactly(arr[h], n))
      BY <1>a, <2>2, <3>1, ExactlyGood
    <3>3. arr' \in [Handle -> Array \cup {Null}] /\ Sound'
      BY <2>2, <3>2, UpdateOne DEF IInv, TypeOK
    <3>4. OK \in Result
      BY OpsAssumption DEF Result, OK
    <3> QED BY <2>2, <3>3, <3>4 DEF IInv, TypeOK, MemorySafe
  <2> QED BY <1>13, <2>1, <2>2 DEF Expand
<1>14. ASSUME NEW h \in Handle, ShrinkToFit(h)
       PROVE  IInv'
  <2>1. CASE Reject(ERR)
    BY <2>1, RejectKeeps
  <2>2. CASE /\ ~Absent(h)
             /\ arr' = [arr EXCEPT ![h] = Exactly(@, @.length)]
             /\ ret' = OK
             /\ UNCHANGED <<held, freed, fault>>
    <3>1. arr[h].length \in U32 /\ arr[h].length <= arr[h].length
      BY <1>b, <2>2
    <3>2. Good(Exactly(arr[h], arr[h].length))
      BY <1>a, <2>2, <3>1, ExactlyGood
    <3>3. arr' \in [Handle -> Array \cup {Null}] /\ Sound'
      BY <2>2, <3>2, UpdateOne DEF IInv, TypeOK
    <3>4. OK \in Result
      BY OpsAssumption DEF Result, OK
    <3> QED BY <2>2, <3>3, <3>4 DEF IInv, TypeOK, MemorySafe
  <2> QED BY <1>14, <2>1, <2>2 DEF ShrinkToFit
<1>15. ASSUME NEW h \in Handle, NEW r \in Rates, SetExpandRate(h, r)
       PROVE  IInv'
  <2> DEFINE rate == IF r = 0 THEN 1 ELSE r
             b == [arr[h] EXCEPT !.rate = rate]
  <2>1. rate \in 1..MaxU32
    BY DArrayAssumption, OpsAssumption DEF U32
  <2>2. Good(arr[h])
    BY <1>15, <1>a DEF SetExpandRate
  <2>3. Good(b) /\ b.rate = rate
    BY <2>1, <2>2 DEF Good, BlockSound, Array
  <2>4. arr' = [arr EXCEPT ![h] = b]
    BY <1>15 DEF SetExpandRate, IInv, TypeOK
  <2>5. arr' \in [Handle -> Array \cup {Null}] /\ Sound'
    BY <2>3, <2>4, UpdateOne
  <2>6. ret' = rate
    BY <1>15, <2>3, <2>4 DEF SetExpandRate, IInv, TypeOK
  <2>7. ret' \in Result
    BY <2>1, <2>6, OpsAssumption DEF Result
  <2> QED BY <1>15, <2>5, <2>7 DEF SetExpandRate, IInv, TypeOK, MemorySafe
<1>16. ASSUME NEW h1 \in Handle, NEW h2 \in Handle, Join(h1, h2)
       PROVE  IInv'
  <2>1. CASE Reject(Null)
    BY <2>1, <1>c, RejectKeeps
  <2>2. ASSUME ~Absent(h1), ~Absent(h2), Joinable(arr[h1], arr[h2]),
               NEW a \in Widened(arr[h1], arr[h1].length + arr[h2].length),
               arr' = [arr EXCEPT ![h1] = Concat(a, arr[h2]), ![h2] = Null],
               fault' = ~( /\ InBlock(a, a.length + arr[h2].length)
                           /\ InBlock(arr[h2], arr[h2].length) ),
               ret' = h1, UNCHANGED <<held, freed>>
        PROVE  IInv'
    <3> DEFINE total == arr[h1].length + arr[h2].length
    <3>1. Good(arr[h1]) /\ Good(arr[h2]) /\ total \in U32 /\ arr[h1].length <= total
      BY <1>a, <1>b, <2>2, OpsAssumption DEF Joinable, U32
    <3>4. Good(a) /\ a.length = arr[h1].length /\ a.length + arr[h2].length <= a.slots
      <4>1. CASE arr[h1].capacity >= total
        <5>1. a = arr[h1] /\ arr[h1].slots = arr[h1].capacity
          BY <2>2, <3>1, <4>1 DEF Widened, Good, BlockSound
        <5> QED BY <3>1, <4>1, <5>1
      <4>2. CASE ~(arr[h1].capacity >= total)
        <5>1. a = Exactly(arr[h1], total)
          BY <2>2, <4>2 DEF Widened, Contract
        <5>2. /\ Good(Exactly(arr[h1], total))
              /\ Exactly(arr[h1], total).length = arr[h1].length
              /\ Exactly(arr[h1], total).slots = total
          BY <3>1, ExactlyGood
        <5>3. total <= total
          BY <3>1, OpsAssumption DEF U32
        <5> QED BY <5>1, <5>2, <5>3
      <4> QED BY <4>1, <4>2
    <3>5. Good(Concat(a, arr[h2]))
      BY <3>1, <3>4, ConcatGood
    <3>6. arr' \in [Handle -> Array \cup {Null}] /\ Sound'
      BY <2>2, <3>5, UpdateTwo
    <3>7. fault' = FALSE
      BY <2>2, <3>1, <3>4 DEF InBlock, Good, BlockSound
    <3> QED BY <2>2, <3>6, <3>7 DEF IInv, TypeOK, MemorySafe, Result
  <2> QED BY <1>16, <2>1, <2>2 DEF Join
<1>17. ASSUME NEW h \in Handle, NEW h2 \in Handle, NEW from \in Position,
              NEW to \in Position, Split(h, from, to, h2)
       PROVE  IInv'
  <2>1. CASE Reject(Null)
    BY <2>1, <1>c, RejectKeeps
  <2>2. CASE /\ ~Absent(h) /\ Splittable(arr[h], from, to)
             /\ to - from # arr[h].length
             /\ arr' = [arr EXCEPT ![h]  = CutRest(@, from, to),
                                  ![h2] = CutPart(arr[h], from, to)]
             /\ ret' = h2
             /\ fault' = ~InBlock(arr[h], arr[h].length)
             /\ UNCHANGED <<held, freed>>
    <3>1. Good(arr[h])
      BY <1>a, <2>2
    <3>2. Good(CutRest(arr[h], from, to)) /\ Good(CutPart(arr[h], from, to))
      BY <2>2, <3>1, CutRestGood, CutPartGood
    <3>3. arr' = [arr EXCEPT ![h]  = CutRest(arr[h], from, to),
                             ![h2] = CutPart(arr[h], from, to)]
      BY <2>2 DEF IInv, TypeOK
    <3>4. arr' \in [Handle -> Array \cup {Null}] /\ Sound'
      BY <3>2, <3>3, UpdateTwo
    <3>5. fault' = FALSE
      BY <2>2, <3>1 DEF InBlock, Good, BlockSound
    <3> QED BY <2>2, <3>4, <3>5 DEF IInv, TypeOK, MemorySafe, Result
  <2> QED BY <1>17, <2>1, <2>2 DEF Split, Contract
<1>18. ASSUME NEW h \in Handle, NEW d \in BOOLEAN, Clear(h, d)
       PROVE  IInv'
  <2>1. ~Absent(h) => Good(IF Absent(h) THEN Null ELSE Emptied(arr[h]))
    BY <1>a, EmptiedGood
  <2> QED BY <1>18, <2>1, ReleaseKeeps DEF Clear
<1>19. ASSUME NEW h \in Handle, NEW d \in BOOLEAN, Destroy(h, d)
       PROVE  IInv'
  BY <1>19, ReleaseKeeps DEF Destroy
<1>20. ASSUME NEW h \in Handle, NEW d \in BOOLEAN, Traverse(h, d)
       PROVE  IInv'
  <2>1. CASE Reject(ERR)
    BY <2>1, RejectKeeps
  <2>2. CASE /\ ~Absent(h) /\ ret' \in {OK, ERR}
             /\ fault' = ~InBlock(arr[h], arr[h].length)
             /\ UNCHANGED <<arr, held, freed>>
    <3>1. fault' = FALSE
      BY <1>a, <2>2 DEF InBlock, Good, BlockSound
    <3>2. ret' \in Result
      BY <2>2, OpsAssumption DEF Result, OK, ERR
    <3>3. TypeOK'
      BY <2>2, <3>1, <3>2 DEF IInv, TypeOK
    <3> QED BY <2>2, <3>1, <3>3 DEF IInv, Sound, Absent, MemorySafe
  <2> QED BY <1>20, <2>1, <2>2 DEF Traverse
<1>21. CASE UNCHANGED vars
  BY <1>21 DEF vars, IInv, TypeOK, Sound, Absent, MemorySafe
<1> QED
  BY <1>1, <1>2, <1>3, <1>4, <1>5, <1>6, <1>7, <1>8, <1>9, <1>10, <1>11, <1>12,
     <1>13, <1>14, <1>15, <1>16, <1>17, <1>18, <1>19, <1>20, <1>21 DEF Next

\* Within the contract, whatever is called in whatever order and whichever
\* requests the allocator refuses: no call of d_array.c leaves its memory block,
\* and capacity, length and the block keep agreeing.
THEOREM Safety == Contract => (Spec => [](TypeOK /\ Sound /\ MemorySafe))
<1> SUFFICES ASSUME Contract
             PROVE  Spec => [](TypeOK /\ Sound /\ MemorySafe)
  OBVIOUS
<1>1. Init => IInv
  BY InitKeeps
<1>2. IInv /\ [Next]_vars => IInv'
  BY NextKeeps
<1>3. IInv => TypeOK /\ Sound /\ MemorySafe
  BY DEF IInv
<1> QED BY <1>1, <1>2, <1>3, PTL DEF Spec

-----------------------------------------------------------------------------
\* The sequence behind a good array has its length, its elements, and holds
\* exactly what the array holds.
LEMMA SeqOfArray ==
    ASSUME NEW a, Good(a)
    PROVE  /\ SeqOf(a) \in Seq(Elem)
           /\ Len(SeqOf(a)) = a.length
           /\ a.length \in Nat
           /\ \A i \in 1..a.length : SeqOf(a)[i] = a.data[i - 1]
           /\ Range(SeqOf(a)) = Stored(a)
<1>1. /\ a.length \in Nat
      /\ \A i \in 0..(a.length - 1) : a.data[i] \in Elem
  BY StoredElem
<1>2. \A i \in 1..a.length : i - 1 \in 0..(a.length - 1)
  BY <1>1
<1>3. \A i \in 1..a.length : a.data[i - 1] \in Elem
  BY <1>1, <1>2
<1>4. SeqOf(a) \in [1..a.length -> Elem]
  BY <1>3 DEF SeqOf
<1>5. SeqOf(a) \in Seq(Elem) /\ Len(SeqOf(a)) = a.length
  BY <1>1, <1>4
<1>6. DOMAIN SeqOf(a) = 1..a.length /\ \A i \in 1..a.length : SeqOf(a)[i] = a.data[i - 1]
  BY DEF SeqOf
<1>7. Range(SeqOf(a)) = {a.data[i - 1] : i \in 1..a.length}
  BY <1>6 DEF Range
<1>8. \A i \in 0..(a.length - 1) : i + 1 \in 1..a.length /\ (i + 1) - 1 = i
  BY <1>1
<1>9. {a.data[i - 1] : i \in 1..a.length} = Stored(a)
  BY <1>2, <1>8 DEF Stored
<1> QED BY <1>1, <1>5, <1>6, <1>7, <1>9

\* Moving the block is not seen.
LEMMA SeqOfSame ==
    ASSUME NEW a, Good(a), NEW b, b.length = a.length,
           \A i \in Index : i < a.length => b.data[i] = a.data[i]
    PROVE  SeqOf(b) = SeqOf(a)
<1>1. a.length \in Nat /\ 0..(a.length - 1) \subseteq Index
  BY StoredElem
<1>2. \A i \in 1..a.length : i - 1 \in Index /\ i - 1 < a.length
  BY <1>1
<1> QED BY <1>2 DEF SeqOf

\* The sequence operators of ArrayADT, slot by slot.
LEMMA InsertedSeq ==
    ASSUME NEW s \in Seq(Elem), NEW p \in 0..Len(s), NEW x \in Elem
    PROVE  /\ Abstract!InsertAt(s, p + 1, x) \in Seq(Elem)
           /\ Len(Abstract!InsertAt(s, p + 1, x)) = Len(s) + 1
           /\ \A i \in 1..(Len(s) + 1) : Abstract!InsertAt(s, p + 1, x)[i] =
                IF i <= p THEN s[i] ELSE IF i = p + 1 THEN x ELSE s[i - 1]
<1> DEFINE n == Len(s)
           l == SubSeq(s, 1, p)
           r == SubSeq(s, p + 1, n)
           m == <<x>>
<1>1. n \in Nat /\ p \in Nat /\ p <= n /\ \A i \in 1..n : s[i] \in Elem
  BY ElementOfSeq, LenProperties
<1>2. l \in Seq(Elem) /\ Len(l) = p /\ \A i \in 1..p : l[i] = s[i]
  <2>1. \A i \in 1..p : s[i] \in Elem
    BY <1>1
  <2>2. /\ l \in Seq(Elem) /\ Len(l) = IF 1 <= p THEN p - 1 + 1 ELSE 0
        /\ \A i \in 1..(p - 1 + 1) : l[i] = s[1 + i - 1]
    BY <1>1, <2>1, SubSeqProperties
  <2> QED BY <1>1, <2>2
<1>3. r \in Seq(Elem) /\ Len(r) = n - p /\ \A i \in 1..(n - p) : r[i] = s[p + i]
  <2>1. \A i \in (p + 1)..n : s[i] \in Elem
    BY <1>1
  <2>2. /\ r \in Seq(Elem) /\ Len(r) = IF p + 1 <= n THEN n - (p + 1) + 1 ELSE 0
        /\ \A i \in 1..(n - (p + 1) + 1) : r[i] = s[(p + 1) + i - 1]
    BY <1>1, <2>1, SubSeqProperties
  <2> QED BY <1>1, <2>2
<1>4. m \in Seq(Elem) /\ Len(m) = 1 /\ m[1] = x
  OBVIOUS
<1> HIDE DEF l, r, m
<1>5. /\ l \o m \in Seq(Elem) /\ Len(l \o m) = p + 1
      /\ \A i \in 1..(p + 1) : (l \o m)[i] = IF i <= p THEN l[i] ELSE m[i - p]
  <2>1. /\ l \o m \in Seq(Elem) /\ Len(l \o m) = Len(l) + Len(m)
        /\ \A i \in 1..(Len(l) + Len(m)) :
              (l \o m)[i] = IF i <= Len(l) THEN l[i] ELSE m[i - Len(l)]
    BY <1>2, <1>4, ConcatProperties
  <2> QED BY <1>2, <1>4, <2>1
<1>6. /\ (l \o m) \o r \in Seq(Elem) /\ Len((l \o m) \o r) = (p + 1) + (n - p)
      /\ \A i \in 1..((p + 1) + (n - p)) :
            ((l \o m) \o r)[i] = IF i <= p + 1 THEN (l \o m)[i] ELSE r[i - (p + 1)]
  <2> DEFINE lm == l \o m
  <2> HIDE DEF lm
  <2>1. lm \in Seq(Elem) /\ Len(lm) = p + 1
    BY <1>5 DEF lm
  <2>2. /\ lm \o r \in Seq(Elem) /\ Len(lm \o r) = Len(lm) + Len(r)
        /\ \A i \in 1..(Len(lm) + Len(r)) :
              (lm \o r)[i] = IF i <= Len(lm) THEN lm[i] ELSE r[i - Len(lm)]
    BY <1>3, <2>1, ConcatProperties
  <2> QED BY <1>3, <2>1, <2>2 DEF lm
<1>7. (p + 1) + (n - p) = n + 1
  BY <1>1
<1>8. \A i \in 1..(n + 1) : ((l \o m) \o r)[i] =
                IF i <= p THEN s[i] ELSE IF i = p + 1 THEN x ELSE s[i - 1]
  <2> SUFFICES ASSUME NEW i \in 1..(n + 1)
               PROVE  ((l \o m) \o r)[i] =
                IF i <= p THEN s[i] ELSE IF i = p + 1 THEN x ELSE s[i - 1]
    OBVIOUS
  <2>1. CASE i <= p
    BY <1>1, <1>2, <1>5, <1>6, <1>7, <2>1
  <2>2. CASE i = p + 1
    <3>1. i - p = 1
      BY <1>1, <2>2
    <3> QED BY <1>1, <1>4, <1>5, <1>6, <1>7, <2>2, <3>1
  <2>3. CASE i > p + 1
    <3>1. i - (p + 1) \in 1..(n - p) /\ p + (i - (p + 1)) = i - 1
      BY <1>1, <2>3
    <3>2. ~(i <= p + 1) /\ i \in 1..((p + 1) + (n - p))
      BY <1>1, <1>7, <2>3
    <3>3. ((l \o m) \o r)[i] = r[i - (p + 1)]
      BY <1>6, <3>2
    <3>4. ~(i <= p) /\ i # p + 1
      BY <1>1, <2>3
    <3> QED BY <1>3, <3>1, <3>3, <3>4
  <2>4. i <= p \/ i = p + 1 \/ i > p + 1
    BY <1>1
  <2> QED BY <2>1, <2>2, <2>3, <2>4
<1>9. Abstract!InsertAt(s, p + 1, x) = (l \o m) \o r
  <2>1. (p + 1) - 1 = p
    BY <1>1
  <2> QED BY <2>1 DEF Abstract!InsertAt, l, m, r
<1> QED BY <1>6, <1>7, <1>8, <1>9

LEMMA RemovedSeq ==
    ASSUME NEW s \in Seq(Elem), NEW p \in 0..(Len(s) - 1)
    PROVE  /\ Abstract!RemoveAt(s, p + 1) \in Seq(Elem)
           /\ Len(Abstract!RemoveAt(s, p + 1)) = Len(s) - 1
           /\ \A i \in 1..(Len(s) - 1) : Abstract!RemoveAt(s, p + 1)[i] =
                IF i <= p THEN s[i] ELSE s[i + 1]
<1> DEFINE n == Len(s)
           l == SubSeq(s, 1, p)
           r == SubSeq(s, p + 2, n)
<1>1. n \in Nat /\ p \in Nat /\ p <= n - 1 /\ \A i \in 1..n : s[i] \in Elem
  BY ElementOfSeq, LenProperties
<1>2. l \in Seq(Elem) /\ Len(l) = p /\ \A i \in 1..p : l[i] = s[i]
  <2>1. \A i \in 1..p : s[i] \in Elem
    BY <1>1
  <2>2. /\ l \in Seq(Elem) /\ Len(l) = IF 1 <= p THEN p - 1 + 1 ELSE 0
        /\ \A i \in 1..(p - 1 + 1) : l[i] = s[1 + i - 1]
    BY <1>1, <2>1, SubSeqProperties
  <2> QED BY <1>1, <2>2
<1>3. r \in Seq(Elem) /\ Len(r) = n - p - 1 /\ \A i \in 1..(n - p - 1) : r[i] = s[p + 1 + i]
  <2>1. \A i \in (p + 2)..n : s[i] \in Elem
    BY <1>1
  <2>2. /\ r \in Seq(Elem) /\ Len(r) = IF p + 2 <= n THEN n - (p + 2) + 1 ELSE 0
        /\ \A i \in 1..(n - (p + 2) + 1) : r[i] = s[(p + 2) + i - 1]
    BY <1>1, <2>1, SubSeqProperties
  <2> QED BY <1>1, <2>2
<1> HIDE DEF l, r
<1>4. /\ l \o r \in Seq(Elem) /\ Len(l \o r) = p + (n - p - 1)
      /\ \A i \in 1..(p + (n - p - 1)) : (l \o r)[i] = IF i <= p THEN l[i] ELSE r[i - p]
  <2>1. /\ l \o r \in Seq(Elem) /\ Len(l \o r) = Len(l) + Len(r)
        /\ \A i \in 1..(Len(l) + Len(r)) :
              (l \o r)[i] = IF i <= Len(l) THEN l[i] ELSE r[i - Len(l)]
    BY <1>2, <1>3, ConcatProperties
  <2> QED BY <1>2, <1>3, <2>1
<1>5. p + (n - p - 1) = n - 1
  BY <1>1
<1>6. \A i \in 1..(n - 1) : (l \o r)[i] = IF i <= p THEN s[i] ELSE s[i + 1]
  <2> SUFFICES ASSUME NEW i \in 1..(n - 1)
               PROVE  (l \o r)[i] = IF i <= p THEN s[i] ELSE s[i + 1]
    OBVIOUS
  <2>1. CASE i <= p
    BY <1>1, <1>2, <1>4, <1>5, <2>1
  <2>2. CASE i > p
    <3>1. i - p \in 1..(n - p - 1) /\ p + 1 + (i - p) = i + 1
      BY <1>1, <2>2
    <3>2. (l \o r)[i] = r[i - p] /\ ~(i <= p)
      BY <1>1, <1>4, <1>5, <2>2
    <3>3. r[i - p] = s[p + 1 + (i - p)]
      BY <1>3, <3>1
    <3>4. r[i - p] = s[i + 1]
      BY <3>1, <3>3
    <3> QED BY <3>2, <3>4
  <2>3. i <= p \/ i > p
    BY <1>1
  <2> QED BY <2>1, <2>2, <2>3
<1>7. Abstract!RemoveAt(s, p + 1) = l \o r
  <2>1. (p + 1) - 1 = p /\ (p + 1) + 1 = p + 2
    BY <1>1
  <2> QED BY <2>1 DEF Abstract!RemoveAt, l, r
<1> QED BY <1>4, <1>5, <1>6, <1>7

-----------------------------------------------------------------------------
(***************************************************************************)
(* The steps of DArrayOps as the client sees them.                         *)
(***************************************************************************)

\* Two good arrays with the same elements slot by slot show the same sequence.
LEMMA SeenEqual ==
    ASSUME NEW b, Good(b), NEW t \in Seq(Elem), Len(t) = b.length,
           \A i \in 1..b.length : b.data[i - 1] = t[i]
    PROVE  SeqOf(b) = t
<1>1. /\ SeqOf(b) \in Seq(Elem) /\ Len(SeqOf(b)) = b.length
      /\ \A i \in 1..b.length : SeqOf(b)[i] = b.data[i - 1]
  BY SeqOfArray
<1> QED BY <1>1, SeqEqual

\* The shifting loops insert at position p.
LEMMA InsertSlotSeq ==
    ASSUME NEW a, Good(a), a.length < a.slots, NEW x \in Elem,
           NEW p \in U32, p <= a.length
    PROVE  SeqOf(InsertSlot(a, p, x)) = Abstract!InsertAt(SeqOf(a), p + 1, x)
<1> DEFINE b == InsertSlot(a, p, x)
           s == SeqOf(a)
           n == a.length
           t == Abstract!InsertAt(s, p + 1, x)
<1>1. /\ s \in Seq(Elem) /\ Len(s) = n /\ n \in Nat
      /\ \A i \in 1..n : s[i] = a.data[i - 1]
  BY SeqOfArray
<1>2. Good(b) /\ b.length = n + 1
  BY InsertSlotGood
<1>3. p \in 0..n /\ p \in Nat /\ n < MaxU32 /\ MaxU32 \in Nat
  BY <1>1, OpsAssumption DEF U32, Good, Array
<1>4. \A i \in Index : b.data[i] = IF i < p THEN a.data[i]
                                   ELSE IF i = p THEN x
                                   ELSE IF i <= n THEN a.data[i - 1] ELSE Junk
  BY InsertSlotData
<1> HIDE DEF b, s, n
<1>5. /\ t \in Seq(Elem) /\ Len(t) = n + 1
      /\ \A i \in 1..(n + 1) : t[i] = IF i <= p THEN s[i]
                                        ELSE IF i = p + 1 THEN x ELSE s[i - 1]
  <2>1. p \in 0..Len(s)
    BY <1>1, <1>3
  <2>2. /\ t \in Seq(Elem) /\ Len(t) = Len(s) + 1
        /\ \A i \in 1..(Len(s) + 1) : t[i] = IF i <= p THEN s[i]
                                        ELSE IF i = p + 1 THEN x ELSE s[i - 1]
    <3>1. t \in Seq(Elem) /\ Len(t) = Len(s) + 1
      BY <1>1, <2>1, InsertedSeq
    <3>2. \A i \in 1..(Len(s) + 1) : t[i] = IF i <= p THEN s[i]
                                         ELSE IF i = p + 1 THEN x ELSE s[i - 1]
      BY <1>1, <2>1, InsertedSeq
    <3> QED BY <3>1, <3>2
  <2> QED BY <1>1, <2>2
<1> HIDE DEF t
<1>6. \A i \in 1..(n + 1) : b.data[i - 1] = t[i]
  <2> SUFFICES ASSUME NEW i \in 1..(n + 1)
               PROVE  b.data[i - 1] = t[i]
    OBVIOUS
  <2>1. i - 1 \in Index /\ i \in Nat
    BY <1>1, <1>3 DEF Index
  <2>2. CASE i <= p
    <3>1. i - 1 < p /\ i \in 1..n
      BY <1>1, <1>3, <2>2
    <3> QED BY <1>1, <1>4, <1>5, <2>1, <2>2, <3>1
  <2>3. CASE i = p + 1
    <3>1. i - 1 = p /\ ~(i <= p) /\ ~(p < p)
      BY <1>3, <2>3
    <3> QED BY <1>4, <1>5, <2>1, <2>3, <3>1
  <2>4. CASE i > p + 1
    <3>1. /\ ~(i - 1 < p) /\ i - 1 # p /\ i - 1 <= n /\ ~(i <= p) /\ i # p + 1
          /\ i - 1 \in 1..n
      BY <1>1, <1>3, <2>1, <2>4
    <3> QED BY <1>1, <1>4, <1>5, <2>1, <3>1
  <2>5. i <= p \/ i = p + 1 \/ i > p + 1
    BY <1>3, <2>1
  <2> QED BY <2>2, <2>3, <2>4, <2>5
<1>7. SeqOf(b) = t
  BY <1>2, <1>5, <1>6, SeenEqual
<1> QED BY <1>7 DEF b, s, t

\* The shifting loops remove the element at position p.
LEMMA RemoveSlotSeq ==
    ASSUME NEW a, Good(a), NEW p \in U32, p < a.length
    PROVE  SeqOf(RemoveSlot(a, p)) = Abstract!RemoveAt(SeqOf(a), p + 1)
<1> DEFINE b == RemoveSlot(a, p)
           s == SeqOf(a)
           n == a.length
           t == Abstract!RemoveAt(s, p + 1)
<1>1. /\ s \in Seq(Elem) /\ Len(s) = n /\ n \in Nat
      /\ \A i \in 1..n : s[i] = a.data[i - 1]
  BY SeqOfArray
<1>2. Good(b) /\ b.length = n - 1
  BY RemoveSlotGood
<1>3. p \in Nat /\ p < n /\ n <= MaxU32 /\ MaxU32 \in Nat
  BY <1>1, OpsAssumption DEF U32, Good, Array
<1>4. \A i \in Index : b.data[i] = IF i < p THEN a.data[i]
                                   ELSE IF i < n - 1 THEN a.data[i + 1] ELSE Junk
  BY RemoveSlotData
<1> HIDE DEF b, s, n
<1>5. /\ t \in Seq(Elem) /\ Len(t) = n - 1
      /\ \A i \in 1..(n - 1) : t[i] = IF i <= p THEN s[i] ELSE s[i + 1]
  <2>1. p \in 0..(Len(s) - 1)
    BY <1>1, <1>3
  <2>2. /\ t \in Seq(Elem) /\ Len(t) = Len(s) - 1
        /\ \A i \in 1..(Len(s) - 1) : t[i] = IF i <= p THEN s[i] ELSE s[i + 1]
    BY <1>1, <2>1, RemovedSeq
  <2> QED BY <1>1, <2>2
<1> HIDE DEF t
<1>6. \A i \in 1..(n - 1) : b.data[i - 1] = t[i]
  <2> SUFFICES ASSUME NEW i \in 1..(n - 1)
               PROVE  b.data[i - 1] = t[i]
    OBVIOUS
  <2>1. i - 1 \in Index /\ i \in Nat
    BY <1>1, <1>3 DEF Index
  <2>2. CASE i <= p
    <3>1. i - 1 < p /\ i \in 1..n
      BY <1>1, <1>3, <2>2
    <3> QED BY <1>1, <1>4, <1>5, <2>1, <2>2, <3>1
  <2>3. CASE i > p
    <3>1. /\ ~(i - 1 < p) /\ i - 1 < n - 1 /\ ~(i <= p) /\ i + 1 \in 1..n
          /\ (i - 1) + 1 = i /\ (i + 1) - 1 = i
      BY <1>1, <1>3, <2>1, <2>3
    <3> QED BY <1>1, <1>4, <1>5, <2>1, <3>1
  <2>4. i <= p \/ i > p
    BY <1>3, <2>1
  <2> QED BY <2>2, <2>3, <2>4
<1>7. SeqOf(b) = t
  BY <1>2, <1>5, <1>6, SeenEqual
<1> QED BY <1>7 DEF b, s, t

\* Writing a slot replaces the element at its position.
LEMMA WriteSlotSeq ==
    ASSUME NEW a, Good(a), NEW x \in Elem, NEW p \in U32, p < a.length
    PROVE  SeqOf(WriteSlot(a, p, x)) = Abstract!ReplaceAt(SeqOf(a), p + 1, x)
<1> DEFINE b == WriteSlot(a, p, x)
           s == SeqOf(a)
           n == a.length
           t == [s EXCEPT ![p + 1] = x]
<1>1. /\ s \in Seq(Elem) /\ Len(s) = n /\ n \in Nat
      /\ \A i \in 1..n : s[i] = a.data[i - 1]
  BY SeqOfArray
<1>2. p \in Nat /\ p < n /\ n <= MaxU32 /\ MaxU32 \in Nat /\ p \in Index
  BY <1>1, OpsAssumption DEF U32, Good, Array, Index
<1>3. /\ Good(b) /\ b.length = n
      /\ \A i \in Index : b.data[i] = IF i = p THEN x ELSE a.data[i]
  BY <1>2, WriteSlotGood, WriteSlotData
<1> HIDE DEF b, s, n
<1>4. p + 1 \in 1..Len(s)
  BY <1>1, <1>2
<1>5. s \in [1..n -> Elem]
  BY <1>1
<1>6. t \in [1..n -> Elem] /\ \A i \in 1..n : t[i] = IF i = p + 1 THEN x ELSE s[i]
  BY <1>5
<1>7. t \in Seq(Elem) /\ Len(t) = n
  BY <1>1, <1>6
<1> HIDE DEF t
<1>8. \A i \in 1..n : b.data[i - 1] = t[i]
  <2> SUFFICES ASSUME NEW i \in 1..n
               PROVE  b.data[i - 1] = t[i]
    OBVIOUS
  <2>1. i - 1 \in Index /\ (i - 1 = p <=> i = p + 1)
    BY <1>1, <1>2 DEF Index
  <2> QED BY <1>1, <1>3, <1>6, <2>1
<1>9. SeqOf(b) = t
  BY <1>3, <1>7, <1>8, SeenEqual
<1> QED BY <1>9 DEF b, s, t, Abstract!ReplaceAt

\* Joining is concatenation.
LEMMA ConcatSeq ==
    ASSUME NEW a, Good(a), NEW b, Good(b), a.length + b.length <= a.slots
    PROVE  SeqOf(Concat(a, b)) = SeqOf(a) \o SeqOf(b)
<1> DEFINE d == Concat(a, b)
           s == SeqOf(a)
           t == SeqOf(b)
           n == a.length
           m == b.length
<1>1. /\ s \in Seq(Elem) /\ Len(s) = n /\ n \in Nat
      /\ \A i \in 1..n : s[i] = a.data[i - 1]
      /\ t \in Seq(Elem) /\ Len(t) = m /\ m \in Nat
      /\ \A i \in 1..m : t[i] = b.data[i - 1]
  BY SeqOfArray
<1>2. /\ d.length = n + m /\ n + m <= MaxU32 /\ MaxU32 \in Nat
      /\ \A i \in Index : d.data[i] = IF i < n \/ i >= n + m THEN a.data[i] ELSE b.data[i - n]
  <2>1. /\ d.length = n + m
        /\ \A i \in Index : d.data[i] = IF i < n \/ i >= n + m THEN a.data[i] ELSE b.data[i - n]
    BY DEF Concat, Good, Array
  <2>2. n + m <= MaxU32 /\ MaxU32 \in Nat
    BY <1>1, OpsAssumption DEF Good, Array, U32
  <2> QED BY <2>1, <2>2
<1>3. Good(d)
  BY ConcatGood
<1> HIDE DEF d, s, t, n, m
<1>4. /\ s \o t \in Seq(Elem) /\ Len(s \o t) = n + m
      /\ \A i \in 1..(n + m) : (s \o t)[i] = IF i <= n THEN s[i] ELSE t[i - n]
  <2>1. /\ s \o t \in Seq(Elem) /\ Len(s \o t) = Len(s) + Len(t)
        /\ \A i \in 1..(Len(s) + Len(t)) :
              (s \o t)[i] = IF i <= Len(s) THEN s[i] ELSE t[i - Len(s)]
    BY <1>1, ConcatProperties
  <2> QED BY <1>1, <2>1
<1> DEFINE c == s \o t
<1> HIDE DEF c
<1>5. /\ c \in Seq(Elem) /\ Len(c) = n + m
      /\ \A i \in 1..(n + m) : c[i] = IF i <= n THEN s[i] ELSE t[i - n]
  BY <1>4 DEF c
<1>6. \A i \in 1..(n + m) : d.data[i - 1] = c[i]
  <2> SUFFICES ASSUME NEW i \in 1..(n + m)
               PROVE  d.data[i - 1] = c[i]
    OBVIOUS
  <2>1. i - 1 \in Index /\ i \in Nat
    BY <1>1, <1>2 DEF Index
  <2>2. CASE i <= n
    <3>1. i - 1 < n /\ i \in 1..n
      BY <1>1, <2>2
    <3> QED BY <1>1, <1>2, <1>5, <2>1, <2>2, <3>1
  <2>3. CASE i > n
    <3>1. /\ ~(i - 1 < n) /\ ~(i - 1 >= n + m) /\ ~(i <= n) /\ i - n \in 1..m
          /\ (i - 1) - n = (i - n) - 1
      BY <1>1, <2>1, <2>3
    <3>2. d.data[i - 1] = b.data[(i - n) - 1]
      BY <1>2, <2>1, <3>1
    <3>3. t[i - n] = b.data[(i - n) - 1]
      BY <1>1, <3>1
    <3> QED BY <1>5, <3>1, <3>2, <3>3
  <2>4. i <= n \/ i > n
    BY <1>1, <2>1
  <2> QED BY <2>2, <2>3, <2>4
<1>7. SeqOf(d) = c
  BY <1>2, <1>3, <1>5, <1>6, SeenEqual
<1> QED BY <1>7 DEF c, d, s, t

\* A new array and an emptied one show the empty sequence.
LEMMA EmptySeqOf ==
    ASSUME NEW a, a.length = 0
    PROVE  SeqOf(a) = <<>> /\ Stored(a) = {} /\ Distinct(a)
<1>1. 1..a.length = {} /\ 0..(a.length - 1) = {}
  OBVIOUS
<1>2. SeqOf(a) = [i \in {} |-> a.data[i - 1]]
  BY <1>1 DEF SeqOf
<1>3. SeqOf(a) = <<>>
  BY <1>2
<1> QED BY <1>1, <1>3 DEF Stored, Distinct

\* Which slot of a split array every slot of the two parts was.
LEMMA CutSlots ==
    ASSUME NEW a, Good(a), NEW from \in U32, NEW to \in U32,
           Splittable(a, from, to), to - from # a.length
    PROVE  /\ from \in Nat /\ to \in Nat /\ a.length \in Nat
           /\ from < to /\ to <= a.length
           /\ CutPart(a, from, to).length = to - from
           /\ CutPart(a, from, to).compare = a.compare
           /\ \A i \in 0..(to - from - 1) :
                 CutPart(a, from, to).data[i] = a.data[from + i]
           /\ CutRest(a, from, to).length = a.length - (to - from)
           /\ CutRest(a, from, to).compare = a.compare
           /\ \A i \in 0..(a.length - (to - from) - 1) :
                 CutRest(a, from, to).data[i] =
                   IF i < from THEN a.data[i] ELSE a.data[i + (to - from)]
<1> DEFINE n == to - from
           m == a.length - n
           d == CutPart(a, from, to)
           moved == [i \in Index |-> IF i < from THEN a.data[i]
                                    ELSE IF i < a.length - n THEN a.data[i + n] ELSE Junk]
           closed == [a EXCEPT !.data = moved]
           sized == Resize(closed, m)
           e == CutRest(a, from, to)
<1>1. /\ from \in Nat /\ to \in Nat /\ a.length \in Nat /\ MaxU32 \in Nat
      /\ a.length <= MaxU32 /\ from < to /\ to <= a.length
      /\ n \in Nat /\ n > 0 /\ m \in Nat /\ m > 0 /\ m <= MaxU32 /\ n <= MaxU32
  BY OpsAssumption DEF Splittable, Good, Array, U32
<1>2. /\ d.length = n /\ d.compare = a.compare
      /\ d.data = [i \in Index |-> IF i < n THEN a.data[from + i] ELSE Junk]
  BY DEF CutPart, NewArray
<1>3. \A i \in 0..(n - 1) : d.data[i] = a.data[from + i]
  BY <1>1, <1>2 DEF Index
<1>4. /\ closed.length = a.length /\ closed.data = moved /\ closed.compare = a.compare
      /\ closed \in [compare : Compare, data : {moved}, slots : U32,
                      capacity : U32, length : U32, rate : 1..MaxU32]
  BY DEF Good, Array
<1>5. /\ sized.length = a.length /\ sized.compare = a.compare
      /\ sized.data = [i \in Index |-> IF i < m THEN moved[i] ELSE Junk]
      /\ DOMAIN sized = {"compare", "data", "slots", "capacity", "length", "rate"}
  BY <1>1, <1>4 DEF Resize
<1>6. (sized.length - n) % (MaxU32 + 1) = m
  BY <1>1, <1>5
<1>7. e = [sized EXCEPT !.length = m, !.capacity = m]
  BY <1>6 DEF CutRest
<1>8. e.length = m /\ e.compare = a.compare /\ e.data = sized.data
  BY <1>5, <1>7
<1>9. \A i \in 0..(m - 1) : e.data[i] = IF i < from THEN a.data[i] ELSE a.data[i + n]
  <2>1. \A i \in 0..(m - 1) : i \in Index /\ i < m
    BY <1>1 DEF Index
  <2>2. \A i \in 0..(m - 1) : e.data[i] = moved[i]
    BY <1>5, <1>8, <2>1
  <2> QED BY <2>1, <2>2
<1> QED BY <1>1, <1>2, <1>3, <1>8, <1>9

\* What is cut out.
LEMMA CutPartSeq ==
    ASSUME NEW a, Good(a), NEW from \in U32, NEW to \in U32,
           Splittable(a, from, to), to - from # a.length
    PROVE  SeqOf(CutPart(a, from, to)) = SubSeq(SeqOf(a), from + 1, to)
<1> DEFINE d == CutPart(a, from, to)
           s == SeqOf(a)
           n == to - from
           t == SubSeq(s, from + 1, to)
<1>1. /\ s \in Seq(Elem) /\ Len(s) = a.length
      /\ \A i \in 1..a.length : s[i] = a.data[i - 1]
  BY SeqOfArray
<1>2. /\ from \in Nat /\ to \in Nat /\ a.length \in Nat /\ from < to /\ to <= a.length
      /\ d.length = n /\ \A i \in 0..(n - 1) : d.data[i] = a.data[from + i]
  BY CutSlots
<1>3. Good(d)
  BY CutPartGood
<1> HIDE DEF d, s
<1>4. t \in Seq(Elem) /\ Len(t) = n /\ \A i \in 1..n : t[i] = s[from + i]
  <2>1. \A i \in (from + 1)..to : s[i] \in Elem
    BY <1>1, <1>2, ElementOfSeq
  <2>2. /\ t \in Seq(Elem)
        /\ Len(t) = IF from + 1 <= to THEN to - (from + 1) + 1 ELSE 0
        /\ \A i \in 1..(to - (from + 1) + 1) : t[i] = s[(from + 1) + i - 1]
    BY <1>2, <2>1, SubSeqProperties
  <2> QED BY <1>2, <2>2
<1> HIDE DEF t
<1>5. \A i \in 1..n : d.data[i - 1] = t[i]
  <2> SUFFICES ASSUME NEW i \in 1..n
               PROVE  d.data[i - 1] = t[i]
    OBVIOUS
  <2>1. /\ i - 1 \in 0..(n - 1) /\ from + i \in 1..a.length
        /\ from + (i - 1) = (from + i) - 1
    BY <1>2
  <2>2. d.data[i - 1] = a.data[(from + i) - 1]
    BY <1>2, <2>1
  <2> QED BY <1>1, <1>4, <2>1, <2>2
<1>6. SeqOf(d) = t
  BY <1>2, <1>3, <1>4, <1>5, SeenEqual
<1> QED BY <1>6 DEF d, s, t

\* What stays: the elements before and behind the cut.
LEMMA CutRestSeq ==
    ASSUME NEW a, Good(a), NEW from \in U32, NEW to \in U32,
           Splittable(a, from, to), to - from # a.length
    PROVE  SeqOf(CutRest(a, from, to)) =
             SubSeq(SeqOf(a), 1, from) \o SubSeq(SeqOf(a), to + 1, Len(SeqOf(a)))
<1> DEFINE d == CutRest(a, from, to)
           s == SeqOf(a)
           n == a.length
           m == n - (to - from)
           l == SubSeq(s, 1, from)
           r == SubSeq(s, to + 1, n)
           t == l \o r
<1>1. /\ s \in Seq(Elem) /\ Len(s) = n
      /\ \A i \in 1..n : s[i] = a.data[i - 1]
  BY SeqOfArray
<1>2. /\ from \in Nat /\ to \in Nat /\ n \in Nat /\ from < to /\ to <= n
      /\ d.length = m
      /\ \A i \in 0..(m - 1) :
            d.data[i] = IF i < from THEN a.data[i] ELSE a.data[i + (to - from)]
  BY CutSlots
<1>3. Good(d)
  BY CutRestGood
<1> HIDE DEF d, s, n
<1>a. \A i \in 1..n : s[i] \in Elem
  BY <1>1, ElementOfSeq
<1>4. l \in Seq(Elem) /\ Len(l) = from /\ \A i \in 1..from : l[i] = s[i]
  <2>1. \A i \in 1..from : s[i] \in Elem
    BY <1>2, <1>a
  <2>2. /\ l \in Seq(Elem) /\ Len(l) = IF 1 <= from THEN from - 1 + 1 ELSE 0
        /\ \A i \in 1..(from - 1 + 1) : l[i] = s[1 + i - 1]
    BY <1>2, <2>1, SubSeqProperties
  <2> QED BY <1>2, <2>2
<1>5. r \in Seq(Elem) /\ Len(r) = n - to /\ \A i \in 1..(n - to) : r[i] = s[to + i]
  <2>1. \A i \in (to + 1)..n : s[i] \in Elem
    BY <1>2, <1>a
  <2>2. /\ r \in Seq(Elem) /\ Len(r) = IF to + 1 <= n THEN n - (to + 1) + 1 ELSE 0
        /\ \A i \in 1..(n - (to + 1) + 1) : r[i] = s[(to + 1) + i - 1]
    BY <1>2, <2>1, SubSeqProperties
  <2> QED BY <1>2, <2>2
<1> HIDE DEF l, r
<1>6. /\ t \in Seq(Elem) /\ Len(t) = m
      /\ \A i \in 1..m : t[i] = IF i <= from THEN l[i] ELSE r[i - from]
  <2>1. /\ t \in Seq(Elem) /\ Len(t) = Len(l) + Len(r)
        /\ \A i \in 1..(Len(l) + Len(r)) :
              t[i] = IF i <= Len(l) THEN l[i] ELSE r[i - Len(l)]
    BY <1>4, <1>5, ConcatProperties
  <2>2. from + (n - to) = m
    BY <1>2
  <2> QED BY <1>4, <1>5, <2>1, <2>2
<1> HIDE DEF t
<1>7. \A i \in 1..m : d.data[i - 1] = t[i]
  <2> SUFFICES ASSUME NEW i \in 1..m
               PROVE  d.data[i - 1] = t[i]
    OBVIOUS
  <2>1. i - 1 \in 0..(m - 1) /\ i \in Nat
    BY <1>2
  <2>2. CASE i <= from
    <3>1. i - 1 < from /\ i \in 1..n /\ i \in 1..from
      BY <1>2, <2>1, <2>2
    <3> QED BY <1>1, <1>2, <1>4, <1>6, <2>1, <2>2, <3>1
  <2>3. CASE i > from
    <3>1. /\ ~(i - 1 < from) /\ ~(i <= from) /\ i - from \in 1..(n - to)
          /\ to + (i - from) \in 1..n
          /\ (i - 1) + (to - from) = (to + (i - from)) - 1
      BY <1>2, <2>1, <2>3
    <3>2. d.data[i - 1] = a.data[(to + (i - from)) - 1]
      BY <1>2, <2>1, <3>1
    <3>3. t[i] = s[to + (i - from)]
      BY <1>5, <1>6, <3>1
    <3> QED BY <1>1, <3>1, <3>2, <3>3
  <2>4. i <= from \/ i > from
    BY <1>2, <2>1
  <2> QED BY <2>2, <2>3, <2>4
<1>8. SeqOf(d) = t
  BY <1>2, <1>3, <1>6, <1>7, SeenEqual
<1> QED BY <1>1, <1>8 DEF d, s, t, l, r

\* The two parts share the elements out between them.
LEMMA CutStored ==
    ASSUME NEW a, Good(a), Distinct(a), NEW from \in U32, NEW to \in U32,
           Splittable(a, from, to), to - from # a.length
    PROVE  /\ Distinct(CutPart(a, from, to)) /\ Distinct(CutRest(a, from, to))
           /\ Stored(CutPart(a, from, to)) \cap Stored(CutRest(a, from, to)) = {}
           /\ Stored(CutPart(a, from, to)) \cup Stored(CutRest(a, from, to)) = Stored(a)
<1> DEFINE d == CutPart(a, from, to)
           e == CutRest(a, from, to)
           k == to - from
           n == a.length
           OldD(i) == from + i
           OldE(i) == IF i < from THEN i ELSE i + k
<1>1. /\ from \in Nat /\ to \in Nat /\ n \in Nat /\ from < to /\ to <= n
      /\ d.length = k /\ \A i \in 0..(k - 1) : d.data[i] = a.data[from + i]
      /\ e.length = n - k
      /\ \A i \in 0..(n - k - 1) :
            e.data[i] = IF i < from THEN a.data[i] ELSE a.data[i + k]
  BY CutSlots
<1>2. \A i, j \in 0..(n - 1) : a.data[i] = a.data[j] => i = j
  BY DEF Distinct
<1>3. /\ Stored(a) = {a.data[i] : i \in 0..(n - 1)}
      /\ Stored(d) = {d.data[i] : i \in 0..(k - 1)}
      /\ Stored(e) = {e.data[i] : i \in 0..(n - k - 1)}
      /\ Distinct(d) <=> \A i, j \in 0..(k - 1) : d.data[i] = d.data[j] => i = j
      /\ Distinct(e) <=> \A i, j \in 0..(n - k - 1) : e.data[i] = e.data[j] => i = j
  BY <1>1 DEF Stored, Distinct
<1> HIDE DEF d, e, n
<1>4. \A i \in 0..(k - 1) : OldD(i) \in from..(to - 1) /\ d.data[i] = a.data[OldD(i)]
  BY <1>1
<1>5. \A i \in 0..(n - k - 1) : /\ OldE(i) \in 0..(n - 1) /\ OldE(i) \notin from..(to - 1)
                               /\ e.data[i] = a.data[OldE(i)]
  BY <1>1
<1>6. /\ from..(to - 1) \subseteq 0..(n - 1)
      /\ \A i, j \in 0..(k - 1) : OldD(i) = OldD(j) => i = j
      /\ \A i, j \in 0..(n - k - 1) : OldE(i) = OldE(j) => i = j
  BY <1>1
<1>7. \A q \in 0..(n - 1) : \/ \E i \in 0..(k - 1) : OldD(i) = q
                            \/ \E i \in 0..(n - k - 1) : OldE(i) = q
  <2> SUFFICES ASSUME NEW q \in 0..(n - 1)
               PROVE  \/ \E i \in 0..(k - 1) : OldD(i) = q
                      \/ \E i \in 0..(n - k - 1) : OldE(i) = q
    OBVIOUS
  <2>1. CASE q < from
    <3>1. q \in 0..(n - k - 1) /\ OldE(q) = q
      BY <1>1, <2>1
    <3> QED BY <3>1
  <2>2. CASE from <= q /\ q < to
    <3>1. q - from \in 0..(k - 1) /\ OldD(q - from) = q
      BY <1>1, <2>2
    <3> QED BY <3>1
  <2>3. CASE to <= q
    <3>1. q - k \in 0..(n - k - 1) /\ OldE(q - k) = q
      BY <1>1, <2>3
    <3> QED BY <3>1
  <2> QED BY <1>1, <2>1, <2>2, <2>3
<1> HIDE DEF OldD, OldE, k
<1>8. Distinct(d)
  BY <1>2, <1>3, <1>4, <1>6
<1>9. Distinct(e)
  BY <1>2, <1>3, <1>5, <1>6
<1>10. Stored(d) \cap Stored(e) = {}
  <2> SUFFICES ASSUME NEW i \in 0..(k - 1), NEW j \in 0..(n - k - 1), d.data[i] = e.data[j]
               PROVE  FALSE
    BY <1>3
  <2>1. OldD(i) = OldE(j)
    BY <1>2, <1>4, <1>5, <1>6
  <2> QED BY <1>4, <1>5, <2>1
<1>11. Stored(d) \subseteq Stored(a) /\ Stored(e) \subseteq Stored(a)
  BY <1>3, <1>4, <1>5, <1>6
<1>12. Stored(a) \subseteq Stored(d) \cup Stored(e)
  BY <1>3, <1>4, <1>5, <1>7
<1> QED BY <1>8, <1>9, <1>10, <1>11, <1>12 DEF d, e

-----------------------------------------------------------------------------
(***************************************************************************)
(* The owners.  Ownership speaks of slots; the proof keeps the books with  *)
(* one set of elements per array instead, which every call changes by a    *)
(* set equation.                                                           *)
(***************************************************************************)

\* The elements behind a pointer.
Holds(h) == IF Absent(h) THEN {} ELSE Stored(arr[h])

Owned ==
    /\ held \cap freed = {}
    /\ \A h \in Handle : ~Absent(h) => Distinct(arr[h])
    /\ \A h \in Handle : Holds(h) \cap (held \cup freed) = {}
    /\ \A g, h \in Handle : g # h => Holds(g) \cap Holds(h) = {}
    /\ Elem \subseteq held \cup freed \cup UNION {Holds(h) : h \in Handle}

\* The books say what Ownership says.
LEMMA OwnedIsOwnership == IInv /\ Owned => Ownership
<1> SUFFICES ASSUME IInv, Owned
             PROVE  Ownership
  OBVIOUS
<1>1. \A h \in Handle : ~Absent(h) =>
         /\ arr[h].length \in Nat /\ 0..(arr[h].length - 1) \subseteq Index
         /\ Stored(arr[h]) = {arr[h].data[i] : i \in 0..(arr[h].length - 1)}
  BY BehindPointer, StoredElem DEF Stored
<1>2. \A h \in Handle, i \in Index : InUse(<<h, i>>) <=>
         ~Absent(h) /\ i \in 0..(arr[h].length - 1)
  BY <1>1 DEF InUse, Index
<1>3. \A h \in Handle, i \in Index : InUse(<<h, i>>) =>
         At(<<h, i>>) = arr[h].data[i] /\ At(<<h, i>>) \in Holds(h)
  BY <1>1, <1>2 DEF At, Holds
<1>4. \A s \in Slot : InUse(s) => At(s) \notin held \cup freed
  BY <1>3 DEF Owned, Slot
<1>5. \A s, t \in Slot : InUse(s) /\ InUse(t) /\ At(s) = At(t) => s = t
  <2> SUFFICES ASSUME NEW g \in Handle, NEW i \in Index, NEW h \in Handle, NEW j \in Index,
                      InUse(<<g, i>>), InUse(<<h, j>>), At(<<g, i>>) = At(<<h, j>>)
               PROVE  g = h /\ i = j
    BY DEF Slot
  <2>1. g = h
    BY <1>3 DEF Owned
  <2>2. arr[g].data[i] = arr[g].data[j]
    BY <1>3, <2>1
  <2>3. i \in 0..(arr[g].length - 1) /\ j \in 0..(arr[g].length - 1) /\ ~Absent(g)
    BY <1>2, <2>1
  <2>4. Distinct(arr[g])
    BY <2>3 DEF Owned
  <2> QED BY <2>1, <2>2, <2>3, <2>4 DEF Distinct
<1>6. \A x \in Elem : x \in held \cup freed \/ \E s \in Slot : InUse(s) /\ At(s) = x
  <2> SUFFICES ASSUME NEW x \in Elem, x \notin held \cup freed
               PROVE  \E s \in Slot : InUse(s) /\ At(s) = x
    OBVIOUS
  <2>1. PICK h \in Handle : x \in Holds(h)
    BY DEF Owned
  <2>2. ~Absent(h) /\ x \in Stored(arr[h])
    BY <2>1 DEF Holds
  <2>3. PICK i \in 0..(arr[h].length - 1) : x = arr[h].data[i]
    BY <1>1, <2>2
  <2>4. i \in Index /\ InUse(<<h, i>>) /\ At(<<h, i>>) = x
    BY <1>1, <1>2, <1>3, <2>2, <2>3
  <2> QED BY <2>4 DEF Slot
<1> QED BY <1>4, <1>5, <1>6 DEF Ownership, Owned

\* One array, the client and the callback exchange elements: if together they
\* have what they had, and no two have the same, nobody else is concerned.
LEMMA Exchange ==
    ASSUME IInv, Owned, NEW h \in Handle, NEW b,
           arr' = [arr EXCEPT ![h] = b],
           b # Null => Distinct(b),
           held' \cap freed' = {},
           (IF b = Null THEN {} ELSE Stored(b)) \cap (held' \cup freed') = {},
           (IF b = Null THEN {} ELSE Stored(b)) \cup held' \cup freed'
             = Holds(h) \cup held \cup freed
    PROVE  Owned'
<1> DEFINE S == IF b = Null THEN {} ELSE Stored(b)
<1>1. arr' \in [Handle -> {arr[g] : g \in Handle} \cup {b}]
      /\ arr'[h] = b /\ \A g \in Handle : g # h => arr'[g] = arr[g]
  BY DEF IInv, TypeOK
<1>2. Holds(h)' = S /\ \A g \in Handle : g # h => Holds(g)' = Holds(g)
  BY <1>1 DEF Holds, Absent
<1> DEFINE rest == held' \cup freed'
<1>3. S \cap rest = {} /\ S \cup rest = Holds(h) \cup held \cup freed
  OBVIOUS
<1> HIDE DEF S
<1>4. \A g \in Handle : ~Absent(g)' => Distinct(arr[g])'
  BY <1>1 DEF Owned, Absent, Distinct
<1>5. \A g \in Handle : g # h => Holds(g) \cap (Holds(h) \cup held \cup freed) = {}
  BY DEF Owned
<1>6. \A g \in Handle : Holds(g)' \cap rest = {}
  BY <1>2, <1>3, <1>5
<1>7. \A f, g \in Handle : f # g => Holds(f)' \cap Holds(g)' = {}
  <2> SUFFICES ASSUME NEW f \in Handle, NEW g \in Handle, f # g
               PROVE  Holds(f)' \cap Holds(g)' = {}
    OBVIOUS
  <2>1. CASE f # h /\ g # h
    BY <1>2, <2>1 DEF Owned
  <2>2. CASE f = h
    BY <1>2, <1>3, <1>5, <2>2
  <2>3. CASE g = h
    BY <1>2, <1>3, <1>5, <2>3
  <2> QED BY <2>1, <2>2, <2>3
<1>8. Elem \subseteq rest \cup UNION {Holds(g)' : g \in Handle}
  <2> SUFFICES ASSUME NEW x \in Elem, x \notin rest
               PROVE  \E g \in Handle : x \in Holds(g)'
    OBVIOUS
  <2>1. CASE x \in Holds(h) \cup held \cup freed
    BY <1>2, <1>3, <2>1
  <2>2. CASE x \notin Holds(h) \cup held \cup freed
    <3>1. PICK g \in Handle : x \in Holds(g)
      BY <2>2 DEF Owned
    <3> QED BY <1>2, <2>2, <3>1
  <2> QED BY <2>1, <2>2
<1> QED BY <1>4, <1>6, <1>7, <1>8 DEF Owned

\* A pointer that is left alone holds what it held.
LEMMA HoldsSame ==
    ASSUME NEW g, arr'[g] = arr[g]
    PROVE  Holds(g)' = Holds(g)
BY DEF Holds, Absent

\* Two arrays exchange elements, and nobody else.
LEMMA ExchangeTwo ==
    ASSUME IInv, Owned, NEW h \in Handle, NEW k \in Handle, h # k, NEW b, NEW d,
           arr' = [arr EXCEPT ![h] = b, ![k] = d],
           UNCHANGED <<held, freed>>,
           b # Null => Distinct(b), d # Null => Distinct(d),
           NEW B, B = IF b = Null THEN {} ELSE Stored(b),
           NEW D, D = IF d = Null THEN {} ELSE Stored(d),
           B \cap D = {}, B \cup D = Holds(h) \cup Holds(k)
    PROVE  Owned'
<1>1. /\ arr'[h] = b /\ arr'[k] = d
      /\ \A g \in Handle \ {h, k} : arr'[g] = arr[g]
  BY DEF IInv, TypeOK
<1>2. /\ Holds(h)' = B /\ Holds(k)' = D
      /\ \A g \in Handle \ {h, k} : Holds(g)' = Holds(g)
  <2>1. Holds(h)' = B
    BY <1>1 DEF Holds, Absent
  <2>2. Holds(k)' = D
    BY <1>1 DEF Holds, Absent
  <2>3. \A g \in Handle \ {h, k} : Holds(g)' = Holds(g)
    BY <1>1, HoldsSame
  <2> QED BY <2>1, <2>2, <2>3
<1>3. \A g \in Handle : ~Absent(g)' => Distinct(arr[g])'
  BY <1>1 DEF Owned, Absent, Distinct
<1>4. \A g \in Handle \ {h, k} : Holds(g) \cap (B \cup D) = {}
  BY DEF Owned
<1>5. (B \cup D) \cap (held \cup freed) = {}
  BY DEF Owned
<1>6. \A g \in Handle : Holds(g)' \cap (held \cup freed) = {}
  BY <1>2, <1>5 DEF Owned
<1>7. \A f, g \in Handle : f # g => Holds(f)' \cap Holds(g)' = {}
  <2> SUFFICES ASSUME NEW f \in Handle, NEW g \in Handle, f # g
               PROVE  Holds(f)' \cap Holds(g)' = {}
    OBVIOUS
  <2>1. CASE f \notin {h, k} /\ g \notin {h, k}
    BY <1>2, <2>1 DEF Owned
  <2>2. CASE f \in {h, k} /\ g \notin {h, k}
    BY <1>2, <1>4, <2>2
  <2>3. CASE f \notin {h, k} /\ g \in {h, k}
    BY <1>2, <1>4, <2>3
  <2>4. CASE f \in {h, k} /\ g \in {h, k}
    BY <1>2, <2>4
  <2> QED BY <2>1, <2>2, <2>3, <2>4
<1>8. Elem \subseteq held \cup freed \cup UNION {Holds(g)' : g \in Handle}
  <2> SUFFICES ASSUME NEW x \in Elem, x \notin held \cup freed
               PROVE  \E g \in Handle : x \in Holds(g)'
    OBVIOUS
  <2>1. PICK g \in Handle : x \in Holds(g)
    BY DEF Owned
  <2> QED BY <1>2, <2>1
<1>9. held' = held /\ freed' = freed
  OBVIOUS
<1>10. /\ held' \cap freed' = {}
       /\ \A g \in Handle : Holds(g)' \cap (held' \cup freed') = {}
       /\ Elem \subseteq held' \cup freed' \cup UNION {Holds(g)' : g \in Handle}
  BY <1>6, <1>8, <1>9 DEF Owned
<1> QED BY <1>3, <1>7, <1>10 DEF Owned

\* A call that changes no array and no owner.
LEMMA OwnedSame ==
    ASSUME Owned, UNCHANGED <<arr, held, freed>>
    PROVE  Owned'
<1>1. \A h \in Handle : Holds(h)' = Holds(h) /\ (~Absent(h) <=> ~Absent(h)')
  BY DEF Holds, Absent
<1>2. \A h \in Handle : ~Absent(h)' => Distinct(arr[h])'
  BY DEF Owned, Absent, Distinct
<1>3. \A h \in Handle : Holds(h)' \cap (held' \cup freed') = {}
  BY <1>1 DEF Owned
<1>4. \A g, h \in Handle : g # h => Holds(g)' \cap Holds(h)' = {}
  BY <1>1 DEF Owned
<1>5. UNION {Holds(h)' : h \in Handle} = UNION {Holds(h) : h \in Handle}
  BY <1>1
<1> QED BY <1>2, <1>3, <1>4, <1>5 DEF Owned

-----------------------------------------------------------------------------
(***************************************************************************)
(* The steps of ArrayADT.                                                  *)
(***************************************************************************)

\* What a client sees of one array, and of all: the refinement mapping.
Shown(a) == [items |-> SeqOf(a), compare |-> a.compare]
View == [h \in Handle |-> IF Absent(h) THEN Null
                          ELSE [items |-> SeqOf(arr[h]), compare |-> arr[h].compare]]

\* Behind a pointer in use there is a sequence, and NULL is none.
LEMMA ViewAt ==
    ASSUME IInv, NEW h \in Handle
    PROVE  /\ Absent(h) => View[h] = Null
           /\ ~Absent(h) => View[h] = Shown(arr[h]) /\ View[h] # Null
<1>1. View[h] = IF Absent(h) THEN Null ELSE Shown(arr[h])
  BY DEF View, Shown
<1>2. ASSUME ~Absent(h)
      PROVE  Shown(arr[h]) # Null
  <2>1. Good(arr[h])
    BY <1>2, BehindPointer
  <2>2. SeqOf(arr[h]) \in Seq(Elem) /\ arr[h].compare \in Compare
    BY <2>1, SeqOfArray DEF Good, Array
  <2>3. Shown(arr[h]) \in [items : Seq(Elem), compare : Compare]
    BY <2>2 DEF Shown
  <2> QED BY <2>3, DArrayAssumption
<1> QED BY <1>1, <1>2

\* A pointer has an array behind it when it has a sequence.
LEMMA LiveIsPresent ==
    ASSUME IInv, NEW h \in Handle
    PROVE  h \in Abstract!Live <=> ~Absent(h)
<1>1. Abstract!Live = {g \in Handle : View[g] # Null}
  BY DEF Abstract!Live, View
<1> QED BY <1>1, ViewAt

LEMMA ViewOne ==
    ASSUME IInv, NEW h \in Handle, NEW b, Good(b) \/ b = Null,
           arr' = [arr EXCEPT ![h] = b]
    PROVE  View' = [View EXCEPT ![h] = IF b = Null THEN Null ELSE Shown(b)]
<1>1. arr'[h] = b /\ \A g \in Handle : g # h => arr'[g] = arr[g]
  BY DEF IInv, TypeOK
<1>2. ASSUME NEW g \in Handle
      PROVE  View'[g] = [View EXCEPT ![h] = IF b = Null THEN Null ELSE Shown(b)][g]
  <2>1. View'[g] = IF arr'[g] = Null THEN Null ELSE Shown(arr'[g])
    BY DEF View, Shown, Absent, SeqOf
  <2>2. View[g] = IF arr[g] = Null THEN Null ELSE Shown(arr[g])
    BY DEF View, Shown, Absent
  <2>3. DOMAIN View = Handle
    BY DEF View
  <2> QED BY <1>1, <2>1, <2>2, <2>3
<1>3. DOMAIN View' = Handle /\ DOMAIN View = Handle
  BY DEF View
<1>4. View' = [g \in Handle |-> View'[g]]
  BY DEF View
<1> QED BY <1>2, <1>3, <1>4

\* What the sequence behind a pointer shows of the array.
LEMMA ItemsAt ==
    ASSUME IInv, NEW h \in Handle, ~Absent(h)
    PROVE  /\ View[h].items = SeqOf(arr[h])
           /\ View[h].compare = arr[h].compare
           /\ Len(View[h].items) = arr[h].length
           /\ arr[h].length \in Nat
           /\ \A p \in 0..(arr[h].length - 1) : View[h].items[p + 1] = arr[h].data[p]
<1>1. View[h].items = SeqOf(arr[h]) /\ View[h].compare = arr[h].compare
  <2>1. View[h] = Shown(arr[h])
    BY ViewAt
  <2> QED BY <2>1 DEF Shown
<1>2. /\ Len(SeqOf(arr[h])) = arr[h].length /\ arr[h].length \in Nat
      /\ \A i \in 1..arr[h].length : SeqOf(arr[h])[i] = arr[h].data[i - 1]
  BY BehindPointer, SeqOfArray
<1>3. \A p \in 0..(arr[h].length - 1) : p + 1 \in 1..arr[h].length /\ (p + 1) - 1 = p
  BY <1>2
<1> QED BY <1>1, <1>2, <1>3

\* A position is valid in both when it lies below length.
LEMMA ValidIsInUse ==
    ASSUME IInv, NEW h \in Handle, NEW p \in Nat
    PROVE  Abstract!Valid(h, p) <=> ~Absent(h) /\ p < arr[h].length
<1>1. Abstract!Valid(h, p) <=> h \in Abstract!Live /\ p \in 0..(Len(View[h].items) - 1)
  BY DEF Abstract!Valid, View
<1>2. CASE Absent(h)
  BY <1>1, <1>2, LiveIsPresent
<1>3. CASE ~Absent(h)
  BY <1>1, <1>3, LiveIsPresent, ItemsAt
<1> QED BY <1>2, <1>3

\* Comparing equal means the same in both.
LEMMA EqualIsMatch ==
    ASSUME IInv, NEW h \in Handle, ~Absent(h), NEW x, NEW p \in 0..(arr[h].length - 1)
    PROVE  Abstract!EqualAt(h, p, x) <=> x # Null /\ p \in Matches(arr[h], x)
<1>1. /\ View[h].items[p + 1] = arr[h].data[p] /\ View[h].compare = arr[h].compare
      /\ arr[h].length \in Nat
  BY ItemsAt
<1>2. p \in Index /\ p < arr[h].length /\ arr[h].data[p] \in Elem
  <2>1. Good(arr[h])
    BY BehindPointer
  <2>2. p \in Index /\ p < arr[h].length
    BY <1>1, <2>1, StoredElem
  <2> QED BY <2>1, <2>2 DEF Good, BlockSound
<1>3. Abstract!EqualAt(h, p, x) <=>
        x # Null /\ View[h].compare[View[h].items[p + 1]] = View[h].compare[x]
  BY DEF Abstract!EqualAt, View
<1> QED BY <1>1, <1>2, <1>3 DEF Matches

\* No match in the array is no match in the sequence.
LEMMA NoMatchIsMissing ==
    ASSUME IInv, NEW h \in Handle, NEW x,
           Absent(h) \/ x = Null \/ Matches(arr[h], x) = {}
    PROVE  Abstract!Missing(h, x)
<1> SUFFICES ASSUME h \in Abstract!Live, NEW p \in 0..(Len(View[h].items) - 1)
             PROVE  ~Abstract!EqualAt(h, p, x)
  BY DEF Abstract!Missing, View
<1>1. ~Absent(h)
  BY LiveIsPresent
<1>2. p \in 0..(arr[h].length - 1)
  BY <1>1, ItemsAt
<1> QED BY <1>1, <1>2, EqualIsMatch

\* The first match of the array is the first of the sequence.
LEMMA FirstIsFirst ==
    ASSUME IInv, NEW h \in Handle, ~Absent(h), NEW x, x # Null, NEW p \in Index,
           IsFirstMatch(arr[h], x, p)
    PROVE  Abstract!First(h, p, x) /\ p \in Abstract!Place /\ p < arr[h].length
<1>1. arr[h].length \in Nat
  BY ItemsAt
<1>2. /\ p \in Nat /\ p \in Abstract!Place /\ p < arr[h].length
      /\ p \in 0..(arr[h].length - 1) /\ p \in Matches(arr[h], x)
  BY <1>1, OpsAssumption DEF IsFirstMatch, Matches, Index, Abstract!Place
<1>3. Abstract!Valid(h, p) /\ Abstract!EqualAt(h, p, x)
  BY <1>2, ValidIsInUse, EqualIsMatch
<1>4. ASSUME NEW q \in 0..(p - 1)
      PROVE  ~Abstract!EqualAt(h, q, x)
  <2>1. q \in 0..(arr[h].length - 1) /\ ~(p <= q)
    BY <1>1, <1>2
  <2>2. q \notin Matches(arr[h], x)
    BY <2>1 DEF IsFirstMatch
  <2> QED BY <2>1, <2>2, EqualIsMatch
<1> QED BY <1>2, <1>3, <1>4 DEF Abstract!First

\* A refused call is a refused call.
LEMMA RejectRefines ==
    ASSUME NEW result, ret' = result, UNCHANGED <<arr, held, freed>>
    PROVE  Abstract!Refuse(result)
<1>1. UNCHANGED <<View, held, freed>>
  BY DEF View, Absent, SeqOf
<1> QED BY <1>1 DEF Abstract!Refuse, View

\* Insertions.
LEMMA EnterStep ==
    ASSUME IInv, Owned, NEW h \in Handle, ~Absent(h), NEW x \in held,
           NEW p \in U32, p <= arr[h].length, Enter(h, p, x)
    PROVE  Owned' /\ (Abstract!Refuse(ERR) \/ Abstract!Insert(h, p, x))
<1>1. CASE Reject(ERR)
  BY <1>1, RejectRefines, OwnedSame DEF Reject
<1>2. ASSUME NEW b \in Roomy(arr[h]),
             arr' = [arr EXCEPT ![h] = InsertSlot(b, p, x)],
             held' = held \ {x}, ret' = OK, freed' = freed
      PROVE  Owned' /\ Abstract!Insert(h, p, x)
  <2> DEFINE a == arr[h]
             d == InsertSlot(b, p, x)
  <2>1. Good(a) /\ x \in Elem
    BY BehindPointer DEF IInv, TypeOK
  <2>2. /\ Good(b) /\ b.length = a.length /\ b.length < b.slots /\ b.compare = a.compare
        /\ \A i \in Index : i < a.length => b.data[i] = a.data[i]
    BY <1>2, <2>1, RoomyGood
  <2>3. Stored(b) = Stored(a) /\ Distinct(b) /\ SeqOf(b) = SeqOf(a)
    BY <2>1, <2>2, SameStored, SeqOfSame DEF Owned
  <2>4. x \notin Stored(a) /\ Holds(h) = Stored(a)
    BY DEF Owned, Holds
  <2>5. /\ Good(d) /\ d.compare = a.compare
        /\ Stored(d) = Stored(a) \cup {x} /\ Distinct(d)
        /\ SeqOf(d) = Abstract!InsertAt(SeqOf(a), p + 1, x)
    <3>1. Good(d)
      BY <2>1, <2>2, InsertSlotGood
    <3>2. Stored(d) = Stored(a) \cup {x} /\ Distinct(d)
      BY <2>1, <2>2, <2>3, <2>4, InsertSlotStored
    <3>3. d.compare = a.compare
      BY <2>2, InsertSlotData
    <3>4. SeqOf(d) = Abstract!InsertAt(SeqOf(a), p + 1, x)
      BY <2>1, <2>2, <2>3, InsertSlotSeq
    <3> QED BY <3>1, <3>2, <3>3, <3>4
  <2>6. /\ a.length < MaxU32 /\ a.length \in Nat /\ MaxU32 \in Nat
        /\ Len(SeqOf(a)) = a.length /\ p \in 0..a.length /\ p \in 0..MaxU32
    BY <2>1, <2>2, SeqOfArray, OpsAssumption DEF Good, Array, U32
  <2> HIDE DEF a, d
  <2>7. d # Null
    BY <2>5, DArrayAssumption DEF Good
  <2>8. Owned'
    <3>1. Holds(h) \cap (held \cup freed) = {} /\ held \cap freed = {}
      BY DEF Owned
    <3>2. Stored(d) \cap (held' \cup freed') = {}
      BY <1>2, <2>4, <2>5, <3>1
    <3>3. Stored(d) \cup held' \cup freed' = Holds(h) \cup held \cup freed
      BY <1>2, <2>4, <2>5
    <3>4. held' \cap freed' = {}
      BY <1>2, <3>1
    <3>5. arr' = [arr EXCEPT ![h] = d]
      BY <1>2 DEF d
    <3> QED BY <2>5, <2>7, <3>2, <3>3, <3>4, <3>5, Exchange
  <2>9. View' = [View EXCEPT ![h].items = Abstract!InsertAt(@, p + 1, x)]
    <3>1. View' = [View EXCEPT ![h] = Shown(d)]
      BY <1>2, <2>5, <2>7, ViewOne DEF d
    <3>2. View[h] = Shown(a) /\ DOMAIN View = Handle
      BY ViewAt DEF a, View
    <3>3. Shown(d) = [Shown(a) EXCEPT !.items = Abstract!InsertAt(@, p + 1, x)]
      BY <2>5 DEF Shown
    <3> QED BY <3>1, <3>2, <3>3
  <2>10. Abstract!Insert(h, p, x)
    <3>1. h \in Abstract!Live
      BY LiveIsPresent
    <3>2. View[h].items = SeqOf(a)
      <4>1. View[h] = Shown(a)
        BY ViewAt DEF a
      <4> QED BY <4>1 DEF Shown
    <3> QED BY <1>2, <2>6, <2>9, <3>1, <3>2 DEF Abstract!Insert, Abstract!OK, OK, View
  <2> QED BY <2>8, <2>10
<1> QED BY <1>1, <1>2 DEF Enter

\* Removals: what they have in common.
LEMMA LeaveStep ==
    ASSUME IInv, Owned, NEW h \in Handle, ~Absent(h),
           NEW p \in U32, p < arr[h].length, Leave(h, p)
    PROVE  /\ Abstract!Out(h, p) /\ p \in 0..MaxU32
           /\ View[h].items[p + 1] = arr[h].data[p]
           /\ arr[h].data[p] \in Holds(h)
           /\ \E d : /\ arr' = [arr EXCEPT ![h] = d]
                    /\ d # Null /\ Distinct(d)
                    /\ Stored(d) = Holds(h) \ {arr[h].data[p]}
<1> DEFINE a == arr[h]
           b == RemoveSlot(a, p)
<1>1. Good(a) /\ Distinct(a) /\ Holds(h) = Stored(a)
  BY BehindPointer DEF Owned, Holds
<1>2. PICK d \in Trimmed(b) : arr' = [arr EXCEPT ![h] = d]
  BY DEF Leave
<1>3. Good(b) /\ b.compare = a.compare
  BY <1>1, RemoveSlotGood, RemoveSlotData
<1>4. /\ Good(d) /\ d.length = b.length /\ d.compare = b.compare
      /\ \A i \in Index : i < b.length => d.data[i] = b.data[i]
  BY <1>3, TrimmedGood
<1>5. /\ Stored(b) = Stored(a) \ {a.data[p]} /\ Distinct(b) /\ a.data[p] \in Stored(a)
      /\ SeqOf(b) = Abstract!RemoveAt(SeqOf(a), p + 1)
  BY <1>1, RemoveSlotStored, RemoveSlotSeq
<1>6. Stored(d) = Stored(b) /\ Distinct(d) /\ SeqOf(d) = SeqOf(b)
  BY <1>3, <1>4, <1>5, SameStored, SeqOfSame
<1>7. d # Null
  BY <1>4, DArrayAssumption DEF Good
<1>8. /\ Len(SeqOf(a)) = a.length /\ p \in 0..(a.length - 1) /\ p \in 0..MaxU32
      /\ SeqOf(a)[p + 1] = a.data[p]
  <2>1. /\ Len(SeqOf(a)) = a.length /\ a.length \in Nat
        /\ \A i \in 1..a.length : SeqOf(a)[i] = a.data[i - 1]
    BY <1>1, SeqOfArray
  <2>2. p \in Nat /\ p + 1 \in 1..a.length /\ (p + 1) - 1 = p
    BY <2>1, OpsAssumption DEF U32
  <2> QED BY <2>1, <2>2 DEF U32
<1>9. View[h] = Shown(a) /\ View[h].items = SeqOf(a) /\ DOMAIN View = Handle
  <2>1. View[h] = Shown(a)
    BY ViewAt
  <2> QED BY <2>1 DEF Shown, View
<1>10. View' = [View EXCEPT ![h].items = Abstract!RemoveAt(@, p + 1)]
  <2>1. View' = [View EXCEPT ![h] = Shown(d)]
    BY <1>2, <1>4, <1>7, ViewOne
  <2> HIDE DEF a, b
  <2>2. Shown(d) = [Shown(a) EXCEPT !.items = Abstract!RemoveAt(@, p + 1)]
    BY <1>3, <1>4, <1>5, <1>6 DEF Shown
  <2> QED BY <1>9, <2>1, <2>2
<1>11. h \in Abstract!Live
  BY LiveIsPresent
<1> HIDE DEF a, b
<1>12. Abstract!Out(h, p)
  BY <1>8, <1>9, <1>10, <1>11 DEF Abstract!Out, Abstract!Valid, View
<1>13. View[h].items[p + 1] = a.data[p]
  BY <1>8, <1>9
<1> QED BY <1>1, <1>2, <1>5, <1>6, <1>7, <1>8, <1>12, <1>13 DEF a

LEMMA TakeOutStep ==
    ASSUME IInv, Owned, NEW h \in Handle, ~Absent(h),
           NEW p \in U32, p < arr[h].length, TakeOut(h, p)
    PROVE  Owned' /\ Abstract!Take(h, p)
<1> DEFINE x == arr[h].data[p]
<1>1. Leave(h, p) /\ held' = held \cup {x} /\ ret' = x /\ freed' = freed
  BY DEF TakeOut
<1>2. /\ Abstract!Out(h, p) /\ p \in 0..MaxU32
      /\ View[h].items[p + 1] = x /\ x \in Holds(h)
  BY <1>1, LeaveStep
<1>3. PICK d : /\ arr' = [arr EXCEPT ![h] = d] /\ d # Null /\ Distinct(d)
               /\ Stored(d) = Holds(h) \ {x}
  BY <1>1, LeaveStep
<1> HIDE DEF x
<1>4. Owned'
  <2>1. Holds(h) \cap (held \cup freed) = {} /\ held \cap freed = {}
    BY DEF Owned
  <2>2. Stored(d) \cap (held' \cup freed') = {} /\ held' \cap freed' = {}
    BY <1>1, <1>2, <1>3, <2>1
  <2>3. Stored(d) \cup held' \cup freed' = Holds(h) \cup held \cup freed
    BY <1>1, <1>2, <1>3
  <2> QED BY <1>3, <2>2, <2>3, Exchange
<1>5. Abstract!Take(h, p)
  BY <1>1, <1>2 DEF Abstract!Take, View
<1> QED BY <1>4, <1>5

\* An element that goes to the dealloc callback.
LEMMA DeletedStep ==
    ASSUME IInv, Owned, NEW h \in Handle, ~Absent(h),
           NEW p \in U32, p < arr[h].length, Leave(h, p),
           freed' = freed \cup {arr[h].data[p]}, ret' = OK, held' = held
    PROVE  Owned' /\ Abstract!Drop(h, p)
<1> DEFINE x == arr[h].data[p]
<1>1. freed' = freed \cup {x}
  OBVIOUS
<1>2. /\ Abstract!Out(h, p) /\ p \in 0..MaxU32
      /\ View[h].items[p + 1] = x /\ x \in Holds(h)
  BY LeaveStep
<1>3. PICK d : /\ arr' = [arr EXCEPT ![h] = d] /\ d # Null /\ Distinct(d)
               /\ Stored(d) = Holds(h) \ {x}
  BY LeaveStep
<1> HIDE DEF x
<1>4. Owned'
  <2>1. Holds(h) \cap (held \cup freed) = {} /\ held \cap freed = {}
    BY DEF Owned
  <2>2. Stored(d) \cap (held' \cup freed') = {} /\ held' \cap freed' = {}
    BY <1>1, <1>2, <1>3, <2>1
  <2>3. Stored(d) \cup held' \cup freed' = Holds(h) \cup held \cup freed
    BY <1>1, <1>2, <1>3
  <2> QED BY <1>3, <2>2, <2>3, Exchange
<1>5. Abstract!Drop(h, p)
  BY <1>1, <1>2 DEF Abstract!Drop, View, Abstract!OK, OK
<1> QED BY <1>4, <1>5

\* The client takes the old element and gives a new one.
LEMMA SetStep ==
    ASSUME IInv, Owned, NEW h \in Handle, ~Absent(h), NEW x \in held,
           NEW p \in U32, p < arr[h].length,
           arr' = [arr EXCEPT ![h] = WriteSlot(@, p, x)],
           held' = (held \ {x}) \cup {arr[h].data[p]},
           ret' = OK, freed' = freed
    PROVE  Owned' /\ Abstract!Replace(h, p, x)
<1> DEFINE a == arr[h]
           d == WriteSlot(a, p, x)
<1>1. /\ Good(a) /\ Distinct(a) /\ Holds(h) = Stored(a) /\ x \in Elem
      /\ x \notin Stored(a)
  BY BehindPointer DEF Owned, Holds, IInv, TypeOK
<1>2. arr' = [arr EXCEPT ![h] = d]
  BY DEF IInv, TypeOK
<1>3. /\ Stored(d) = (Stored(a) \ {a.data[p]}) \cup {x} /\ Distinct(d)
      /\ a.data[p] \in Stored(a)
      /\ SeqOf(d) = Abstract!ReplaceAt(SeqOf(a), p + 1, x)
      /\ Good(d)
  BY <1>1, WriteSlotStored, WriteSlotSeq, WriteSlotGood
<1>4. d # Null /\ d.compare = a.compare
  BY <1>1, <1>3, DArrayAssumption DEF Good, Array, WriteSlot
<1>5. /\ Len(SeqOf(a)) = a.length /\ p \in 0..(a.length - 1) /\ p \in 0..MaxU32
      /\ SeqOf(a)[p + 1] = a.data[p]
  <2>1. /\ Len(SeqOf(a)) = a.length /\ a.length \in Nat
        /\ \A i \in 1..a.length : SeqOf(a)[i] = a.data[i - 1]
    BY <1>1, SeqOfArray
  <2>2. p \in Nat /\ p + 1 \in 1..a.length /\ (p + 1) - 1 = p
    BY <2>1, OpsAssumption DEF U32
  <2> QED BY <2>1, <2>2 DEF U32
<1>6. View[h] = Shown(a) /\ View[h].items = SeqOf(a) /\ DOMAIN View = Handle
  <2>1. View[h] = Shown(a)
    BY ViewAt
  <2> QED BY <2>1 DEF Shown, View
<1>7. held' = (held \ {x}) \cup {a.data[p]}
  OBVIOUS
<1> HIDE DEF a, d
<1>8. Owned'
  <2>1. Holds(h) \cap (held \cup freed) = {} /\ held \cap freed = {}
    BY DEF Owned
  <2>2. Stored(d) \cap (held' \cup freed') = {} /\ held' \cap freed' = {}
    BY <1>1, <1>3, <1>7, <2>1
  <2>3. Stored(d) \cup held' \cup freed' = Holds(h) \cup held \cup freed
    BY <1>1, <1>3, <1>7
  <2> QED BY <1>2, <1>3, <1>4, <2>2, <2>3, Exchange
<1>9. View' = [View EXCEPT ![h].items = Abstract!ReplaceAt(@, p + 1, x)]
  <2>1. View' = [View EXCEPT ![h] = Shown(d)]
    BY <1>2, <1>3, <1>4, ViewOne
  <2>2. Shown(d) = [Shown(a) EXCEPT !.items = Abstract!ReplaceAt(@, p + 1, x)]
    BY <1>3, <1>4 DEF Shown
  <2> QED BY <1>6, <2>1, <2>2
<1>10. h \in Abstract!Live
  BY LiveIsPresent
<1>11. Abstract!Replace(h, p, x)
  BY <1>5, <1>6, <1>7, <1>9, <1>10 DEF Abstract!Replace, Abstract!Valid, View,
     Abstract!OK, OK
<1> QED BY <1>8, <1>11

\* A new array: an empty sequence, and nobody owns anything else.
LEMMA CreateStep ==
    ASSUME IInv, Owned, NEW h \in Handle, Absent(h), NEW c \in Compare,
           NEW n \in U32, arr' = [arr EXCEPT ![h] = NewArray(c, n)],
           ret' = h, UNCHANGED <<held, freed>>
    PROVE  Owned' /\ Abstract!New(h, c)
<1> DEFINE d == NewArray(c, n)
<1>1. /\ Good(d) /\ d.compare = c
      /\ SeqOf(d) = <<>> /\ Stored(d) = {} /\ Distinct(d)
  <2>1. Good(d) /\ d.length = 0
    BY NewArrayGood
  <2> QED BY <2>1, EmptySeqOf DEF NewArray
<1>2. d # Null
  BY <1>1, DArrayAssumption DEF Good
<1>3. arr' = [arr EXCEPT ![h] = d]
  OBVIOUS
<1> HIDE DEF d
<1>4. Owned'
  <2>1. Holds(h) = {} /\ held \cap freed = {}
    BY DEF Holds, Owned
  <2>2. /\ Stored(d) \cap (held' \cup freed') = {} /\ held' \cap freed' = {}
        /\ Stored(d) \cup held' \cup freed' = Holds(h) \cup held \cup freed
    BY <1>1, <2>1
  <2> QED BY <1>1, <1>2, <1>3, <2>2, Exchange
<1>5. View' = [View EXCEPT ![h] = [items |-> <<>>, compare |-> c]]
  BY <1>1, <1>2, <1>3, ViewOne DEF Shown
<1>6. Abstract!New(h, c)
  BY <1>5 DEF Abstract!New, View
<1> QED BY <1>4, <1>6

\* Clearing and destroying: everything stored goes to the callback, once.
LEMMA DisposeStep ==
    ASSUME IInv, Owned, NEW h \in Handle, ~Absent(h), NEW survives \in BOOLEAN,
           arr' = [arr EXCEPT ![h] = IF survives THEN Emptied(arr[h]) ELSE Null],
           freed' = freed \cup Stored(arr[h]), ret' = OK, held' = held
    PROVE  Owned' /\ Abstract!Dispose(h, survives)
<1> DEFINE a == arr[h]
           d == IF survives THEN Emptied(a) ELSE Null
<1>1. Good(a) /\ Holds(h) = Stored(a)
  BY BehindPointer DEF Holds
<1>2. survives => /\ Good(d) /\ d # Null /\ d.compare = a.compare
                  /\ SeqOf(d) = <<>> /\ Stored(d) = {} /\ Distinct(d)
  <2> SUFFICES ASSUME survives
               PROVE  /\ Good(d) /\ d # Null /\ d.compare = a.compare
                      /\ SeqOf(d) = <<>> /\ Stored(d) = {} /\ Distinct(d)
    OBVIOUS
  <2>1. Good(d) /\ d # Null
    BY <1>1, EmptiedGood, DArrayAssumption DEF Good
  <2>2. d.compare = a.compare /\ d.length = 0
    BY <1>1 DEF Emptied, Good, Array
  <2> QED BY <2>1, <2>2, EmptySeqOf
<1>3. ~survives => d = Null
  OBVIOUS
<1>4. arr' = [arr EXCEPT ![h] = d] /\ freed' = freed \cup Stored(a)
  OBVIOUS
<1>5. View[h] = Shown(a) /\ View[h].items = SeqOf(a) /\ DOMAIN View = Handle
  <2>1. View[h] = Shown(a)
    BY ViewAt
  <2> QED BY <2>1 DEF Shown, View
<1> HIDE DEF a, d
<1>6. Owned'
  <2>1. Holds(h) \cap (held \cup freed) = {} /\ held \cap freed = {}
    BY DEF Owned
  <2> DEFINE S == IF d = Null THEN {} ELSE Stored(d)
  <2>2. S = {} /\ (d # Null => Distinct(d))
    BY <1>2, <1>3
  <2>3. /\ S \cap (held' \cup freed') = {} /\ held' \cap freed' = {}
        /\ S \cup held' \cup freed' = Holds(h) \cup held \cup freed
    BY <1>1, <1>4, <2>1, <2>2
  <2> QED BY <1>4, <2>2, <2>3, Exchange
<1>7. View' = [View EXCEPT ![h] = IF survives THEN [@ EXCEPT !.items = <<>>] ELSE Null]
  <2>1. View' = [View EXCEPT ![h] = IF d = Null THEN Null ELSE Shown(d)]
    BY <1>2, <1>3, <1>4, ViewOne
  <2>2. survives => Shown(d) = [Shown(a) EXCEPT !.items = <<>>]
    BY <1>2 DEF Shown
  <2> QED BY <1>2, <1>3, <1>5, <2>1, <2>2
<1>8. h \in Abstract!Live
  BY LiveIsPresent
<1>9. Abstract!Range(SeqOf(a)) = Stored(a)
  BY <1>1, SeqOfArray DEF Range, Abstract!Range
<1>10. Abstract!Dispose(h, survives)
  BY <1>4, <1>5, <1>7, <1>8, <1>9 DEF Abstract!Dispose, View, Abstract!OK, OK
<1> QED BY <1>6, <1>10

\* Calls that only look.
LEMMA LookStep ==
    ASSUME IInv, Owned, NEW h \in Handle, ~Absent(h), UNCHANGED <<arr, held, freed>>
    PROVE  Owned' /\ Abstract!Answer(h, ret')
<1>1. Owned'
  BY OwnedSame
<1>2. UNCHANGED <<View, held, freed>>
  BY DEF View, Absent, SeqOf
<1>3. h \in Abstract!Live
  BY LiveIsPresent
<1> QED BY <1>1, <1>2, <1>3 DEF Abstract!Answer, View

\* The block moves, or nothing does: the elements stay.
LEMMA HousekeepingStep ==
    ASSUME IInv, Owned, NEW h \in Handle, ~Absent(h), NEW d, Good(d),
           d.length = arr[h].length, d.compare = arr[h].compare,
           \A i \in Index : i < arr[h].length => d.data[i] = arr[h].data[i],
           arr' = [arr EXCEPT ![h] = d], UNCHANGED <<held, freed>>
    PROVE  Owned' /\ Abstract!Answer(h, ret')
<1> DEFINE a == arr[h]
<1>1. Good(a) /\ Distinct(a) /\ Holds(h) = Stored(a)
  BY BehindPointer DEF Owned, Holds
<1>2. Stored(d) = Stored(a) /\ Distinct(d) /\ SeqOf(d) = SeqOf(a) /\ d # Null
  BY <1>1, SameStored, SeqOfSame, DArrayAssumption DEF Good
<1>3. Owned'
  <2>1. Holds(h) \cap (held \cup freed) = {} /\ held \cap freed = {}
    BY DEF Owned
  <2>2. /\ Stored(d) \cap (held' \cup freed') = {} /\ held' \cap freed' = {}
        /\ Stored(d) \cup held' \cup freed' = Holds(h) \cup held \cup freed
    BY <1>1, <1>2, <2>1
  <2> QED BY <1>2, <2>2, Exchange
<1>4. View' = View
  <2>1. View' = [View EXCEPT ![h] = Shown(d)]
    BY <1>2, ViewOne
  <2>2. View[h] = Shown(a) /\ Shown(d) = Shown(a)
    BY <1>2, ViewAt DEF Shown
  <2>3. View = [g \in Handle |-> View[g]]
    BY DEF View
  <2> QED BY <2>1, <2>2, <2>3
<1>5. h \in Abstract!Live
  BY LiveIsPresent
<1>6. Abstract!Answer(h, ret')
  BY <1>4, <1>5 DEF Abstract!Answer, View
<1> QED BY <1>3, <1>6

\* The mapping, pointer by pointer, before and after a step.
LEMMA ViewHere ==
    /\ \A g \in Handle : View[g] = IF arr[g] = Null THEN Null ELSE Shown(arr[g])
    /\ \A g \in Handle : View'[g] = IF arr'[g] = Null THEN Null ELSE Shown(arr'[g])
    /\ View' = [g \in Handle |-> View'[g]]
<1>1. \A g \in Handle : View[g] = IF arr[g] = Null THEN Null ELSE Shown(arr[g])
  BY DEF View, Shown, Absent
<1>2. \A g \in Handle : View'[g] = IF arr'[g] = Null THEN Null ELSE Shown(arr'[g])
  BY DEF View, Shown, Absent, SeqOf
<1>3. View' = [g \in Handle |-> View'[g]]
  BY DEF View
<1> QED BY <1>1, <1>2, <1>3

\* Joining moves the elements of h2 behind those of h1.
LEMMA JoinStep ==
    ASSUME IInv, Owned, NEW h1 \in Handle, NEW h2 \in Handle, h1 # h2,
           ~Absent(h1), ~Absent(h2), Joinable(arr[h1], arr[h2]),
           NEW a, Good(a), a.length = arr[h1].length, a.compare = arr[h1].compare,
           \A i \in Index : i < arr[h1].length => a.data[i] = arr[h1].data[i],
           a.length + arr[h2].length <= a.slots,
           arr' = [arr EXCEPT ![h1] = Concat(a, arr[h2]), ![h2] = Null],
           ret' = h1, UNCHANGED <<held, freed>>
    PROVE  Owned' /\ Abstract!Append2(h1, h2)
<1> DEFINE a1 == arr[h1]
           a2 == arr[h2]
           d == Concat(a, a2)
<1>1. /\ Good(a1) /\ Good(a2) /\ Distinct(a1) /\ Distinct(a2)
      /\ Holds(h1) = Stored(a1) /\ Holds(h2) = Stored(a2)
      /\ Stored(a1) \cap Stored(a2) = {}
  BY BehindPointer DEF Owned, Holds
<1>2. Stored(a) = Stored(a1) /\ Distinct(a) /\ SeqOf(a) = SeqOf(a1)
  BY <1>1, SameStored, SeqOfSame
<1>3. /\ Good(d) /\ Distinct(d) /\ Stored(d) = Stored(a1) \cup Stored(a2)
      /\ SeqOf(d) = SeqOf(a1) \o SeqOf(a2)
  <2>1. Good(d)
    BY <1>1, ConcatGood
  <2>2. Stored(d) = Stored(a) \cup Stored(a2) /\ Distinct(d)
    BY <1>1, <1>2, ConcatStored
  <2>3. SeqOf(d) = SeqOf(a) \o SeqOf(a2)
    BY <1>1, ConcatSeq
  <2> QED BY <1>2, <2>1, <2>2, <2>3
<1>4. d # Null /\ d.compare = a1.compare
  BY <1>3, DArrayAssumption DEF Good, Array, Concat
<1>5. /\ View[h1] = Shown(a1) /\ View[h2] = Shown(a2) /\ DOMAIN View = Handle
  BY ViewAt DEF View
<1>6. /\ View[h2].items = SeqOf(a2) /\ View[h1].compare = a1.compare
      /\ View[h2].compare = a2.compare /\ a1.compare = a2.compare
  BY <1>5 DEF Shown, Joinable
<1>7. arr' = [arr EXCEPT ![h1] = d, ![h2] = Null]
  OBVIOUS
<1> HIDE DEF a1, a2, d
<1>8. Owned'
  <2> DEFINE B == IF d = Null THEN {} ELSE Stored(d)
             D == IF Null = Null THEN {} ELSE Stored(Null)
  <2>1. B = Stored(d) /\ D = {}
    BY <1>4
  <2>2. B \cap D = {} /\ B \cup D = Holds(h1) \cup Holds(h2)
    BY <1>1, <1>3, <2>1
  <2>3. /\ Null # Null => Distinct(Null)
        /\ d # Null => Distinct(d)
    BY <1>3
  <2> QED BY <1>7, <2>2, <2>3, ExchangeTwo
<1>9. View' = [View EXCEPT ![h1].items = @ \o View[h2].items, ![h2] = Null]
  <2>1. View' = [View EXCEPT ![h1] = Shown(d), ![h2] = Null]
    <3>1. /\ arr'[h1] = d /\ arr'[h2] = Null
          /\ \A g \in Handle : g # h1 /\ g # h2 => arr'[g] = arr[g]
      BY <1>7 DEF IInv, TypeOK
    <3>2. View'[h1] = Shown(d)
      BY <1>4, <3>1, ViewHere
    <3>3. View'[h2] = Null
      BY <3>1, ViewHere
    <3>4. ASSUME NEW g \in Handle, g # h1, g # h2
          PROVE  View'[g] = View[g]
      <4>1. arr'[g] = arr[g]
        BY <3>1, <3>4
      <4>2. View[g] = IF arr[g] = Null THEN Null ELSE Shown(arr[g])
        BY ViewHere
      <4>3. View'[g] = IF arr'[g] = Null THEN Null ELSE Shown(arr'[g])
        BY ViewHere
      <4> QED BY <4>1, <4>2, <4>3
    <3>5. View' = [g \in Handle |-> View'[g]]
      BY ViewHere
    <3> QED BY <1>5, <3>2, <3>3, <3>4, <3>5
  <2> DEFINE joined == SeqOf(a1) \o SeqOf(a2)
  <2>2. Shown(d) = [Shown(a1) EXCEPT !.items = @ \o View[h2].items]
    <3>1. SeqOf(d) = joined /\ Shown(a1).items \o View[h2].items = joined
      BY <1>3, <1>6 DEF Shown
    <3> HIDE DEF joined
    <3>2. Shown(d) = [Shown(a1) EXCEPT !.items = joined]
      BY <1>4, <3>1 DEF Shown
    <3> QED BY <3>1, <3>2
  <2> QED BY <1>5, <2>1, <2>2
<1>10. Abstract!Append2(h1, h2)
  BY <1>9 DEF Abstract!Append2, View
<1> QED BY <1>8, <1>10

\* Splitting moves a stretch of positions to an array of its own.
LEMMA SplitStep ==
    ASSUME IInv, Owned, NEW h \in Handle, NEW h2 \in Handle, h # h2,
           ~Absent(h), Absent(h2), NEW from \in U32, NEW to \in U32,
           Splittable(arr[h], from, to), to - from # arr[h].length,
           arr' = [arr EXCEPT ![h] = CutRest(arr[h], from, to),
                              ![h2] = CutPart(arr[h], from, to)],
           ret' = h2, UNCHANGED <<held, freed>>
    PROVE  Owned' /\ Abstract!Cut(h, from, to, h2)
<1> DEFINE a == arr[h]
           r == CutRest(a, from, to)
           d == CutPart(a, from, to)
           s == SeqOf(a)
<1>1. Good(a) /\ Distinct(a) /\ Holds(h) = Stored(a) /\ Holds(h2) = {}
  BY BehindPointer DEF Owned, Holds
<1>2. Good(r) /\ Good(d) /\ r # Null /\ d # Null
  <2>1. Good(r) /\ Good(d)
    BY <1>1, CutRestGood, CutPartGood
  <2> QED BY <2>1, DArrayAssumption DEF Good
<1>3. /\ Distinct(d) /\ Distinct(r) /\ Stored(d) \cap Stored(r) = {}
      /\ Stored(d) \cup Stored(r) = Stored(a)
  BY <1>1, CutStored
<1>4. /\ SeqOf(d) = SubSeq(s, from + 1, to)
      /\ SeqOf(r) = SubSeq(s, 1, from) \o SubSeq(s, to + 1, Len(s))
  BY <1>1, CutPartSeq, CutRestSeq
<1>5. /\ d.compare = a.compare /\ r.compare = a.compare
      /\ from \in Nat /\ to \in Nat /\ from < to /\ to <= a.length
  BY <1>1, CutSlots
<1>6. Len(s) = a.length /\ from \in 0..MaxU32 /\ to \in 0..MaxU32
  BY <1>1, SeqOfArray DEF U32
<1>7. /\ View[h] = Shown(a) /\ DOMAIN View = Handle
      /\ View[h].items = s /\ View[h].compare = a.compare
  <2>1. View[h] = Shown(a)
    BY ViewAt
  <2> QED BY <2>1 DEF Shown, View
<1>8. arr' = [arr EXCEPT ![h] = r, ![h2] = d]
  OBVIOUS
<1> HIDE DEF a, r, d, s
<1>9. Owned'
  <2> DEFINE B == IF r = Null THEN {} ELSE Stored(r)
             D == IF d = Null THEN {} ELSE Stored(d)
  <2>1. B = Stored(r) /\ D = Stored(d)
    BY <1>2
  <2>2. B \cap D = {} /\ B \cup D = Holds(h) \cup Holds(h2)
    BY <1>1, <1>3, <2>1
  <2> QED BY <1>3, <1>8, <2>2, ExchangeTwo
<1>10. View' = [View EXCEPT
                 ![h].items = SubSeq(s, 1, from) \o SubSeq(s, to + 1, Len(s)),
                 ![h2] = [items |-> SubSeq(s, from + 1, to), compare |-> a.compare]]
  <2>1. View' = [View EXCEPT ![h] = Shown(r), ![h2] = Shown(d)]
    <3>1. /\ arr'[h] = r /\ arr'[h2] = d
          /\ \A g \in Handle : g # h /\ g # h2 => arr'[g] = arr[g]
      BY <1>8 DEF IInv, TypeOK
    <3>2. View'[h] = Shown(r)
      BY <1>2, <3>1, ViewHere
    <3>3. View'[h2] = Shown(d)
      BY <1>2, <3>1, ViewHere
    <3>4. ASSUME NEW g \in Handle, g # h, g # h2
          PROVE  View'[g] = View[g]
      <4>1. arr'[g] = arr[g]
        BY <3>1, <3>4
      <4>2. View[g] = IF arr[g] = Null THEN Null ELSE Shown(arr[g])
        BY ViewHere
      <4>3. View'[g] = IF arr'[g] = Null THEN Null ELSE Shown(arr'[g])
        BY ViewHere
      <4> QED BY <4>1, <4>2, <4>3
    <3>5. View' = [g \in Handle |-> View'[g]]
      BY ViewHere
    <3> QED BY <1>7, <3>2, <3>3, <3>4, <3>5
  <2>2. Shown(d) = [items |-> SubSeq(s, from + 1, to), compare |-> a.compare]
    BY <1>4, <1>5 DEF Shown
  <2> DEFINE rest == SubSeq(s, 1, from) \o SubSeq(s, to + 1, Len(s))
  <2>3. Shown(r) = [Shown(a) EXCEPT !.items = rest]
    <3>1. SeqOf(r) = rest
      BY <1>4
    <3> HIDE DEF rest
    <3> QED BY <1>5, <3>1 DEF Shown
  <2> QED BY <1>7, <2>1, <2>2, <2>3
<1>11. h \in Abstract!Live /\ h2 \notin Abstract!Live
  BY LiveIsPresent
<1>12. 0 <= from /\ to <= Len(s) /\ from < Len(s) - 1 /\ to - from < Len(s)
  <2>1. from < a.length - 1 /\ to - from # a.length /\ a.length \in Nat
    BY <1>1, SeqOfArray DEF Splittable, a
  <2> QED BY <1>5, <1>6, <2>1
<1>13. Abstract!Cut(h, from, to, h2)
  BY <1>5, <1>7, <1>10, <1>11, <1>12 DEF Abstract!Cut, View
<1> QED BY <1>9, <1>13

-----------------------------------------------------------------------------
\* At the start the client owns everything and no sequence exists.
LEMMA InitOwned == Init => Owned /\ Abstract!Init
<1> SUFFICES ASSUME Init
             PROVE  Owned /\ Abstract!Init
  OBVIOUS
<1>1. \A h \in Handle : Absent(h) /\ Holds(h) = {}
  BY DEF Init, Absent, Holds
<1>2. Owned
  BY <1>1 DEF Init, Owned
<1>3. View = [h \in Handle |-> Null]
  BY <1>1 DEF View
<1>4. Abstract!Init
  BY <1>3 DEF Abstract!Init, Init, View
<1> QED BY <1>2, <1>4

\* Every call keeps the books and is the call of that name of ArrayADT.
LEMMA CallsRefine ==
    ASSUME Contract, IInv, Owned
    PROVE  CallsAsPromised /\ (Next => Owned' /\ Abstract!Next)
<1> USE DEF Position
<1>a. \A h \in Handle : ~Absent(h) => Good(arr[h])
  BY BehindPointer
<1>b. \A h \in Handle : ~Absent(h) =>
         /\ arr[h].length \in U32 /\ arr[h].length \in Int
         /\ arr[h].length = Len(View[h].items)
  BY <1>a, ItemsAt, OpsAssumption DEF Good, Array, U32
<1>c. ASSUME NEW result, Reject(result)
      PROVE  Owned' /\ Abstract!Refuse(result)
  BY <1>c, RejectRefines, OwnedSame DEF Reject
<1>d. /\ Null \notin held /\ ERR = Abstract!ERR
      /\ \A h \in Handle : h \in Abstract!Live <=> ~Absent(h)
  BY OpsAssumption, LiveIsPresent DEF IInv, TypeOK, ERR, Abstract!ERR
<1>e. /\ U32 = 0..MaxU32 /\ Abstract!Place = 0..MaxU32 /\ 0 \in U32 /\ U32 \subseteq Nat
  BY OpsAssumption DEF U32, Abstract!Place
<1>f. /\ \A h \in Handle, p \in U32 :
            Abstract!Valid(h, p) <=> ~Absent(h) /\ p < arr[h].length
      /\ \A h \in Handle, p \in U32 : ~Absent(h) /\ p >= arr[h].length => ~Abstract!Valid(h, p)
  BY <1>b, <1>e, ValidIsInUse
<1>g. Mine \subseteq Abstract!Given /\ Known \subseteq Abstract!Given
  BY DEF Mine, Known, Abstract!Given, IInv, TypeOK
<1>1. ASSUME NEW h \in Handle, NEW c \in Compare \cup {Null}, NEW n \in Capacities,
             Create(h, c, n)
      PROVE  Owned' /\ Abstract!Create(h, c)
  <2>1. (IF c = Null THEN DefaultCompare ELSE c) \in Compare /\ n \in U32
    BY OpsAssumption, DArrayAssumption
  <2>2. h \notin Abstract!Live
    BY <1>1, <1>d DEF Create
  <2> QED BY <1>1, <1>c, <2>1, <2>2, CreateStep DEF Create, Abstract!Create
<1>2. ASSUME NEW h \in Handle, NEW x \in Mine, PushBack(h, x)
      PROVE  Owned' /\ Abstract!PushBack(h, x)
  <2>1. CASE Reject(ERR)
    BY <1>c, <1>d, <2>1 DEF Abstract!PushBack
  <2>2. CASE ~Absent(h) /\ x # Null /\ Enter(h, arr[h].length, x)
    <3>1. arr[h].length \in U32 /\ arr[h].length <= arr[h].length /\ x \in held
      BY <1>b, <2>2 DEF Mine
    <3>2. Owned' /\ (Abstract!Refuse(ERR) \/ Abstract!Insert(h, arr[h].length, x))
      BY <2>2, <3>1, EnterStep
    <3>3. h \in Abstract!Live /\ arr[h].length = Len(View[h].items)
      BY <1>b, <1>d, <2>2
    <3> QED BY <1>d, <3>2, <3>3 DEF Abstract!PushBack, View
  <2> QED BY <1>2, <2>1, <2>2 DEF PushBack
<1>3. ASSUME NEW h \in Handle, NEW x \in Mine, PushFront(h, x)
      PROVE  Owned' /\ Abstract!PushFront(h, x)
  <2>1. CASE Reject(ERR)
    BY <1>c, <1>d, <2>1 DEF Abstract!PushFront
  <2>2. CASE ~Absent(h) /\ x # Null /\ Enter(h, 0, x)
    <3>1. 0 <= arr[h].length /\ x \in held
      BY <1>b, <1>e, <2>2 DEF Mine
    <3> QED BY <1>d, <1>e, <2>2, <3>1, EnterStep DEF Abstract!PushFront
  <2> QED BY <1>3, <2>1, <2>2 DEF PushFront
<1>4. ASSUME NEW h \in Handle, NEW p \in Position, NEW x \in Mine, InsertAt(h, p, x)
      PROVE  Owned' /\ Abstract!InsertBefore(h, p, x)
  <2>1. CASE Reject(ERR)
    BY <1>c, <1>d, <2>1 DEF Abstract!InsertBefore
  <2>2. CASE ~Absent(h) /\ p < arr[h].length /\ x # Null /\ Enter(h, p, x)
    <3>1. p <= arr[h].length /\ x \in held /\ Abstract!Valid(h, p)
      BY <1>b, <1>e, <1>f, <2>2 DEF Mine
    <3> QED BY <1>d, <2>2, <3>1, EnterStep DEF Abstract!InsertBefore
  <2> QED BY <1>4, <2>1, <2>2 DEF InsertAt
<1>5. ASSUME NEW h \in Handle, PopBack(h)
      PROVE  Owned' /\ Abstract!PopBack(h)
  <2>1. CASE (Absent(h) \/ arr[h].length = 0) /\ Reject(Null)
    <3>1. ~Abstract!Valid(h, 0)
      BY <1>e, <1>f, <2>1
    <3> QED BY <1>c, <2>1, <3>1 DEF Abstract!PopBack
  <2>2. CASE ~Absent(h) /\ arr[h].length > 0 /\ TakeOut(h, arr[h].length - 1)
    <3>1. arr[h].length - 1 \in U32 /\ arr[h].length - 1 < arr[h].length
      BY <1>b, <1>e, <2>2, OpsAssumption
    <3>2. Owned' /\ Abstract!Take(h, arr[h].length - 1)
      BY <2>2, <3>1, TakeOutStep
    <3>3. h \in Abstract!Live /\ arr[h].length = Len(View[h].items)
      BY <1>b, <1>d, <2>2
    <3> QED BY <3>2, <3>3 DEF Abstract!PopBack, View
  <2> QED BY <1>5, <2>1, <2>2 DEF PopBack
<1>6. ASSUME NEW h \in Handle, PopFront(h)
      PROVE  Owned' /\ Abstract!PopFront(h)
  <2>1. CASE (Absent(h) \/ arr[h].length = 0) /\ Reject(Null)
    <3>1. ~Abstract!Valid(h, 0)
      BY <1>e, <1>f, <2>1
    <3> QED BY <1>c, <2>1, <3>1 DEF Abstract!PopFront
  <2>2. CASE ~Absent(h) /\ arr[h].length > 0 /\ TakeOut(h, 0)
    <3>1. 0 < arr[h].length
      BY <1>b, <2>2
    <3> QED BY <1>e, <2>2, <3>1, TakeOutStep DEF Abstract!PopFront
  <2> QED BY <1>6, <2>1, <2>2 DEF PopFront
<1>7. ASSUME NEW h \in Handle, NEW p \in Position, RemoveAt(h, p)
      PROVE  Owned' /\ Abstract!TakeAt(h, p)
  BY <1>7, <1>c, <1>f, TakeOutStep DEF RemoveAt, Abstract!TakeAt
<1>8. ASSUME NEW h \in Handle, NEW p \in Position, NEW d \in BOOLEAN, DeleteAt(h, p, d)
      PROVE  Owned' /\ Abstract!DeleteAt(h, p, d)
  BY <1>8, <1>c, <1>d, <1>f, DeletedStep DEF DeleteAt, Abstract!DeleteAt
<1>9. ASSUME NEW h \in Handle, NEW x \in Known, NEW d \in BOOLEAN, Delete(h, x, d)
      PROVE  Owned' /\ Abstract!Delete(h, x, d)
  <2>1. CASE (Absent(h) \/ x = Null \/ ~d \/ Matches(arr[h], x) = {}) /\ Reject(ERR)
    <3>1. Abstract!Missing(h, x) \/ ~d
      BY <2>1, NoMatchIsMissing
    <3> QED BY <1>c, <1>d, <2>1, <3>1 DEF Abstract!Delete
  <2>2. ASSUME ~Absent(h), x # Null, d, NEW p \in Index, IsFirstMatch(arr[h], x, p),
               arr[h].data[p] = x, Leave(h, p),
               held' = held \ {x}, freed' = freed \cup {x}, ret' = OK
        PROVE  Owned' /\ Abstract!Delete(h, x, d)
    <3>1. /\ p \in U32 /\ p < arr[h].length
          /\ Abstract!First(h, p, x) /\ p \in Abstract!Place
      BY <2>2, <1>e, FirstIsFirst
    <3>2. x \in Holds(h)
      BY <2>2, <3>1, LeaveStep
    <3>3. held' = held
      BY <2>2, <3>2 DEF Owned
    <3>4. Owned' /\ Abstract!Drop(h, p)
      BY <2>2, <3>1, <3>3, DeletedStep
    <3> QED BY <2>2, <3>1, <3>4 DEF Abstract!Delete
  <2> QED BY <1>9, <2>1, <2>2 DEF Delete, Contract
<1>10. ASSUME NEW h \in Handle, NEW p \in Position, NEW x \in Mine, Set(h, p, x)
       PROVE  Owned' /\ Abstract!Set(h, p, x)
  <2>1. CASE (Absent(h) \/ p >= arr[h].length \/ x = Null) /\ Reject(ERR)
    <3>1. ~(Abstract!Valid(h, p) /\ x # Null)
      BY <1>f, <2>1
    <3> QED BY <1>c, <1>d, <2>1, <3>1 DEF Abstract!Set
  <2>2. CASE /\ ~Absent(h) /\ x # Null /\ p < arr[h].length
             /\ arr' = [arr EXCEPT ![h] = WriteSlot(@, p, x)]
             /\ held' = (held \ {x}) \cup {arr[h].data[p]}
             /\ ret' = OK /\ freed' = freed
    BY <2>2, SetStep DEF Mine, Abstract!Set
  <2> QED BY <1>10, <2>1, <2>2 DEF Set
<1>11. ASSUME NEW h \in Handle, NEW p \in Position, Get(h, p)
       PROVE  Owned' /\ Abstract!Get(h, p)
  <2>1. CASE (Absent(h) \/ p >= arr[h].length) /\ Reject(Null)
    BY <1>c, <1>f, <2>1 DEF Abstract!Get
  <2>2. CASE /\ ~Absent(h) /\ p < arr[h].length
             /\ ret' = arr[h].data[p] /\ UNCHANGED <<arr, held, freed>>
    <3>1. Owned' /\ Abstract!Answer(h, ret') /\ Abstract!Valid(h, p)
      BY <1>f, <2>2, LookStep
    <3>2. p \in 0..(arr[h].length - 1)
      BY <1>b, <1>e, <2>2
    <3>3. ret' = View[h].items[p + 1]
      BY <2>2, <3>2, ItemsAt
    <3> QED BY <3>1, <3>3 DEF Abstract!Get, View
  <2> QED BY <1>11, <2>1, <2>2 DEF Get
<1>12. ASSUME NEW h \in Handle, NEW x \in Known, IndexOf(h, x)
       PROVE  Owned' /\ Abstract!IndexOf(h, x)
  <2>1. CASE /\ Absent(h) \/ x = Null \/ Matches(arr[h], x) = {}
             /\ ret' = ERR /\ UNCHANGED <<arr, held, freed>>
    <3>1. Abstract!Missing(h, x)
      BY <2>1, NoMatchIsMissing
    <3>2. Owned' /\ Abstract!Refuse(ERR)
      BY <2>1, RejectRefines, OwnedSame
    <3> QED BY <1>d, <3>1, <3>2 DEF Abstract!IndexOf
  <2>2. ASSUME ~Absent(h), x # Null, NEW p \in Index, IsFirstMatch(arr[h], x, p),
               ret' = p, UNCHANGED <<arr, held, freed>>
        PROVE  Owned' /\ Abstract!IndexOf(h, x)
    <3>1. Abstract!First(h, p, x) /\ p \in Abstract!Place
      BY <2>2, FirstIsFirst
    <3>2. Owned' /\ Abstract!Answer(h, p)
      BY <2>2, LookStep
    <3> QED BY <3>1, <3>2 DEF Abstract!IndexOf
  <2> QED BY <1>12, <2>1, <2>2 DEF IndexOf, Reject
<1>13. ASSUME NEW h \in Handle, NEW n \in Capacities, Expand(h, n)
       PROVE  Owned' /\ Abstract!Expand(h)
  <2>1. CASE Reject(ERR)
    BY <2>1, <1>c, <1>d DEF Abstract!Expand
  <2>2. CASE /\ ~Absent(h) /\ n > arr[h].capacity
             /\ arr' = [arr EXCEPT ![h] = Exactly(@, n)]
             /\ ret' = OK /\ UNCHANGED <<held, freed>>
    <3>1. n \in U32 /\ arr[h].length <= n
      BY <1>a, <2>2, DArrayAssumption, OpsAssumption DEF Good, BlockSound, Array, U32
    <3>2. Good(arr[h]) /\ arr' = [arr EXCEPT ![h] = Exactly(arr[h], n)]
      BY <1>a, <2>2 DEF IInv, TypeOK
    <3> DEFINE d == Exactly(arr[h], n)
    <3>3. /\ Good(d) /\ d.length = arr[h].length /\ d.compare = arr[h].compare
          /\ \A i \in Index : i < arr[h].length => d.data[i] = arr[h].data[i]
      BY <3>1, <3>2, ExactlyGood
    <3> HIDE DEF d
    <3>4. arr' = [arr EXCEPT ![h] = d]
      BY <3>2 DEF d
    <3>5. Owned' /\ Abstract!Answer(h, ret')
      BY <2>2, <3>3, <3>4, HousekeepingStep
    <3> QED BY <2>2, <3>5 DEF Abstract!Expand, OK, Abstract!OK
  <2> QED BY <1>13, <2>1, <2>2 DEF Expand
<1>14. ASSUME NEW h \in Handle, ShrinkToFit(h)
       PROVE  Owned' /\ Abstract!ShrinkToFit(h)
  <2>1. CASE Reject(ERR)
    BY <2>1, <1>c, <1>d DEF Abstract!ShrinkToFit
  <2>2. CASE /\ ~Absent(h)
             /\ arr' = [arr EXCEPT ![h] = Exactly(@, @.length)]
             /\ ret' = OK /\ UNCHANGED <<held, freed>>
    <3>1. arr[h].length \in U32 /\ arr[h].length <= arr[h].length
      BY <1>b, <2>2
    <3> DEFINE d == Exactly(arr[h], arr[h].length)
    <3>2. Good(arr[h]) /\ arr' = [arr EXCEPT ![h] = d]
      BY <1>a, <2>2 DEF IInv, TypeOK
    <3>3. /\ Good(d) /\ d.length = arr[h].length /\ d.compare = arr[h].compare
          /\ \A i \in Index : i < arr[h].length => d.data[i] = arr[h].data[i]
      BY <3>1, <3>2, ExactlyGood
    <3> HIDE DEF d
    <3>4. Owned' /\ Abstract!Answer(h, ret')
      BY <2>2, <3>2, <3>3, HousekeepingStep
    <3> QED BY <2>2, <3>4 DEF Abstract!ShrinkToFit, OK, Abstract!OK
  <2> QED BY <1>14, <2>1, <2>2 DEF ShrinkToFit
<1>15. ASSUME NEW h \in Handle, NEW r \in Rates, SetExpandRate(h, r)
       PROVE  Owned' /\ Abstract!SetExpandRate(h, r)
  <2> DEFINE rate == IF r = 0 THEN 1 ELSE r
             d == [arr[h] EXCEPT !.rate = rate]
  <2>1. rate \in 1..MaxU32
    BY DArrayAssumption, OpsAssumption DEF U32
  <2>2. ~Absent(h) /\ Good(arr[h])
    BY <1>15, <1>a DEF SetExpandRate
  <2>3. /\ Good(d) /\ d.rate = rate /\ d.length = arr[h].length
        /\ d.compare = arr[h].compare /\ d.data = arr[h].data
    BY <2>1, <2>2 DEF Good, BlockSound, Array
  <2>4. arr' = [arr EXCEPT ![h] = d]
    BY <1>15 DEF SetExpandRate, IInv, TypeOK
  <2>5. arr'[h] = d /\ ret' = arr'[h].rate
    BY <1>15, <2>4 DEF SetExpandRate, IInv, TypeOK
  <2> HIDE DEF d
  <2>6. Owned' /\ Abstract!Answer(h, ret')
    BY <1>15, <2>2, <2>3, <2>4, HousekeepingStep DEF SetExpandRate
  <2>7. ret' = rate
    BY <2>3, <2>5
  <2> QED BY <2>6, <2>7 DEF Abstract!SetExpandRate
<1>16. ASSUME NEW h1 \in Handle, NEW h2 \in Handle, Join(h1, h2)
       PROVE  Owned' /\ Abstract!Join(h1, h2)
  <2>1. ASSUME ~Absent(h1), ~Absent(h2)
        PROVE  /\ View[h1].compare = arr[h1].compare /\ View[h2].compare = arr[h2].compare
               /\ Len(View[h1].items) = arr[h1].length /\ arr[h1].length \in Nat
               /\ Len(View[h2].items) = arr[h2].length /\ arr[h2].length \in Nat
               /\ View[h1].items # <<>> <=> arr[h1].length # 0
               /\ View[h2].items # <<>> <=> arr[h2].length # 0
    <3>1. \A h \in {h1, h2} : View[h].items \in Seq(Elem)
      BY <1>a, <2>1, ItemsAt, SeqOfArray
    <3>2. \A s \in Seq(Elem) : s # <<>> <=> Len(s) # 0
      OBVIOUS
    <3> QED BY <2>1, <3>1, <3>2, ItemsAt
  <2>2. Abstract!Joinable(h1, h2) <=>
          h1 # h2 /\ ~Absent(h1) /\ ~Absent(h2) /\ Joinable(arr[h1], arr[h2])
    <3>1. Abstract!Joinable(h1, h2) <=>
            /\ {h1, h2} \subseteq Abstract!Live /\ h1 # h2
            /\ View[h1].items # <<>> /\ View[h2].items # <<>>
            /\ Len(View[h1].items) + Len(View[h2].items) <= MaxU32
            /\ View[h1].compare = View[h2].compare
      BY DEF Abstract!Joinable, View
    <3> QED BY <1>d, <2>1, <3>1 DEF Joinable
  <2>3. CASE /\ Absent(h1) \/ Absent(h2) \/ ~Joinable(arr[h1], arr[h2])
             /\ Reject(Null)
    BY <1>c, <2>2, <2>3 DEF Abstract!Join
  <2>4. ASSUME ~Absent(h1), ~Absent(h2), Joinable(arr[h1], arr[h2]), h1 # h2,
               NEW a \in Widened(arr[h1], arr[h1].length + arr[h2].length),
               arr' = [arr EXCEPT ![h1] = Concat(a, arr[h2]), ![h2] = Null],
               ret' = h1, UNCHANGED <<held, freed>>
        PROVE  Owned' /\ Abstract!Join(h1, h2)
    <3> DEFINE total == arr[h1].length + arr[h2].length
    <3>1. Good(arr[h1]) /\ Good(arr[h2]) /\ total \in U32 /\ arr[h1].length <= total
      BY <1>a, <1>b, <2>4, OpsAssumption DEF Joinable, U32
    <3>2. /\ Good(a) /\ a.length = arr[h1].length /\ a.compare = arr[h1].compare
          /\ \A i \in Index : i < arr[h1].length => a.data[i] = arr[h1].data[i]
          /\ a.length + arr[h2].length <= a.slots
      <4>1. CASE arr[h1].capacity >= total
        <5>1. a = arr[h1] /\ arr[h1].slots = arr[h1].capacity
          BY <2>4, <3>1, <4>1 DEF Widened, Good, BlockSound
        <5> QED BY <3>1, <4>1, <5>1
      <4>2. CASE ~(arr[h1].capacity >= total)
        <5>1. a = Exactly(arr[h1], total)
          BY <2>4, <4>2 DEF Widened, Contract
        <5>2. /\ Good(a) /\ a.length = arr[h1].length /\ a.slots = total
              /\ a.compare = arr[h1].compare
              /\ \A i \in Index : i < arr[h1].length => a.data[i] = arr[h1].data[i]
          BY <3>1, <5>1, ExactlyGood
        <5>3. total <= total
          BY <3>1, OpsAssumption DEF U32
        <5> QED BY <5>2, <5>3
      <4> QED BY <4>1, <4>2
    <3> HIDE DEF total
    <3>3. Owned' /\ Abstract!Append2(h1, h2)
      BY <2>4, <3>2, JoinStep
    <3> QED BY <2>2, <2>4, <3>3 DEF Abstract!Join
  <2> QED BY <1>16, <2>3, <2>4 DEF Join
<1>17. ASSUME NEW h \in Handle, NEW h2 \in Handle, NEW from \in Position,
              NEW to \in Position, Split(h, from, to, h2)
       PROVE  Owned' /\ Abstract!Split(h, from, to, h2)
  <2>1. CASE Reject(Null)
    BY <2>1, <1>c DEF Abstract!Split
  <2>2. CASE /\ ~Absent(h) /\ Splittable(arr[h], from, to)
             /\ to - from # arr[h].length
             /\ arr' = [arr EXCEPT ![h]  = CutRest(@, from, to),
                                  ![h2] = CutPart(arr[h], from, to)]
             /\ ret' = h2 /\ UNCHANGED <<held, freed>>
    <3>1. h # h2 /\ Absent(h2)
      BY <1>17 DEF Split
    <3>2. arr' = [arr EXCEPT ![h]  = CutRest(arr[h], from, to),
                             ![h2] = CutPart(arr[h], from, to)]
      BY <2>2 DEF IInv, TypeOK
    <3> QED BY <2>2, <3>1, <3>2, SplitStep DEF Abstract!Split
  <2> QED BY <1>17, <2>1, <2>2 DEF Split, Contract
<1>18. ASSUME NEW h \in Handle, NEW d \in BOOLEAN, Clear(h, d)
       PROVE  Owned' /\ Abstract!Clear(h, d)
  <2>1. CASE (Absent(h) \/ ~d) /\ Reject(ERR)
    BY <2>1, <1>c, <1>d DEF Abstract!Clear
  <2>2. CASE /\ ~Absent(h) /\ d
             /\ arr' = [arr EXCEPT ![h] = Emptied(arr[h])]
             /\ freed' = freed \cup Stored(arr[h])
             /\ ret' = OK /\ held' = held
    <3> DEFINE survives == TRUE
    <3>1. arr' = [arr EXCEPT ![h] = IF survives THEN Emptied(arr[h]) ELSE Null]
      BY <2>2
    <3>2. survives \in BOOLEAN /\ survives = TRUE
      OBVIOUS
    <3> HIDE DEF survives
    <3>3. Owned' /\ Abstract!Dispose(h, survives)
      BY <2>2, <3>1, <3>2, DisposeStep
    <3> QED BY <2>2, <3>2, <3>3 DEF Abstract!Clear
  <2> QED BY <1>18, <2>1, <2>2 DEF Clear, Release
<1>19. ASSUME NEW h \in Handle, NEW d \in BOOLEAN, Destroy(h, d)
       PROVE  Owned' /\ Abstract!Destroy(h, d)
  <2>1. CASE (Absent(h) \/ ~d) /\ Reject(ERR)
    BY <2>1, <1>c, <1>d DEF Abstract!Destroy
  <2>2. CASE /\ ~Absent(h) /\ d
             /\ arr' = [arr EXCEPT ![h] = Null]
             /\ freed' = freed \cup Stored(arr[h])
             /\ ret' = OK /\ held' = held
    <3> DEFINE survives == FALSE
    <3>1. arr' = [arr EXCEPT ![h] = IF survives THEN Emptied(arr[h]) ELSE Null]
      BY <2>2
    <3>2. survives \in BOOLEAN /\ survives = FALSE
      OBVIOUS
    <3> HIDE DEF survives
    <3>3. Owned' /\ Abstract!Dispose(h, survives)
      BY <2>2, <3>1, <3>2, DisposeStep
    <3> QED BY <2>2, <3>2, <3>3 DEF Abstract!Destroy
  <2> QED BY <1>19, <2>1, <2>2 DEF Destroy, Release
<1>20. ASSUME NEW h \in Handle, NEW d \in BOOLEAN, Traverse(h, d)
       PROVE  Owned' /\ Abstract!Traverse(h, d)
  <2>1. CASE (Absent(h) \/ ~d) /\ Reject(ERR)
    BY <2>1, <1>c, <1>d DEF Abstract!Traverse
  <2>2. CASE /\ ~Absent(h) /\ d
             /\ ret' \in IF arr[h].length = 0 THEN {OK} ELSE {OK, ERR}
             /\ UNCHANGED <<arr, held, freed>>
    <3>1. Owned' /\ Abstract!Answer(h, ret')
      BY <2>2, LookStep
    <3>2. ret' = Abstract!OK \/ (ret' = Abstract!ERR /\ Abstract!Valid(h, 0))
      BY <1>b, <1>e, <1>f, <2>2 DEF OK, ERR, Abstract!OK, Abstract!ERR
    <3> QED BY <2>2, <3>1, <3>2 DEF Abstract!Traverse
  <2> QED BY <1>20, <2>1, <2>2 DEF Traverse
<1>21. CallsAsPromised
  BY <1>1, <1>2, <1>3, <1>4, <1>5, <1>6, <1>7, <1>8, <1>9, <1>10, <1>11, <1>12,
     <1>13, <1>14, <1>15, <1>16, <1>17, <1>18, <1>19, <1>20 DEF CallsAsPromised
<1>22. Next => Owned'
  BY <1>1, <1>2, <1>3, <1>4, <1>5, <1>6, <1>7, <1>8, <1>9, <1>10, <1>11, <1>12,
     <1>13, <1>14, <1>15, <1>16, <1>17, <1>18, <1>19, <1>20 DEF Next
<1>23. Next => Abstract!Next
  <2>1. Rates \subseteq 0..MaxU32
    BY <1>e, DArrayAssumption
  <2> QED
    BY <1>e, <1>g, <2>1, <1>1, <1>2, <1>3, <1>4, <1>5, <1>6, <1>7, <1>8, <1>9, <1>10,
       <1>11, <1>12, <1>13, <1>14, <1>15, <1>16, <1>17, <1>18, <1>19, <1>20
       DEF Next, Abstract!Next
<1> QED BY <1>21, <1>22, <1>23

\* The same for the steps of the specification, stuttering included.
LEMMA NextRefines ==
    Contract /\ IInv /\ Owned /\ [Next]_vars
      => Owned' /\ [Abstract!Next]_(Abstract!vars) /\ [CallsAsPromised]_vars
<1> SUFFICES ASSUME Contract, IInv, Owned, [Next]_vars
             PROVE  Owned' /\ [Abstract!Next]_(Abstract!vars) /\ [CallsAsPromised]_vars
  OBVIOUS
<1>1. CASE Next
  BY <1>1, CallsRefine
<1>2. CASE UNCHANGED vars
  <2>1. Owned'
    BY <1>2, OwnedSame DEF vars
  <2>2. UNCHANGED <<View, held, freed, ret>>
    BY <1>2 DEF vars, View, Absent, SeqOf
  <2>3. UNCHANGED Abstract!vars
    BY <2>2 DEF Abstract!vars, View
  <2> QED BY <1>2, <2>1, <2>3
<1> QED BY <1>1, <1>2

\* Within the contract no element is lost, freed while stored, freed twice or
\* stored twice, after any sequence of calls and refused requests.
THEOREM OneOwner == Contract => (Spec => []Ownership)
<1> SUFFICES ASSUME Contract
             PROVE  Spec => []Ownership
  OBVIOUS
<1>1. Init => IInv /\ Owned
  BY InitKeeps, InitOwned
<1>2. IInv /\ Owned /\ [Next]_vars => (IInv /\ Owned)'
  BY NextKeeps, NextRefines
<1>3. IInv /\ Owned => Ownership
  BY OwnedIsOwnership
<1> QED BY <1>1, <1>2, <1>3, PTL DEF Spec

\* Within the contract the calls of d_array.h implement sequences, call by call:
\* each does to the sequence, the owners and its result what ArrayADT says of the
\* call of that name with those arguments, whatever the memory block underneath
\* has been through.
THEOREM Refinement == Contract => (Spec => ImplementsSequences)
<1> SUFFICES ASSUME Contract
             PROVE  Spec => ImplementsSequences
  OBVIOUS
<1>1. Init => IInv /\ Owned /\ Abstract!Init
  BY InitKeeps, InitOwned
<1>2. IInv /\ Owned /\ [Next]_vars
        => /\ (IInv /\ Owned)'
           /\ [Abstract!Next]_(Abstract!vars)
           /\ [CallsAsPromised]_vars
  BY NextKeeps, NextRefines
<1> QED BY <1>1, <1>2, PTL DEF Spec, ImplementsSequences, Abstract!Spec
=============================================================================
