----------------------------- MODULE DArrayOps -----------------------------
(***************************************************************************)
(* The struct d_array of d_array.h and the steps its functions are made of *)
(* as operators on a record, shared by every module whose state holds a    *)
(* d_array: DArray, Heap and what is built on them.                        *)
(*                                                                         *)
(* Abstractions.  An element is a pointer, one value of Elem; a compare    *)
(* callback is the rank function it orders elements by.  The memory block  *)
(* is data plus the ghost field slots, the number of pointers the          *)
(* allocator really granted: an index at or beyond slots is outside the    *)
(* block, whatever capacity and length say.  A slot at or beyond length    *)
(* holds a stale or uninitialised pointer; it is Junk, so that reading one *)
(* shows.                                                                  *)
(***************************************************************************)
EXTENDS Integers

CONSTANTS Elem,         \* the pointers a client stores
          Null,         \* the NULL pointer
          Junk,         \* a stale or uninitialised pointer
          MaxU32,       \* UINT32_MAX
          DefaultRate,  \* D_ARRAY_DEFAULT_EXPAND_RATE
          Compare,      \* the compare callbacks: rank functions on Elem
          DefaultCompare \* default_compare, used when the client passes NULL

ASSUME OpsAssumption ==
    /\ Null \notin Elem
    /\ Junk \notin Elem
    /\ Junk # Null
    /\ MaxU32 \in Nat \ {0}
    /\ DefaultRate \in 1..MaxU32
    /\ Compare \subseteq [Elem -> Int]
    /\ Null \notin Compare
    /\ DefaultCompare \in Compare

U32 == 0..MaxU32

\* CERB_OK and CERB_ERR of dbg.h.
OK == 0
ERR == -1

\* Every index a uint32_t length can reach.
Index == 0..(MaxU32 - 1)

\* struct d_array.
Array == [compare  : Compare,
          data     : [Index -> Elem \cup {Junk}],
          slots    : U32,
          capacity : U32,
          length   : U32,
          rate     : 1..MaxU32]

\* Definitions named Bug... are the operators after them with one mistake; no
\* specification uses them.  The README says which property notices which.

\* d_array_create, once both mallocs have succeeded.
BugNewArrayNoRate(compare, capacity) ==
    [compare |-> compare, data |-> [i \in Index |-> Junk], slots |-> capacity,
     capacity |-> capacity, length |-> 0, rate |-> 0]

NewArray(compare, capacity) ==
    [compare  |-> compare,
     data     |-> [i \in Index |-> Junk],
     slots    |-> capacity,
     capacity |-> capacity,
     length   |-> 0,
     rate     |-> DefaultRate]

\* d_array_resize when the allocator grants the block.  It moves the block
\* only: capacity stays the caller's business, except when nothing is asked.
Resize(a, size) ==
    IF size = 0
      THEN [a EXCEPT !.data = [i \in Index |-> Junk], !.slots = 0,
                     !.length = 0, !.capacity = 0]
      ELSE [a EXCEPT !.data = [i \in Index |-> IF i < size THEN a.data[i] ELSE Junk],
                     !.slots = size]

\* A granted d_array_resize and the assignment of capacity that follows it.
Exactly(a, size) == [Resize(a, size) EXCEPT !.capacity = size]

\* d_array_grow.
Grow(a) == [Resize(a, a.capacity + a.rate) EXCEPT !.capacity = @ + a.rate]

\* capacity is not brought down with the block.
BugShrinkBlockOnly(a) == Resize(a, a.capacity - a.rate)

\* d_array_shrink: nothing is subtracted once resize has zeroed capacity.
Shrink(a) ==
    LET b == Resize(a, a.capacity - a.rate)
    IN  [b EXCEPT !.capacity = IF @ = 0 THEN 0 ELSE @ - a.rate]

\* The arrays an insertion may go on with: one that has room as it is, or the
\* grown one.  Growing may also be refused, by the 32-bit limit or the allocator.
BugMustGrowLate(a) == a.length > a.capacity
MustGrow(a) == a.length = a.capacity
Roomy(a) ==
    IF ~MustGrow(a) THEN {a}
    ELSE IF a.capacity + a.rate > MaxU32 THEN {} ELSE {Grow(a)}

\* Memory is given back without a look at what is free.
BugTrimmedEager(a) == {a, Shrink(a)}

\* What a removal may leave: the block is offered back once a whole expand_rate
\* is free.  The result of the shrink is ignored, so a refused realloc keeps the
\* block; giving it all back is a free(), which cannot be refused.
Trimmed(a) ==
    IF a.capacity - a.rate < a.length THEN {a}
    ELSE IF a.capacity = a.rate THEN {Shrink(a)} ELSE {a, Shrink(a)}

\* The loop stops one element early.
BugRemoveSlotShort(a, p) ==
    [a EXCEPT !.data = [i \in Index |->
                          IF i < p THEN a.data[i]
                          ELSE IF i < a.length - 2 THEN a.data[i + 1] ELSE Junk],
              !.length = @ - 1]

\* The shifting loops: x enters at position p, or the element at p leaves.
InsertSlot(a, p, x) ==
    [a EXCEPT !.data = [i \in Index |->
                          IF i < p THEN a.data[i]
                          ELSE IF i = p THEN x
                          ELSE IF i <= a.length THEN a.data[i - 1] ELSE Junk],
              !.length = @ + 1]

RemoveSlot(a, p) ==
    [a EXCEPT !.data = [i \in Index |->
                          IF i < p THEN a.data[i]
                          ELSE IF i < a.length - 1 THEN a.data[i + 1] ELSE Junk],
              !.length = @ - 1]

WriteSlot(a, p, x) == [a EXCEPT !.data[p] = x]

\* The checks of d_array_join, and its memcpy: the elements of b behind those of a.
Joinable(a, b) ==
    /\ a.length # 0 /\ b.length # 0
    /\ a.length + b.length <= MaxU32
    /\ a.compare = b.compare

Concat(a, b) ==
    [a EXCEPT !.data = [i \in Index |-> IF i < a.length \/ i >= a.length + b.length
                                       THEN a.data[i] ELSE b.data[i - a.length]],
              !.length = @ + b.length]

\* The pointers the array holds.
Stored(a) == {a.data[i] : i \in 0..(a.length - 1)}

\* Slots lo..hi-1 lie in the block the allocator granted.
InBlock(a, hi) == hi <= a.slots

(***************************************************************************)
(* What every operation relies on: capacity is the size of the block, no   *)
(* element lies outside it, and no slot below length is stale.             *)
(***************************************************************************)
BlockSound(a) ==
    /\ a.capacity = a.slots
    /\ a.length <= a.capacity
    /\ \A i \in Index : a.data[i] \in Elem <=> i < a.length
=============================================================================
