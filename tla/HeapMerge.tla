----------------------------- MODULE HeapMerge -----------------------------
(***************************************************************************)
(* Building a heap from a whole array, and from two heaps: heapify,        *)
(* heap_merge and heap_meld of heap.c and heap.h.  Each ends in the loops  *)
(* of heapify, which run emerge and sink, one iteration a step, over the   *)
(* positions of one array; they are the EmergeStep and SinkStep of Heap.   *)
(*                                                                         *)
(* The operands array1 and array2 start with any contents push_back or     *)
(* heap_insert could have given them; heap is the array being heapified    *)
(* and then the result.                                                    *)
(***************************************************************************)
EXTENDS Heap, Sequences

CONSTANTS Deal,     \* the elements, each once, in the order they are stored
          Lengths,  \* bound: the lengths of the operands
          Spares    \* bound: how many free slots array1 has

ASSUME HeapMergeAssumption ==
    /\ Deal \in Seq(Elem)
    /\ \A j, k \in 1..Len(Deal) : Deal[j] = Deal[k] => j = k
    /\ Lengths \subseteq U32
    /\ Spares \subseteq U32

VARIABLES array1, array2,  \* the operands, Null once they are consumed
          phase,           \* where heapify is: "none", "leaves", "up", "down"
          i                \* its loop variable

mergeVars == <<vars, array1, array2, phase, i>>

MergeTypeOK ==
    /\ TypeOK
    /\ array1 \in Array \cup {Null}
    /\ array2 \in Array \cup {Null}
    /\ phase \in {"none", "leaves", "up", "down"}
    /\ i \in U32

\* An array with that capacity, which holds the elements of s in that order.
Holding(compare, s, capacity) ==
    [NewArray(compare, capacity) EXCEPT
        !.length = Len(s),
        !.data = [j \in Index |-> IF j < Len(s) THEN s[j + 1] ELSE Junk]]

\* Which element is stored where does not matter, only how they compare: they are
\* dealt out in one order, under every compare callback.
MergeInit ==
    /\ heap = Null /\ held = {} /\ freed = {} /\ ret = Null
    /\ fault = FALSE /\ pc = "idle" /\ pos = 0 /\ pending = FALSE
    /\ \E compare \in Compare, n1, n2 \in Lengths, spare \in Spares :
          /\ n1 + n2 <= Len(Deal)
          /\ n1 + spare <= MaxU32
          /\ array1 = Holding(compare, SubSeq(Deal, 1, n1), n1 + spare)
          /\ array2 = Holding(compare, SubSeq(Deal, n1 + 1, n1 + n2), n2)
    /\ phase = "none"
    /\ i = 0

-----------------------------------------------------------------------------
\* The usage under which the operands survive and the result is proved.
MergeContract == {"merge_oom", "meld_oom"} \cap Beyond = {}

Idle == ~fault /\ pc = "idle" /\ phase = "none" /\ heap = Null

\* heapify, from its checks to the start of its first loop, on array a.
StartHeapify(a) ==
    /\ heap' = a
    /\ phase' = "leaves"
    /\ i' = Parent(LastIndex(a)) + 1
    /\ UNCHANGED <<held, freed, ret, pc, pos, pending>>

\* A refused call returns NULL.
Decline == ret' = Null /\ UNCHANGED <<heap, held, freed, fault, pc, pos, pending,
                                     array1, array2, phase, i>>

Heapify ==
    /\ Idle
    /\ \/ (array1 # Null => array1.length <= 1) /\ Decline
       \/ /\ array1 # Null /\ array1.length > 1
          /\ StartHeapify(array1)
          /\ array1' = Null
          /\ fault' = ~InBlock(array1, array1.length)
          /\ UNCHANGED array2

\* Both operands are heaps.
Heaps ==
    /\ array1 # Null /\ HeapOrdered(array1)
    /\ array2 # Null /\ HeapOrdered(array2)

\* The joined array, in the block wide, and what the memcpy needs of both blocks.
Joined(wide) ==
    /\ StartHeapify(Concat(wide, array2))
    /\ fault' = ~( /\ InBlock(wide, array1.length + array2.length)
                  /\ InBlock(array2, array2.length) )

\* One missing slot is taken for none.
BugWidenedShort(a, total) == {IF a.capacity >= total - 1 THEN a ELSE Exactly(a, total)}

\* The block d_array_join goes on with: its d_array_expand may have been refused,
\* and the result of that call is not looked at.
Widened(a, total) ==
    IF a.capacity >= total THEN {a}
    ELSE {Exactly(a, total)} \cup (IF "merge_oom" \in Beyond THEN {a} ELSE {})

\* d_array_join, then heapify of the joined array; the operands are consumed.
Merge ==
    /\ Idle /\ Heaps
    /\ \/ ~Joinable(array1, array2) /\ Decline
       \/ /\ Joinable(array1, array2)
          /\ \E wide \in Widened(array1, array1.length + array2.length) : Joined(wide)
          /\ array1' = Null
          /\ array2' = Null

\* A new array with the pointers of both, then heapify; the operands stay.
Meld ==
    /\ Idle /\ Heaps
    /\ \/ ~Joinable(array1, array2) /\ Decline
       \/ /\ Joinable(array1, array2)
          /\ LET empty == NewArray(array1.compare, array1.length + array2.length)
             IN  /\ StartHeapify(Concat(Concat(empty, array1), array2))
                 /\ fault' = ~( /\ InBlock(empty, array1.length + array2.length)
                               /\ InBlock(array1, array1.length)
                               /\ InBlock(array2, array2.length) )
          /\ UNCHANGED <<array1, array2>>
       \/ /\ Joinable(array1, array2) /\ "meld_oom" \in Beyond   \* copies to NULL
          /\ fault' = TRUE
          /\ UNCHANGED <<heap, held, freed, ret, pc, pos, pending,
                         array1, array2, phase, i>>

-----------------------------------------------------------------------------
\* The loops of heapify.  The last node that has a child splits them.
BugLastNodeEarly == Parent(LastIndex(heap)) - 1
LastNode == Parent(LastIndex(heap))

Call(loop) ==
    /\ pc' = loop
    /\ pos' = i
    /\ UNCHANGED <<heap, held, freed, ret, fault, pending>>

\* Every leaf emerges.
NextLeaf ==
    /\ ~fault /\ pc = "idle" /\ phase = "leaves"
    /\ \/ /\ i < heap.length
          /\ Call("emerge")
          /\ i' = i + 1
          /\ UNCHANGED phase
       \/ /\ i >= heap.length
          /\ phase' = "up"
          /\ i' = 0
          /\ UNCHANGED vars
    /\ UNCHANGED <<array1, array2>>

\* Then every other node, from the root on, emerges and sinks.
NextNodeUp ==
    /\ ~fault /\ pc = "idle" /\ phase = "up"
    /\ \/ /\ i <= LastNode
          /\ Call("emerge")
          /\ phase' = "down"
       \/ /\ i > LastNode
          /\ phase' = "none"
          /\ UNCHANGED vars
    /\ UNCHANGED <<array1, array2, i>>

NextNodeDown ==
    /\ ~fault /\ pc = "idle" /\ phase = "down"
    /\ Call("sink")
    /\ phase' = "up"
    /\ i' = i + 1
    /\ UNCHANGED <<array1, array2>>

Inner(step) == step /\ UNCHANGED <<array1, array2, phase, i>>

Finished == phase = "none" /\ pc = "idle" /\ heap # Null

\* The result is the end: what a client does with it is Heap.
MergeNext ==
    \/ Heapify
    \/ Merge
    \/ Meld
    \/ NextLeaf
    \/ NextNodeUp
    \/ NextNodeDown
    \/ Inner(EmergeStep)
    \/ Inner(SinkStep)

\* A heapify that has started keeps running.
Heapifying == \/ NextLeaf \/ NextNodeUp \/ NextNodeDown
              \/ Inner(EmergeStep) \/ Inner(SinkStep)

MergeSpec == MergeInit /\ [][MergeNext]_mergeVars /\ WF_mergeVars(Heapifying)

-----------------------------------------------------------------------------
(***************************************************************************)
(* Properties                                                              *)
(***************************************************************************)

\* What heapify, merge and meld return is a heap.
ResultIsHeap == Finished => HeapOrdered(heap)

\* ... of exactly the elements it was made from: those of array1 for heapify, those
\* of both operands for merge and meld; and no iteration of a loop loses one.
ElementsKept ==
    [][/\ heap = Null /\ heap' # Null =>
            \/ /\ array1' = Null /\ array2' # Null
               /\ Stored(heap') = Stored(array1)
            \/ /\ array1' = Null <=> array2' = Null
               /\ Stored(heap') = Stored(array1) \cup Stored(array2)
       /\ heap # Null => heap' # Null /\ Stored(heap') = Stored(heap)
                         /\ heap'.length = heap.length]_mergeVars

\* ... and it is returned: the nested loops end.
HeapifyReturns == heap # Null ~> Finished
=============================================================================
