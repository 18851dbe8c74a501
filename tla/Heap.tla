-------------------------------- MODULE Heap --------------------------------
(***************************************************************************)
(* The binary max-heap of heap.c and heap.h (priority_queue.h renames its  *)
(* calls): one heap, a d_array, and a client that calls it in any order.   *)
(*                                                                         *)
(* The calls that move one element do it in a loop, emerge towards the     *)
(* root or sink towards the leaves; one iteration is one step, so that     *)
(* what holds in the middle of a loop can be stated.  pc names the loop    *)
(* and pos is its node_position.  No call starts before the last one has   *)
(* returned (pc = "idle" and nothing pending); ret is what the call in     *)
(* progress will return.                                                   *)
(***************************************************************************)
EXTENDS DArrayOps

CONSTANTS Capacities,  \* bound: the initial capacities a client asks for
          Beyond       \* the situations outside the contract that may arise

\* Situations the code accepts and does not survive; see the README.
\*   delete_max     heap_delete_max_index is called
\*   replace_empty  heap_replace is called on an empty heap
\*   wide           the heap grows past half of the index range
\*   int_size       heap_is_empty is called on a heap longer than an int can say
\*   merge_oom      the realloc inside the d_array_join of heap_merge is refused
\*   meld_oom       heap_meld gets no memory for its array
Situation ==
    {"delete_max", "replace_empty", "wide", "int_size", "merge_oom", "meld_oom"}

ASSUME HeapAssumption ==
    /\ Capacities \subseteq U32
    /\ Beyond \subseteq Situation
    /\ Null \notin Array \cup [members : SUBSET Elem, compare : Compare]

\* The usage under which the heap order is proved: deleting the maximum loses an
\* element, but no order.
Contract == {"replace_empty", "wide"} \cap Beyond = {}

VARIABLES heap,    \* the struct behind the client's pointer, or Null
          held,    \* elements the client owns
          freed,   \* elements given to a dealloc callback
          ret,     \* result of the last call
          fault,   \* a call has used memory it must not
          pc,      \* "idle", or the loop that is running
          pos,     \* node_position of that loop
          pending  \* heap_delete_max_index has made the first of its two pops

vars == <<heap, held, freed, ret, fault, pc, pos, pending>>

Result == (-MaxU32)..MaxU32 \cup Elem \cup {Null}

TypeOK ==
    /\ heap \in Array \cup {Null}
    /\ held \subseteq Elem
    /\ freed \subseteq Elem
    /\ ret \in Result
    /\ fault \in BOOLEAN
    /\ pc \in {"idle", "emerge", "sink"}
    /\ pos \in U32
    /\ pending \in BOOLEAN

Init ==
    /\ heap = Null
    /\ held = Elem
    /\ freed = {}
    /\ ret = Null
    /\ fault = FALSE
    /\ pc = "idle"
    /\ pos = 0
    /\ pending = FALSE

-----------------------------------------------------------------------------
\* The index arithmetic of heap.h, in uint32_t.
Wrap(n) == n % (MaxU32 + 1)
Parent(i) == IF i % 2 = 0 THEN (i - 2) \div 2 ELSE (i - 1) \div 2
LeftChild(i) == Wrap(2 * i + 1)
RightChild(i) == Wrap(2 * i + 2)
LastIndex(a) == Wrap(a.length - 1)

\* The rank of the element in slot i, by the compare callback of the heap.
Rank(a, i) == a.compare[a.data[i]]

\* The first half of a swap.
BugSwapHalf(a, i, j) == [a EXCEPT !.data[i] = a.data[j]]

Swap(a, i, j) == [a EXCEPT !.data[i] = a.data[j], !.data[j] = a.data[i]]

\* The right child is compared with i, not with the larger of i and the left child.
BugMaxIndexRight(a, i) ==
    IF RightChild(i) <= LastIndex(a) /\ Rank(a, i) < Rank(a, RightChild(i))
      THEN RightChild(i)
      ELSE IF Rank(a, i) < Rank(a, LeftChild(i)) THEN LeftChild(i) ELSE i

\* The slot sink would swap position i with; i itself when nothing is larger.
MaxIndex(a, i) ==
    LET max == IF Rank(a, i) < Rank(a, LeftChild(i)) THEN LeftChild(i) ELSE i
    IN  IF RightChild(i) <= LastIndex(a) /\ Rank(a, max) < Rank(a, RightChild(i))
          THEN RightChild(i) ELSE max

-----------------------------------------------------------------------------
\* The loops, one iteration each.
EmergeStep ==
    /\ ~fault /\ pc = "emerge"
    /\ \/ /\ pos # 0 /\ Rank(heap, pos) > Rank(heap, Parent(pos))
          /\ heap' = Swap(heap, pos, Parent(pos))
          /\ pos' = Parent(pos)
          /\ UNCHANGED pc
       \/ /\ pos = 0
          /\ pc' = "idle"
          /\ UNCHANGED <<heap, pos>>
       \/ /\ pos # 0 /\ Rank(heap, pos) <= Rank(heap, Parent(pos))
          /\ pc' = "idle"
          /\ UNCHANGED <<heap, pos>>
    /\ UNCHANGED <<held, freed, ret, fault, pending>>

\* The loop does not follow the element it has swapped down.
BugSinkStepStays ==
    /\ ~fault /\ pc = "sink"
    /\ IF LeftChild(pos) <= LastIndex(heap) /\ MaxIndex(heap, pos) # pos
         THEN heap' = Swap(heap, pos, MaxIndex(heap, pos)) /\ UNCHANGED <<pc, pos>>
         ELSE pc' = "idle" /\ UNCHANGED <<heap, pos>>
    /\ UNCHANGED <<held, freed, ret, fault, pending>>

\* The loop does not end above a leaf when nothing is left to swap.
BugSinkStepEndless ==
    /\ ~fault /\ pc = "sink"
    /\ IF LeftChild(pos) <= LastIndex(heap)
         THEN heap' = Swap(heap, pos, MaxIndex(heap, pos))
              /\ pos' = MaxIndex(heap, pos) /\ UNCHANGED pc
         ELSE pc' = "idle" /\ UNCHANGED <<heap, pos>>
    /\ UNCHANGED <<held, freed, ret, fault, pending>>

SinkStep ==
    /\ ~fault /\ pc = "sink"
    /\ \/ /\ LeftChild(pos) > LastIndex(heap)
          /\ pc' = "idle"
          /\ UNCHANGED <<heap, pos>>
       \/ /\ LeftChild(pos) <= LastIndex(heap)
          /\ MaxIndex(heap, pos) = pos
          /\ pc' = "idle"
          /\ UNCHANGED <<heap, pos>>
       \/ /\ LeftChild(pos) <= LastIndex(heap)
          /\ MaxIndex(heap, pos) # pos
          /\ heap' = Swap(heap, pos, MaxIndex(heap, pos))
          /\ pos' = MaxIndex(heap, pos)
          /\ UNCHANGED pc
    /\ UNCHANGED <<held, freed, ret, fault, pending>>

-----------------------------------------------------------------------------
\* The calls.
Ready == ~fault /\ pc = "idle" /\ ~pending
Absent == heap = Null

\* A call that changes nothing: a refusal, or a question.
Answer(result) ==
    /\ ret' = result
    /\ UNCHANGED <<heap, held, freed, fault, pc, pos, pending>>

Create(compare, capacity) ==
    /\ Ready /\ Absent
    /\ \/ Answer(Null)
       \/ /\ heap' = NewArray(IF compare = Null THEN DefaultCompare ELSE compare,
                              capacity)
          /\ ret' = OK   \* a pointer that is not NULL
          /\ UNCHANGED <<held, freed, fault, pc, pos, pending>>

\* A lone root needs no adjusting.
Insert(x) ==
    /\ Ready
    /\ \/ (Absent \/ x = Null) /\ Answer(ERR)
       \/ ~Absent /\ x # Null /\ MustGrow(heap) /\ Answer(ERR)
       \/ /\ ~Absent /\ x # Null
          /\ 2 * (heap.length + 1) <= MaxU32 + 1 \/ "wide" \in Beyond
          /\ \E b \in Roomy(heap) :
                /\ heap' = InsertSlot(b, b.length, x)
                /\ fault' = ~InBlock(b, b.length + 1)
                /\ IF b.length + 1 # 1
                     THEN pc' = "emerge" /\ pos' = b.length
                     ELSE UNCHANGED <<pc, pos>>
          /\ held' = held \ {x}
          /\ ret' = OK
          /\ UNCHANGED <<freed, pending>>

\* pop_front is taken for enough up to three elements.
BugTakeRootThree ==
    \/ /\ heap.length < 4
       /\ heap' \in Trimmed(RemoveSlot(heap, 0))
       /\ UNCHANGED <<pc, pos>>
    \/ /\ heap.length >= 4
       /\ \E b \in Trimmed(RemoveSlot(heap, heap.length - 1)) :
             heap' = WriteSlot(b, 0, heap.data[heap.length - 1])
       /\ pc' = "sink"
       /\ pos' = 0

\* The root leaves.  Up to two elements a pop_front is enough; else the last
\* element is popped, put at the root and sunk.
TakeRoot ==
    \/ /\ heap.length < 3
       /\ heap' \in Trimmed(RemoveSlot(heap, 0))
       /\ UNCHANGED <<pc, pos>>
    \/ /\ heap.length >= 3
       /\ \E b \in Trimmed(RemoveSlot(heap, heap.length - 1)) :
             heap' = WriteSlot(b, 0, heap.data[heap.length - 1])
       /\ pc' = "sink"
       /\ pos' = 0

Pop ==
    /\ Ready
    /\ \/ Absent /\ Answer(Null)
       \/ ~Absent /\ heap.length = 0 /\ Answer(Null)
       \/ /\ ~Absent /\ heap.length # 0
          /\ TakeRoot
          /\ held' = held \cup {heap.data[0]}
          /\ ret' = heap.data[0]
          /\ fault' = ~InBlock(heap, heap.length)
          /\ UNCHANGED <<freed, pending>>

\* There is no check for an empty heap: its root slot is not an element.
Replace(y, hasDealloc) ==
    /\ Ready
    /\ \/ (Absent \/ y = Null \/ ~hasDealloc) /\ Answer(ERR)
       \/ /\ ~Absent /\ y # Null /\ hasDealloc /\ heap.length # 0
          /\ heap' = WriteSlot(heap, 0, y)
          /\ freed' = freed \cup {heap.data[0]}
          /\ held' = held \ {y}
          /\ ret' = OK
          /\ pc' = "sink"
          /\ pos' = 0
          /\ fault' = ~InBlock(heap, 1)
          /\ UNCHANGED pending
       \/ /\ ~Absent /\ y # Null /\ hasDealloc /\ heap.length = 0
          /\ "replace_empty" \in Beyond
          /\ fault' = TRUE
          /\ UNCHANGED <<heap, held, freed, ret, pc, pos, pending>>

\* heap_delete_max_index pops, drops what it popped, and pops again; the second
\* element, or NULL, is what the callback gets.
DeleteMax(hasDealloc) ==
    /\ Ready /\ "delete_max" \in Beyond
    /\ \/ (Absent \/ ~hasDealloc) /\ Answer(ERR)
       \/ ~Absent /\ heap.length = 0 /\ Answer(ERR)
       \/ /\ ~Absent /\ heap.length # 0 /\ hasDealloc
          /\ TakeRoot
          /\ pending' = TRUE
          /\ ret' = OK
          /\ fault' = ~InBlock(heap, heap.length)
          /\ UNCHANGED <<held, freed>>

DeleteMaxAgain ==
    /\ ~fault /\ pc = "idle" /\ pending
    /\ pending' = FALSE
    /\ \/ /\ heap.length = 0
          /\ UNCHANGED <<heap, freed, fault, pc, pos>>
       \/ /\ heap.length # 0
          /\ TakeRoot
          /\ freed' = freed \cup {heap.data[0]}
          /\ fault' = ~InBlock(heap, heap.length)
    /\ UNCHANGED <<held, ret>>

FindMax ==
    /\ Ready
    /\ \/ Absent /\ Answer(Null)
       \/ ~Absent /\ heap.length = 0 /\ Answer(Null)
       \/ ~Absent /\ heap.length # 0 /\ Answer(heap.data[0])

\* A uint32_t returned as an int: what exceeds INT_MAX comes out negative.
IntMax == MaxU32 \div 2
AsInt(n) == IF n <= IntMax THEN n ELSE n - (MaxU32 + 1)

\* heap_is_empty answers with the length.
IsEmpty ==
    /\ Ready
    /\ \/ Absent /\ Answer(ERR)
       \/ /\ ~Absent
          /\ heap.length <= IntMax \/ "int_size" \in Beyond
          /\ Answer(AsInt(heap.length))

Destroy(hasDealloc) ==
    /\ Ready
    /\ \/ (Absent \/ ~hasDealloc) /\ Answer(ERR)
       \/ /\ ~Absent /\ hasDealloc
          /\ heap' = Null
          /\ freed' = freed \cup Stored(heap)
          /\ ret' = OK
          /\ fault' = ~InBlock(heap, heap.length)
          /\ UNCHANGED <<held, pc, pos, pending>>

-----------------------------------------------------------------------------
Mine == held \cup {Null}

Next ==
    \/ EmergeStep
    \/ SinkStep
    \/ \E c \in Compare \cup {Null}, n \in Capacities : Create(c, n)
    \/ \E x \in Mine : Insert(x)
    \/ Pop
    \/ \E y \in Mine, d \in BOOLEAN : Replace(y, d)
    \/ \E d \in BOOLEAN : DeleteMax(d)
    \/ DeleteMaxAgain
    \/ FindMax
    \/ IsEmpty
    \/ \E d \in BOOLEAN : Destroy(d)

Spec == Init /\ [][Next]_vars

\* A call that has started keeps running; the client need not call.
Running == EmergeStep \/ SinkStep \/ DeleteMaxAgain
FairSpec == Spec /\ WF_vars(Running)

-----------------------------------------------------------------------------
(***************************************************************************)
(* Properties                                                              *)
(***************************************************************************)

\* No call touches memory outside the block, nor a slot that holds no element.
MemorySafe == ~fault

\* The block, capacity and length agree, also between the steps of a pop, whose
\* pop_back may move the block before the root is written.
Sound == ~Absent => BlockSound(heap)

\* No element ranks above its parent once a call has returned: whatever calls
\* came before, in whatever order, with equal ranks among the elements.
HeapOrdered(a) == \A i \in Index \ {0} : i < a.length => Rank(a, i) <= Rank(a, Parent(i))
OrderedAtRest == pc = "idle" /\ ~Absent => HeapOrdered(heap)

\* Why the loops restore the order.  While emerge runs, only pos may rank above
\* its parent; while sink runs, only the children of pos may; and in both the
\* children of pos do not rank above the parent of pos, so a swap breaks nothing.
\* When no loop runs there is no such place: this implies OrderedAtRest.
MayOutrank(i) ==
    \/ pc = "emerge" /\ i = pos
    \/ pc = "sink" /\ Parent(i) = pos

OrderedButForLoop ==
    ~Absent =>
      /\ pc # "idle" => pos < heap.length
      /\ \A i \in Index \ {0} : i < heap.length =>
           /\ ~MayOutrank(i) => Rank(heap, i) <= Rank(heap, Parent(i))
           /\ pc # "idle" /\ Parent(i) = pos /\ pos # 0 =>
                Rank(heap, i) <= Rank(heap, Parent(pos))

\* emerge only climbs and sink only descends: no iteration revisits a position,
\* which bounds both loops by the depth of the heap.
LoopsAdvance ==
    [][/\ pc = "emerge" /\ pc' = "emerge" => pos' < pos
       /\ pc = "sink" /\ pc' = "sink" => pos' > pos]_vars

\* Every call returns.
CallsReturn == pc # "idle" \/ pending ~> pc = "idle" /\ ~pending

\* Between calls every element has one owner: the client, one slot, or the dealloc
\* callback it was given to.  It is violated by an element the heap drops (a leak), hands to
\* the callback while still storing it, or stores twice in the middle of a swap.
Ownership ==
    LET InUse(i) == ~Absent /\ i < heap.length
    IN  ~pending =>
        /\ held \cap freed = {}
        /\ \A i \in Index : InUse(i) => heap.data[i] \notin held \cup freed
        /\ \A i, j \in Index :
              InUse(i) /\ InUse(j) /\ heap.data[i] = heap.data[j] => i = j
        /\ \A x \in Elem : \/ x \in held \cup freed
                            \/ \E i \in Index : InUse(i) /\ heap.data[i] = x

\* The calls implement a priority queue, call by call: what is found, popped or
\* replaced is an element of highest rank of those put in and not yet taken out,
\* the number heap_is_empty gives is how many those are, a call is refused with
\* its own error value and for the reason PriorityQueue gives, and no iteration of
\* a loop is seen.  (heap_delete_max_index keeps no such promise.)
Queue == INSTANCE PriorityQueue WITH
    queue <- IF Absent THEN Null ELSE [members |-> Stored(heap), compare |-> heap.compare]

CallsAsPromised ==
    /\ \A c \in Compare \cup {Null}, n \in Capacities : Create(c, n) => Queue!Create(c)
    /\ \A x \in Mine : Insert(x) => Queue!Insert(x)
    /\ Pop => Queue!Pop
    /\ \A y \in Mine, d \in BOOLEAN : Replace(y, d) => Queue!Replace(y, d)
    /\ FindMax => Queue!FindMax
    /\ IsEmpty => Queue!Size
    /\ \A d \in BOOLEAN : Destroy(d) => Queue!Destroy(d)
    /\ EmergeStep \/ SinkStep => UNCHANGED Queue!vars

ImplementsPriorityQueue == Queue!Spec /\ [][CallsAsPromised]_vars
=============================================================================
