------------------------------- MODULE DArray -------------------------------
(***************************************************************************)
(* The dynamic array of d_array.c and d_array.h: a client with one array   *)
(* pointer per Handle calls the operations in any order.  An operation     *)
(* runs to its end before the next one starts (the library is sequential), *)
(* so each is one action; the allocator may refuse any request.            *)
(*                                                                         *)
(* held and freed follow who owns each element, ret is what the last call  *)
(* returned, fault records an access outside a memory block, after which   *)
(* C promises nothing and the model stops.                                 *)
(***************************************************************************)
EXTENDS DArrayOps, Sequences

CONSTANTS Handle,      \* the client's d_array pointers
          Capacities,  \* bound: the capacities a client asks for
          Rates,       \* bound: the expand rates a client asks for
          Beyond       \* the situations outside the contract that may arise

\* Situations the code accepts and does not survive; see the README.
\*   delete_equal  d_array_delete gets an equal element, not the stored one
\*   split_whole   d_array_split takes every element
\*   split_oom     the realloc of d_array_split is refused
\*   join_oom      the realloc of d_array_join is refused
Situation == {"delete_equal", "split_whole", "split_oom", "join_oom"}

\* ret keeps results of different C types, and Null stands for the absent
\* struct: no pointer is a number, and NULL is neither a struct nor a sequence.
ASSUME DArrayAssumption ==
    /\ Null \notin Handle
    /\ Null \notin Int \cup Array \cup [items : Seq(Elem), compare : Compare]
    /\ ERR \notin Elem \cup Handle
    /\ Capacities \subseteq U32
    /\ Rates \subseteq U32
    /\ Beyond \subseteq Situation

\* The usage under which the theorems hold.
Contract == Beyond = {}

VARIABLES arr,    \* the struct behind each pointer, Null if there is none
          held,   \* elements the client owns
          freed,  \* elements passed to a dealloc callback
          ret,    \* result of the last call
          fault   \* a call has left its memory block

vars == <<arr, held, freed, ret, fault>>

Result == (-1)..MaxU32 \cup Elem \cup Handle \cup {Null}

TypeOK ==
    /\ arr \in [Handle -> Array \cup {Null}]
    /\ held \subseteq Elem
    /\ freed \subseteq Elem
    /\ ret \in Result
    /\ fault \in BOOLEAN

Init ==
    /\ arr = [h \in Handle |-> Null]
    /\ held = Elem
    /\ freed = {}
    /\ ret = Null
    /\ fault = FALSE

-----------------------------------------------------------------------------
\* A call that fails its checks: the error result, and nothing else.
Reject(result) ==
    /\ ret' = result
    /\ UNCHANGED <<arr, held, freed, fault>>

Absent(h) == arr[h] = Null

\* Every position a client may name.
Position == U32

Create(h, compare, capacity) ==
    /\ ~fault /\ Absent(h)
    /\ \/ Reject(Null)
       \/ /\ arr' = [arr EXCEPT ![h] =
                       NewArray(IF compare = Null THEN DefaultCompare ELSE compare,
                                capacity)]
          /\ ret' = h
          /\ UNCHANGED <<held, freed, fault>>

-----------------------------------------------------------------------------
\* Insertions.  Enter is the part they share, from the capacity check on.
Enter(h, p, x) ==
    \/ /\ MustGrow(arr[h])
       /\ Reject(ERR)
    \/ \E b \in Roomy(arr[h]) :
          /\ arr' = [arr EXCEPT ![h] = InsertSlot(b, p, x)]
          /\ held' = held \ {x}
          /\ ret' = OK
          /\ fault' = ~InBlock(b, b.length + 1)
          /\ UNCHANGED freed

PushBack(h, x) ==
    /\ ~fault
    /\ \/ (Absent(h) \/ x = Null) /\ Reject(ERR)
       \/ ~Absent(h) /\ x # Null /\ Enter(h, arr[h].length, x)

PushFront(h, x) ==
    /\ ~fault
    /\ \/ (Absent(h) \/ x = Null) /\ Reject(ERR)
       \/ ~Absent(h) /\ x # Null /\ Enter(h, 0, x)

InsertAt(h, p, x) ==
    /\ ~fault
    /\ \/ (Absent(h) \/ x = Null) /\ Reject(ERR)
       \/ ~Absent(h) /\ p >= arr[h].length /\ Reject(ERR)
       \/ ~Absent(h) /\ p < arr[h].length /\ x # Null /\ Enter(h, p, x)

-----------------------------------------------------------------------------
\* Removals.  Leave takes the element at p out and offers memory back.
Leave(h, p) ==
    /\ \E b \in Trimmed(RemoveSlot(arr[h], p)) : arr' = [arr EXCEPT ![h] = b]
    /\ fault' = ~InBlock(arr[h], arr[h].length)

TakeOut(h, p) ==
    /\ Leave(h, p)
    /\ held' = held \cup {arr[h].data[p]}
    /\ ret' = arr[h].data[p]
    /\ UNCHANGED freed

PopBack(h) ==
    /\ ~fault
    /\ \/ Absent(h) /\ Reject(Null)
       \/ ~Absent(h) /\ arr[h].length = 0 /\ Reject(Null)
       \/ ~Absent(h) /\ arr[h].length > 0 /\ TakeOut(h, arr[h].length - 1)

PopFront(h) ==
    /\ ~fault
    /\ \/ Absent(h) /\ Reject(Null)
       \/ ~Absent(h) /\ arr[h].length = 0 /\ Reject(Null)
       \/ ~Absent(h) /\ arr[h].length > 0 /\ TakeOut(h, 0)

RemoveAt(h, p) ==
    /\ ~fault
    /\ \/ Absent(h) /\ Reject(Null)
       \/ ~Absent(h) /\ p >= arr[h].length /\ Reject(Null)
       \/ ~Absent(h) /\ p < arr[h].length /\ TakeOut(h, p)

\* hasDealloc: the client gave a dealloc callback and not NULL.
DeleteAt(h, p, hasDealloc) ==
    /\ ~fault
    /\ \/ (Absent(h) \/ ~hasDealloc) /\ Reject(ERR)
       \/ ~Absent(h) /\ p >= arr[h].length /\ Reject(ERR)
       \/ /\ ~Absent(h) /\ hasDealloc /\ p < arr[h].length
          /\ Leave(h, p)
          /\ freed' = freed \cup {arr[h].data[p]}
          /\ ret' = OK
          /\ UNCHANGED held

\* The searching loops: positions whose element compares equal to x, and the
\* first of them.
Matches(a, x) ==
    {i \in Index : i < a.length /\ a.data[i] \in Elem /\ a.compare[a.data[i]] = a.compare[x]}

\* The last match is taken for the first.
BugIsLastMatch(a, x, p) == p \in Matches(a, x) /\ \A q \in Matches(a, x) : q <= p

IsFirstMatch(a, x, p) == p \in Matches(a, x) /\ \A q \in Matches(a, x) : p <= q

\* d_array_delete hands the callback the caller's pointer x, not the stored one.
Delete(h, x, hasDealloc) ==
    /\ ~fault
    /\ \/ (Absent(h) \/ x = Null \/ ~hasDealloc) /\ Reject(ERR)
       \/ ~Absent(h) /\ x # Null /\ Matches(arr[h], x) = {} /\ Reject(ERR)
       \/ /\ ~Absent(h) /\ x # Null /\ hasDealloc
          /\ \E p \in Index :
                /\ IsFirstMatch(arr[h], x, p)
                /\ arr[h].data[p] # x => "delete_equal" \in Beyond
                /\ Leave(h, p)
          /\ held' = held \ {x}
          /\ freed' = freed \cup {x}
          /\ ret' = OK

-----------------------------------------------------------------------------
\* Single slots.
Set(h, p, x) ==
    /\ ~fault
    /\ \/ (Absent(h) \/ x = Null) /\ Reject(ERR)
       \/ ~Absent(h) /\ p >= arr[h].length /\ Reject(ERR)
       \/ /\ ~Absent(h) /\ x # Null /\ p < arr[h].length
          /\ arr' = [arr EXCEPT ![h] = WriteSlot(@, p, x)]
          /\ held' = (held \ {x}) \cup {arr[h].data[p]}
          /\ ret' = OK
          /\ fault' = ~InBlock(arr[h], p + 1)
          /\ UNCHANGED freed

Get(h, p) ==
    /\ ~fault
    /\ \/ Absent(h) /\ Reject(Null)
       \/ ~Absent(h) /\ p >= arr[h].length /\ Reject(Null)
       \/ /\ ~Absent(h) /\ p < arr[h].length
          /\ ret' = arr[h].data[p]
          /\ fault' = ~InBlock(arr[h], p + 1)
          /\ UNCHANGED <<arr, held, freed>>

IndexOf(h, x) ==
    /\ ~fault
    /\ \/ (Absent(h) \/ x = Null) /\ Reject(ERR)
       \/ /\ ~Absent(h) /\ x # Null
          /\ \/ Matches(arr[h], x) = {} /\ ret' = ERR
             \/ \E p \in Index : IsFirstMatch(arr[h], x, p) /\ ret' = p
          /\ fault' = ~InBlock(arr[h], arr[h].length)
          /\ UNCHANGED <<arr, held, freed>>

-----------------------------------------------------------------------------
\* The memory block.

Expand(h, capacity) ==
    /\ ~fault
    /\ \/ Reject(ERR)   \* no array, no larger capacity, or no memory
       \/ /\ ~Absent(h) /\ capacity > arr[h].capacity
          /\ arr' = [arr EXCEPT ![h] = Exactly(@, capacity)]
          /\ ret' = OK
          /\ UNCHANGED <<held, freed, fault>>

ShrinkToFit(h) ==
    /\ ~fault
    /\ \/ Absent(h) /\ Reject(ERR)
       \/ ~Absent(h) /\ arr[h].length # 0 /\ Reject(ERR)   \* no memory
       \/ ~Absent(h) /\ arr[h].length = arr[h].capacity /\ Reject(ERR)
       \/ /\ ~Absent(h) /\ arr[h].length # arr[h].capacity
          /\ arr' = [arr EXCEPT ![h] = Exactly(@, @.length)]
          /\ ret' = OK
          /\ UNCHANGED <<held, freed, fault>>

\* The zero is not replaced.
BugSetExpandRateZero(h, rate) ==
    /\ ~fault /\ ~Absent(h)
    /\ arr' = [arr EXCEPT ![h].rate = rate]
    /\ ret' = rate
    /\ UNCHANGED <<held, freed, fault>>

SetExpandRate(h, rate) ==
    /\ ~fault /\ ~Absent(h)
    /\ arr' = [arr EXCEPT ![h].rate = IF rate = 0 THEN 1 ELSE rate]
    /\ ret' = arr'[h].rate
    /\ UNCHANGED <<held, freed, fault>>

-----------------------------------------------------------------------------
\* Joining: the elements of h2 move to the end of h1, whose pointer the client
\* gives the result.  The result of the inner d_array_expand is not looked at.
Widened(a, total) ==
    IF a.capacity >= total THEN {a}
    ELSE {Exactly(a, total)} \cup (IF "join_oom" \in Beyond THEN {a} ELSE {})

Join(h1, h2) ==
    /\ ~fault /\ h1 # h2
    /\ \/ (Absent(h1) \/ Absent(h2)) /\ Reject(Null)
       \/ ~Absent(h1) /\ ~Absent(h2) /\ ~Joinable(arr[h1], arr[h2]) /\ Reject(Null)
       \/ /\ ~Absent(h1) /\ ~Absent(h2) /\ Joinable(arr[h1], arr[h2])
          /\ \E a \in Widened(arr[h1], arr[h1].length + arr[h2].length) :
                /\ arr' = [arr EXCEPT ![h1] = Concat(a, arr[h2]), ![h2] = Null]
                /\ fault' = ~( /\ InBlock(a, a.length + arr[h2].length)
                              /\ InBlock(arr[h2], arr[h2].length) )
          /\ ret' = h1
          /\ UNCHANGED <<held, freed>>

-----------------------------------------------------------------------------
\* Splitting: positions from..to-1 of h become the new array h2.
Splittable(a, from, to) ==
    /\ a.length > 1
    /\ from < a.length - 1
    /\ to <= a.length
    /\ from < to

CutPart(a, from, to) ==
    [NewArray(a.compare, to - from) EXCEPT
        !.length = to - from,
        !.data = [i \in Index |-> IF i < to - from THEN a.data[from + i] ELSE Junk]]

\* What stays, closed up and resized.  length is the one the resize leaves, and
\* the subtraction from it wraps.
CutRest(a, from, to) ==
    LET n      == to - from
        closed == [a EXCEPT !.data = [i \in Index |->
                       IF i < from THEN a.data[i]
                       ELSE IF i < a.length - n THEN a.data[i + n] ELSE Junk]]
        sized  == Resize(closed, a.length - n)
        length == (sized.length - n) % (MaxU32 + 1)
    IN  [sized EXCEPT !.length = length, !.capacity = length]

\* The elements "given back" after a refused resize: the copying loop reads, from
\* its n-th step on, slots it has already overwritten.
Restored(a, from, to) ==
    [a EXCEPT !.data = [i \in Index |->
         IF to <= i /\ i < a.length THEN a.data[to + ((i - to) % (to - from))]
         ELSE a.data[i]]]

Split(h, from, to, h2) ==
    /\ ~fault /\ h # h2 /\ Absent(h2)
    /\ \/ Absent(h) /\ Reject(Null)
       \/ ~Absent(h) /\ Reject(Null)   \* bad positions, or no memory for h2
       \/ /\ ~Absent(h) /\ Splittable(arr[h], from, to)
          /\ to - from = arr[h].length => "split_whole" \in Beyond
          /\ arr' = [arr EXCEPT ![h]  = CutRest(@, from, to),
                               ![h2] = CutPart(arr[h], from, to)]
          /\ ret' = h2
          /\ fault' = ~InBlock(arr[h], arr[h].length)
          /\ UNCHANGED <<held, freed>>
       \/ /\ ~Absent(h) /\ Splittable(arr[h], from, to)
          /\ "split_oom" \in Beyond /\ to - from # arr[h].length
          /\ arr' = [arr EXCEPT ![h] = Restored(@, from, to)]
          /\ ret' = Null
          /\ fault' = ~InBlock(arr[h], arr[h].length)
          /\ UNCHANGED <<held, freed>>

-----------------------------------------------------------------------------
\* Whole arrays.
Release(h, hasDealloc, rest) ==
    /\ ~fault
    /\ \/ (Absent(h) \/ ~hasDealloc) /\ Reject(ERR)
       \/ /\ ~Absent(h) /\ hasDealloc
          /\ arr' = [arr EXCEPT ![h] = rest]
          /\ freed' = freed \cup Stored(arr[h])
          /\ ret' = OK
          /\ fault' = ~InBlock(arr[h], arr[h].length)
          /\ UNCHANGED held

\* The slots stay allocated, capacity with them.
Emptied(a) == [a EXCEPT !.length = 0, !.data = [i \in Index |-> Junk]]

Clear(h, hasDealloc) ==
    Release(h, hasDealloc, IF Absent(h) THEN Null ELSE Emptied(arr[h]))

Destroy(h, hasDealloc) == Release(h, hasDealloc, Null)

\* The callback decides when to stop; it may not change the array.
Traverse(h, hasCallback) ==
    /\ ~fault
    /\ \/ (Absent(h) \/ ~hasCallback) /\ Reject(ERR)
       \/ /\ ~Absent(h) /\ hasCallback
          /\ ret' \in IF arr[h].length = 0 THEN {OK} ELSE {OK, ERR}
          /\ fault' = ~InBlock(arr[h], arr[h].length)
          /\ UNCHANGED <<arr, held, freed>>

-----------------------------------------------------------------------------
\* An element the client may still name: its own, or one it knows to be stored.
Known == (Elem \ freed) \cup {Null}
Mine  == held \cup {Null}

Next ==
    \/ \E h \in Handle, c \in Compare \cup {Null}, n \in Capacities : Create(h, c, n)
    \/ \E h \in Handle, x \in Mine : PushBack(h, x)
    \/ \E h \in Handle, x \in Mine : PushFront(h, x)
    \/ \E h \in Handle, p \in Position, x \in Mine : InsertAt(h, p, x)
    \/ \E h \in Handle : PopBack(h)
    \/ \E h \in Handle : PopFront(h)
    \/ \E h \in Handle, p \in Position : RemoveAt(h, p)
    \/ \E h \in Handle, p \in Position, d \in BOOLEAN : DeleteAt(h, p, d)
    \/ \E h \in Handle, x \in Known, d \in BOOLEAN : Delete(h, x, d)
    \/ \E h \in Handle, p \in Position, x \in Mine : Set(h, p, x)
    \/ \E h \in Handle, p \in Position : Get(h, p)
    \/ \E h \in Handle, x \in Known : IndexOf(h, x)
    \/ \E h \in Handle, n \in Capacities : Expand(h, n)
    \/ \E h \in Handle : ShrinkToFit(h)
    \/ \E h \in Handle, r \in Rates : SetExpandRate(h, r)
    \/ \E h1, h2 \in Handle : Join(h1, h2)
    \/ \E h, h2 \in Handle, from, to \in Position : Split(h, from, to, h2)
    \/ \E h \in Handle, d \in BOOLEAN : Clear(h, d)
    \/ \E h \in Handle, d \in BOOLEAN : Destroy(h, d)
    \/ \E h \in Handle, d \in BOOLEAN : Traverse(h, d)

Spec == Init /\ [][Next]_vars

-----------------------------------------------------------------------------
(***************************************************************************)
(* Properties                                                              *)
(***************************************************************************)

\* No call reads or writes outside a block the allocator granted, however
\* growing, shrinking, joining and splitting are mixed with refused requests
\* (the data[...] accesses of every function of d_array.c).
MemorySafe == ~fault

\* capacity is the size of the block at all times, length never passes it, and
\* the slots below length, and only those, hold elements: the resize functions,
\* which move the block and the fields in separate assignments, agree.
Sound == \A h \in Handle : ~Absent(h) => BlockSound(arr[h])

\* Every element has one owner: the client, one slot of one array, or the
\* dealloc callback it was given to.  Violated by an element lost (leak), freed
\* while stored, freed twice, or stored twice, after any sequence of calls.
Slot == Handle \X Index
InUse(s) == ~Absent(s[1]) /\ s[2] < arr[s[1]].length
At(s) == arr[s[1]].data[s[2]]

Ownership ==
    /\ held \cap freed = {}
    /\ \A s \in Slot : InUse(s) => At(s) \notin held \cup freed
    /\ \A s, t \in Slot : InUse(s) /\ InUse(t) /\ At(s) = At(t) => s = t
    /\ \A x \in Elem : x \in held \cup freed \/ \E s \in Slot : InUse(s) /\ At(s) = x

\* The sequence a client sees behind a pointer.
SeqOf(a) == [i \in 1..a.length |-> a.data[i - 1]]

Abstract == INSTANCE ArrayADT WITH
    seqs <- [h \in Handle |-> IF Absent(h) THEN Null
                             ELSE [items |-> SeqOf(arr[h]), compare |-> arr[h].compare]]

\* The calls of d_array.h implement sequences, call by call: whatever the memory
\* block underneath has been through, every call does to the sequence, to the
\* owners of the elements and to its result what ArrayADT says of the call of
\* that name with those arguments.  It is refused with its own error value, for
\* the reason ArrayADT gives, and changes nothing then.
CallsAsPromised ==
    /\ \A h \in Handle, c \in Compare \cup {Null}, n \in Capacities :
          Create(h, c, n) => Abstract!Create(h, c)
    /\ \A h \in Handle, x \in Mine :
          /\ PushBack(h, x) => Abstract!PushBack(h, x)
          /\ PushFront(h, x) => Abstract!PushFront(h, x)
    /\ \A h \in Handle, p \in Position, x \in Mine :
          /\ InsertAt(h, p, x) => Abstract!InsertBefore(h, p, x)
          /\ Set(h, p, x) => Abstract!Set(h, p, x)
    /\ \A h \in Handle :
          /\ PopBack(h) => Abstract!PopBack(h)
          /\ PopFront(h) => Abstract!PopFront(h)
          /\ ShrinkToFit(h) => Abstract!ShrinkToFit(h)
    /\ \A h \in Handle, p \in Position :
          /\ RemoveAt(h, p) => Abstract!TakeAt(h, p)
          /\ Get(h, p) => Abstract!Get(h, p)
    /\ \A h \in Handle, p \in Position, d \in BOOLEAN :
          DeleteAt(h, p, d) => Abstract!DeleteAt(h, p, d)
    /\ \A h \in Handle, x \in Known :
          /\ \A d \in BOOLEAN : Delete(h, x, d) => Abstract!Delete(h, x, d)
          /\ IndexOf(h, x) => Abstract!IndexOf(h, x)
    /\ \A h \in Handle, n \in Capacities : Expand(h, n) => Abstract!Expand(h)
    /\ \A h \in Handle, r \in Rates : SetExpandRate(h, r) => Abstract!SetExpandRate(h, r)
    /\ \A h1, h2 \in Handle : Join(h1, h2) => Abstract!Join(h1, h2)
    /\ \A h, h2 \in Handle, from, to \in Position :
          Split(h, from, to, h2) => Abstract!Split(h, from, to, h2)
    /\ \A h \in Handle, d \in BOOLEAN :
          /\ Clear(h, d) => Abstract!Clear(h, d)
          /\ Destroy(h, d) => Abstract!Destroy(h, d)
          /\ Traverse(h, d) => Abstract!Traverse(h, d)

ImplementsSequences == Abstract!Spec /\ [][CallsAsPromised]_vars

\* A call that reports an error leaves contents and owners as they were (d_array.c,
\* of d_array_split: "if resize fails, don't split at all").
RefusalsChangeNothing ==
    [][ret' \in {ERR, Null} =>
         /\ held' = held /\ freed' = freed
         /\ \A h \in Handle : ~Absent(h) =>
               ~Absent(h)' /\ SeqOf(arr[h])' = SeqOf(arr[h])]_vars
=============================================================================
