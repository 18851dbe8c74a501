------------------------------ MODULE ArrayADT ------------------------------
(***************************************************************************)
(* What d_array.h promises, without memory blocks: behind each pointer a   *)
(* sequence of elements and the compare callback it was created with.      *)
(* There is one action per call, with the arguments of the call.  It says  *)
(* what the call does to the sequence and the owners, what it returns, and *)
(* when it may be refused: a refused call changes nothing.  Positions are  *)
(* 0-based at the interface and 1-based in the sequence.                   *)
(***************************************************************************)
EXTENDS Integers, SequencesExt

CONSTANTS Elem, Null, Compare, DefaultCompare, Handle, MaxU32

OK  == 0
ERR == -1

VARIABLES seqs,   \* [items, compare] behind each pointer, or Null
          held,   \* elements the client owns
          freed,  \* elements deallocated through a callback
          ret     \* result of the last call

vars == <<seqs, held, freed, ret>>

Init ==
    /\ seqs = [h \in Handle |-> Null]
    /\ held = Elem
    /\ freed = {}
    /\ ret = Null

Live == {h \in Handle : seqs[h] # Null}

\* Every position a client may name.
Place == 0..MaxU32

Valid(h, p) == h \in Live /\ p \in 0..(Len(seqs[h].items) - 1)

-----------------------------------------------------------------------------
\* What calls have in common.

Refuse(result) ==
    /\ ret' = result
    /\ UNCHANGED <<seqs, held, freed>>

New(h, compare) ==
    /\ seqs' = [seqs EXCEPT ![h] = [items |-> <<>>, compare |-> compare]]
    /\ ret' = h
    /\ UNCHANGED <<held, freed>>

\* The client gives x away; the array puts it at position p.
Insert(h, p, x) ==
    /\ h \in Live /\ x \in held
    /\ p \in 0..Len(seqs[h].items)
    /\ Len(seqs[h].items) < MaxU32
    /\ seqs' = [seqs EXCEPT ![h].items = InsertAt(@, p + 1, x)]
    /\ held' = held \ {x}
    /\ ret' = OK
    /\ UNCHANGED freed

\* The element at position p leaves: to the client, or to the callback.
Out(h, p) ==
    /\ Valid(h, p)
    /\ seqs' = [seqs EXCEPT ![h].items = RemoveAt(@, p + 1)]

Take(h, p) ==
    /\ Out(h, p)
    /\ held' = held \cup {seqs[h].items[p + 1]}
    /\ ret' = seqs[h].items[p + 1]
    /\ UNCHANGED freed

Drop(h, p) ==
    /\ Out(h, p)
    /\ freed' = freed \cup {seqs[h].items[p + 1]}
    /\ ret' = OK
    /\ UNCHANGED held

Replace(h, p, x) ==
    /\ Valid(h, p) /\ x \in held
    /\ seqs' = [seqs EXCEPT ![h].items = ReplaceAt(@, p + 1, x)]
    /\ held' = (held \ {x}) \cup {seqs[h].items[p + 1]}
    /\ ret' = OK
    /\ UNCHANGED freed

\* The answer, and nothing else.
Answer(h, result) ==
    /\ h \in Live
    /\ ret' = result
    /\ UNCHANGED <<seqs, held, freed>>

\* Position p is the first whose element compares equal to x.
EqualAt(h, p, x) ==
    x # Null /\ seqs[h].compare[seqs[h].items[p + 1]] = seqs[h].compare[x]

First(h, p, x) ==
    /\ Valid(h, p) /\ EqualAt(h, p, x)
    /\ \A q \in 0..(p - 1) : ~EqualAt(h, q, x)

Missing(h, x) ==
    h \in Live => \A p \in 0..(Len(seqs[h].items) - 1) : ~EqualAt(h, p, x)

Joinable(h1, h2) ==
    /\ {h1, h2} \subseteq Live /\ h1 # h2
    /\ seqs[h1].items # <<>> /\ seqs[h2].items # <<>>
    /\ Len(seqs[h1].items) + Len(seqs[h2].items) <= MaxU32
    /\ seqs[h1].compare = seqs[h2].compare

Append2(h1, h2) ==
    /\ seqs' = [seqs EXCEPT ![h1].items = @ \o seqs[h2].items, ![h2] = Null]
    /\ ret' = h1
    /\ UNCHANGED <<held, freed>>

\* Positions from..to-1 become an array of their own; something stays.
Cut(h, from, to, h2) ==
    /\ h \in Live /\ h2 \notin Live
    /\ LET s == seqs[h].items
       IN  /\ 0 <= from /\ from < to /\ to <= Len(s)
           /\ from < Len(s) - 1 /\ to - from < Len(s)
           /\ seqs' = [seqs EXCEPT
                 ![h].items = SubSeq(s, 1, from) \o SubSeq(s, to + 1, Len(s)),
                 ![h2]      = [items   |-> SubSeq(s, from + 1, to),
                               compare |-> seqs[h].compare]]
    /\ ret' = h2
    /\ UNCHANGED <<held, freed>>

\* Every element goes to the callback; the array survives (clear) or not.
Dispose(h, survives) ==
    /\ h \in Live
    /\ seqs' = [seqs EXCEPT ![h] = IF survives THEN [@ EXCEPT !.items = <<>>] ELSE Null]
    /\ freed' = freed \cup Range(seqs[h].items)
    /\ ret' = OK
    /\ UNCHANGED held

-----------------------------------------------------------------------------
\* The calls.  The ones that may need memory may always be refused for it; all
\* others are refused for the reason given, and then only.

Create(h, compare) ==
    /\ h \notin Live
    /\ Refuse(Null) \/ New(h, IF compare = Null THEN DefaultCompare ELSE compare)

PushBack(h, x) == Refuse(ERR) \/ (h \in Live /\ Insert(h, Len(seqs[h].items), x))

PushFront(h, x) == Refuse(ERR) \/ Insert(h, 0, x)

\* d_array_insert_at: the position must be taken, so there is no insertion at
\* the end.
InsertBefore(h, p, x) == Refuse(ERR) \/ (Valid(h, p) /\ Insert(h, p, x))

PopBack(h) ==
    \/ ~Valid(h, 0) /\ Refuse(Null)
    \/ h \in Live /\ Take(h, Len(seqs[h].items) - 1)

PopFront(h) == (~Valid(h, 0) /\ Refuse(Null)) \/ Take(h, 0)

\* d_array_remove_at.
TakeAt(h, p) == (~Valid(h, p) /\ Refuse(Null)) \/ Take(h, p)

DeleteAt(h, p, hasDealloc) ==
    \/ ~(Valid(h, p) /\ hasDealloc) /\ Refuse(ERR)
    \/ hasDealloc /\ Drop(h, p)

Delete(h, x, hasDealloc) ==
    \/ (Missing(h, x) \/ ~hasDealloc) /\ Refuse(ERR)
    \/ hasDealloc /\ \E p \in Place : First(h, p, x) /\ Drop(h, p)

Set(h, p, x) == (~(Valid(h, p) /\ x # Null) /\ Refuse(ERR)) \/ Replace(h, p, x)

Get(h, p) ==
    \/ ~Valid(h, p) /\ Refuse(Null)
    \/ Valid(h, p) /\ Answer(h, seqs[h].items[p + 1])

IndexOf(h, x) ==
    \/ Missing(h, x) /\ Refuse(ERR)
    \/ \E p \in Place : First(h, p, x) /\ Answer(h, p)

\* Memory only: nothing moves that a client can see.
Expand(h)      == Refuse(ERR) \/ Answer(h, OK)
ShrinkToFit(h) == Refuse(ERR) \/ Answer(h, OK)
SetExpandRate(h, rate) == Answer(h, IF rate = 0 THEN 1 ELSE rate)

Join(h1, h2) ==
    \/ ~Joinable(h1, h2) /\ Refuse(Null)
    \/ Joinable(h1, h2) /\ Append2(h1, h2)

Split(h, from, to, h2) == Refuse(Null) \/ Cut(h, from, to, h2)

Clear(h, hasDealloc) ==
    \/ ~(h \in Live /\ hasDealloc) /\ Refuse(ERR)
    \/ hasDealloc /\ Dispose(h, TRUE)

Destroy(h, hasDealloc) ==
    \/ ~(h \in Live /\ hasDealloc) /\ Refuse(ERR)
    \/ hasDealloc /\ Dispose(h, FALSE)

\* A callback may ask for a stop, on an array that has elements.
Traverse(h, hasCallback) ==
    \/ ~(h \in Live /\ hasCallback) /\ Refuse(ERR)
    \/ hasCallback /\ Answer(h, OK)
    \/ hasCallback /\ Valid(h, 0) /\ Answer(h, ERR)

Given == Elem \cup {Null}

Next ==
    \/ \E h \in Handle, c \in Compare \cup {Null} : Create(h, c)
    \/ \E h \in Handle, x \in Given : PushBack(h, x) \/ PushFront(h, x)
    \/ \E h \in Handle, p \in Place, x \in Given : InsertBefore(h, p, x) \/ Set(h, p, x)
    \/ \E h \in Handle : PopBack(h) \/ PopFront(h)
    \/ \E h \in Handle, p \in Place : TakeAt(h, p) \/ Get(h, p)
    \/ \E h \in Handle, p \in Place, d \in BOOLEAN : DeleteAt(h, p, d)
    \/ \E h \in Handle, x \in Given, d \in BOOLEAN : Delete(h, x, d)
    \/ \E h \in Handle, x \in Given : IndexOf(h, x)
    \/ \E h \in Handle : Expand(h) \/ ShrinkToFit(h)
    \/ \E h \in Handle, rate \in 0..MaxU32 : SetExpandRate(h, rate)
    \/ \E h1, h2 \in Handle : Join(h1, h2)
    \/ \E h, h2 \in Handle, from, to \in Place : Split(h, from, to, h2)
    \/ \E h \in Handle, d \in BOOLEAN : Clear(h, d) \/ Destroy(h, d) \/ Traverse(h, d)

Spec == Init /\ [][Next]_vars
=============================================================================
