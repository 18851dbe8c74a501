--------------------------- MODULE PriorityQueue ---------------------------
(***************************************************************************)
(* What heap.h and priority_queue.h promise: a set of elements from which  *)
(* the one of highest rank is found, taken or replaced.  Elements of equal *)
(* rank come in any order.  There is one action per call, with the         *)
(* arguments of the call; it has its effect at once, or is refused and     *)
(* changes nothing.                                                        *)
(***************************************************************************)
EXTENDS Integers, FiniteSets

CONSTANTS Elem, Null, Compare, DefaultCompare, MaxU32

OK  == 0
ERR == -1

VARIABLES queue,  \* [members, compare], or Null when there is no queue
          held,   \* elements the client owns
          freed,  \* elements given to a dealloc callback
          ret     \* result of the last call

vars == <<queue, held, freed, ret>>

Init ==
    /\ queue = Null
    /\ held = Elem
    /\ freed = {}
    /\ ret = Null

Highest == {x \in queue.members :
              \A y \in queue.members : queue.compare[y] <= queue.compare[x]}

Refuse(result) ==
    /\ ret' = result
    /\ UNCHANGED <<queue, held, freed>>

Nothing == IF queue = Null THEN TRUE ELSE queue.members = {}

-----------------------------------------------------------------------------
\* Creating and inserting may be refused for memory; all other calls are refused
\* for the reason given, and then only.
Create(compare) ==
    /\ queue = Null
    /\ \/ Refuse(Null)
       \/ /\ queue' = [members |-> {},
                      compare |-> IF compare = Null THEN DefaultCompare ELSE compare]
          /\ ret' = OK
          /\ UNCHANGED <<held, freed>>

Insert(x) ==
    \/ Refuse(ERR)
    \/ /\ queue # Null /\ x \in held
       /\ queue' = [queue EXCEPT !.members = @ \cup {x}]
       /\ held' = held \ {x}
       /\ ret' = OK
       /\ UNCHANGED freed

Pop ==
    \/ Nothing /\ Refuse(Null)
    \/ /\ ~Nothing
       /\ \E x \in Highest :
             /\ queue' = [queue EXCEPT !.members = @ \ {x}]
             /\ held' = held \cup {x}
             /\ ret' = x
       /\ UNCHANGED freed

\* The highest element is deallocated and y takes a place of its own rank.
Replace(y, hasDealloc) ==
    \/ (queue = Null \/ y = Null \/ ~hasDealloc) /\ Refuse(ERR)
    \/ /\ ~Nothing /\ y \in held /\ hasDealloc
       /\ \E x \in Highest :
             /\ queue' = [queue EXCEPT !.members = (@ \ {x}) \cup {y}]
             /\ freed' = freed \cup {x}
       /\ held' = held \ {y}
       /\ ret' = OK

FindMax ==
    \/ Nothing /\ Refuse(Null)
    \/ /\ ~Nothing /\ ret' \in Highest
       /\ UNCHANGED <<queue, held, freed>>

Size ==
    \/ queue = Null /\ Refuse(ERR)
    \/ /\ queue # Null /\ ret' = Cardinality(queue.members)
       /\ UNCHANGED <<queue, held, freed>>

Destroy(hasDealloc) ==
    \/ (queue = Null \/ ~hasDealloc) /\ Refuse(ERR)
    \/ /\ queue # Null /\ hasDealloc
       /\ queue' = Null
       /\ freed' = freed \cup queue.members
       /\ ret' = OK
       /\ UNCHANGED held

Next ==
    \/ \E c \in Compare \cup {Null} : Create(c)
    \/ \E x \in Elem \cup {Null} : Insert(x)
    \/ Pop
    \/ \E y \in Elem \cup {Null}, d \in BOOLEAN : Replace(y, d)
    \/ FindMax
    \/ Size
    \/ \E d \in BOOLEAN : Destroy(d)

Spec == Init /\ [][Next]_vars
=============================================================================
