----------------------------- MODULE Dictionary -----------------------------
(***************************************************************************)
(* What hashmap.h promises: a collection of elements, equal ones allowed,  *)
(* from which an element is found and taken by a key that compares equal   *)
(* to it.  There is one action per call, with the arguments of the call    *)
(* that show; it has its effect at once, or is refused and changes         *)
(* nothing.                                                                *)
(***************************************************************************)
EXTENDS Integers

CONSTANTS Elem, Null, Compare, DefaultCompare

OK  == 0
ERR == -1

VARIABLES dict,   \* [members, compare], or Null when there is no map
          held,   \* elements the client owns
          freed,  \* elements given to the dealloc callback
          ret     \* result of the last call

vars == <<dict, held, freed, ret>>

Init ==
    /\ dict = Null
    /\ held = Elem
    /\ freed = {}
    /\ ret = Null

\* The elements a key stands for.
Equal(key) == {x \in dict.members : dict.compare[x] = dict.compare[key]}

Nothing(key) == IF dict = Null \/ key = Null THEN TRUE ELSE Equal(key) = {}

Refuse(result) ==
    /\ ret' = result
    /\ UNCHANGED <<dict, held, freed>>

-----------------------------------------------------------------------------
\* Creating and inserting may be refused for memory; all other calls are refused
\* for the reason given, and then only.
Create(compare) ==
    /\ dict = Null
    /\ \/ Refuse(Null)
       \/ /\ dict' = [members |-> {},
                     compare |-> IF compare = Null THEN DefaultCompare ELSE compare]
          /\ ret' = OK
          /\ UNCHANGED <<held, freed>>

Insert(x) ==
    \/ Refuse(ERR)
    \/ /\ dict # Null /\ x \in held
       /\ dict' = [dict EXCEPT !.members = @ \cup {x}]
       /\ held' = held \ {x}
       /\ ret' = OK
       /\ UNCHANGED freed

Find(key) ==
    \/ Nothing(key) /\ Refuse(Null)
    \/ /\ ~Nothing(key) /\ ret' \in Equal(key)
       /\ UNCHANGED <<dict, held, freed>>

Remove(key) ==
    \/ Nothing(key) /\ Refuse(Null)
    \/ /\ ~Nothing(key)
       /\ \E x \in Equal(key) :
             /\ dict' = [dict EXCEPT !.members = @ \ {x}]
             /\ held' = held \cup {x}
             /\ ret' = x
       /\ UNCHANGED freed

\* Everything in the map goes to the callback.
Destroy ==
    \/ dict = Null /\ Refuse(ERR)
    \/ /\ dict # Null
       /\ dict' = Null
       /\ freed' = freed \cup dict.members
       /\ ret' = OK
       /\ UNCHANGED held

Next ==
    \/ \E c \in Compare \cup {Null} : Create(c)
    \/ \E x \in Elem \cup {Null} : Insert(x)
    \/ \E key \in Elem \cup {Null} : Find(key)
    \/ \E key \in Elem \cup {Null} : Remove(key)
    \/ Destroy

Spec == Init /\ [][Next]_vars
=============================================================================
