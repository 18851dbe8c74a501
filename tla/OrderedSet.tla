----------------------------- MODULE OrderedSet -----------------------------
(***************************************************************************)
(* The set behind binary_search_tree.h: its elements do not compare equal, *)
(* and at any time one may be put in, be answered, or be taken out and     *)
(* answered.  A call may be refused at any time, and changes nothing then. *)
(* Which key a call was given is not part of this module: that a search    *)
(* ends at the right element, or with NULL for a good reason, follows from *)
(* SearchOrder and LoopsAim of BSTree.                                     *)
(***************************************************************************)
EXTENDS Integers

CONSTANTS Elem, Null, Compare

OK  == 0
ERR == -1

VARIABLES set,    \* [members, compare], or Null when there is no tree
          held,   \* elements the client owns
          freed,  \* elements given to a dealloc callback
          ret     \* result of the last call

vars == <<set, held, freed, ret>>

Init ==
    /\ set = Null
    /\ held = Elem
    /\ freed = {}
    /\ ret = Null

Equals(key) == {x \in set.members : set.compare[x] = set.compare[key]}

Refused ==
    /\ ret' \in {ERR, Null}
    /\ UNCHANGED <<set, held, freed>>

Create(compare) ==
    /\ set = Null
    /\ set' = [members |-> {}, compare |-> compare]
    /\ ret' = OK
    /\ UNCHANGED <<held, freed>>

Insert(x) ==
    /\ set # Null
    /\ Equals(x) = {}
    /\ set' = [set EXCEPT !.members = @ \cup {x}]
    /\ held' = held \ {x}
    /\ ret' = OK
    /\ UNCHANGED freed

\* What a search changes and may answer, for the key of some client.
Search(key) ==
    /\ set # Null
    /\ ret' \in IF Equals(key) = {} THEN {Null} ELSE Equals(key)
    /\ UNCHANGED <<set, held, freed>>

Delete(key) ==
    /\ set # Null
    /\ \E x \in Equals(key) :
          /\ set' = [set EXCEPT !.members = @ \ {x}]
          /\ held' = held \cup {x}
          /\ ret' = x
    /\ UNCHANGED freed

Traverse ==
    /\ set # Null
    /\ ret' \in {OK, ERR}
    /\ UNCHANGED <<set, held, freed>>

Destroy ==
    /\ set # Null
    /\ set' = Null
    /\ freed' = freed \cup set.members
    /\ ret' = OK
    /\ UNCHANGED held

Next ==
    \/ Refused
    \/ \E c \in Compare : Create(c)
    \/ \E x \in held : Insert(x)
    \/ \E key \in Elem : Search(key)
    \/ \E key \in Elem : Delete(key)
    \/ Traverse
    \/ Destroy

Spec == Init /\ [][Next]_vars
=============================================================================
