------------------------------ MODULE ListADT ------------------------------
(***************************************************************************)
(* What singly_linked.h and doubly_linked.h promise: sequences of elements *)
(* in which every other element keeps its place when one comes or goes,    *)
(* and which can be joined, split and, the singly linked ones, reversed.   *)
(***************************************************************************)
EXTENDS Integers, SequencesExt

CONSTANTS Elem, Null, List, Compare

OK  == 0
ERR == -1

VARIABLES seqs,   \* for each list its [items, compare], or Null
          held,   \* elements the client owns
          freed,  \* elements given to a dealloc callback
          ret     \* result of the last call

vars == <<seqs, held, freed, ret>>

Init ==
    /\ seqs = [l \in List |-> Null]
    /\ held = Elem
    /\ freed = {}
    /\ ret = Null

Live == {l \in List : seqs[l] # Null}
Items(l) == seqs[l].items

Refused ==
    /\ ret' \in {ERR, Null}
    /\ UNCHANGED <<seqs, held, freed>>

Create(l, compare) ==
    /\ l \notin Live
    /\ seqs' = [seqs EXCEPT ![l] = [items |-> <<>>, compare |-> compare]]
    /\ ret' = OK
    /\ UNCHANGED <<held, freed>>

Insert(l, x) ==
    /\ \E i \in 1..(Len(Items(l)) + 1) :
          seqs' = [seqs EXCEPT ![l].items = InsertAt(@, i, x)]
    /\ held' = held \ {x}
    /\ ret' = OK
    /\ UNCHANGED freed

TakeOut(l) ==
    /\ \E i \in DOMAIN Items(l) :
          /\ seqs' = [seqs EXCEPT ![l].items = RemoveAt(@, i)]
          /\ held' = held \cup {Items(l)[i]}
          /\ ret' = Items(l)[i]
    /\ UNCHANGED freed

\* An element may be looked up, but an absent one is not found.
Search(l) ==
    /\ ret' \in ToSet(Items(l))
    /\ UNCHANGED <<seqs, held, freed>>

Join(l, m) ==
    /\ l # m
    /\ seqs[l].compare = seqs[m].compare
    /\ seqs' = [seqs EXCEPT ![l].items = @ \o Items(m), ![m] = Null]
    /\ ret' = OK
    /\ UNCHANGED <<held, freed>>

\* Items i to j become a list of their own, and neither list is empty.
Split(l, new) ==
    /\ new \notin Live
    /\ \E i, j \in DOMAIN Items(l) :
          /\ i <= j /\ j - i + 1 < Len(Items(l))
          /\ seqs' = [seqs EXCEPT
                ![l].items = SubSeq(@, 1, i - 1) \o SubSeq(@, j + 1, Len(@)),
                ![new] = [items   |-> SubSeq(Items(l), i, j),
                          compare |-> seqs[l].compare]]
    /\ ret' = OK
    /\ UNCHANGED <<held, freed>>

Reversed(l) ==
    /\ seqs' = [seqs EXCEPT ![l].items = Reverse(@)]
    /\ UNCHANGED <<held, freed, ret>>

Destroy(l) ==
    /\ seqs' = [seqs EXCEPT ![l] = Null]
    /\ freed' = freed \cup ToSet(Items(l))
    /\ ret' = OK
    /\ UNCHANGED held

Next ==
    \/ Refused
    \/ \E l \in List, c \in Compare : Create(l, c)
    \/ \E l \in Live, x \in held : Insert(l, x)
    \/ \E l \in Live : TakeOut(l)
    \/ \E l \in Live : Search(l)
    \/ \E l, m \in Live : Join(l, m)
    \/ \E l \in Live, new \in List : Split(l, new)
    \/ \E l \in Live : Reversed(l)
    \/ \E l \in Live : Destroy(l)

Spec == Init /\ [][Next]_vars
=============================================================================
