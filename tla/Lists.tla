------------------------------- MODULE Lists -------------------------------
(***************************************************************************)
(* A client of one of the two list libraries, which kind names: the calls  *)
(* and the promises of the two are the same but for the reversal.          *)
(***************************************************************************)
EXTENDS ListNodes, SequencesExt

VARIABLES prev,  \* of DoublyLinked
          rev,   \* of SinglyLinked
          kind   \* "singly" or "doubly"

vars == <<list, next, nodes, held, freed, ret, fault, prev, rev, kind>>

Singly == INSTANCE SinglyLinked
Doubly == INSTANCE DoublyLinked

TypeOK ==
    /\ list \in [List -> {Null} \cup
                         IF kind = "singly" THEN Singly!Struct ELSE Doubly!Struct]
    /\ next \in [Ptr -> Ptr]
    /\ prev \in [Ptr -> Ptr]
    /\ nodes \subseteq Elem
    /\ held \subseteq Elem
    /\ freed \subseteq Elem
    /\ ret \in {OK, ERR, Null} \cup Elem
    /\ fault \in BOOLEAN
    /\ rev \in {Null} \cup Singly!Reversal
    /\ kind \in {"singly", "doubly"}

Init ==
    /\ Singly!Init
    /\ Doubly!Init
    /\ kind \in {"singly", "doubly"}

Next ==
    \/ kind = "singly" /\ Singly!Next /\ UNCHANGED <<prev, kind>>
    \/ kind = "doubly" /\ Doubly!Next /\ UNCHANGED <<rev, kind>>

Spec == Init /\ [][Next]_vars

-----------------------------------------------------------------------------
(***************************************************************************)
(* Properties                                                              *)
(***************************************************************************)

\* No call dereferences NULL or a node that has been freed, wherever in a list nodes
\* have come and gone before.
MemorySafe == ~fault

\* The elements of list l in order, in the middle of a reversal the old one.
Sequence(l) ==
    IF rev # Null /\ rev.list = l
      THEN Reverse(Walk(next, rev.first)) \o Walk(next, rev.second)
      ELSE Contents(l)

\* Every list is a chain of allocated nodes that no other list shares and that ends;
\* count says how long it is; and a doubly linked one reads the same, backwards,
\* from its last node along prev.
Linked ==
    \A l \in List : Present(l) =>
        LET w == Sequence(l)
        IN  /\ Len(w) = list[l].count
            /\ ToSet(w) \subseteq nodes /\ Cardinality(ToSet(w)) = Len(w)
            /\ \A m \in List \ {l} : ToSet(w) \cap ToSet(Sequence(m)) = {}
            /\ kind = "doubly" =>
                 /\ Walk(prev, list[l].last) = Reverse(w)
                 /\ \A p \in nodes : prev[p] # Null => next[prev[p]] = p

\* Every element has one owner: the client, one list, or a dealloc callback.  No
\* node is leaked.
Ownership ==
    /\ nodes = UNION {ToSet(Sequence(l)) : l \in List}
    /\ held \cap nodes = {} /\ held \cap freed = {} /\ nodes \cap freed = {}
    /\ held \cup nodes \cup freed = Elem

\* The calls implement sequences.
Abstract == INSTANCE ListADT WITH
    seqs <- [l \in List |->
               IF Present(l) THEN [items |-> Sequence(l), compare |-> list[l].compare]
               ELSE Null]
ImplementsLists == Abstract!Spec
=============================================================================
