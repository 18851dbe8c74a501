----------------------------- MODULE ListNodes -----------------------------
(***************************************************************************)
(* What the two linked lists, singly_linked.c and doubly_linked.c, have in *)
(* common: list structs behind the client's pointers, and the nodes their  *)
(* next fields chain up.                                                   *)
(*                                                                         *)
(* Abstractions.  A node is named by the element its data points to, which *)
(* never changes; nodes is the set of allocated ones, and a field of a     *)
(* freed node is forgotten, so that it reads NULL.  A node's functions at  *)
(* Null are never written.  A compare callback is a function whose values  *)
(* are the same for elements that compare equal: the lists only ask that.  *)
(***************************************************************************)
EXTENDS Integers, Sequences, FiniteSets, Functions, FiniteSetsExt

CONSTANTS Elem,           \* the pointers a client stores
          Null,           \* the NULL pointer
          List,           \* the client's pointers to lists
          MaxU32,         \* UINT32_MAX
          Compare,        \* the compare callbacks
          DefaultCompare, \* default_compare, used when the client passes NULL
          Beyond          \* the situations outside the contract that may arise

\* Situations the code accepts and does not survive; see the README.
\*   short         a call by entry needs more elements than the list has
\*   wide          count passes UINT32_MAX
\*   remove_after  doubly_linked_remove_after looks at a node as if it were data
\*   to_last       doubly_linked_split of a middle part that ends the list
Situation == {"short", "wide", "remove_after", "to_last"}

ASSUME ListAssumption ==
    /\ IsFiniteSet(Elem)
    \* NULL is not a pointer to anything, and not a struct.
    /\ Null \notin Elem \cup List \cup Compare
    /\ Null \notin [first : Elem \cup {Null}, compare : Compare, count : 0..MaxU32]
    /\ Null \notin [first : Elem \cup {Null}, last : Elem \cup {Null},
                    compare : Compare, count : 0..MaxU32]
    /\ Null \notin [list : List, first : Elem \cup {Null},
                    second : Elem \cup {Null}, third : Elem \cup {Null}]
    /\ Null \notin [items : Seq(Elem), compare : Compare]
    /\ MaxU32 \in Nat \ {0}
    /\ \A compare \in Compare : DOMAIN compare = Elem
    /\ DefaultCompare \in Compare
    /\ Beyond \subseteq Situation

VARIABLES list,   \* the struct behind each of the client's pointers, or Null
          next,   \* the next field of every node
          nodes,  \* the allocated nodes
          held,   \* elements the client owns
          freed,  \* elements given to a dealloc callback
          ret,    \* result of the last call
          fault   \* a call has dereferenced NULL or a freed node

OK == 0
ERR == -1
Ptr == Elem \cup {Null}

Start ==
    /\ list = [l \in List |-> Null]
    /\ next = [p \in Ptr |-> Null]
    /\ nodes = {}
    /\ held = Elem
    /\ freed = {}
    /\ ret = Null
    /\ fault = FALSE

-----------------------------------------------------------------------------
\* Definitions named Bug..., here and in the modules that extend this one, are the
\* operators after them with one mistake; no specification uses them.  The README
\* says which property notices which.

Present(l) == list[l] # Null
Size(l) == IF Present(l) THEN list[l].count ELSE 0

\* A count after d more elements, in 32 bits.
By(n, d) == (n + d) % (MaxU32 + 1)

Fits(n) == n <= MaxU32 \/ "wide" \in Beyond

\* The nodes a loop along a field visits from node p on, in that order.
Walk(field, p) ==
    LET steps[n \in Nat] ==
            [q \in Ptr |-> IF q = Null \/ n = 0 THEN <<>>
                          ELSE <<q>> \o steps[n - 1][field[q]]]
    IN  steps[Cardinality(Elem) + 1][p]

Contents(l) == IF Present(l) THEN Walk(next, list[l].first) ELSE <<>>
Visited(field, p) == Range(Walk(field, p))
Members(l) == IF Present(l) THEN Visited(next, list[l].first) ELSE {}
Enough(l, n) == Len(Contents(l)) >= n \/ "short" \in Beyond

\* Comparing the element of node p, which may be NULL, with an entry.
Same(l, p, entry) ==
    p # Null /\ list[l].compare[p] = list[l].compare[entry]

\* The loops that search: the position, at or after from, of the first node whose
\* element compares equal, or 0.
MatchBy(compare, l, key, from) ==
    LET hits == {i \in from..Len(Contents(l)) : compare[Contents(l)[i]] = compare[key]}
    IN  IF hits = {} THEN 0 ELSE Min(hits)
Match(l, entry, from) == MatchBy(list[l].compare, l, entry, from)

\* The node there, as in_list returns it.
Nth(l, i) == IF i = 0 THEN Null ELSE Contents(l)[i]
InList(l, entry) == Nth(l, Match(l, entry, 1))

\* The nodes the loop has read when it stops.
Passed(l, i) ==
    {Contents(l)[j] : j \in 1..(IF i = 0 THEN Len(Contents(l)) ELSE i)}

-----------------------------------------------------------------------------
\* A call uses the nodes of S: it survives if they are all allocated.
Derefs(S) == fault' = ~(S \subseteq nodes)

\* A call that changes nothing but its result.
Fails(result, S) ==
    /\ ret' = result
    /\ Derefs(S)
    /\ UNCHANGED <<list, nodes, held, freed>>

\* x gets a node, or loses it and goes back to the client.
Gains(x) ==
    /\ nodes' = nodes \cup {x}
    /\ held' = held \ {x}
    /\ ret' = OK
    /\ UNCHANGED freed
Loses(x) ==
    /\ nodes' = nodes \ {x}
    /\ held' = held \cup ({x} \ {Null})
    /\ ret' = x
    /\ UNCHANGED freed

\* A store to a field of node p, if there is a p.
Put(field, p, v) == IF p = Null THEN field ELSE [field EXCEPT ![p] = v]

\* The field once the nodes of S are freed.
Forget(field, S) == [p \in Ptr |-> IF p \in S THEN Null ELSE field[p]]

Joinable(l, m) ==
    /\ Present(l) /\ Present(m)
    /\ list[l].count # 0 /\ list[m].count # 0
    /\ list[l].compare = list[m].compare

\* The part that stays is not looked at.
BugSplittableAll(l, from, to) ==
    /\ Present(l)
    /\ {from, to} # {Null}
    /\ {from, to} \subseteq Members(l) \cup {Null}

\* What split accepts: the nodes, or NULL for an end, belong to the list and are not
\* both NULL, and the part that stays is not empty.
Splittable(l, from, to) ==
    /\ Present(l)
    /\ {from, to} # {Null}
    /\ {from, to} \subseteq Members(l) \cup {Null}
    /\ from \in {Null, list[l].first} => next[to] # Null

\* "Always pass from left to right."
LeftToRight(l, from, to) ==
    \A i, j \in DOMAIN Contents(l) :
       Contents(l)[i] = from /\ Contents(l)[j] = to => i <= j

\* The node at which the loop stops is not freed.
BugFreesShort(l, S) ==
    LET T == {p \in S : next[p] # Null}
    IN  /\ list' = [list EXCEPT ![l] = Null]
        /\ next' = Forget(next, T)
        /\ nodes' = nodes \ T
        /\ freed' = freed \cup T
        /\ ret' = OK
        /\ Derefs(S)
        /\ UNCHANGED held

\* The last part of destroy: every node of S and the struct are freed.
Frees(l, S) ==
    /\ list' = [list EXCEPT ![l] = Null]
    /\ next' = Forget(next, S)
    /\ nodes' = nodes \ S
    /\ freed' = freed \cup S
    /\ ret' = OK
    /\ Derefs(S)
    /\ UNCHANGED held

Mine  == held \cup {Null}
Known == (Elem \ freed) \cup {Null}
NodePtr == nodes \cup {Null}
=============================================================================
