---------------------------- MODULE DoublyLinked ----------------------------
(***************************************************************************)
(* The doubly linked list of doubly_linked.c and doubly_linked.h, and a    *)
(* client of the lists List.  Stack and Queue (stack.h, queue.h) rename    *)
(* its create, push, pop, shift and destroy.                               *)
(***************************************************************************)
EXTENDS ListNodes

VARIABLE prev   \* the prev field of every node

Init == Start /\ prev = [p \in Ptr |-> Null]

\* struct doubly_linked.
Struct == [first : Ptr, last : Ptr, compare : Compare, count : 0..MaxU32]

Refuse(result, S) == Fails(result, S) /\ UNCHANGED <<next, prev>>

\* No default_compare for a client that passes NULL.
BugCreateBare(l, compare) ==
    /\ ~Present(l)
    /\ list' = [list EXCEPT ![l] =
                  [first |-> Null, last |-> Null, count |-> 0, compare |-> compare]]
    /\ ret' = OK
    /\ UNCHANGED <<next, prev, nodes, held, freed, fault>>

Create(l, compare) ==
    /\ ~Present(l)
    /\ \/ Refuse(Null, {})
       \/ /\ list' = [list EXCEPT ![l] =
                        [first |-> Null, last |-> Null, count |-> 0,
                         compare |-> IF compare = Null THEN DefaultCompare ELSE compare]]
          /\ ret' = OK   \* a pointer that is not NULL
          /\ UNCHANGED <<next, prev, nodes, held, freed, fault>>

-----------------------------------------------------------------------------
Empty(l) == Size(l) = 0
Single(l) == Size(l) = 1
Roomy(l) == Present(l) /\ list[l].count < MaxU32

\* List l with these ends, d elements longer.
Resized(l, first, last, d) ==
    [list EXCEPT ![l].first = first, ![l].last = last, ![l].count = By(@, d)]
Longer(l, d) == Resized(l, list[l].first, list[l].last, d)

\* The right neighbour keeps its back link.
BugPlaceOneWay(p, x, n) ==
    /\ next' = Put(Put(next, p, x), x, n)
    /\ prev' = Put(prev, x, p)
    /\ Gains(x)

\* A new node for x between the neighbours p and n.
Place(p, x, n) ==
    /\ next' = Put(Put(next, p, x), x, n)
    /\ prev' = Put(Put(prev, n, x), x, p)
    /\ Gains(x)

\* Node x, between p and n, is unlinked and freed.
Cut(p, x, n) ==
    /\ next' = Forget(Put(next, p, n), {x})
    /\ prev' = Forget(Put(prev, n, p), {x})
    /\ Loses(x)

AddLast(l, x) ==
    LET p == IF Empty(l) THEN Null ELSE list[l].last
    IN  /\ list' = Resized(l, IF Empty(l) THEN x ELSE list[l].first, x, 1)
        /\ Place(p, x, Null)
        /\ Derefs(IF Empty(l) THEN {} ELSE {p})

Push(l, x) ==
    \/ Refuse(ERR, {})   \* an argument is NULL, the list is full, or no memory
    \/ Roomy(l) /\ x # Null /\ AddLast(l, x)

AddFirst(l, x) ==
    LET n == IF Empty(l) THEN Null ELSE list[l].first
    IN  /\ list' = Resized(l, x, IF Empty(l) THEN x ELSE list[l].last, 1)
        /\ Place(Null, x, n)
        /\ Derefs(IF Empty(l) THEN {} ELSE {n})

Unshift(l, x) ==
    \/ Refuse(ERR, {})
    \/ Roomy(l) /\ x # Null /\ AddFirst(l, x)

\* The nodes read by a call that compares the one at an end before it searches.
Looked(l, end, entry) ==
    {end} \cup IF Same(l, end, entry) THEN {} ELSE Passed(l, Match(l, entry, 1))

InsertAfter(l, entry, x) ==
    LET node == InList(l, entry)
    IN  \/ (~Roomy(l) \/ entry = Null \/ x = Null) /\ Refuse(ERR, {})
        \/ /\ Roomy(l) /\ entry # Null /\ x # Null /\ Enough(l, 1)
           /\ \/ Refuse(ERR, Looked(l, list[l].last, entry))   \* not there, or no memory
              \/ Same(l, list[l].last, entry) /\ AddLast(l, x)
              \/ /\ ~Same(l, list[l].last, entry) /\ node # Null
                 /\ list' = Longer(l, 1)
                 /\ Place(node, x, next[node])
                 /\ Derefs({next[node]} \cup Looked(l, list[l].last, entry))

InsertBefore(l, entry, x) ==
    LET node == InList(l, entry)
    IN  \/ (~Roomy(l) \/ entry = Null \/ x = Null) /\ Refuse(ERR, {})
        \/ /\ Roomy(l) /\ entry # Null /\ x # Null /\ Enough(l, 1)
           /\ \/ Refuse(ERR, Looked(l, list[l].first, entry))
              \/ Same(l, list[l].first, entry) /\ AddFirst(l, x)
              \/ /\ ~Same(l, list[l].first, entry) /\ node # Null
                 /\ list' = Longer(l, 1)
                 /\ Place(prev[node], x, node)
                 /\ Derefs({prev[node]} \cup Looked(l, list[l].first, entry))

-----------------------------------------------------------------------------
\* The last node goes; S is what the call has read before.
DropLast(l, S) ==
    LET p == IF Single(l) THEN Null ELSE prev[list[l].last]
    IN  /\ list' = Resized(l, IF Single(l) THEN Null ELSE list[l].first, p, -1)
        /\ Cut(p, list[l].last, Null)
        /\ Derefs(S \cup {list[l].last} \cup IF Single(l) THEN {} ELSE {p})

Pop(l) ==
    \/ Empty(l) /\ Refuse(Null, {})
    \/ ~Empty(l) /\ DropLast(l, {})

DropFirst(l, S) ==
    LET n == IF Single(l) THEN Null ELSE next[list[l].first]
    IN  /\ list' = Resized(l, n, IF Single(l) THEN Null ELSE list[l].last, -1)
        /\ Cut(Null, list[l].first, n)
        /\ Derefs(S \cup {list[l].first} \cup IF Single(l) THEN {} ELSE {n})

Shift(l) ==
    \/ Empty(l) /\ Refuse(Null, {})
    \/ ~Empty(l) /\ DropFirst(l, {})

\* A node found in the middle goes.
Extract(l, p, x, n, S) ==
    list' = Longer(l, -1) /\ Cut(p, x, n) /\ Derefs(S \cup {p, x, n})

Remove(l, entry) ==
    LET node == InList(l, entry)
        first == list[l].first
        last == list[l].last
        S == {first, last} \cup Passed(l, Match(l, entry, 1))
    IN  \/ (~Present(l) \/ entry = Null) /\ Refuse(Null, {})
        \/ /\ Present(l) /\ entry # Null /\ Enough(l, 1)
           /\ \/ Same(l, first, entry) /\ DropFirst(l, {})
              \/ ~Same(l, first, entry) /\ Same(l, last, entry) /\ DropLast(l, {first})
              \/ /\ ~Same(l, first, entry) /\ ~Same(l, last, entry)
                 /\ \/ node # Null /\ Extract(l, prev[node], node, next[node], S)
                    \/ node = Null /\ Refuse(Null, S)

\* The node before the last is compared as if it were an element: what that answers
\* depends on the bytes of an address.
RemoveAfter(l, entry) ==
    LET node == InList(l, entry)
        last == list[l].last
        S == {last, prev[last]} \cup Passed(l, Match(l, entry, 1))
    IN  \/ (~Present(l) \/ entry = Null) /\ Refuse(Null, {})
        \/ /\ Present(l) /\ entry # Null /\ Enough(l, 1)
           /\ Same(l, last, entry) /\ Refuse(Null, {last})
        \/ /\ Present(l) /\ entry # Null /\ Enough(l, 2) /\ ~Same(l, last, entry)
           /\ \/ "remove_after" \in Beyond /\ DropLast(l, {prev[last]})
              \/ /\ node # Null
                 /\ next[node] # last \/ "remove_after" \in Beyond
                 /\ Extract(l, node, next[node], next[next[node]], S)
              \/ node = Null /\ Refuse(Null, S)

RemoveBefore(l, entry) ==
    LET node == InList(l, entry)
        first == list[l].first
        S == {first, next[first]} \cup Passed(l, Match(l, entry, 1))
    IN  \/ (~Present(l) \/ entry = Null) /\ Refuse(Null, {})
        \/ /\ Present(l) /\ entry # Null /\ Enough(l, 1)
           /\ Same(l, first, entry) /\ Refuse(Null, {first})
        \/ /\ Present(l) /\ entry # Null /\ Enough(l, 2) /\ ~Same(l, first, entry)
           /\ \/ Same(l, next[first], entry) /\ DropFirst(l, {next[first]})
              \/ /\ ~Same(l, next[first], entry) /\ node # Null
                 /\ Extract(l, prev[prev[node]], prev[node], node, S)
              \/ node = Null /\ Refuse(Null, S)

-----------------------------------------------------------------------------
Join(l, m) ==
    LET end == list[l].last
        start == list[m].first
    IN  \/ ~Joinable(l, m) /\ Refuse(ERR, {})
        \/ /\ Joinable(l, m) /\ Fits(list[l].count + list[m].count)
           /\ next' = Put(next, end, start)
           /\ prev' = Put(prev, start, end)
           /\ list' = [Resized(l, list[l].first, list[m].last, list[m].count)
                          EXCEPT ![m] = Null]
           /\ ret' = OK
           /\ Derefs({start, end})
           /\ UNCHANGED <<nodes, held, freed>>

\* The new list is what the call returns, for the client to keep in pointer new.
Split(l, from, to, new) ==
    \/ Refuse(Null, {})   \* refused, or no memory for the struct
    \/ LET head == from \in {Null, list[l].first}
           f == IF head THEN list[l].first ELSE from
           t == IF to = Null THEN list[l].last ELSE to
           p == IF head THEN Null ELSE prev[f]
           n == IF to = Null THEN Null ELSE next[t]
           part == Walk(next', f)
       IN  /\ Splittable(l, from, to) /\ LeftToRight(l, from, to)
           /\ head \/ to # list[l].last \/ "to_last" \in Beyond
           /\ next' = Put(Put(next, t, Null), p, n)
           /\ prev' = Put(Put(prev, f, Null), n, p)
           /\ list' = [list EXCEPT ![l].first = IF head THEN n ELSE @,
                                   ![l].last = IF to = Null THEN p ELSE @,
                                   ![l].count = By(@, 0 - Len(part)),
                                   ![new] = [first |-> f, last |-> t, count |-> Len(part),
                                             compare |-> list[l].compare]]
           /\ ret' = OK
           /\ Derefs(Visited(next', f) \cup (IF head THEN {} ELSE {p})
                                 \cup (IF to = Null THEN {} ELSE {n}))
           /\ UNCHANGED <<nodes, held, freed>>

Destroy(l) ==
    \/ ~Present(l) /\ Refuse(ERR, {})
    \/ Present(l) /\ Frees(l, Members(l)) /\ prev' = Forget(prev, Members(l))

-----------------------------------------------------------------------------
Next ==
    /\ ~fault
    /\ \E l \in List :
         \/ \E c \in Compare \cup {Null} : Create(l, c)
         \/ \E x \in Mine : Push(l, x)
         \/ \E x \in Mine : Unshift(l, x)
         \/ \E x \in Mine, e \in Known : InsertAfter(l, e, x)
         \/ \E x \in Mine, e \in Known : InsertBefore(l, e, x)
         \/ Pop(l)
         \/ Shift(l)
         \/ \E e \in Known : Remove(l, e)
         \/ \E e \in Known : RemoveAfter(l, e)
         \/ \E e \in Known : RemoveBefore(l, e)
         \/ \E m \in List \ {l} : Join(l, m)
         \/ \E new \in List, from, to \in NodePtr : ~Present(new) /\ Split(l, from, to, new)
         \/ Destroy(l)
=============================================================================
