---------------------------- MODULE SinglyLinked ----------------------------
(***************************************************************************)
(* The singly linked list of singly_linked.c and singly_linked.h, and a    *)
(* client of the lists List.  The macro singly_linked_reverse runs in the  *)
(* client's code; one iteration of its loop is one step, and rev is its    *)
(* local variables.                                                        *)
(***************************************************************************)
EXTENDS ListNodes

VARIABLE rev   \* first, second and third of the reversal in progress, or Null

Init == Start /\ rev = Null

\* struct singly_linked, and the variables of the macro.
Struct == [first : Ptr, compare : Compare, count : 0..MaxU32]
Reversal == [list : List, first : Ptr, second : Ptr, third : Ptr]

Refuse(result, S) == Fails(result, S) /\ UNCHANGED next

Create(l, compare) ==
    /\ ~Present(l)
    /\ \/ Refuse(Null, {})
       \/ /\ list' = [list EXCEPT ![l] =
                        [first |-> Null, count |-> 0,
                         compare |-> IF compare = Null THEN DefaultCompare ELSE compare]]
          /\ ret' = OK   \* a pointer that is not NULL
          /\ UNCHANGED <<next, nodes, held, freed, fault>>

-----------------------------------------------------------------------------
\* A new node for x behind node p, or in front when p is NULL.
Insert(l, p, x, S) ==
    /\ list' = [list EXCEPT ![l].first = IF p = Null THEN x ELSE @,
                            ![l].count = By(@, 1)]
    /\ next' = Put(Put(next, x, IF p = Null THEN list[l].first ELSE next[p]), p, x)
    /\ Gains(x)
    /\ Derefs(S)

\* No argument is NULL.  The check of count holds for every uint32_t.
Accepts(l, x) == Present(l) /\ x # Null /\ Fits(list[l].count + 1)

Push(l, x) ==
    \/ Refuse(ERR, {})   \* an argument is NULL, or no memory
    \/ Accepts(l, x) /\ Insert(l, Nth(l, Len(Contents(l))), x, Members(l))

Unshift(l, x) ==
    \/ Refuse(ERR, {})
    \/ Accepts(l, x) /\ Insert(l, Null, x, {})

InsertAfter(l, entry, x) ==
    \/ Refuse(ERR, {})   \* the same, or entry is not there
    \/ /\ Accepts(l, x) /\ entry # Null /\ InList(l, entry) # Null
       /\ Insert(l, InList(l, entry), x, Passed(l, Match(l, entry, 1)))

InsertBefore(l, entry, x) ==
    \/ Refuse(ERR, {})
    \/ LET i == Match(l, entry, 1)
       IN  /\ Accepts(l, x) /\ entry # Null /\ i # 0
           /\ Insert(l, Nth(l, i - 1), x, Passed(l, i))

-----------------------------------------------------------------------------
\* The freed node stays linked.
BugDetachLinked(l, p, x, S) ==
    /\ list' = [list EXCEPT ![l].first = IF p = Null THEN next[x] ELSE @,
                            ![l].count = By(@, -1)]
    /\ next' = next
    /\ Loses(x)
    /\ Derefs(S)

\* Node x, behind p, or the first when p is NULL, is unlinked and freed.
Detach(l, p, x, S) ==
    /\ list' = [list EXCEPT ![l].first = IF p = Null THEN next[x] ELSE @,
                            ![l].count = By(@, -1)]
    /\ next' = Forget(Put(next, p, next[x]), {x})
    /\ Loses(x)
    /\ Derefs(S)

Pop(l) ==
    LET n == Len(Contents(l))
    IN  \/ Size(l) = 0 /\ Refuse(Null, {})
        \/ /\ Size(l) = 1
           /\ list' = [list EXCEPT ![l].first = Null, ![l].count = 0]
           /\ next' = Forget(next, {list[l].first})
           /\ Loses(list[l].first)
           /\ Derefs({list[l].first})
        \/ /\ Size(l) > 1
           /\ Detach(l, Nth(l, n - 1), Nth(l, n), Members(l) \cup {next[list[l].first]})

Shift(l) ==
    \/ (Present(l) => list[l].first = Null) /\ Refuse(Null, {})
    \/ /\ Present(l) /\ list[l].first # Null
       /\ Detach(l, Null, list[l].first, {list[l].first})

Remove(l, entry) ==
    LET i == Match(l, entry, 1)
    IN  \/ (entry = Null \/ Size(l) = 0) /\ Refuse(Null, {})
        \/ /\ entry # Null /\ Size(l) # 0
           /\ \/ i # 0 /\ Detach(l, Nth(l, i - 1), Nth(l, i), Passed(l, i))
              \/ i = 0 /\ Refuse(Null, {list[l].first} \cup Passed(l, i))

RemoveAfter(l, entry) ==
    LET i == Match(l, entry, 1)
        node == InList(l, entry)
    IN  \/ (entry = Null \/ Size(l) = 0) /\ Refuse(Null, {})
        \/ /\ entry # Null /\ Size(l) # 0
           /\ \/ /\ next[node] # Null
                 /\ Detach(l, node, next[node], Passed(l, i) \cup {next[node]})
              \/ next[node] = Null /\ Refuse(Null, Passed(l, i))

\* The search starts at the second node.
RemoveBefore(l, entry) ==
    LET i == Match(l, entry, 2)
        S == {list[l].first, next[list[l].first]} \cup Passed(l, i)
    IN  \/ (entry = Null \/ Size(l) < 2) /\ Refuse(Null, {})
        \/ /\ entry # Null /\ Size(l) > 1
           /\ \/ i # 0 /\ Detach(l, Nth(l, i - 2), Nth(l, i - 1), S)
              \/ i = 0 /\ Refuse(Null, S)

\* The macro singly_linked_search, with the client's own callback: its result is a
\* node.
Search(l, compare, key) ==
    \/ ~Present(l) /\ Refuse(Null, {})
    \/ LET i == MatchBy(compare, l, key, 1)
       IN  Present(l) /\ key # Null /\ Refuse(Nth(l, i), Passed(l, i))

-----------------------------------------------------------------------------
Join(l, m) ==
    \/ ~Joinable(l, m) /\ Refuse(ERR, {})
    \/ /\ Joinable(l, m) /\ Fits(list[l].count + list[m].count)
       /\ next' = Put(next, Nth(l, Len(Contents(l))), list[m].first)
       /\ list' = [list EXCEPT ![l].count = By(@, list[m].count), ![m] = Null]
       /\ ret' = OK
       /\ Derefs(Members(l))
       /\ UNCHANGED <<nodes, held, freed>>

\* The new list is what the call returns, for the client to keep in pointer new.
Split(l, from, to, new) ==
    \/ Refuse(Null, {})   \* refused, or no memory for the struct
    \/ LET w == Contents(l)
           i == IF from = Null THEN 1 ELSE CHOOSE k \in DOMAIN w : w[k] = from
           j == IF to = Null THEN Len(w) ELSE CHOOSE k \in DOMAIN w : w[k] = to
           size == IF to = Null THEN By(list[l].count, 1 - i) ELSE 1 + j - i
       IN  /\ Splittable(l, from, to) /\ LeftToRight(l, from, to)
           /\ next' = Put(Put(next, w[j], Null), Nth(l, i - 1), next[w[j]])
           /\ list' = [list EXCEPT ![l].first = IF i = 1 THEN next[w[j]] ELSE @,
                                   ![l].count = By(@, 0 - size),
                                   ![new] = [first |-> w[i], count |-> size,
                                             compare |-> list[l].compare]]
           /\ ret' = OK
           /\ Derefs(Members(l))
           /\ UNCHANGED <<nodes, held, freed>>

\* The nodes are visited only if there are any by count.
Destroy(l) ==
    \/ ~Present(l) /\ Refuse(ERR, {})
    \/ Present(l) /\ Frees(l, IF list[l].count = 0 THEN {} ELSE Members(l))

-----------------------------------------------------------------------------
\* The macro singly_linked_reverse up to its loop, ...
ReverseStart(l) ==
    LET first == list[l].first
        second == next[first]
    IN  /\ Size(l) > 1
        /\ next' = Put(next, first, Null)
        /\ rev' = [list |-> l, first |-> first, second |-> second,
                   third |-> next'[second]]
        /\ Derefs({first, second})
        /\ UNCHANGED <<list, nodes, held, freed, ret>>

\* ... one iteration, ...
ReverseStep ==
    /\ rev # Null /\ rev.third # Null
    /\ next' = Put(next, rev.second, rev.first)
    /\ rev' = [rev EXCEPT !.first = rev.second, !.second = rev.third,
                          !.third = next'[rev.third]]
    /\ Derefs({rev.second, rev.third})
    /\ UNCHANGED <<list, nodes, held, freed, ret>>

\* ... and what follows the loop.
ReverseEnd ==
    /\ rev # Null /\ rev.third = Null
    /\ next' = Put(next, rev.second, rev.first)
    /\ list' = [list EXCEPT ![rev.list].first = rev.second]
    /\ rev' = Null
    /\ Derefs({rev.second})
    /\ UNCHANGED <<nodes, held, freed, ret>>

Call ==
    \E l \in List :
       \/ \E c \in Compare \cup {Null} : Create(l, c)
       \/ \E x \in Mine : Push(l, x)
       \/ \E x \in Mine : Unshift(l, x)
       \/ \E x \in Mine, e \in Known : InsertAfter(l, e, x)
       \/ \E x \in Mine, e \in Known : InsertBefore(l, e, x)
       \/ Pop(l)
       \/ Shift(l)
       \/ \E e \in Known : Remove(l, e)
       \/ \E e \in Known : RemoveAfter(l, e)
       \/ \E e \in Known : RemoveBefore(l, e)
       \/ \E c \in Compare, e \in Known : Search(l, c, e)
       \/ \E m \in List \ {l} : Join(l, m)
       \/ \E new \in List, from, to \in NodePtr : ~Present(new) /\ Split(l, from, to, new)
       \/ Destroy(l)

Next ==
    /\ ~fault
    /\ \/ rev = Null /\ Call /\ UNCHANGED rev
       \/ rev = Null /\ \E l \in List : ReverseStart(l)
       \/ ReverseStep
       \/ ReverseEnd
=============================================================================
