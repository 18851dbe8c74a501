------------------------------- MODULE BSTree -------------------------------
(***************************************************************************)
(* The binary search tree of binary_search_tree.c and binary_search_tree.h *)
(* and a client that calls it in any order.                                *)
(*                                                                         *)
(* Abstractions.  An element is a pointer, one value of Elem; a node is    *)
(* named by the element it holds, which never changes: nodes is the set of *)
(* allocated ones and link their three pointers.  Every search loop is     *)
(* taken one comparison a step; pc names the loop, cur is its cur_node,    *)
(* key the data it looks for and rep the replacement of a deleted node.    *)
(* compare answers GREATER, LESS or EQUAL and is a rank function.          *)
(***************************************************************************)
EXTENDS Integers, Sequences, FiniteSets

CONSTANTS Elem,            \* the pointers a client stores
          Null,            \* the NULL pointer
          MaxU32,          \* UINT32_MAX
          Compare,         \* the compare callbacks: rank functions on Elem
          DefaultCompare,  \* default_compare, used when the client passes NULL
          Beyond           \* the situations outside the contract that may arise

\* Situations the code accepts and does not survive; see the README.
\*   deep_child  the replacement of a deleted node has a child and lies deeper
\*               than the children of that node
\*   stop_late   the callback stops an in-order or post-order traversal
Situation == {"deep_child", "stop_late"}

ASSUME BSTreeAssumption ==
    /\ IsFiniteSet(Elem)
    /\ MaxU32 \in Nat \ {0}
    /\ Compare \subseteq [Elem -> Int]
    \* NULL is not a pointer to anything, and not a struct.
    /\ Null \notin Elem \cup Compare
    /\ Null \notin [root : Elem \cup {Null}, compare : Compare, length : 0..MaxU32]
    /\ Null \notin [members : SUBSET Elem, compare : Compare]
    /\ DefaultCompare \in Compare
    /\ Beyond \subseteq Situation

OK == 0
ERR == -1

VARIABLES tree,    \* the struct behind the client's pointer, or Null
          nodes,   \* the allocated nodes
          link,    \* the pointers of every node
          held,    \* elements the client owns
          freed,   \* elements given to a dealloc callback
          ret,     \* result of the last call
          fault,   \* a call has dereferenced NULL
          pc,      \* "idle", or the loop that is running
          key, cur, rep

local == <<pc, key, cur, rep>>
vars == <<tree, nodes, link, held, freed, ret, fault, local>>

NodePtr == Elem \cup {Null}
Tree == [root : NodePtr, compare : Compare, length : 0..MaxU32]
Links == [{"left", "right", "parent"} -> [Elem -> NodePtr]]

TypeOK ==
    /\ tree \in Tree \cup {Null}
    /\ nodes \subseteq Elem
    /\ link \in Links
    /\ held \subseteq Elem
    /\ freed \subseteq Elem
    /\ ret \in {OK, ERR} \cup NodePtr
    /\ fault \in BOOLEAN
    /\ pc \in {"idle", "insert", "search", "delete", "max", "min"}
    /\ key \in NodePtr /\ cur \in NodePtr /\ rep \in NodePtr

Unlinked == [n \in Elem |-> Null]

Init ==
    /\ tree = Null
    /\ nodes = {}
    /\ link = [side \in {"left", "right", "parent"} |-> Unlinked]
    /\ held = Elem
    /\ freed = {}
    /\ ret = Null
    /\ fault = FALSE
    /\ pc = "idle"
    /\ key = Null /\ cur = Null /\ rep = Null

-----------------------------------------------------------------------------
\* The nodes of every subtree that the pointers L make, and of the one at n.
Subtrees(L) ==
    LET S[m \in NodePtr] == IF m = Null THEN {}
                            ELSE {m} \cup S[L["left"][m]] \cup S[L["right"][m]]
    IN  S

Below(n) == Subtrees(link)[n]

Rank(x) == tree.compare[x]
Absent == tree = Null

\* Definitions named Bug... are the operators after them with one mistake; no
\* specification uses them.  The README says which property notices which.

\* The parent pointer of c is forgotten.
BugAttachOneWay(L, p, side, c) == [L EXCEPT ![side][p] = c]

\* c becomes the child of p on one side, and p its parent.
Attach(L, p, side, c) ==
    [L EXCEPT ![side][p] = c,
              !["parent"] = IF c = Null THEN @ ELSE [@ EXCEPT ![c] = p]]

\* The side of its parent a node hangs on.
SideOf(L, n) == IF L["left"][L["parent"][n]] = n THEN "left" ELSE "right"

\* Both children of new are dropped.
BugUnhookDrops(L, new) == [L EXCEPT ![SideOf(L, new)][L["parent"][new]] = Null]

\* BS_tree_replace.  The parent of new takes over one child of it, the one on the
\* side new hangs on itself; the other child is dropped.
Unhook(L, new) ==
    LET side == SideOf(L, new)
    IN  Attach(L, L["parent"][new], side, L[side][new])

Replace(L, new, old) ==
    LET U == Unhook(L, new)
        P == IF U["parent"][old] = Null THEN [U EXCEPT !["parent"][new] = Null]
             ELSE Attach(U, U["parent"][old], SideOf(U, old), new)
    IN  Attach(Attach(P, new, "left", U["left"][old]), new, "right", U["right"][old])

\* The deletion of n, with m as its replacement, drops no node: m is a child of n,
\* or has no child on the side it does not hang on.
Harmless(n, m) ==
    \/ link["parent"][m] = n
    \/ link[IF SideOf(link, m) = "left" THEN "right" ELSE "left"][m] = Null

\* A node that has been freed has no pointers; calloc gives a new one none.
Forget(L, n) == [side \in DOMAIN L |-> [L[side] EXCEPT ![n] = Null]]

-----------------------------------------------------------------------------
\* The end of a call.
Return(result) ==
    /\ ret' = result
    /\ pc' = "idle"
    /\ key' = Null /\ cur' = Null /\ rep' = Null

Ready == ~fault /\ pc = "idle"

Answer(result) ==
    /\ Return(result)
    /\ UNCHANGED <<tree, nodes, link, held, freed, fault>>

\* A loop that starts with cur_node = root, which it dereferences.
Start(loop, x) ==
    IF tree.root = Null
      THEN /\ fault' = TRUE
           /\ UNCHANGED <<ret, local>>
      ELSE /\ pc' = loop /\ key' = x /\ cur' = tree.root
           /\ UNCHANGED <<ret, rep, fault>>

Create(compare) ==
    /\ Ready /\ Absent
    /\ \/ Answer(Null)
       \/ /\ tree' = [root    |-> Null,
                      compare |-> IF compare = Null THEN DefaultCompare ELSE compare,
                      length  |-> 0]
          /\ Return(OK)   \* a pointer that is not NULL
          /\ UNCHANGED <<nodes, link, held, freed, fault>>

\* data is not compared with NULL.
BugInsertNull(x) ==
    /\ Ready /\ ~Absent /\ tree.length = 0
    /\ tree' = [tree EXCEPT !.root = x, !.length = 1]
    /\ nodes' = nodes \cup {x}
    /\ held' = held \ {x}
    /\ Return(OK)
    /\ UNCHANGED <<link, freed, fault>>

Insert(x) ==
    /\ Ready
    /\ \/ Answer(ERR)   \* NULL arguments, a full tree, or no memory for the node
       \/ /\ ~Absent /\ x # Null /\ tree.length = 0
          /\ tree' = [tree EXCEPT !.root = x, !.length = 1]
          /\ nodes' = nodes \cup {x}
          /\ held' = held \ {x}
          /\ Return(OK)
          /\ UNCHANGED <<link, freed, fault>>
       \/ /\ ~Absent /\ x # Null /\ tree.length \notin {0, MaxU32}
          /\ nodes' = nodes \cup {x}
          /\ Start("insert", x)
          /\ UNCHANGED <<tree, link, held, freed>>

Search(x) ==
    /\ Ready
    /\ \/ (Absent \/ x = Null) /\ Answer(Null)
       \/ ~Absent /\ tree.length = 0 /\ Answer(Null)
       \/ /\ ~Absent /\ x # Null /\ tree.length # 0
          /\ Start("search", x)
          /\ UNCHANGED <<tree, nodes, link, held, freed>>

\* The contract of a deletion.  In an ordered tree the replacement is the greatest
\* element on the left or, if there is none, the smallest on the right.
Replaceable(n) ==
    LET left  == Below(link["left"][n])
        right == Below(link["right"][n])
    IN  /\ \A m \in left : (\A k \in left : Rank(k) <= Rank(m)) => Harmless(n, m)
        /\ left = {} =>
             \A m \in right : (\A k \in right : Rank(k) >= Rank(m)) => Harmless(n, m)

Delete(x) ==
    /\ Ready
    /\ \/ (Absent \/ x = Null) /\ Answer(Null)
       \/ ~Absent /\ tree.length = 0 /\ Answer(Null)
       \/ /\ ~Absent /\ x # Null /\ tree.length # 0
          /\ \/ "deep_child" \in Beyond
             \/ \A n \in nodes : Rank(n) = Rank(x) => Replaceable(n)
          /\ Start("delete", x)
          /\ UNCHANGED <<tree, nodes, link, held, freed>>

-----------------------------------------------------------------------------
\* The loops.  Side is where the comparison with cur sends the search.
Searching == ~fault /\ pc \in {"insert", "search", "delete"}
Side == IF Rank(key) > Rank(cur) THEN "right" ELSE "left"

Descend ==
    /\ Searching /\ Rank(key) # Rank(cur) /\ link[Side][cur] # Null
    /\ cur' = link[Side][cur]
    /\ UNCHANGED <<tree, nodes, link, held, freed, ret, fault, pc, key, rep>>

\* There is no equal element: an insertion puts its node here.
Missing ==
    /\ Searching /\ Rank(key) # Rank(cur) /\ link[Side][cur] = Null
    /\ \/ /\ pc # "insert"
          /\ Answer(Null)
       \/ /\ pc = "insert"
          /\ link' = Attach(link, cur, Side, key)
          /\ tree' = [tree EXCEPT !.length = @ + 1]
          /\ held' = held \ {key}
          /\ Return(OK)
          /\ UNCHANGED <<nodes, freed, fault>>

\* There is: an insertion is refused and its node freed, a search returns what it
\* has found, a deletion looks for the replacement (BS_tree_find_replacement).
Found ==
    /\ Searching /\ Rank(key) = Rank(cur)
    /\ \/ /\ pc = "insert"
          /\ nodes' = nodes \ {key}
          /\ Return(ERR)
          /\ UNCHANGED <<tree, link, held, freed, fault>>
       \/ /\ pc = "search"
          /\ Answer(cur)
       \/ /\ pc = "delete"
          /\ \/ /\ link["left"][cur] # Null
                /\ pc' = "max" /\ rep' = link["left"][cur]
             \/ /\ link["left"][cur] = Null
                /\ pc' = "min" /\ rep' = link["right"][cur]
          /\ UNCHANGED <<tree, nodes, link, held, freed, ret, fault, key, cur>>

\* The smallest element is taken on either side.
BugTowardLeft == "left"

Toward == IF pc = "max" THEN "right" ELSE "left"
Replacing == ~fault /\ pc \in {"max", "min"}

\* The loop does not move.
BugSeekNowhere ==
    /\ Replacing /\ rep # Null /\ link[Toward][rep] # Null
    /\ UNCHANGED vars

\* The pointer to the parent is followed.
BugSeekBack ==
    /\ Replacing /\ rep # Null /\ link[Toward][rep] # Null
    /\ rep' = link["parent"][rep]
    /\ UNCHANGED <<tree, nodes, link, held, freed, ret, fault, pc, key, cur>>

SeekReplacement ==
    /\ Replacing /\ rep # Null /\ link[Toward][rep] # Null
    /\ rep' = link[Toward][rep]
    /\ UNCHANGED <<tree, nodes, link, held, freed, ret, fault, pc, key, cur>>

\* length is not decremented.
BugRemoveUncounted(L, root) ==
    /\ link' = Forget(L, cur)
    /\ tree' = [tree EXCEPT !.root = root]
    /\ nodes' = nodes \ {cur}
    /\ held' = held \cup {cur}
    /\ Return(cur)
    /\ UNCHANGED <<freed, fault>>

\* BS_tree_change, once the replacement is known.
Remove(L, root) ==
    /\ link' = Forget(L, cur)
    /\ tree' = [tree EXCEPT !.root = root, !.length = (@ - 1) % (MaxU32 + 1)]
    /\ nodes' = nodes \ {cur}
    /\ held' = held \cup {cur}
    /\ Return(cur)
    /\ UNCHANGED <<freed, fault>>

Change ==
    /\ Replacing
    /\ \/ /\ rep # Null /\ link[Toward][rep] = Null
          /\ Remove(Replace(link, rep, cur), IF cur = tree.root THEN rep ELSE tree.root)
       \/ /\ rep = Null /\ link["parent"][cur] # Null
          /\ Remove([link EXCEPT ![SideOf(link, cur)][link["parent"][cur]] = Null],
                    tree.root)
       \/ /\ rep = Null /\ link["parent"][cur] = Null
          /\ Remove(link, Null)

-----------------------------------------------------------------------------
\* Traversals.  bad holds the elements at which the callback returns CERB_ERR; a
\* walk is what the callback has been given, in order, and the return code.
Order == {"pre", "in", "post"}
Walks == [seen : Seq(Elem), rc : {OK, ERR}]
Unwalked == [seen |-> <<>>, rc |-> OK]

\* The callback is called with the element of node n.
Visit(n, w, bad) == [seen |-> Append(w.seen, n), rc |-> IF n \in bad THEN ERR ELSE OK]

\* traverse.  Only the entry of the recursion looks at rc.
Recursion(order, bad) ==
    LET T[n \in NodePtr] ==
            IF n = Null THEN [w \in Walks |-> w]
            ELSE LET l == T[link["left"][n]]
                     r == T[link["right"][n]]
                 IN  [w \in Walks |->
                        IF w.rc = ERR THEN w
                        ELSE CASE order = "pre"  -> r[l[Visit(n, w, bad)]]
                               [] order = "in"   -> r[Visit(n, l[w], bad)]
                               [] order = "post" -> Visit(n, r[l[w]], bad)]
    IN  T[tree.root][Unwalked]

\* traverse_LOT, while its queue gets the memory it asks for: what its loop has done
\* after k iterations.  It needs no more of them than there are elements.
LevelOrder(bad) ==
    LET Child(n) == IF n = Null THEN <<>> ELSE <<n>>
        T[k \in Nat] ==
            IF k = 0 THEN [queue |-> Child(tree.root), walk |-> Unwalked]
            ELSE LET t == T[k - 1]
                     n == Head(t.queue)
                 IN  IF t.queue = <<>> \/ t.walk.rc = ERR THEN t
                     ELSE [queue |-> Tail(t.queue) \o Child(link["left"][n])
                                                   \o Child(link["right"][n]),
                           walk  |-> Visit(n, t.walk, bad)]
    IN  T[Cardinality(Elem) + 1].walk

\* The return code of the callback is ignored.
BugWalkDeaf(order, bad) == IF order = "level" THEN LevelOrder({}) ELSE Recursion(order, {})

Walk(order, bad) == IF order = "level" THEN LevelOrder(bad) ELSE Recursion(order, bad)

\* The traversals a callback may stop within the contract.
Stoppable == {"pre", "level"} \cup IF "stop_late" \in Beyond THEN {"in", "post"} ELSE {}

Traverse(order, hasCallback) ==
    /\ Ready
    /\ \/ (Absent \/ ~hasCallback) /\ Answer(ERR)
       \/ ~Absent /\ tree.length = 0 /\ Answer(ERR)
       \/ ~Absent /\ order = "level" /\ Answer(ERR)   \* no memory for the queue
       \/ /\ ~Absent /\ hasCallback /\ tree.length # 0
          /\ \E bad \in SUBSET nodes :
                /\ bad # {} => order \in Stoppable
                /\ Answer(IF Walk(order, bad).rc = ERR THEN ERR ELSE OK)

Destroy(hasDealloc) ==
    /\ Ready
    /\ \/ (Absent \/ ~hasDealloc) /\ Answer(ERR)
       \/ /\ ~Absent /\ hasDealloc /\ (tree.length # 0 => tree.root # Null)
          /\ LET members == IF tree.length = 0 THEN {} ELSE Below(tree.root)
             IN  /\ nodes' = nodes \ members
                 /\ freed' = freed \cup members
                 /\ link' = [side \in DOMAIN link |-> [n \in Elem |->
                               IF n \in members THEN Null ELSE link[side][n]]]
          /\ tree' = Null
          /\ Return(OK)
          /\ UNCHANGED <<held, fault>>
       \/ /\ ~Absent /\ hasDealloc /\ tree.length # 0 /\ tree.root = Null
          /\ fault' = TRUE
          /\ UNCHANGED <<tree, nodes, link, held, freed, ret, local>>

-----------------------------------------------------------------------------
Known == (Elem \ freed) \cup {Null}
Mine  == held \cup {Null}

Next ==
    \/ \E c \in Compare \cup {Null} : Create(c)
    \/ \E x \in Mine : Insert(x)
    \/ \E x \in Known : Search(x)
    \/ \E x \in Known : Delete(x)
    \/ Descend
    \/ Missing
    \/ Found
    \/ SeekReplacement
    \/ Change
    \/ \E o \in Order \cup {"level"}, b \in BOOLEAN : Traverse(o, b)
    \/ \E b \in BOOLEAN : Destroy(b)

Spec == Init /\ [][Next]_vars

\* A call that has started keeps running; the client need not call.
Running == Descend \/ Missing \/ Found \/ SeekReplacement \/ Change
FairSpec == Spec /\ WF_vars(Running)

-----------------------------------------------------------------------------
(***************************************************************************)
(* Properties                                                              *)
(***************************************************************************)

\* No call dereferences NULL: a tree whose length is not 0 has a root, whatever
\* has been inserted and deleted before.
MemorySafe == ~fault

Present == IF Absent THEN {} ELSE Below(tree.root)

\* length is the number of elements a search can still reach, and every node that
\* has been allocated is one of them or the one being inserted ("count of
\* elements currently present in a tree").
Counted ==
    ~Absent =>
      /\ tree.length = Cardinality(Present)
      /\ \A x, y \in Present : Rank(x) = Rank(y) => x = y
      /\ nodes = Present \cup IF pc = "insert" THEN {key} ELSE {}

\* parent is the inverse of left and right everywhere in the tree: what
\* BS_tree_replace and BS_tree_change navigate by.
Linked ==
    ~Absent /\ tree.root # Null =>
      /\ link["parent"][tree.root] = Null
      /\ \A n \in Present, side \in {"left", "right"} :
            LET c == link[side][n]
            IN  c # Null => link["parent"][c] = n /\ c \in nodes

\* Every element to the left of a node compares less than it, every element to
\* the right greater: after every rearrangement by a deletion, at any depth.
SearchOrder ==
    \A n \in Present :
      /\ \A m \in Below(link["left"][n]) : Rank(m) < Rank(n)
      /\ \A m \in Below(link["right"][n]) : Rank(m) > Rank(n)

\* The loops never look away from what they want: an element equal to key can
\* only be at or below cur, and the replacement of cur is at or below rep.
LoopsAim ==
    /\ pc \in {"insert", "search", "delete"} =>
         \A x \in Present : Rank(x) = Rank(key) => x \in Below(cur)
    /\ pc = "max" => \A x \in Below(link["left"][cur]) \ Below(rep) : Rank(x) < Rank(rep)
    /\ pc = "min" => \A x \in Below(link["right"][cur]) \ Below(rep) : Rank(x) > Rank(rep)

\* An in-order traversal gives the callback every element, smallest first; the
\* others give it every element too (BS_tree_traverse).
WalksEverything ==
    ~Absent /\ pc = "idle" =>
      \A order \in Order \cup {"level"} :
        LET s == Walk(order, {}).seen
        IN  /\ {s[k] : k \in DOMAIN s} = Present
            /\ Len(s) = tree.length
            /\ order = "in" => \A k \in 1..(Len(s) - 1) : Rank(s[k]) < Rank(s[k + 1])

\* "BS_tree_traverse() will stop traversing when traverse callback it calls
\* returns CERB_ERR" (README), and says so.
StopsWhenTold ==
    ~Absent /\ pc = "idle" =>
      \A order \in Stoppable, bad \in SUBSET Present :
        LET w == Walk(order, bad)
        IN  /\ \A k \in 1..(Len(w.seen) - 1) : w.seen[k] \notin bad
            /\ w.rc = ERR <=> bad # {}

\* An iteration of a while (1) loop leaves fewer nodes to visit: it moves on, to a
\* smaller part of the tree, whatever deletions have rearranged before.
Narrows(at) == Below(at)' \subseteq Below(at) /\ Below(at)' # Below(at)
LoopsDescend ==
    [][pc' = pc =>
         /\ pc \in {"insert", "search", "delete"} => Narrows(cur)
         /\ pc \in {"max", "min"} => Narrows(rep)]_vars

\* Every call returns.
CallsReturn == pc # "idle" ~> pc = "idle"

\* The calls, of many steps each, implement a set without equal elements: the
\* elements change at one step of an insertion, a deletion or a destroy, by one
\* element or by all of them, its owner changes with it, and no rearrangement is
\* seen.  Whether the element is that of the key is for SearchOrder and LoopsAim.
Abstract == INSTANCE OrderedSet WITH
    set <- IF Absent THEN Null ELSE [members |-> Present, compare |-> tree.compare]
ImplementsOrderedSet == Abstract!Spec
=============================================================================
