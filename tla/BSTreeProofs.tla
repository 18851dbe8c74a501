---------------------------- MODULE BSTreeProofs ----------------------------
(***************************************************************************)
(* Proofs about the search tree, for any elements, compare callbacks and   *)
(* UINT32_MAX, within the contract.                                        *)
(*                                                                         *)
(* What a tree is.  Subtrees(link) is a recursive function; no induction   *)
(* is needed to reason about it.  A function F that satisfies its equation *)
(* and keeps the order of the elements is that function (SubtreesAre),     *)
(* because a child has fewer elements below it than its parent (Smaller).  *)
(* The proofs give such an F for the pointers after each operation.        *)
(*                                                                         *)
(* What an operation does to a tree.  An insertion adds a leaf (Grows).  A *)
(* deletion takes out a node that has at most one child (Prunes, Leaves)   *)
(* and gives the node taken out the name of the deleted one (Renames):     *)
(* BS_tree_replace does both with one sequence of stores (Replaces).       *)
(*                                                                         *)
(* What a loop knows.  cur lies on the path on which key is searched       *)
(* (OnPath), so that a leaf put there is in order; and what is not below   *)
(* rep is smaller, or greater, than rep.                                   *)
(*                                                                         *)
(* What a traversal shows.  A recursion over the trees of link has one     *)
(* solution (SolutionExists), and a loop one result after every number of  *)
(* iterations (LoopExists): both traversals are reasoned about by the      *)
(* deepest node, or the least iteration, at which they would go wrong.     *)
(***************************************************************************)
EXTENDS BSTree, FiniteSetTheorems, SequenceTheorems, WellFoundedInduction, TLAPS

\* The pointers to children.
Sides == {"left", "right"}

\* The equation of the recursive function of Subtrees.
Fix(L, F) ==
    F = [m \in NodePtr |-> IF m = Null THEN {}
                           ELSE {m} \cup F[L["left"][m]] \cup F[L["right"][m]]]

\* F gives the elements of every subtree the pointers L make.
Forest(L, F) ==
    /\ L \in Links
    /\ F \in [NodePtr -> SUBSET Elem]
    /\ F[Null] = {}
    /\ \A n \in Elem : F[n] = {n} \cup F[L["left"][n]] \cup F[L["right"][n]]

\* The search order at every depth, for the rank function r.
Sorted(L, F, r) ==
    /\ r \in [Elem -> Int]
    /\ \A n \in Elem :
         /\ \A m \in F[L["left"][n]] : r[m] < r[n]
         /\ \A m \in F[L["right"][n]] : r[m] > r[n]

\* parent is the inverse of left and right, in both directions.
Paired(L) ==
    \A n \in Elem :
      /\ \A s \in Sides : L[s][n] # Null => L["parent"][L[s][n]] = n
      /\ L["parent"][n] # Null => \E s \in Sides : L[s][L["parent"][n]] = n

\* A node that is not allocated, or not linked yet.
Bare(L, n) == \A s \in {"left", "right", "parent"} : L[s][n] = Null

\* What is not below the root has no pointers.
Rooted(L, root, F) ==
    /\ root \in NodePtr
    /\ root # Null => L["parent"][root] = Null
    /\ \A n \in Elem \ F[root] : Bare(L, n)

\* The pointers L are a search tree at root, and F is its subtrees.
Good(L, root, r, F) == Forest(L, F) /\ Sorted(L, F, r) /\ Paired(L) /\ Rooted(L, root, F)

\* The pointers of a node.
LEMMA LinkTypes ==
    ASSUME NEW L \in Links
    PROVE  /\ \A s \in {"left", "right", "parent"}, n \in Elem :
                /\ L[s][n] \in NodePtr
                /\ L[s][n] # Null => L[s][n] \in Elem
           /\ \A s \in {"left", "right", "parent"} : L[s] \in [Elem -> NodePtr]
           /\ DOMAIN L = {"left", "right", "parent"}
           /\ Null \notin Elem
BY BSTreeAssumption DEF Links, NodePtr

\* No node is below itself: a child has fewer elements below it.
LEMMA Smaller ==
    ASSUME NEW L, NEW F, NEW r, Forest(L, F), Sorted(L, F, r),
           NEW n \in Elem, NEW s \in Sides
    PROVE  /\ n \notin F[L[s][n]]
           /\ Cardinality(F[n]) \in Nat
           /\ Cardinality(F[L[s][n]]) < Cardinality(F[n])
<1>1. F[L[s][n]] \subseteq F[n] /\ n \in F[n] /\ F[n] \subseteq Elem
  BY LinkTypes DEF Forest, Sides, NodePtr
<1>2. n \notin F[L[s][n]]
  BY DEF Sorted, Sides
<1>3. IsFiniteSet(F[n]) /\ Cardinality(F[n]) \in Nat
  BY <1>1, FS_Subset, FS_CardinalityType, BSTreeAssumption
<1>4. IsFiniteSet(F[L[s][n]]) /\ Cardinality(F[L[s][n]]) \in Nat
  BY <1>1, <1>3, FS_Subset, FS_CardinalityType
<1> QED BY <1>1, <1>2, <1>3, <1>4, FS_Subset

\* Any set of elements has one neither of whose children is in the set.
\* This is the induction of this module: the least element of a well-founded order.
LEMMA Deepest ==
    ASSUME NEW L, NEW F, NEW r, Forest(L, F), Sorted(L, F, r),
           NEW B \in SUBSET Elem, B # {}
    PROVE  \E n \in B : L["left"][n] \notin B /\ L["right"][n] \notin B
<1> DEFINE size(n) == Cardinality(F[n])
           K == {k \in Nat : \E n \in B : size(n) = k}
<1>1. \A n \in Elem, s \in Sides : size(n) \in Nat /\ size(L[s][n]) < size(n)
  BY Smaller
<1>2. K # {}
  BY <1>1 DEF Sides
<1>3. PICK k \in K : \A j \in K : ~(<<j, k>> \in OpToRel(<, Nat))
  BY <1>2, WFMin, NatLessThanWellFounded
<1>4. PICK n \in B : size(n) = k
  OBVIOUS
<1>5. ASSUME NEW s \in Sides, L[s][n] \in B
      PROVE  FALSE
  <2>1. size(L[s][n]) \in K /\ size(L[s][n]) < k /\ k \in Nat
    BY <1>1, <1>4, <1>5
  <2> DEFINE e == <<size(L[s][n]), k>>
  <2> HIDE DEF size, K
  <2>2. e \in Nat \X Nat /\ e[1] < e[2]
    BY <2>1, <1>1, <1>4, <1>5
  <2>3. e \in OpToRel(<, Nat)
    BY <2>2 DEF OpToRel
  <2> QED BY <1>3, <2>1, <2>3
<1> QED BY <1>4, <1>5 DEF Sides

\* If the equation of the recursion has a solution, Subtrees is one.
LEMMA SubtreesFix ==
    ASSUME NEW L, NEW F, Fix(L, F)
    PROVE  Fix(L, Subtrees(L))
<1> DEFINE P(g) == g = [m \in NodePtr |-> IF m = Null THEN {}
                           ELSE {m} \cup g[L["left"][m]] \cup g[L["right"][m]]]
<1>1. \E g : P(g)
  BY DEF Fix
<1>2. P(CHOOSE g : P(g))
  BY <1>1, Zenon
<1>3. Subtrees(L) = CHOOSE g : P(g)
  BY Zenon DEF Subtrees
<1> QED BY <1>2, <1>3, Zenon DEF Fix

\* It has one solution only: where two differ, take a deepest node.
LEMMA SubtreesAre ==
    ASSUME NEW L, NEW F, NEW r, Forest(L, F), Sorted(L, F, r)
    PROVE  Subtrees(L) = F
<1> DEFINE S == Subtrees(L)
           B == {n \in Elem : S[n] # F[n]}
<1>1. Fix(L, F)
  <2> DEFINE G == [m \in NodePtr |-> IF m = Null THEN {}
                           ELSE {m} \cup F[L["left"][m]] \cup F[L["right"][m]]]
  <2>1. \A m \in NodePtr : F[m] = G[m]
    BY DEF Forest, NodePtr
  <2>2. F = G
    BY <2>1 DEF Forest
  <2> QED BY <2>2 DEF Fix
<1>2. Fix(L, S)
  BY <1>1, SubtreesFix
<1>3. S = [m \in NodePtr |-> S[m]] /\ S[Null] = {}
  BY <1>2 DEF Fix, NodePtr
<1>4. \A n \in Elem : S[n] = {n} \cup S[L["left"][n]] \cup S[L["right"][n]]
  BY <1>2, BSTreeAssumption DEF Fix, NodePtr
<1> HIDE DEF S
<1>5. B = {}
  <2> SUFFICES ASSUME B # {} PROVE FALSE
    OBVIOUS
  <2>1. PICK n \in B : L["left"][n] \notin B /\ L["right"][n] \notin B
    BY Deepest
  <2>2. \A s \in Sides : S[L[s][n]] = F[L[s][n]]
    BY <2>1, <1>3, LinkTypes DEF Forest, Sides
  <2> QED BY <1>4, <2>2 DEF Forest, Sides
<1>6. \A n \in NodePtr : S[n] = F[n]
  BY <1>3, <1>5 DEF Forest, NodePtr
<1>7. S = [m \in NodePtr |-> F[m]]
  BY <1>3, <1>6
<1> QED BY <1>7 DEF Forest, S

\* What is below a node of a subtree is in that subtree.
LEMMA Nested ==
    ASSUME NEW L, NEW F, NEW r, Forest(L, F), Sorted(L, F, r),
           NEW n \in NodePtr, NEW m \in F[n]
    PROVE  m \in Elem /\ m \in F[m] /\ n \in Elem /\ n \in F[n] /\ F[m] \subseteq F[n]
<1> DEFINE B == {k \in Elem : \E j \in F[k] : ~(F[j] \subseteq F[k])}
<1>1. B = {}
  <2> SUFFICES ASSUME B # {} PROVE FALSE
    OBVIOUS
  <2>1. PICK k \in B : L["left"][k] \notin B /\ L["right"][k] \notin B
    BY Deepest
  <2>2. PICK j \in F[k] : ~(F[j] \subseteq F[k])
    OBVIOUS
  <2>3. j # k
    BY <2>2
  <2>4. PICK s \in Sides : j \in F[L[s][k]]
    BY <2>2, <2>3 DEF Forest, Sides
  <2>5. L[s][k] \in Elem
    BY <2>4, LinkTypes DEF Forest, Sides
  <2>6. F[j] \subseteq F[L[s][k]]
    BY <2>1, <2>4, <2>5 DEF Sides
  <2>7. F[L[s][k]] \subseteq F[k]
    BY DEF Forest, Sides
  <2> QED BY <2>2, <2>6, <2>7
<1>2. n \in Elem /\ m \in Elem
  BY DEF Forest, NodePtr
<1> QED BY <1>1, <1>2 DEF Forest

\* The parent of a node of a subtree is in it, but for its top.
LEMMA ParentInside ==
    ASSUME NEW L, NEW F, NEW r, Forest(L, F), Sorted(L, F, r), Paired(L),
           NEW n \in NodePtr, NEW m \in F[n], m # n
    PROVE  L["parent"][m] \in F[n] /\ L["parent"][m] \in Elem
<1> DEFINE up(j) == L["parent"][j]
           B == {k \in Elem : \E j \in F[k] : j # k /\ up(j) \notin F[k]}
<1>1. B = {}
  <2> SUFFICES ASSUME B # {} PROVE FALSE
    OBVIOUS
  <2>1. PICK k \in B : L["left"][k] \notin B /\ L["right"][k] \notin B
    BY Deepest
  <2>2. PICK j \in F[k] : j # k /\ up(j) \notin F[k]
    OBVIOUS
  <2>3. PICK s \in Sides : j \in F[L[s][k]]
    BY <2>2 DEF Forest, Sides
  <2>4. L[s][k] \in Elem /\ L[s][k] # Null
    BY <2>3, LinkTypes DEF Forest, Sides
  <2>5. F[L[s][k]] \subseteq F[k] /\ k \in F[k]
    BY DEF Forest, Sides
  <2>6. CASE j = L[s][k]
    BY <2>2, <2>4, <2>5, <2>6 DEF Paired
  <2>7. CASE j # L[s][k]
    BY <2>1, <2>2, <2>3, <2>4, <2>5, <2>7 DEF Sides
  <2> QED BY <2>6, <2>7
<1>2. n \in Elem /\ F[n] \subseteq Elem
  BY DEF Forest, NodePtr
<1> QED BY <1>1, <1>2

\* What Attach and Forget return, pointer by pointer.
Attached(A, L, p, side, c) ==
    /\ A \in Links
    /\ \A t \in Sides, n \in Elem : A[t][n] = IF t = side /\ n = p THEN c ELSE L[t][n]
    /\ \A n \in Elem : A["parent"][n] = IF n = c THEN p ELSE L["parent"][n]

\* What Forget returns.
Forgotten(K, L, x) ==
    /\ K \in Links
    /\ \A t \in {"left", "right", "parent"}, n \in Elem :
         K[t][n] = IF n = x THEN Null ELSE L[t][n]

\* A child attached changes one pointer down and one pointer up.
LEMMA AttachIs ==
    ASSUME NEW L \in Links, NEW p \in Elem, NEW side \in Sides, NEW c \in NodePtr,
           NEW A, A = Attach(L, p, side, c)
    PROVE  Attached(A, L, p, side, c)
<1> DEFINE up == IF c = Null THEN L["parent"] ELSE [L["parent"] EXCEPT ![c] = p]
           down == [L[side] EXCEPT ![p] = c]
           M == [t \in {"left", "right", "parent"} |->
                   IF t = "parent" THEN up ELSE IF t = side THEN down ELSE L[t]]
<1>1. DOMAIN L = {"left", "right", "parent"} /\ \A t \in {"left", "right", "parent"} : L[t] \in [Elem -> NodePtr]
  BY LinkTypes
<1>2. A = M
  BY <1>1 DEF Attach, Sides, Links
<1>3. up \in [Elem -> NodePtr] /\ down \in [Elem -> NodePtr]
  BY <1>1 DEF Sides, NodePtr
<1>4. \A n \in Elem : up[n] = IF n = c THEN p ELSE L["parent"][n]
  BY <1>1, BSTreeAssumption DEF NodePtr
<1>5. \A n \in Elem : down[n] = IF n = p THEN c ELSE L[side][n]
  BY <1>1 DEF Sides
<1> HIDE DEF up, down
<1>6. M \in Links
  BY <1>1, <1>3 DEF Links
<1> QED BY <1>2, <1>4, <1>5, <1>6 DEF Sides, Attached

\* The subtrees when x has been put below at.
Grown(F, at, x) == [n \in NodePtr |-> IF at \in F[n] THEN F[n] \cup {x} ELSE F[n]]

\* at lies where a search for x comes by.
OnPath(F, L, root, r, at, x) ==
    \A n \in F[root] : /\ at \in F[L["left"][n]] => r[x] < r[n]
                       /\ at \in F[L["right"][n]] => r[x] > r[n]

\* An insertion: x attached to a free side of the node its search ended at
\* makes a search tree with one element more.
LEMMA Grows ==
    ASSUME NEW L, NEW root, NEW r, NEW F, Good(L, root, r, F),
           NEW at \in F[root], NEW x \in Elem \ F[root],
           NEW side \in Sides, L[side][at] = Null,
           side = "left" => r[x] < r[at],
           side = "right" => r[x] > r[at],
           OnPath(F, L, root, r, at, x)
    PROVE  /\ Good(Attach(L, at, side, x), root, r, Grown(F, at, x))
           /\ Grown(F, at, x)[root] = F[root] \cup {x}
<1> DEFINE A == Attach(L, at, side, x)
           G == Grown(F, at, x)
<1>1. Forest(L, F) /\ Sorted(L, F, r) /\ Paired(L) /\ Rooted(L, root, F)
  BY DEF Good
<1>2. root \in Elem /\ at \in Elem /\ root \in F[root] /\ x # at /\ x # root /\ Null \notin Elem
  BY <1>1, Nested, BSTreeAssumption DEF Rooted
<1>3. L \in Links /\ F \in [NodePtr -> SUBSET Elem] /\ F[Null] = {}
  BY <1>1 DEF Forest
<1>4. Bare(L, x)
  BY <1>1 DEF Rooted
<1>5. F[x] = {x}
  BY <1>1, <1>4 DEF Forest, Bare
<1>6. \A n \in Elem, s \in Sides : L[s][n] # x
  BY <1>1, <1>2, <1>4 DEF Paired, Bare
<1>7. /\ A \in Links
      /\ \A t \in Sides, n \in Elem : A[t][n] = IF t = side /\ n = at THEN x ELSE L[t][n]
      /\ \A n \in Elem : A["parent"][n] = IF n = x THEN at ELSE L["parent"][n]
  <2>1. x \in NodePtr
    BY DEF NodePtr
  <2>2. Attached(A, L, at, side, x)
    BY <2>1, <1>2, <1>3, AttachIs
  <2> QED BY <2>2 DEF Attached
<1>8. \A n \in NodePtr : G[n] = IF at \in F[n] THEN F[n] \cup {x} ELSE F[n]
  BY DEF Grown
<1>9. G \in [NodePtr -> SUBSET Elem]
  BY <1>3 DEF Grown
<1> HIDE DEF A, G
<1>10. G[x] = {x} /\ G[Null] = {} /\ G[root] = F[root] \cup {x}
  BY <1>2, <1>3, <1>5, <1>8 DEF NodePtr
<1>11. \A n \in Elem, s \in Sides : L[s][n] \in NodePtr
  BY <1>3, LinkTypes DEF Sides
<1>12. \A s \in Sides : at \notin F[L[s][at]]
  BY <1>1, <1>2, Smaller
<1>13. Forest(A, G)
  <2>1. ASSUME NEW n \in Elem
        PROVE  G[n] = {n} \cup G[A["left"][n]] \cup G[A["right"][n]]
    <3>1. F[n] = {n} \cup F[L["left"][n]] \cup F[L["right"][n]]
      BY <1>1 DEF Forest
    <3>2. n \in NodePtr /\ L["left"][n] \in NodePtr /\ L["right"][n] \in NodePtr
      BY <1>11 DEF Sides, NodePtr
    <3>3. CASE n = at
      <4>1. G[n] = F[n] \cup {x}
        BY <3>1, <3>2, <3>3, <1>8
      <4>2. \A s \in Sides : G[L[s][n]] = F[L[s][n]]
        BY <3>2, <3>3, <1>8, <1>12 DEF Sides
      <4>3. CASE side = "left"
        <5>1. A["left"][n] = x /\ A["right"][n] = L["right"][n] /\ F[L["left"][n]] = {}
          BY <4>3, <3>3, <1>3, <1>7 DEF Sides
        <5> QED BY <5>1, <4>1, <4>2, <3>1, <1>10 DEF Sides
      <4>4. CASE side = "right"
        <5>1. A["right"][n] = x /\ A["left"][n] = L["left"][n] /\ F[L["right"][n]] = {}
          BY <4>4, <3>3, <1>3, <1>7 DEF Sides
        <5> QED BY <5>1, <4>1, <4>2, <3>1, <1>10 DEF Sides
      <4> QED BY <4>3, <4>4 DEF Sides
    <3>4. CASE n # at
      <4>1. A["left"][n] = L["left"][n] /\ A["right"][n] = L["right"][n]
        BY <3>4, <1>7 DEF Sides
      <4> QED BY <4>1, <3>1, <3>2, <3>4, <1>8
    <3> QED BY <3>3, <3>4
  <2> QED BY <2>1, <1>7, <1>9, <1>10 DEF Forest
<1>14. Sorted(A, G, r)
  <2>1. \A n \in Elem : /\ \A m \in F[L["left"][n]] : r[m] < r[n]
                       /\ \A m \in F[L["right"][n]] : r[m] > r[n]
    BY <1>1 DEF Sorted
  <2>2. ASSUME NEW n \in Elem, NEW s \in Sides, NEW m \in G[A[s][n]], m \notin F[L[s][n]]
        PROVE  m = x /\ (s = "left" => r[m] < r[n]) /\ (s = "right" => r[m] > r[n])
    <3>1. CASE n = at /\ s = side
      BY <3>1, <2>2, <1>7, <1>10
    <3>2. CASE ~(n = at /\ s = side)
      <4>1. A[s][n] = L[s][n] /\ L[s][n] \in NodePtr
        BY <3>2, <1>7, <1>11
      <4>2. at \in F[L[s][n]] /\ m = x
        BY <4>1, <2>2, <1>8
      <4>3. n \in F[root]
        BY <4>2, <1>1, <1>3 DEF Rooted, Bare, Sides
      <4> QED BY <4>2, <4>3 DEF OnPath
    <3> QED BY <3>1, <3>2
  <2>3. r \in [Elem -> Int]
    BY <1>1 DEF Sorted
  <2>4. ASSUME NEW n \in Elem
        PROVE  /\ \A m \in G[A["left"][n]] : r[m] < r[n]
               /\ \A m \in G[A["right"][n]] : r[m] > r[n]
    BY <2>1, <2>2 DEF Sides
  <2> QED BY <2>3, <2>4 DEF Sorted
<1>15. Paired(A)
  <2>1. ASSUME NEW n \in Elem, NEW s \in Sides, A[s][n] # Null
        PROVE  A["parent"][A[s][n]] = n
    <3>1. CASE n = at /\ s = side
      BY <3>1, <1>7
    <3>2. CASE ~(n = at /\ s = side)
      BY <3>2, <2>1, <1>1, <1>6, <1>7, <1>11 DEF Paired, NodePtr
    <3> QED BY <3>1, <3>2
  <2>2. ASSUME NEW n \in Elem, A["parent"][n] # Null
        PROVE  \E s \in Sides : A[s][A["parent"][n]] = n
    <3>1. CASE n = x
      BY <3>1, <1>2, <1>7
    <3>2. CASE n # x
      <4>1. A["parent"][n] = L["parent"][n] /\ L["parent"][n] \in Elem
        BY <3>2, <2>2, <1>3, <1>7, LinkTypes
      <4>2. PICK s \in Sides : L[s][L["parent"][n]] = n
        BY <4>1, <2>2, <1>1 DEF Paired
      <4>3. ~(L["parent"][n] = at /\ s = side)
        BY <4>2, <1>2
      <4> QED BY <4>1, <4>2, <4>3, <1>7
    <3> QED BY <3>1, <3>2
  <2> QED BY <2>1, <2>2 DEF Paired
<1>16. Rooted(A, root, G)
  <2>1. A["parent"][root] = Null
    BY <1>1, <1>2, <1>7 DEF Rooted
  <2>2. ASSUME NEW n \in Elem \ G[root]
        PROVE  Bare(A, n)
    <3>1. Bare(L, n) /\ n # at /\ n # x
      BY <1>1, <1>10 DEF Rooted
    <3> QED BY <3>1, <1>7 DEF Bare, Sides
  <2> QED BY <2>1, <2>2, <1>2 DEF Rooted, NodePtr
<1> QED BY <1>10, <1>13, <1>14, <1>15, <1>16 DEF Good, G, A

\* The subtrees without x.
Pruned(F, x) == [n \in NodePtr |-> IF n = x THEN {x} ELSE F[n] \ {x}]

\* A node hangs on one side of one parent.
LEMMA Hangs ==
    ASSUME NEW L, NEW root, NEW r, NEW F, Good(L, root, r, F),
           NEW n \in Elem, NEW m \in Elem, NEW t \in Sides, NEW u \in Sides,
           L[t][n] = L[u][m], L[t][n] # Null
    PROVE  n = m /\ t = u /\ L["parent"][L[t][n]] = n
<1>1. Forest(L, F) /\ Sorted(L, F, r) /\ Paired(L)
  BY DEF Good
<1>2. n = m /\ L["parent"][L[t][n]] = n
  BY <1>1 DEF Paired
<1>3. ASSUME t # u
      PROVE  FALSE
  <2> DEFINE x == L[t][n]
  <2>1. x \in Elem /\ x \in F[x]
    BY <1>1, LinkTypes DEF Forest, Sides
  <2>2. x \in F[L["left"][n]] /\ x \in F[L["right"][n]]
    BY <1>2, <1>3, <2>1 DEF Sides
  <2>3. r[x] \in Int /\ r[n] \in Int /\ r[x] < r[n] /\ r[x] > r[n]
    BY <1>1, <2>1, <2>2 DEF Sorted
  <2> QED BY <2>3
<1> QED BY <1>2, <1>3

\* SideOf finds that side.
LEMMA SideIs ==
    ASSUME NEW L, Paired(L), NEW x \in Elem, L["parent"][x] # Null
    PROVE  SideOf(L, x) \in Sides /\ L[SideOf(L, x)][L["parent"][x]] = x
BY DEF Paired, SideOf, Sides

\* A node that has no child on the side it does not hang on is taken out by
\* giving its other child to its parent.
LEMMA Prunes ==
    ASSUME NEW L, NEW root, NEW r, NEW F, Good(L, root, r, F),
           NEW x \in F[root], x # root,
           NEW s \in Sides, L[s][L["parent"][x]] = x,
           \A t \in Sides \ {s} : L[t][x] = Null,
           NEW K \in Links,
           \A t \in Sides, n \in Elem :
             K[t][n] = IF n = x THEN Null
                       ELSE IF t = s /\ n = L["parent"][x] THEN L[s][x] ELSE L[t][n],
           \A n \in Elem :
             K["parent"][n] = IF n = x THEN Null
                              ELSE IF n = L[s][x] THEN L["parent"][x] ELSE L["parent"][n]
    PROVE  /\ Good(K, root, r, Pruned(F, x))
           /\ Pruned(F, x)[root] = F[root] \ {x}
           /\ \A n \in Elem, t \in Sides : Pruned(F, x)[K[t][n]] \subseteq F[L[t][n]] \ {x}
<1> DEFINE q == L["parent"][x]
           c == L[s][x]
           G == Pruned(F, x)
<1>1. Forest(L, F) /\ Sorted(L, F, r) /\ Paired(L) /\ Rooted(L, root, F)
  BY DEF Good
<1>2. root \in Elem /\ x \in Elem /\ root \in F[root] /\ x \in F[x] /\ Null \notin Elem
      /\ F[x] \subseteq F[root]
  BY <1>1, Nested, BSTreeAssumption DEF Rooted
<1>3. L \in Links /\ F \in [NodePtr -> SUBSET Elem] /\ F[Null] = {}
  BY <1>1 DEF Forest
<1>4. \A n \in Elem, t \in Sides : L[t][n] \in NodePtr
  BY <1>3, LinkTypes DEF Sides
<1>5. q \in F[root] /\ q \in Elem
  BY <1>1, <1>2, ParentInside DEF NodePtr
<1>6. \A n \in Elem, t \in Sides : n \notin F[L[t][n]]
  BY <1>1, Smaller
<1>7. \A n \in NodePtr : G[n] = IF n = x THEN {x} ELSE F[n] \ {x}
  BY DEF Pruned
<1>8. G \in [NodePtr -> SUBSET Elem]
  BY <1>2, <1>3 DEF Pruned
<1>9. /\ \A t \in Sides, n \in Elem :
           K[t][n] = IF n = x THEN Null ELSE IF t = s /\ n = q THEN c ELSE L[t][n]
      /\ \A n \in Elem :
           K["parent"][n] = IF n = x THEN Null ELSE IF n = c THEN q ELSE L["parent"][n]
  OBVIOUS
<1>10. \A n \in Elem : n \in F[n] /\ F[n] = {n} \cup F[L["left"][n]] \cup F[L["right"][n]]
  BY <1>1 DEF Forest
<1>11. c \in NodePtr /\ F[x] = {x} \cup F[c] /\ x \notin F[c]
  BY <1>2, <1>3, <1>4, <1>6, <1>10 DEF Sides
<1>12. q # x /\ c # x /\ c # q
  <2>1. q # x
    BY <1>2, <1>6
  <2>2. c # x
    BY <1>2, <1>11
  <2>3. c # q
    BY <1>5, <1>6, <1>10, <1>11
  <2> QED BY <2>1, <2>2, <2>3
<1>13. \A n \in Elem, t \in Sides : L[t][n] = x => n = q /\ t = s
  BY <1>2, <1>5, Hangs
<1>14. c # Null => c \in Elem /\ L["parent"][c] = x /\ c \in F[root] /\ c # root
  BY <1>1, <1>2, <1>10, <1>11 DEF Paired, Rooted, NodePtr
<1>15. G[x] = {x} /\ G[Null] = {} /\ G[root] = F[root] \ {x}
  BY <1>2, <1>3, <1>7 DEF NodePtr
<1> HIDE DEF G, q, c
<1>16. ASSUME NEW n \in Elem, n # x, NEW t \in Sides
       PROVE  G[K[t][n]] = F[L[t][n]] \ {x}
  <2>1. CASE t = s /\ n = q
    BY <2>1, <1>7, <1>9, <1>11, <1>12, <1>16 DEF q
  <2>2. CASE ~(t = s /\ n = q)
    <3>1. K[t][n] = L[t][n] /\ L[t][n] \in NodePtr /\ L[t][n] # x
      BY <2>2, <1>4, <1>9, <1>13, <1>16
    <3> QED BY <3>1, <1>7
  <2> QED BY <2>1, <2>2
<1>17. \A t \in Sides : K[t][x] = Null
  BY <1>2, <1>9
<1>18. Forest(K, G)
  <2>1. ASSUME NEW n \in Elem
        PROVE  G[n] = {n} \cup G[K["left"][n]] \cup G[K["right"][n]]
    <3>1. CASE n = x
      BY <3>1, <1>15, <1>17 DEF Sides
    <3>2. CASE n # x
      <4>1. G[K["left"][n]] = F[L["left"][n]] \ {x} /\ G[K["right"][n]] = F[L["right"][n]] \ {x}
        BY <3>2, <1>16 DEF Sides
      <4>2. G[n] = F[n] \ {x}
        BY <3>2, <1>7 DEF NodePtr
      <4> QED BY <3>2, <4>1, <4>2, <1>10
    <3> QED BY <3>1, <3>2
  <2> QED BY <2>1, <1>8, <1>15 DEF Forest
<1>19. \A n \in Elem, t \in Sides : G[K[t][n]] \subseteq F[L[t][n]] \ {x}
  BY <1>15, <1>16, <1>17
<1>22. Sorted(K, G, r)
  BY <1>1, <1>19 DEF Sorted, Sides
<1>20. Paired(K)
  <2>1. ASSUME NEW n \in Elem, NEW t \in Sides, K[t][n] # Null
        PROVE  K["parent"][K[t][n]] = n
    <3>1. n # x
      BY <2>1, <1>17
    <3>2. CASE t = s /\ n = q
      <4>1. K[t][n] = c /\ c # Null
        BY <2>1, <3>1, <3>2, <1>9
      <4> QED BY <3>2, <4>1, <1>9, <1>12, <1>14
    <3>3. CASE ~(t = s /\ n = q)
      <4>1. K[t][n] = L[t][n] /\ L[t][n] \in Elem /\ L[t][n] # x
        BY <2>1, <3>1, <3>3, <1>4, <1>9, <1>13 DEF NodePtr
      <4>2. L["parent"][L[t][n]] = n
        BY <2>1, <4>1, <1>1 DEF Paired
      <4>3. L[t][n] # c
        BY <2>1, <3>1, <4>1, <4>2, <1>14
      <4> QED BY <4>1, <4>2, <4>3, <1>9
    <3> QED BY <3>2, <3>3
  <2>2. ASSUME NEW n \in Elem, K["parent"][n] # Null
        PROVE  \E t \in Sides : K[t][K["parent"][n]] = n
    <3>1. n # x
      BY <2>2, <1>9
    <3>2. CASE n = c
      <4>1. K["parent"][n] = q /\ K[s][q] = c
        BY <3>1, <3>2, <1>5, <1>9, <1>12 DEF q
      <4> QED BY <3>2, <4>1
    <3>3. CASE n # c
      <4>1. K["parent"][n] = L["parent"][n] /\ L["parent"][n] \in Elem
        BY <3>1, <3>3, <2>2, <1>3, <1>9, LinkTypes
      <4>2. PICK t \in Sides : L[t][L["parent"][n]] = n
        BY <4>1, <2>2, <1>1 DEF Paired
      <4>3. L["parent"][n] # x
        BY <4>2, <3>3, <1>2, BSTreeAssumption DEF c
      <4>4. ~(t = s /\ L["parent"][n] = q)
        BY <4>2, <3>1 DEF q
      <4> QED BY <4>1, <4>2, <4>3, <4>4, <1>9
    <3> QED BY <3>2, <3>3
  <2> QED BY <2>1, <2>2 DEF Paired
<1>21. Rooted(K, root, G)
  <2>1. K["parent"][root] = Null
    BY <1>1, <1>2, <1>9, <1>14 DEF Rooted
  <2>2. ASSUME NEW n \in Elem \ G[root]
        PROVE  Bare(K, n)
    <3>1. CASE n = x
      BY <3>1, <1>2, <1>9, <1>17 DEF Bare, Sides
    <3>2. CASE n # x
      <4>1. n \notin F[root] /\ Bare(L, n)
        BY <3>2, <1>1, <1>15 DEF Rooted
      <4>2. n # q /\ n # c
        BY <4>1, <1>2, <1>5, <1>14
      <4> QED BY <3>2, <4>1, <4>2, <1>9 DEF Bare, Sides
    <3> QED BY <3>1, <3>2
  <2> QED BY <2>1, <2>2, <1>2 DEF Rooted, NodePtr
<1> QED BY <1>15, <1>18, <1>19, <1>20, <1>21, <1>22 DEF Good, G

\* new for old in a set, and in the subtrees.
Swapped(S, old, new) == IF old \in S THEN (S \ {old}) \cup {new} ELSE S

Renamed(F, old, new) ==
    [n \in NodePtr |-> IF n = old THEN {old}
                       ELSE Swapped(F[IF n = new THEN old ELSE n], old, new)]

\* A node may have the place of another: new, that was not in the tree, takes over
\* the three pointers of old and those that point to it.
LEMMA Renames ==
    ASSUME NEW L, NEW root, NEW r, NEW F, Good(L, root, r, F),
           NEW old \in F[root], NEW new \in Elem \ F[root],
           \A m \in F[L["left"][old]] : r[m] < r[new],
           \A m \in F[L["right"][old]] : r[m] > r[new],
           OnPath(F, L, root, r, old, new),
           NEW V \in Links,
           \A t \in Sides, n \in Elem :
             V[t][n] = IF n = old THEN Null
                       ELSE IF n = new THEN L[t][old]
                       ELSE IF L[t][n] = old THEN new ELSE L[t][n],
           \A n \in Elem :
             V["parent"][n] = IF n = old THEN Null
                              ELSE IF n = new THEN L["parent"][old]
                              ELSE IF L["parent"][n] = old THEN new ELSE L["parent"][n]
    PROVE  /\ Good(V, IF old = root THEN new ELSE root, r, Renamed(F, old, new))
           /\ Renamed(F, old, new)[IF old = root THEN new ELSE root] = (F[root] \ {old}) \cup {new}
<1> DEFINE G == Renamed(F, old, new)
           to == IF old = root THEN new ELSE root
<1>1. Forest(L, F) /\ Sorted(L, F, r) /\ Paired(L) /\ Rooted(L, root, F)
  BY DEF Good
<1>2. root \in Elem /\ old \in Elem /\ root \in F[root] /\ new # old /\ new # root /\ Null \notin Elem
  BY <1>1, Nested, BSTreeAssumption DEF Rooted
<1>3. L \in Links /\ F \in [NodePtr -> SUBSET Elem] /\ F[Null] = {}
  BY <1>1 DEF Forest
<1>4. \A n \in Elem, t \in Sides : L[t][n] \in NodePtr
  BY <1>3, LinkTypes DEF Sides
<1>5. \A n \in Elem, t \in Sides : n \notin F[L[t][n]]
  BY <1>1, Smaller
<1>6. \A n \in Elem : n \in F[n] /\ F[n] = {n} \cup F[L["left"][n]] \cup F[L["right"][n]]
  BY <1>1 DEF Forest
<1>7. Bare(L, new)
  BY <1>1 DEF Rooted
<1>8. \A n \in Elem, t \in Sides : L[t][n] # new /\ L["parent"][n] # new
  <2>1. ASSUME NEW n \in Elem, NEW t \in Sides, L[t][n] = new
        PROVE  FALSE
    BY <2>1, <1>1, <1>2, <1>7 DEF Paired, Bare
  <2>2. ASSUME NEW n \in Elem, L["parent"][n] = new
        PROVE  FALSE
    BY <2>2, <1>1, <1>2, <1>7 DEF Paired, Bare, Sides
  <2> QED BY <2>1, <2>2
<1>9. \A n \in Elem, t \in Sides : L[t][n] # n /\ L["parent"][n] # n
  <2>1. \A n \in Elem, t \in Sides : L[t][n] # n
    BY <1>5, <1>6
  <2> QED BY <2>1, <1>1, <1>2 DEF Paired
<1>10. \A t \in Sides, n \in Elem :
          V[t][n] = IF n = old THEN Null ELSE IF n = new THEN L[t][old]
                    ELSE IF L[t][n] = old THEN new ELSE L[t][n]
  OBVIOUS
<1>11. \A n \in Elem :
          V["parent"][n] = IF n = old THEN Null ELSE IF n = new THEN L["parent"][old]
                           ELSE IF L["parent"][n] = old THEN new ELSE L["parent"][n]
  OBVIOUS
<1>12. \A S \in SUBSET Elem : Swapped(S, old, new) \in SUBSET Elem
  BY <1>2 DEF Swapped
<1>13. G \in [NodePtr -> SUBSET Elem]
  BY <1>2, <1>3, <1>12 DEF Renamed, NodePtr
<1>14. \A n \in NodePtr : G[n] = IF n = old THEN {old}
                                 ELSE Swapped(F[IF n = new THEN old ELSE n], old, new)
  BY DEF Renamed
<1>15. G[Null] = {} /\ G[old] = {old} /\ G[new] = Swapped(F[old], old, new)
       /\ G[to] = (F[root] \ {old}) \cup {new}
  <2>1. G[Null] = {}
    BY <1>2, <1>3, <1>14 DEF NodePtr, Swapped
  <2>2. G[old] = {old} /\ G[new] = Swapped(F[old], old, new)
    BY <1>2, <1>14 DEF NodePtr
  <2>3. G[to] = Swapped(F[root], old, new)
    BY <1>2, <1>14 DEF NodePtr
  <2> QED BY <2>1, <2>2, <2>3 DEF Swapped
<1> HIDE DEF G, to
<1>16. ASSUME NEW n \in Elem, n # old, NEW t \in Sides
       PROVE  G[V[t][n]] = Swapped(F[L[t][IF n = new THEN old ELSE n]], old, new)
  <2> DEFINE o == IF n = new THEN old ELSE n
             d == L[t][o]
  <2>1. o \in Elem /\ d \in NodePtr /\ d # new
    BY <1>2, <1>4, <1>8
  <2>2. V[t][n] = IF d = old THEN new ELSE d
    BY <1>9, <1>10, <1>16, <1>2
  <2> HIDE DEF o, d
  <2>3. G[V[t][n]] = Swapped(F[d], old, new)
    BY <2>1, <2>2, <1>14, <1>15
  <2> QED BY <2>3 DEF d, o
<1>17. \A t \in {"left", "right", "parent"} : V[t][old] = Null
  BY <1>2, <1>10, <1>11 DEF Sides
<1>18. Forest(V, G)
  <2>1. ASSUME NEW n \in Elem
        PROVE  G[n] = {n} \cup G[V["left"][n]] \cup G[V["right"][n]]
    <3>1. CASE n = old
      BY <3>1, <1>15, <1>17
    <3>2. CASE n # old
      <4> DEFINE o == IF n = new THEN old ELSE n
                 l == F[L["left"][o]]
                 rr == F[L["right"][o]]
      <4>1. o \in Elem /\ F[o] = {o} \cup l \cup rr
        BY <1>2, <1>6
      <4>2. G[V["left"][n]] = Swapped(l, old, new) /\ G[V["right"][n]] = Swapped(rr, old, new)
        BY <3>2, <1>16 DEF Sides
      <4>3. G[n] = Swapped(F[o], old, new)
        BY <3>2, <1>14 DEF NodePtr
      <4>4. (o = old /\ n = new) \/ (o = n /\ o # old)
        BY <3>2
      <4> HIDE DEF o, l, rr
      <4> QED BY <4>1, <4>2, <4>3, <4>4 DEF Swapped
    <3> QED BY <3>1, <3>2
  <2> QED BY <2>1, <1>13, <1>15 DEF Forest
<1>19. Sorted(V, G, r)
  <2>1. ASSUME NEW n \in Elem, n # old, NEW t \in Sides, NEW m \in G[V[t][n]]
        PROVE  (t = "left" => r[m] < r[n]) /\ (t = "right" => r[m] > r[n])
    <3> DEFINE o == IF n = new THEN old ELSE n
    <3>1. m \in Swapped(F[L[t][o]], old, new) /\ o \in Elem
      BY <2>1, <1>2, <1>16
    <3>2. CASE n = new
      <4>1. m \in F[L[t][old]]
        BY <3>1, <3>2, <1>2, <1>5 DEF Swapped
      <4> QED BY <3>2, <4>1
    <3>3. CASE n # new
      <4>1. CASE m \in F[L[t][n]]
        BY <4>1, <1>1 DEF Sorted
      <4>2. CASE m \notin F[L[t][n]]
        <5>1. m = new /\ old \in F[L[t][n]]
          BY <3>1, <3>3, <4>2 DEF Swapped
        <5>2. n \in F[root]
          BY <5>1, <1>1, <1>3 DEF Rooted, Bare, Sides
        <5> QED BY <5>1, <5>2 DEF OnPath
      <4> QED BY <4>1, <4>2
    <3> QED BY <3>2, <3>3
  <2>2. \A n \in Elem, t \in Sides : n = old => G[V[t][n]] = {}
    BY <1>15, <1>17 DEF Sides
  <2>3. r \in [Elem -> Int]
    BY <1>1 DEF Sorted
  <2>4. ASSUME NEW n \in Elem
        PROVE  /\ \A m \in G[V["left"][n]] : r[m] < r[n]
               /\ \A m \in G[V["right"][n]] : r[m] > r[n]
    BY <2>1, <2>2 DEF Sides
  <2> QED BY <2>3, <2>4 DEF Sorted
<1>20. Paired(V)
  <2>1. ASSUME NEW n \in Elem, NEW t \in Sides, V[t][n] # Null
        PROVE  V["parent"][V[t][n]] = n
    <3>1. n # old
      BY <2>1, <1>17 DEF Sides
    <3>2. CASE n = new
      <4>1. V[t][n] = L[t][old] /\ L[t][old] \in Elem /\ L[t][old] # new /\ L[t][old] # old
        BY <2>1, <3>1, <3>2, <1>2, <1>4, <1>8, <1>9, <1>10 DEF NodePtr
      <4>2. L["parent"][L[t][old]] = old
        BY <4>1, <1>1, <1>2 DEF Paired
      <4> QED BY <3>2, <4>1, <4>2, <1>11
    <3>3. CASE n # new /\ L[t][n] = old
      <4>1. V[t][n] = new
        BY <3>1, <3>3, <1>10
      <4>2. L["parent"][old] = n
        BY <3>3, <1>1, <1>2 DEF Paired
      <4> QED BY <4>1, <4>2, <1>2, <1>11
    <3>4. CASE n # new /\ L[t][n] # old
      <4>1. V[t][n] = L[t][n] /\ L[t][n] \in Elem /\ L[t][n] # new
        BY <2>1, <3>1, <3>4, <1>4, <1>8, <1>10 DEF NodePtr
      <4>2. L["parent"][L[t][n]] = n
        BY <2>1, <4>1, <1>1 DEF Paired
      <4> QED BY <3>1, <3>4, <4>1, <4>2, <1>11
    <3> QED BY <3>2, <3>3, <3>4
  <2>2. ASSUME NEW n \in Elem, V["parent"][n] # Null
        PROVE  \E t \in Sides : V[t][V["parent"][n]] = n
    <3>1. n # old
      BY <2>2, <1>17
    <3> DEFINE o == IF n = new THEN old ELSE n
               p == L["parent"][o]
    <3>2. o \in Elem /\ p # new /\ p # o /\ V["parent"][n] = IF p = old THEN new ELSE p
      <4>1. o \in Elem /\ p # new /\ p # o
        BY <1>2, <1>8, <1>9 DEF Sides
      <4>2. V["parent"][n] = IF p = old THEN new ELSE p
        BY <3>1, <4>1, <1>11
      <4> QED BY <4>1, <4>2
    <3> HIDE DEF p
    <3>3. p # Null /\ p \in Elem
      <4>1. p \in NodePtr
        BY <3>2, <1>3, LinkTypes DEF p
      <4>2. p # Null
        BY <2>2, <3>2, <1>2
      <4> QED BY <4>1, <4>2 DEF NodePtr
    <3>4. PICK t \in Sides : L[t][p] = o
      BY <3>2, <3>3, <1>1 DEF Paired, p
    <3>5. CASE p = old
      <4>1. o = n /\ V["parent"][n] = new
        BY <3>2, <3>5
      <4>2. V[t][new] = n
        BY <3>4, <3>5, <4>1, <1>2, <1>10
      <4> QED BY <4>1, <4>2
    <3>6. CASE p # old
      <4>1. V["parent"][n] = p
        BY <3>2, <3>6
      <4>2. V[t][p] = n
        BY <3>1, <3>2, <3>3, <3>4, <3>6, <1>10
      <4> QED BY <4>1, <4>2
    <3> QED BY <3>5, <3>6
  <2> QED BY <2>1, <2>2 DEF Paired
<1>21. Rooted(V, to, G)
  <2>1. V["parent"][to] = Null
    <3>1. L["parent"][root] = Null
      BY <1>1, <1>2 DEF Rooted
    <3> QED BY <3>1, <1>2, <1>11 DEF to
  <2>2. to \in NodePtr
    BY <1>2 DEF to, NodePtr
  <2>3. ASSUME NEW n \in Elem \ G[to]
        PROVE  Bare(V, n)
    <3>1. CASE n = old
      BY <3>1, <1>17 DEF Bare
    <3>2. CASE n # old
      <4>1. n \notin F[root] /\ Bare(L, n) /\ n # new
        BY <3>2, <1>1, <1>15 DEF Rooted
      <4> QED BY <3>2, <4>1, <1>2, <1>10, <1>11 DEF Bare, Sides
    <3> QED BY <3>1, <3>2
  <2> QED BY <2>1, <2>2, <2>3 DEF Rooted
<1>22. Good(V, to, r, G)
  BY <1>18, <1>19, <1>20, <1>21 DEF Good
<1> QED BY <1>15, <1>22 DEF G, to

\* Forget clears the pointers of one node.
LEMMA ForgetIs ==
    ASSUME NEW L \in Links, NEW x \in Elem
    PROVE  Forgotten(Forget(L, x), L, x)
BY LinkTypes DEF Forget, Forgotten, Links, NodePtr

\* Pointers that agree everywhere are the same.
LEMMA SameLinks ==
    ASSUME NEW L \in Links, NEW K \in Links,
           \A t \in {"left", "right", "parent"}, n \in Elem : L[t][n] = K[t][n]
    PROVE  L = K
<1>1. \A t \in {"left", "right", "parent"} :
         /\ L[t] = [n \in Elem |-> L[t][n]]
         /\ K[t] = [n \in Elem |-> K[t][n]]
  BY DEF Links
<1>2. \A t \in {"left", "right", "parent"} : L[t] = K[t]
  BY <1>1
<1>3. /\ L = [t \in {"left", "right", "parent"} |-> L[t]]
      /\ K = [t \in {"left", "right", "parent"} |-> K[t]]
  BY DEF Links
<1> QED BY <1>2, <1>3

\* The stores of BS_tree_replace, pointer by pointer, when the replacement is not
\* a child of the deleted node.
LEMMA ReplaceIs ==
    ASSUME NEW L \in Links, Paired(L),
           NEW old \in Elem, NEW new \in Elem,
           NEW q \in Elem, q = L["parent"][new],
           NEW p \in NodePtr, p = L["parent"][old], p # q,
           NEW s \in Sides, s = SideOf(L, new),
           NEW c \in NodePtr, c = L[s][new], c # old,
           NEW so, so = SideOf(L, old),
           NEW U, U = Unhook(L, new),
           NEW W, W = Forget(Replace(L, new, old), old)
    PROVE  /\ W \in Links
           /\ p # Null => so \in Sides /\ L[so][p] = old
           /\ \A t \in Sides, n \in Elem : U[t][n] = IF t = s /\ n = q THEN c ELSE L[t][n]
           /\ \A t \in Sides, n \in Elem :
                W[t][n] = IF n = old THEN Null
                          ELSE IF n = new THEN U[t][old]
                          ELSE IF p # Null /\ t = so /\ n = p THEN new ELSE U[t][n]
           /\ \A n \in Elem :
                W["parent"][n] = IF n = old THEN Null
                                 ELSE IF n = U["right"][old] \/ n = U["left"][old] THEN new
                                 ELSE IF n = new THEN p
                                 ELSE IF n = c THEN q ELSE L["parent"][n]
<1> DEFINE P == IF U["parent"][old] = Null THEN [U EXCEPT !["parent"][new] = Null]
                ELSE Attach(U, U["parent"][old], SideOf(U, old), new)
           Q == Attach(P, new, "left", U["left"][old])
           R == Attach(Q, new, "right", U["right"][old])
<1>1. U = Attach(L, q, s, c)
  BY DEF Unhook
<1>2. Replace(L, new, old) = R
  BY DEF Replace
<1>0. Null \notin Elem
  BY LinkTypes
<1>3. /\ U \in Links
      /\ \A t \in Sides, n \in Elem : U[t][n] = IF t = s /\ n = q THEN c ELSE L[t][n]
      /\ \A n \in Elem : U["parent"][n] = IF n = c THEN q ELSE L["parent"][n]
  <2>1. Attached(U, L, q, s, c)
    BY <1>1, AttachIs
  <2> QED BY <2>1 DEF Attached
<1>4. U["parent"][old] = p
  BY <1>3
<1>5. p # Null => so \in Sides /\ L[so][p] = old /\ SideOf(U, old) = so
  <2> SUFFICES ASSUME p # Null PROVE so \in Sides /\ L[so][p] = old /\ SideOf(U, old) = so
    OBVIOUS
  <2>1. so \in Sides /\ L[so][p] = old
    BY SideIs
  <2>2. U["left"][p] = L["left"][p]
    BY <1>3 DEF Sides, NodePtr
  <2>3. SideOf(U, old) = so
    BY <1>4, <2>2 DEF SideOf
  <2> QED BY <2>1, <2>3
<1>6. /\ P \in Links
      /\ \A t \in Sides, n \in Elem :
           P[t][n] = IF p # Null /\ t = so /\ n = p THEN new ELSE U[t][n]
      /\ \A n \in Elem : P["parent"][n] = IF n = new THEN p ELSE U["parent"][n]
  <2>1. CASE p = Null
    <3>1. P = [U EXCEPT !["parent"][new] = Null]
      BY <1>4, <2>1
    <3> HIDE DEF P
    <3>2. P \in Links
      BY <3>1, <1>3, LinkTypes DEF Links, NodePtr
    <3>3. P["left"] = U["left"] /\ P["right"] = U["right"]
          /\ P["parent"] = [U["parent"] EXCEPT ![new] = Null]
      BY <3>1, <1>3 DEF Links
    <3>4. \A n \in Elem : P["parent"][n] = IF n = new THEN p ELSE U["parent"][n]
      BY <3>3, <2>1, <1>3, LinkTypes
    <3> QED BY <3>2, <3>3, <3>4, <2>1 DEF Sides
  <2>2. CASE p # Null
    <3>1. P = Attach(U, p, so, new)
      BY <1>4, <1>5, <2>2
    <3> HIDE DEF P
    <3>2. p \in Elem /\ new \in NodePtr
      BY <2>2 DEF NodePtr
    <3>3. Attached(P, U, p, so, new)
      BY <3>1, <3>2, <2>2, <1>3, <1>5, AttachIs
    <3> QED BY <3>3, <2>2, <1>5 DEF Attached
  <2> QED BY <2>1, <2>2
<1> HIDE DEF P
<1>7. U["left"][old] \in NodePtr /\ U["right"][old] \in NodePtr
  BY <1>3, LinkTypes
<1>8. /\ Q \in Links
      /\ \A t \in Sides, n \in Elem :
           Q[t][n] = IF t = "left" /\ n = new THEN U["left"][old] ELSE P[t][n]
      /\ \A n \in Elem : Q["parent"][n] = IF n = U["left"][old] THEN new ELSE P["parent"][n]
  <2>1. Attached(Q, P, new, "left", U["left"][old])
    BY <1>6, <1>7, AttachIs DEF Sides
  <2> HIDE DEF Q
  <2> QED BY <2>1 DEF Attached
<1> HIDE DEF Q
<1>9. /\ R \in Links
      /\ \A t \in Sides, n \in Elem :
           R[t][n] = IF t = "right" /\ n = new THEN U["right"][old] ELSE Q[t][n]
      /\ \A n \in Elem : R["parent"][n] = IF n = U["right"][old] THEN new ELSE Q["parent"][n]
  <2>1. Attached(R, Q, new, "right", U["right"][old])
    BY <1>7, <1>8, AttachIs DEF Sides
  <2> HIDE DEF R
  <2> QED BY <2>1 DEF Attached
<1> HIDE DEF R
<1>10. /\ W \in Links
       /\ \A t \in {"left", "right", "parent"}, n \in Elem :
            W[t][n] = IF n = old THEN Null ELSE R[t][n]
  <2>1. Forgotten(W, R, old)
    BY <1>2, <1>9, ForgetIs
  <2> QED BY <2>1 DEF Forgotten
<1>11. ASSUME NEW t \in Sides, NEW n \in Elem
       PROVE  W[t][n] = IF n = old THEN Null
                        ELSE IF n = new THEN U[t][old]
                        ELSE IF p # Null /\ t = so /\ n = p THEN new ELSE U[t][n]
  BY <1>6, <1>8, <1>9, <1>10 DEF Sides
<1>12. ASSUME NEW n \in Elem
       PROVE  W["parent"][n] = IF n = old THEN Null
                               ELSE IF n = U["right"][old] \/ n = U["left"][old] THEN new
                               ELSE IF n = new THEN p
                               ELSE IF n = c THEN q ELSE L["parent"][n]
  BY <1>3, <1>6, <1>8, <1>9, <1>10
<1> QED BY <1>3, <1>5, <1>10, <1>11, <1>12

\* BS_tree_replace makes a search tree without the deleted element, if
\* the replacement has no child to lose and is next to it in the order.  A replacement
\* that is a child of the deleted node and one that lies deeper are two cases.
LEMMA Replaces ==
    ASSUME NEW L, NEW root, NEW r, NEW F, Good(L, root, r, F),
           NEW old \in F[root], NEW new \in F[old], new # old,
           \A t \in Sides \ {SideOf(L, new)} : L[t][new] = Null,
           \A m \in F[L["left"][old]] \ {new} : r[m] < r[new],
           \A m \in F[L["right"][old]] \ {new} : r[m] > r[new]
    PROVE  \E G : /\ Good(Forget(Replace(L, new, old), old),
                          IF old = root THEN new ELSE root, r, G)
                  /\ G[IF old = root THEN new ELSE root] = F[root] \ {old}
<1> DEFINE q == L["parent"][new]
           p == L["parent"][old]
           s == SideOf(L, new)
           c == L[s][new]
           K == [t \in {"left", "right", "parent"} |-> [n \in Elem |->
                   IF n = new THEN Null
                   ELSE IF t = "parent" THEN IF n = c THEN q ELSE L["parent"][n]
                   ELSE IF t = s /\ n = q THEN c ELSE L[t][n]]]
           V == [t \in {"left", "right", "parent"} |-> [n \in Elem |->
                   IF n = old THEN Null
                   ELSE IF n = new THEN K[t][old]
                   ELSE IF K[t][n] = old THEN new ELSE K[t][n]]]
           to == IF old = root THEN new ELSE root
           H == Pruned(F, new)
<1>1. Forest(L, F) /\ Sorted(L, F, r) /\ Paired(L) /\ Rooted(L, root, F)
  BY DEF Good
<1>2. L \in Links /\ F \in [NodePtr -> SUBSET Elem] /\ F[Null] = {} /\ root \in NodePtr
  BY <1>1 DEF Forest, Rooted
<1>3. /\ root \in Elem /\ old \in Elem /\ new \in Elem /\ Null \notin Elem
      /\ F[new] \subseteq F[old] /\ F[old] \subseteq F[root]
      /\ new \in F[new] /\ old \in F[old]
  BY <1>1, <1>2, Nested, LinkTypes DEF NodePtr
<1>4. q \in F[old] /\ q \in Elem /\ new # root
  <2>1. q \in F[old] /\ q \in Elem
    BY <1>1, <1>3, ParentInside DEF NodePtr
  <2> QED BY <2>1, <1>1, <1>3 DEF Rooted
<1>5. s \in Sides /\ L[s][q] = new
  BY <1>1, <1>3, <1>4, SideIs
<1>6. c \in NodePtr /\ p \in NodePtr
  BY <1>2, <1>3, <1>5, LinkTypes DEF Sides
<1>7. \A n \in Elem, t \in Sides : n \notin F[L[t][n]]
  BY <1>1, Smaller
<1>8. PICK u \in Sides : new \in F[L[u][old]]
  BY <1>1, <1>3 DEF Forest, Sides
<1>9. old \notin F[new] /\ c # old /\ c # new /\ F[c] \subseteq F[new]
  <2>1. L[u][old] \in NodePtr
    BY <1>2, <1>3, LinkTypes DEF Sides
  <2>2. F[new] \subseteq F[L[u][old]]
    BY <2>1, <1>1, <1>8, Nested
  <2>3. old \notin F[new]
    BY <2>2, <1>3, <1>7
  <2>4. F[c] \subseteq F[new] /\ new \notin F[c]
    BY <1>1, <1>3, <1>5, <1>7 DEF Forest, Sides
  <2>5. c # Null => c \in F[c]
    BY <1>1, <1>6 DEF Forest, NodePtr
  <2> QED BY <2>3, <2>4, <2>5, <1>3
<1>10. p \notin F[old]
  <2>1. SUFFICES ASSUME p \in F[old] PROVE FALSE
    OBVIOUS
  <2>2. p \in Elem /\ F[p] \subseteq F[old]
    BY <2>1, <1>1, <1>3, Nested DEF NodePtr
  <2>3. PICK t \in Sides : L[t][p] = old
    BY <2>2, <1>1, <1>3 DEF Paired
  <2>4. p # old => p \in F[old] \ {old}
    BY <2>1
  <2>5. p \notin F[old]
    BY <2>2, <2>3, <1>7
  <2> QED BY <2>1, <2>5
<1>11. p # Null => p \in Elem /\ p # q /\ p # new /\ p # old
  BY <1>3, <1>4, <1>6, <1>10 DEF NodePtr
<1> HIDE DEF q, p, s, c
<1>12. K \in Links
  BY <1>2, <1>3, <1>4, <1>5, <1>6, LinkTypes DEF Links, NodePtr, Sides
<1>13. ASSUME NEW t \in Sides, NEW n \in Elem
       PROVE  K[t][n] = IF n = new THEN Null ELSE IF t = s /\ n = q THEN c ELSE L[t][n]
  <2>1. t \in {"left", "right", "parent"} /\ t # "parent"
    BY DEF Sides
  <2> QED BY <2>1
<1>14. \A n \in Elem :
          K["parent"][n] = IF n = new THEN Null ELSE IF n = c THEN q ELSE L["parent"][n]
  OBVIOUS
<1>15. V \in Links
  BY <1>3, <1>12, LinkTypes DEF Links, NodePtr, Sides
<1>16. \A t \in {"left", "right", "parent"}, n \in Elem :
          V[t][n] = IF n = old THEN Null
                    ELSE IF n = new THEN K[t][old]
                    ELSE IF K[t][n] = old THEN new ELSE K[t][n]
  OBVIOUS
<1> HIDE DEF K, V
<1>17. /\ Good(K, root, r, H)
       /\ H[root] = F[root] \ {new}
       /\ \A n \in Elem, t \in Sides : H[K[t][n]] \subseteq F[L[t][n]] \ {new}
  <2>1. new \in F[root] /\ L[s][L["parent"][new]] = new
    BY <1>3, <1>5 DEF q
  <2>2. \A t \in Sides \ {s} : L[t][new] = Null
    BY DEF s
  <2>3. \A t \in Sides, n \in Elem :
          K[t][n] = IF n = new THEN Null
                    ELSE IF t = s /\ n = L["parent"][new] THEN L[s][new] ELSE L[t][n]
    BY <1>13 DEF q, c
  <2>4. \A n \in Elem :
          K["parent"][n] = IF n = new THEN Null
                           ELSE IF n = L[s][new] THEN L["parent"][new] ELSE L["parent"][n]
    BY <1>14 DEF q, c
  <2> HIDE DEF H
  <2>5. s \in Sides
    BY <1>5
  <2> QED BY <2>1, <2>2, <2>3, <2>4, <2>5, <1>4, <1>12, Prunes DEF H
<1>18. /\ Good(V, to, r, Renamed(H, old, new))
       /\ Renamed(H, old, new)[to] = (H[root] \ {old}) \cup {new}
  <2>1. old \in H[root] /\ new \in Elem \ H[root]
    BY <1>3, <1>17
  <2>2. \A m \in H[K["left"][old]] : r[m] < r[new]
    BY <1>3, <1>17 DEF Sides
  <2>3. \A m \in H[K["right"][old]] : r[m] > r[new]
    BY <1>3, <1>17 DEF Sides
  <2>4. OnPath(H, K, root, r, old, new)
    <3>1. ASSUME NEW n \in H[root], NEW t \in Sides, old \in H[K[t][n]]
          PROVE  n \in Elem /\ new \in F[L[t][n]]
      <4>1. n \in Elem
        BY <1>2, <1>3, <1>17
      <4>2. old \in F[L[t][n]] /\ L[t][n] \in NodePtr
        BY <4>1, <3>1, <1>2, <1>17, LinkTypes DEF Sides
      <4> QED BY <4>1, <4>2, <1>1, <1>3, Nested
    <3> QED BY <3>1, <1>1 DEF OnPath, Sides, Sorted
  <2>5. \A t \in Sides, n \in Elem :
          V[t][n] = IF n = old THEN Null
                    ELSE IF n = new THEN K[t][old]
                    ELSE IF K[t][n] = old THEN new ELSE K[t][n]
    BY <1>16 DEF Sides
  <2>6. \A n \in Elem :
          V["parent"][n] = IF n = old THEN Null
                           ELSE IF n = new THEN K["parent"][old]
                           ELSE IF K["parent"][n] = old THEN new ELSE K["parent"][n]
    BY <1>16
  <2> HIDE DEF H
  <2> QED BY <2>1, <2>2, <2>3, <2>4, <2>5, <2>6, <1>15, <1>17, Renames
<1>19. Forget(Replace(L, new, old), old) = V
  <2> DEFINE U == Unhook(L, new)
             so == SideOf(L, old)
             W == Forget(Replace(L, new, old), old)
  <2>1. p # q
    BY <1>3, <1>4, <1>6, <1>11
  <2>2. q = L["parent"][new] /\ p = L["parent"][old] /\ s = SideOf(L, new) /\ c = L[s][new]
    BY DEF q, p, s, c
  <2> HIDE DEF U, so, W
  <2>3. /\ W \in Links
        /\ p # Null => so \in Sides /\ L[so][p] = old
        /\ \A t \in Sides, n \in Elem : U[t][n] = IF t = s /\ n = q THEN c ELSE L[t][n]
        /\ \A t \in Sides, n \in Elem :
             W[t][n] = IF n = old THEN Null
                       ELSE IF n = new THEN U[t][old]
                       ELSE IF p # Null /\ t = so /\ n = p THEN new ELSE U[t][n]
        /\ \A n \in Elem :
             W["parent"][n] = IF n = old THEN Null
                              ELSE IF n = U["right"][old] \/ n = U["left"][old] THEN new
                              ELSE IF n = new THEN p
                              ELSE IF n = c THEN q ELSE L["parent"][n]
    BY <2>1, <2>2, <1>1, <1>2, <1>3, <1>4, <1>5, <1>6, <1>9, ReplaceIs DEF U, so, W
  <2>11. \A t \in Sides : U[t][old] = K[t][old]
    BY <2>3, <1>3, <1>13
  <2>12. ASSUME NEW t \in Sides, NEW n \in Elem
         PROVE  W[t][n] = V[t][n]
    <3>1. t \in {"left", "right", "parent"}
      BY DEF Sides
    <3>2. CASE n = old
      BY <3>1, <3>2, <2>3, <1>16
    <3>3. CASE n = new
      <4>1. W[t][n] = U[t][old]
        BY <3>1, <3>3, <1>3, <2>3 DEF Sides
      <4> QED BY <4>1, <3>1, <3>3, <2>11, <1>16
    <3>4. CASE n # old /\ n # new
      <4>1. W[t][n] = IF p # Null /\ t = so /\ n = p THEN new ELSE U[t][n]
        BY <3>1, <3>4, <2>3 DEF Sides
      <4>2. U[t][n] = K[t][n]
        BY <3>4, <2>3, <1>13
      <4>3. K[t][n] = old <=> p # Null /\ t = so /\ n = p
        <5>1. ASSUME K[t][n] = old
              PROVE  p # Null /\ t = so /\ n = p
          <6>1. L[t][n] = old
            BY <5>1, <3>4, <1>9, <1>13
          <6>2. n = p
            BY <6>1, <1>1, <1>3 DEF Paired, p
          <6>3. p # Null
            BY <6>2, <1>3
          <6>4. t = so
            BY <6>1, <6>2, <6>3, <2>3, <1>3, Hangs
          <6> QED BY <6>2, <6>3, <6>4
        <5>2. ASSUME p # Null, t = so, n = p
              PROVE  K[t][n] = old
          BY <5>2, <3>4, <2>3, <1>11, <1>13
        <5> QED BY <5>1, <5>2
      <4> QED BY <4>1, <4>2, <4>3, <3>1, <3>4, <1>16
    <3> QED BY <3>2, <3>3, <3>4
  <2>13. ASSUME NEW n \in Elem
         PROVE  W["parent"][n] = V["parent"][n]
    <3>1. Paired(K)
      BY <1>17 DEF Good
    <3>2. U["left"][old] = K["left"][old] /\ U["right"][old] = K["right"][old]
      BY <2>11 DEF Sides
    <3>3. CASE n = old
      BY <3>3, <2>3, <1>16
    <3>4. CASE n = new
      <4>1. \A t \in Sides : K[t][old] # new
        <5> SUFFICES ASSUME NEW t \in Sides, K[t][old] = new PROVE FALSE
          OBVIOUS
        <5>1. K["parent"][new] = old
          BY <3>1, <1>3 DEF Paired
        <5> QED BY <5>1, <1>3, <1>14
      <4>2. W["parent"][new] = p
        BY <4>1, <3>2, <2>3, <1>3 DEF Sides
      <4>3. K["parent"][old] = p
        BY <1>3, <1>9, <1>14 DEF p
      <4> QED BY <4>2, <4>3, <3>4, <2>3, <1>3, <1>16
    <3>5. CASE n # old /\ n # new
      <4>1. W["parent"][n] = IF \E t \in Sides : K[t][old] = n THEN new ELSE K["parent"][n]
        BY <3>2, <3>5, <2>3, <1>14 DEF Sides
      <4>2. K["parent"][n] = old <=> \E t \in Sides : K[t][old] = n
        BY <3>1, <1>3 DEF Paired
      <4> QED BY <4>1, <4>2, <3>5, <2>3, <1>16
    <3> QED BY <3>3, <3>4, <3>5
  <2>14. \A t \in {"left", "right", "parent"}, n \in Elem : W[t][n] = V[t][n]
    BY <2>12, <2>13 DEF Sides
  <2>15. W = V
    BY <2>3, <2>14, <1>15, SameLinks
  <2> QED BY <2>15 DEF W
<1> QED BY <1>3, <1>17, <1>18, <1>19

\* Deleting a leaf clears the pointer of its parent.
LEMMA Leaves ==
    ASSUME NEW L, NEW root, NEW r, NEW F, Good(L, root, r, F),
           NEW x \in F[root], L["parent"][x] # Null,
           L["left"][x] = Null, L["right"][x] = Null
    PROVE  \E G : /\ Good(Forget([L EXCEPT ![SideOf(L, x)][L["parent"][x]] = Null], x), root, r, G)
                  /\ G[root] = F[root] \ {x}
<1> DEFINE s == SideOf(L, x)
           q == L["parent"][x]
           M == [L EXCEPT ![s][q] = Null]
           K == Forget(M, x)
<1>1. Forest(L, F) /\ Sorted(L, F, r) /\ Paired(L) /\ Rooted(L, root, F) /\ L \in Links
  BY DEF Good, Forest
<1>2. x \in Elem /\ root \in Elem /\ x # root
  BY <1>1, Nested, LinkTypes DEF Rooted
<1>3. s \in Sides /\ L[s][q] = x
  BY <1>1, <1>2, SideIs
<1>4. M \in Links /\ \A t \in {"left", "right", "parent"}, n \in Elem :
                        M[t][n] = IF t = s /\ n = q THEN Null ELSE L[t][n]
  <2> DEFINE N == [L[s] EXCEPT ![q] = Null]
             O == [t \in {"left", "right", "parent"} |-> IF t = s THEN N ELSE L[t]]
  <2> HIDE DEF s, q
  <2>1. s \in {"left", "right", "parent"}
    BY <1>3 DEF Sides
  <2>2. N \in [Elem -> NodePtr] /\ \A n \in Elem : N[n] = IF n = q THEN Null ELSE L[s][n]
    BY <2>1, <1>1, LinkTypes DEF NodePtr
  <2>3. M = O
    BY <2>1, <1>1 DEF Links
  <2> HIDE DEF N
  <2>4. O \in Links
    BY <2>2, <1>1 DEF Links
  <2> HIDE DEF M
  <2>5. \A t \in {"left", "right", "parent"}, n \in Elem :
          O[t][n] = IF t = s /\ n = q THEN Null ELSE L[t][n]
    BY <2>2
  <2> QED BY <2>3, <2>4, <2>5
<1> HIDE DEF M
<1>5. Forgotten(K, M, x)
  BY <1>2, <1>4, ForgetIs
<1> HIDE DEF K
<1>6. \A t \in Sides, n \in Elem :
         K[t][n] = IF n = x THEN Null ELSE IF t = s /\ n = q THEN L[s][x] ELSE L[t][n]
  <2>1. \A t \in Sides : t \in {"left", "right", "parent"}
    BY DEF Sides
  <2>2. L[s][x] = Null
    BY <1>3 DEF Sides
  <2> HIDE DEF s, q
  <2> QED BY <2>1, <2>2, <1>4, <1>5 DEF Forgotten
<1>7. \A n \in Elem :
         K["parent"][n] = IF n = x THEN Null ELSE IF n = L[s][x] THEN q ELSE L["parent"][n]
  <2>1. L[s][x] = Null /\ s # "parent"
    BY <1>3 DEF Sides
  <2> HIDE DEF s, q
  <2> QED BY <2>1, <1>4, <1>5, LinkTypes DEF Forgotten
<1>8. \A t \in Sides \ {s} : L[t][x] = Null
  BY DEF Sides
<1>9. K \in Links
  BY <1>5 DEF Forgotten
<1> HIDE DEF s
<1> DEFINE G == Pruned(F, x)
<1> HIDE DEF G
<1>10. /\ Good(K, root, r, G)
       /\ G[root] = F[root] \ {x}
       /\ \A n \in Elem, t \in Sides : G[K[t][n]] \subseteq F[L[t][n]] \ {x}
  BY <1>2, <1>3, <1>6, <1>7, <1>8, <1>9, Prunes DEF G
<1> QED BY <1>10 DEF K, M, s

\* Deleting the only node leaves an empty tree.
LEMMA LastLeaves ==
    ASSUME NEW L, NEW root, NEW r, NEW F, Good(L, root, r, F),
           NEW x \in F[root], L["parent"][x] = Null,
           L["left"][x] = Null, L["right"][x] = Null
    PROVE  x = root /\ F[root] = {x} /\ Forget(L, x) = L /\ Good(L, Null, r, F)
<1>1. Forest(L, F) /\ Sorted(L, F, r) /\ Paired(L) /\ Rooted(L, root, F) /\ L \in Links
  BY DEF Good, Forest
<1>2. x \in Elem /\ root \in NodePtr
  BY <1>1, Nested DEF Rooted
<1>3. x = root
  BY <1>1, <1>2, ParentInside, LinkTypes
<1>4. F[root] = {x}
  BY <1>1, <1>2, <1>3 DEF Forest
<1>5. Bare(L, x)
  BY DEF Bare
<1>6. Forget(L, x) = L
  <2>1. Forgotten(Forget(L, x), L, x)
    BY <1>1, <1>2, ForgetIs
  <2> QED BY <2>1, <1>1, <1>5, SameLinks DEF Forgotten, Bare
<1>7. Rooted(L, Null, F)
  BY <1>1, <1>3, <1>4, <1>5 DEF Rooted, NodePtr
<1> QED BY <1>1, <1>3, <1>4, <1>6, <1>7 DEF Good

\* The first insertion stores the root alone.
LEMMA FirstNode ==
    ASSUME NEW L, NEW root, NEW r, NEW F, Good(L, root, r, F), F[root] = {}, NEW x \in Elem
    PROVE  Good(L, x, r, F) /\ F[x] = {x} /\ root = Null
<1>1. Forest(L, F) /\ Sorted(L, F, r) /\ Paired(L) /\ Rooted(L, root, F)
  BY DEF Good
<1>2. root = Null
  BY <1>1 DEF Rooted, Forest, NodePtr
<1>3. \A n \in Elem : Bare(L, n)
  BY <1>1 DEF Rooted
<1>4. Rooted(L, x, F)
  BY <1>3 DEF Rooted, NodePtr, Bare
<1>5. F[x] = {x}
  BY <1>1, <1>3 DEF Forest, Bare
<1> QED BY <1>1, <1>2, <1>4, <1>5 DEF Good

\* A tree that has just been created is a search tree.
LEMMA Nothing ==
    ASSUME NEW L \in Links, \A n \in Elem : Bare(L, n), NEW r \in [Elem -> Int]
    PROVE  \E F : Good(L, Null, r, F) /\ F[Null] = {}
<1> DEFINE F == [n \in NodePtr |-> IF n = Null THEN {} ELSE {n}]
<1>1. F \in [NodePtr -> SUBSET Elem] /\ F[Null] = {} /\ \A n \in Elem : F[n] = {n}
  BY LinkTypes DEF NodePtr
<1> HIDE DEF F
<1>2. Forest(L, F)
  BY <1>1 DEF Forest, Bare
<1>3. Sorted(L, F, r)
  BY <1>1 DEF Sorted, Bare
<1>4. Paired(L)
  BY DEF Paired, Bare, Sides
<1>5. Rooted(L, Null, F)
  BY DEF Rooted, NodePtr
<1> QED BY <1>1, <1>2, <1>3, <1>4, <1>5 DEF Good

\* A search starts on the path it has to take.
LEMMA PathStarts ==
    ASSUME NEW L, NEW root, NEW r, NEW F, Good(L, root, r, F), NEW x
    PROVE  OnPath(F, L, root, r, root, x)
<1>1. Forest(L, F) /\ Sorted(L, F, r) /\ Rooted(L, root, F) /\ L \in Links
  BY DEF Good, Forest
<1>2. SUFFICES ASSUME NEW n \in F[root], NEW s \in Sides, root \in F[L[s][n]]
               PROVE  FALSE
  BY DEF OnPath, Sides
<1>3. n \in Elem /\ n \in F[root]
  BY <1>1, Nested DEF Rooted
<1>4. L[s][n] \in NodePtr
  BY <1>1, <1>3, LinkTypes DEF Sides
<1>5. F[root] \subseteq F[L[s][n]]
  BY <1>1, <1>2, <1>4, Nested
<1>6. n \notin F[L[s][n]]
  BY <1>1, <1>3, Smaller
<1> QED BY <1>3, <1>5, <1>6

\* A comparison keeps it there.
LEMMA PathGoesOn ==
    ASSUME NEW L, NEW root, NEW r, NEW F, Good(L, root, r, F),
           NEW at \in F[root], NEW x, OnPath(F, L, root, r, at, x),
           NEW s \in Sides, L[s][at] # Null,
           s = "left" => r[x] < r[at],
           s = "right" => r[x] > r[at]
    PROVE  OnPath(F, L, root, r, L[s][at], x)
<1>1. Forest(L, F) /\ Sorted(L, F, r) /\ Paired(L) /\ Rooted(L, root, F) /\ L \in Links
  BY DEF Good, Forest
<1>2. at \in Elem
  BY <1>1, Nested DEF Rooted
<1>3. ASSUME NEW n \in F[root], NEW t \in Sides, L[s][at] \in F[L[t][n]]
      PROVE  (n = at /\ t = s) \/ at \in F[L[t][n]]
  <2>1. n \in Elem /\ L[s][at] \in Elem
    BY <1>1, <1>2, Nested, LinkTypes DEF Rooted, Sides
  <2>2. L[t][n] \in NodePtr
    BY <1>1, <2>1, LinkTypes DEF Sides
  <2>3. CASE L[s][at] = L[t][n]
    BY <2>1, <2>3, <1>2, Hangs
  <2>4. CASE L[s][at] # L[t][n]
    <3>1. L["parent"][L[s][at]] \in F[L[t][n]]
      BY <2>2, <2>4, <1>1, <1>3, ParentInside
    <3> QED BY <3>1, <1>1, <1>2 DEF Paired
  <2> QED BY <2>3, <2>4
<1> QED BY <1>3 DEF OnPath, Sides

-----------------------------------------------------------------------------
\* The usage under which the theorems hold: no deletion whose replacement would
\* drop a child.
Contract == "deep_child" \notin Beyond

\* The tree between two assignments of a call.
Healthy ==
    /\ Good(link, tree.root, tree.compare, Subtrees(link))
    /\ tree.length = Cardinality(Present)
    /\ \A x, y \in Present : Rank(x) = Rank(y) => x = y
    /\ held \cap Present = {}
    /\ nodes = Present \cup IF pc = "insert" THEN {key} ELSE {}

\* The loop that is running.
Aimed ==
    /\ pc # "idle" => key \in Elem /\ cur \in Present
    /\ pc \in {"insert", "search", "delete"} =>
         /\ OnPath(Subtrees(link), link, tree.root, tree.compare, cur, key)
         /\ \A x \in Present : Rank(x) = Rank(key) => x \in Below(cur)
    /\ pc = "insert" => key \in held /\ tree.length < MaxU32
    /\ pc = "delete" => \A n \in nodes : Rank(n) = Rank(key) => Replaceable(n)
    /\ pc \in {"max", "min"} => Rank(cur) = Rank(key) /\ Replaceable(cur)
    /\ pc = "max" =>
         /\ rep \in Below(link["left"][cur])
         /\ \A x \in Below(link["left"][cur]) \ Below(rep) : Rank(x) < Rank(rep)
    /\ pc = "min" =>
         /\ link["left"][cur] = Null
         /\ rep = Null => link["right"][cur] = Null
         /\ rep # Null => rep \in Below(link["right"][cur])
         /\ \A x \in Below(link["right"][cur]) \ Below(rep) : Rank(x) > Rank(rep)

\* The inductive invariant.
Inv ==
    /\ TypeOK
    /\ ~fault
    /\ Absent => nodes = {} /\ pc = "idle" /\ \A n \in Elem : Bare(link, n)
    /\ ~Absent => Healthy /\ Aimed

\* What the invariant says of the tree, in the words of the lemmas above.
LEMMA Standing ==
    ASSUME Inv, ~Absent
    PROVE  /\ Forest(link, Subtrees(link)) /\ Sorted(link, Subtrees(link), tree.compare)
           /\ Paired(link) /\ Rooted(link, tree.root, Subtrees(link))
           /\ tree \in Tree /\ link \in Links /\ tree.compare \in [Elem -> Int]
           /\ Present = Subtrees(link)[tree.root]
           /\ Present \subseteq Elem /\ IsFiniteSet(Present) /\ Cardinality(Present) \in Nat
           /\ \A n \in Elem : Rank(n) \in Int
<1>1. Good(link, tree.root, tree.compare, Subtrees(link)) /\ tree \in Tree /\ link \in Links
  BY DEF Inv, Healthy, TypeOK, Absent
<1>2. Present = Subtrees(link)[tree.root]
  BY DEF Present, Below
<1>3. Present \subseteq Elem
  BY <1>1, <1>2 DEF Good, Forest, Rooted
<1>4. IsFiniteSet(Present) /\ Cardinality(Present) \in Nat
  BY <1>3, BSTreeAssumption, FS_Subset, FS_CardinalityType
<1>5. tree.compare \in [Elem -> Int]
  BY <1>1 DEF Good, Sorted
<1> QED BY <1>1, <1>2, <1>3, <1>4, <1>5 DEF Good, Rank

\* length is 0, the root is NULL and the tree is empty at the same time.
LEMMA Emptiness ==
    ASSUME Inv, ~Absent
    PROVE  /\ tree.length = 0 <=> Present = {}
           /\ tree.length = 0 <=> tree.root = Null
<1>1. tree.length = 0 <=> Present = {}
  BY Standing, FS_EmptySet DEF Inv, Healthy
<1>2. Present = {} <=> tree.root = Null
  BY Standing DEF Forest, Rooted, NodePtr
<1> QED BY <1>1, <1>2

\* It holds before the first call.
LEMMA InitInv == Init => Inv
<1> SUFFICES ASSUME Init PROVE Inv
  OBVIOUS
<1>1. Unlinked \in [Elem -> NodePtr] /\ \A n \in Elem : Unlinked[n] = Null
  BY DEF Unlinked, NodePtr
<1> USE DEF Init
<1>2. TypeOK
  BY <1>1 DEF TypeOK, Links, NodePtr
<1> QED BY <1>1, <1>2 DEF Inv, Absent, Bare

\* A call that refuses, or ends a search, changes nothing of it.
LEMMA AnswerKeeps ==
    ASSUME Inv, pc # "insert", NEW result \in {OK, ERR} \cup NodePtr, Answer(result)
    PROVE  Inv'
<1> USE DEF Answer, Return
<1>1. TypeOK'
  BY DEF Inv, TypeOK, NodePtr
<1>2. ASSUME Absent'
      PROVE  nodes' = {} /\ pc' = "idle" /\ \A n \in Elem : Bare(link', n)
  BY <1>2 DEF Inv, Absent
<1>3. ASSUME ~Absent'
      PROVE  Healthy' /\ Aimed'
  BY <1>3 DEF Inv, Absent, Healthy, Aimed, Present, Rank, Below
<1> QED BY <1>1, <1>2, <1>3 DEF Inv

\* A step that leaves the pointers alone leaves all that is computed from them.
LEMMA SameTree ==
    ASSUME tree' = tree, link' = link
    PROVE  /\ Absent' <=> Absent
           /\ Present' = Present
           /\ Subtrees(link)' = Subtrees(link)
           /\ \A n : Below(n)' = Below(n)
           /\ \A n : Rank(n)' = Rank(n)
           /\ \A n : Replaceable(n)' <=> Replaceable(n)
<1>1. Absent' <=> Absent
  BY DEF Absent
<1>2. Subtrees(link)' = Subtrees(link)
  OBVIOUS
<1>3. \A n : Below(n)' = Below(n)
  BY DEF Below
<1>4. Present' = Present
  BY DEF Present, Absent, Below
<1>5. \A n : Rank(n)' = Rank(n)
  BY DEF Rank
<1>6. \A n : Replaceable(n)' <=> Replaceable(n)
  BY DEF Replaceable, Harmless, Rank, Below
<1> QED BY <1>1, <1>2, <1>3, <1>4, <1>5, <1>6

\* The loop of a call starts at the root.
LEMMA StartKeeps ==
    ASSUME Inv, Ready, ~Absent, tree.length # 0,
           NEW loop \in {"insert", "search", "delete"}, NEW x \in Elem, Start(loop, x),
           UNCHANGED <<tree, link, held, freed>>,
           nodes' = nodes \cup IF loop = "insert" THEN {x} ELSE {},
           loop = "insert" => x \in held /\ tree.length < MaxU32,
           loop = "delete" => \A n \in nodes : Rank(n) = Rank(x) => Replaceable(n)
    PROVE  Inv'
<1>1. tree.root # Null
  BY Emptiness
<1>2. pc' = loop /\ key' = x /\ cur' = tree.root /\ UNCHANGED <<ret, rep, fault>>
  BY <1>1 DEF Start
<1>3. Healthy /\ Present = Subtrees(link)[tree.root] /\ tree.root \in NodePtr
  BY Standing DEF Inv, Rooted
<1>4. tree.root \in Present
  BY <1>1, <1>3, Standing DEF Forest, NodePtr
<1>5. /\ Absent' <=> Absent
      /\ Present' = Present
      /\ Subtrees(link)' = Subtrees(link)
      /\ \A n : Below(n)' = Below(n)
      /\ \A n : Rank(n)' = Rank(n)
      /\ \A n : Replaceable(n)' <=> Replaceable(n)
  BY SameTree
<1>6. TypeOK'
  BY <1>2, <1>3 DEF Inv, TypeOK, NodePtr
<1>7. Healthy'
  BY <1>2, <1>3, <1>5 DEF Healthy, Ready
<1>8. OnPath(Subtrees(link), link, tree.root, tree.compare, tree.root, x)
  BY <1>3, PathStarts DEF Healthy
<1>9. Aimed'
  <2>1. \A y \in Present : y \in Below(tree.root)
    BY <1>3 DEF Below
  <2>2. /\ key' \in Elem /\ cur' \in Present'
        /\ OnPath(Subtrees(link), link, tree.root, tree.compare, cur, key)'
        /\ \A y \in Present' : y \in Below(cur)'
    <3>1. Below(cur)' = Below(tree.root)
      BY <1>2 DEF Below
    <3> QED BY <3>1, <2>1, <1>2, <1>4, <1>5, <1>8
  <2>3. pc' = "insert" => key' \in held' /\ tree'.length < MaxU32
    BY <1>2
  <2>4. pc' = "delete" => \A n \in nodes' : Rank(n)' = Rank(key)' => Replaceable(n)'
    <3>1. Rank(key)' = Rank(x)
      BY <1>2 DEF Rank
    <3> QED BY <3>1, <1>2, <1>5
  <2>5. pc' \notin {"max", "min"}
    BY <1>2
  <2> QED BY <2>2, <2>3, <2>4, <2>5 DEF Aimed
<1> QED BY <1>2, <1>5, <1>6, <1>7, <1>9 DEF Inv

\* One iteration of a search.
LEMMA DescendKeeps ==
    ASSUME Inv, Descend
    PROVE  Inv'
<1> DEFINE F == Subtrees(link)
           c == link[Side][cur]
<1>1. ~Absent /\ Healthy /\ Aimed /\ pc \in {"insert", "search", "delete"}
  BY DEF Descend, Searching, Inv
<1>2. UNCHANGED <<tree, nodes, link, held, freed, ret, fault, pc, key, rep>> /\ cur' = c /\ c # Null
  BY DEF Descend
<1>3. key \in Elem /\ cur \in Present /\ cur \in Elem /\ Rank(key) \in Int /\ Rank(cur) \in Int
      /\ Rank(key) # Rank(cur)
  BY <1>1, Standing DEF Aimed, Descend
<1>4. Side \in Sides /\ (Side = "left" => Rank(key) < Rank(cur)) /\ (Side = "right" => Rank(key) > Rank(cur))
  BY <1>3 DEF Side, Sides
<1>5. Forest(link, F) /\ Sorted(link, F, tree.compare) /\ Rooted(link, tree.root, F)
      /\ Present = F[tree.root] /\ link \in Links
  BY <1>1, Standing
<1>6. c \in Elem /\ c \in F[c] /\ c \in Present
  <2>1. c \in Elem
    BY <1>2, <1>3, <1>4, <1>5, LinkTypes DEF Sides
  <2>2. c \in F[c] /\ F[c] \subseteq F[cur]
    BY <2>1, <1>3, <1>4, <1>5 DEF Forest, Sides
  <2>3. F[cur] \subseteq F[tree.root]
    BY <1>3, <1>5, Nested DEF Rooted
  <2> QED BY <2>1, <2>2, <2>3, <1>5
<1>7. OnPath(F, link, tree.root, tree.compare, c, key)
  <2>1. OnPath(F, link, tree.root, tree.compare, cur, key) /\ cur \in F[tree.root]
    BY <1>1, <1>3, <1>5 DEF Aimed
  <2>2. Good(link, tree.root, tree.compare, F)
    BY <1>1 DEF Healthy
  <2>3. (Side = "left" => tree.compare[key] < tree.compare[cur])
        /\ (Side = "right" => tree.compare[key] > tree.compare[cur])
    BY <1>4 DEF Rank
  <2> HIDE DEF F
  <2> QED BY <2>1, <2>2, <2>3, <1>2, <1>4, PathGoesOn
<1>8. \A x \in Present : Rank(x) = Rank(key) => x \in F[c]
  <2> SUFFICES ASSUME NEW x \in Present, Rank(x) = Rank(key) PROVE x \in F[c]
    OBVIOUS
  <2>1. x \in F[cur] /\ x # cur
    BY <1>1, <1>3 DEF Aimed, Below
  <2>2. PICK s \in Sides : x \in F[link[s][cur]]
    BY <2>1, <1>3, <1>5 DEF Forest, Sides
  <2>3. (s = "left" => Rank(x) < Rank(cur)) /\ (s = "right" => Rank(x) > Rank(cur))
    BY <2>2, <1>3, <1>5 DEF Sorted, Rank
  <2>4. s = Side
    BY <2>3, <1>3, <1>4 DEF Sides
  <2> QED BY <2>2, <2>4
<1>9. /\ Absent' <=> Absent
      /\ Present' = Present
      /\ Subtrees(link)' = F
      /\ \A n : Below(n)' = Below(n)
      /\ \A n : Rank(n)' = Rank(n)
      /\ \A n : Replaceable(n)' <=> Replaceable(n)
  BY <1>2, SameTree
<1>10. TypeOK'
  BY <1>2, <1>6 DEF Inv, TypeOK, NodePtr
<1>11. Healthy'
  BY <1>1, <1>2, <1>9 DEF Healthy
<1>12. Rank(key)' = Rank(key) /\ Below(cur)' = F[c]
  BY <1>2 DEF Rank, Below
<1>13. Aimed'
  <2>1. /\ key' \in Elem /\ cur' \in Present'
        /\ OnPath(Subtrees(link), link, tree.root, tree.compare, cur, key)'
        /\ \A x \in Present' : Rank(x)' = Rank(key)' => x \in Below(cur)'
    BY <1>2, <1>3, <1>6, <1>7, <1>8, <1>9, <1>12
  <2>2. pc' = "insert" => key' \in held' /\ tree'.length < MaxU32
    BY <1>1, <1>2 DEF Aimed
  <2>3. pc' = "delete" => \A n \in nodes' : Rank(n)' = Rank(key)' => Replaceable(n)'
    BY <1>1, <1>2, <1>9, <1>12 DEF Aimed
  <2>4. pc' \notin {"max", "min"}
    BY <1>1, <1>2
  <2> QED BY <2>1, <2>2, <2>3, <2>4 DEF Aimed
<1> QED BY <1>2, <1>9, <1>10, <1>11, <1>13 DEF Inv

\* A call that ends establishes the invariant by exhibiting the subtrees of its result.
LEMMA Rebuilt ==
    ASSUME NEW G, Good(link', tree'.root, tree'.compare, G), ~Absent',
           pc' = "idle",
           tree'.length = Cardinality(G[tree'.root]),
           \A x, y \in G[tree'.root] : tree'.compare[x] = tree'.compare[y] => x = y,
           held' \cap G[tree'.root] = {},
           nodes' = G[tree'.root]
    PROVE  Healthy' /\ Aimed'
<1>1. Subtrees(link') = G
  BY SubtreesAre DEF Good
<1>2. Present' = G[tree'.root]
  BY <1>1 DEF Present, Below
<1>3. \A x : Rank(x)' = tree'.compare[x]
  BY DEF Rank
<1>4. Healthy'
  BY <1>1, <1>2, <1>3 DEF Healthy
<1>5. Aimed'
  BY DEF Aimed
<1> QED BY <1>4, <1>5

\* A search that has nowhere to go proves the element is not there.
LEMMA NothingEqual ==
    ASSUME Inv, Missing
    PROVE  \A x \in Present : Rank(x) # Rank(key)
<1> DEFINE F == Subtrees(link)
<1>1. ~Absent /\ Aimed /\ pc \in {"insert", "search", "delete"}
  BY DEF Missing, Searching, Inv
<1>2. key \in Elem /\ cur \in Elem /\ Rank(key) \in Int /\ Rank(cur) \in Int
      /\ Rank(key) # Rank(cur) /\ link[Side][cur] = Null
  BY <1>1, Standing DEF Aimed, Missing
<1>3. Side \in Sides /\ (Side = "left" => Rank(key) < Rank(cur)) /\ (Side = "right" => Rank(key) > Rank(cur))
  BY <1>2 DEF Side, Sides
<1>4. Forest(link, F) /\ Sorted(link, F, tree.compare)
  BY <1>1, Standing
<1> SUFFICES ASSUME NEW x \in Present, Rank(x) = Rank(key) PROVE FALSE
  OBVIOUS
<1>5. x \in F[cur] /\ x # cur
  BY <1>1, <1>2 DEF Aimed, Below
<1>6. PICK s \in Sides : x \in F[link[s][cur]]
  BY <1>2, <1>4, <1>5 DEF Forest, Sides
<1>7. (s = "left" => Rank(x) < Rank(cur)) /\ (s = "right" => Rank(x) > Rank(cur))
  BY <1>2, <1>4, <1>6 DEF Sorted, Rank
<1>8. s = Side
  BY <1>2, <1>3, <1>7 DEF Sides
<1> QED BY <1>2, <1>4, <1>6, <1>8 DEF Forest

\* The end of a search that found nothing; an insertion stores its node.
LEMMA MissingKeeps ==
    ASSUME Inv, Missing
    PROVE  Inv'
<1>1. ~Absent /\ Healthy /\ Aimed /\ pc \in {"insert", "search", "delete"}
  BY DEF Missing, Searching, Inv
<1>2. CASE pc # "insert"
  <2>1. Answer(Null)
    BY <1>2 DEF Missing
  <2> QED BY <2>1, <1>2, AnswerKeeps DEF NodePtr
<1>3. CASE pc = "insert"
  <2> DEFINE F == Subtrees(link)
             G == Grown(F, cur, key)
  <2>1. /\ link' = Attach(link, cur, Side, key)
        /\ tree' = [tree EXCEPT !.length = @ + 1]
        /\ held' = held \ {key}
        /\ ret' = OK /\ pc' = "idle" /\ key' = Null /\ cur' = Null /\ rep' = Null
        /\ UNCHANGED <<nodes, freed, fault>>
    BY <1>3 DEF Missing, Answer, Return
  <2>2. key \in Elem /\ cur \in Present /\ cur \in Elem /\ Rank(key) \in Int /\ Rank(cur) \in Int
        /\ Rank(key) # Rank(cur) /\ link[Side][cur] = Null
    BY <1>1, Standing DEF Aimed, Missing
  <2>3. Side \in Sides /\ (Side = "left" => Rank(key) < Rank(cur)) /\ (Side = "right" => Rank(key) > Rank(cur))
    BY <2>2 DEF Side, Sides
  <2>4. Forest(link, F) /\ Sorted(link, F, tree.compare) /\ Rooted(link, tree.root, F)
        /\ Present = F[tree.root] /\ link \in Links /\ tree \in Tree
    BY <1>1, Standing
  <2>5. key \in held /\ tree.length < MaxU32 /\ key \notin Present /\ nodes = Present \cup {key}
    BY <1>1, <1>3 DEF Aimed, Healthy
  <2>6. \A x \in Present : Rank(x) # Rank(key)
    BY NothingEqual
  <2>7. /\ Good(link', tree.root, tree.compare, G)
        /\ G[tree.root] = F[tree.root] \cup {key}
    <3>1. OnPath(F, link, tree.root, tree.compare, cur, key) /\ cur \in F[tree.root]
          /\ key \in Elem \ F[tree.root]
      BY <1>1, <2>2, <2>4, <2>5 DEF Aimed
    <3>2. Good(link, tree.root, tree.compare, F)
      BY <1>1 DEF Healthy
    <3>3. (Side = "left" => tree.compare[key] < tree.compare[cur])
          /\ (Side = "right" => tree.compare[key] > tree.compare[cur])
      BY <2>3 DEF Rank
    <3> HIDE DEF F
    <3> QED BY <3>1, <3>2, <3>3, <2>1, <2>2, <2>3, Grows
  <2> HIDE DEF G
  <2>8. tree' \in Tree /\ tree'.root = tree.root /\ tree'.compare = tree.compare
        /\ tree'.length = tree.length + 1 /\ ~Absent'
    BY <2>1, <2>4, <2>5, BSTreeAssumption DEF Tree, Absent, NodePtr
  <2>9. tree'.length = Cardinality(G[tree.root])
    <3>1. Cardinality(Present \cup {key}) = Cardinality(Present) + 1
      BY <1>1, <2>5, Standing, FS_AddElement
    <3> QED BY <3>1, <1>1, <2>4, <2>7, <2>8 DEF Healthy
  <2>10. \A x, y \in G[tree.root] : tree.compare[x] = tree.compare[y] => x = y
    BY <1>1, <2>4, <2>6, <2>7 DEF Healthy, Rank
  <2>11. held' \cap G[tree.root] = {} /\ nodes' = G[tree.root]
    BY <1>1, <2>1, <2>4, <2>5, <2>7 DEF Healthy
  <2>12. Healthy' /\ Aimed'
    BY <2>1, <2>7, <2>8, <2>9, <2>10, <2>11, Rebuilt
  <2>13. TypeOK'
    <3>1. link' \in Links
      BY <2>7 DEF Good, Forest
    <3> QED BY <3>1, <2>1, <2>8 DEF Inv, TypeOK, NodePtr
  <2> QED BY <2>1, <2>8, <2>12, <2>13 DEF Inv
<1> QED BY <1>2, <1>3

\* The end of a search that found an equal element.
LEMMA FoundKeeps ==
    ASSUME Inv, Found
    PROVE  Inv'
<1>1. ~Absent /\ Healthy /\ Aimed /\ pc \in {"insert", "search", "delete"}
  BY DEF Found, Searching, Inv
<1>2. key \in Elem /\ cur \in Present /\ cur \in Elem /\ Rank(key) = Rank(cur)
  BY <1>1, Standing DEF Aimed, Found
<1>3. CASE pc = "search"
  <2>1. Answer(cur)
    BY <1>3 DEF Found
  <2> QED BY <2>1, <1>2, <1>3, AnswerKeeps DEF NodePtr
<1>4. CASE pc = "insert"
  <2>1. /\ nodes' = nodes \ {key}
        /\ ret' = ERR /\ pc' = "idle" /\ key' = Null /\ cur' = Null /\ rep' = Null
        /\ UNCHANGED <<tree, link, held, freed, fault>>
    BY <1>4 DEF Found, Return, Answer
  <2>2. /\ Absent' <=> Absent
        /\ Present' = Present
        /\ Subtrees(link)' = Subtrees(link)
        /\ \A n : Rank(n)' = Rank(n)
    BY <2>1, SameTree
  <2>3. nodes' = Present
    BY <1>1, <1>4, <2>1 DEF Healthy, Aimed
  <2>4. Healthy'
    BY <1>1, <2>1, <2>2, <2>3 DEF Healthy
  <2>5. Aimed'
    BY <2>1 DEF Aimed
  <2>6. TypeOK'
    BY <2>1 DEF Inv, TypeOK, NodePtr
  <2> QED BY <1>1, <2>1, <2>2, <2>4, <2>5, <2>6 DEF Inv
<1>5. CASE pc = "delete"
  <2>1. /\ \/ link["left"][cur] # Null /\ pc' = "max" /\ rep' = link["left"][cur]
           \/ link["left"][cur] = Null /\ pc' = "min" /\ rep' = link["right"][cur]
        /\ UNCHANGED <<tree, nodes, link, held, freed, ret, fault, key, cur>>
    BY <1>5 DEF Found, Answer, Return
  <2>2. /\ Absent' <=> Absent
        /\ Present' = Present
        /\ Subtrees(link)' = Subtrees(link)
        /\ \A n : Below(n)' = Below(n)
        /\ \A n : Rank(n)' = Rank(n)
        /\ \A n : Replaceable(n)' <=> Replaceable(n)
    BY <2>1, SameTree
  <2>3. rep' \in NodePtr /\ \A n \in Elem : n \in Below(n)
    BY <1>1, <1>2, <2>1, Standing, LinkTypes DEF Below, Forest
  <2>4. Replaceable(cur)
    BY <1>1, <1>2, <1>5 DEF Aimed, Healthy
  <2>5. Healthy'
    BY <1>1, <1>5, <2>1, <2>2 DEF Healthy
  <2>6. Below(link["left"][cur])' = Below(link["left"][cur])
        /\ Below(link["right"][cur])' = Below(link["right"][cur])
        /\ Below(rep)' = Below(rep')
        /\ Rank(cur)' = Rank(cur) /\ Rank(key)' = Rank(key)
        /\ (Replaceable(cur)' <=> Replaceable(cur))
    <3>1. link["left"][cur]' = link["left"][cur] /\ link["right"][cur]' = link["right"][cur]
      BY <2>1
    <3>2. Replaceable(cur)' <=> Replaceable(cur)
      BY <2>1 DEF Replaceable, Harmless, Rank, Below
    <3> QED BY <3>1, <3>2, <2>1 DEF Below, Rank
  <2>7. Aimed'
    <3>1. key' \in Elem /\ cur' \in Present' /\ pc' \in {"max", "min"}
      BY <1>2, <2>1, <2>2
    <3>2. Rank(cur)' = Rank(key)' /\ Replaceable(cur)'
      BY <1>2, <2>4, <2>6
    <3>3. pc' = "max" => rep' \in Below(link["left"][cur])' /\ Below(rep)' = Below(link["left"][cur])'
      BY <1>2, <2>1, <2>3, <2>6 DEF NodePtr
    <3>4. pc' = "min" => /\ link'["left"][cur'] = Null /\ rep' = link'["right"][cur']
                         /\ rep' # Null => rep' \in Below(link["right"][cur])'
                         /\ Below(rep)' = Below(link["right"][cur])'
      BY <2>1, <2>3, <2>6 DEF NodePtr
    <3> QED BY <3>1, <3>2, <3>3, <3>4 DEF Aimed
  <2>8. TypeOK'
    BY <2>1, <2>3 DEF Inv, TypeOK
  <2> QED BY <1>1, <2>1, <2>2, <2>5, <2>7, <2>8 DEF Inv
<1> QED BY <1>1, <1>3, <1>4, <1>5

\* One iteration of BS_tree_find_replacement.
LEMMA SeekKeeps ==
    ASSUME Inv, SeekReplacement
    PROVE  Inv'
<1> DEFINE F == Subtrees(link)
           a == F[link["left"][cur]]
           b == F[link["right"][cur]]
           c == link[Toward][rep]
<1>1. ~Absent /\ Healthy /\ Aimed /\ pc \in {"max", "min"} /\ rep # Null /\ c # Null
  BY DEF SeekReplacement, Replacing, Inv
<1>2. rep' = c /\ UNCHANGED <<tree, nodes, link, held, freed, ret, fault, pc, key, cur>>
  BY DEF SeekReplacement
<1>3. Forest(link, F) /\ Sorted(link, F, tree.compare) /\ link \in Links
  BY <1>1, Standing
<1>4. key \in Elem /\ cur \in Present /\ cur \in Elem /\ Rank(cur) = Rank(key) /\ Replaceable(cur)
  BY <1>1, Standing DEF Aimed
<1>5. /\ pc = "max" => rep \in a /\ \A x \in a \ F[rep] : Rank(x) < Rank(rep)
      /\ pc = "min" => /\ link["left"][cur] = Null
                       /\ link["right"][cur] # Null
                       /\ rep \in b /\ \A x \in b \ F[rep] : Rank(x) > Rank(rep)
  <2>1. pc = "max" => rep \in a /\ \A x \in a \ F[rep] : Rank(x) < Rank(rep)
    BY <1>1 DEF Aimed, Below
  <2>2. pc = "min" => /\ link["left"][cur] = Null /\ rep \in b
                      /\ \A x \in b \ F[rep] : Rank(x) > Rank(rep)
    BY <1>1 DEF Aimed, Below
  <2>3. link["right"][cur] = Null => b = {}
    BY <1>3 DEF Forest
  <2> QED BY <2>1, <2>2, <2>3
<1>6. rep \in Elem
  <2>1. a \subseteq Elem /\ b \subseteq Elem
    BY <1>3, <1>4, LinkTypes DEF Forest, NodePtr
  <2> QED BY <2>1, <1>1, <1>5
<1>7. Toward \in Sides /\ (pc = "max" => Toward = "right") /\ (pc = "min" => Toward = "left")
  BY DEF Toward, Sides
<1>8. c \in Elem /\ c \in F[c] /\ F[c] \subseteq F[rep] /\ c \in F[rep]
  <2>1. c \in Elem
    BY <1>1, <1>3, <1>6, <1>7, LinkTypes DEF Sides
  <2> QED BY <2>1, <1>3, <1>6, <1>7 DEF Forest, Sides
<1>9. F[rep] = {rep} \cup F[link["left"][rep]] \cup F[link["right"][rep]]
  BY <1>3, <1>6 DEF Forest
<1>10. /\ \A x \in F[link["left"][rep]] : Rank(x) < Rank(rep)
       /\ \A x \in F[link["right"][rep]] : Rank(x) > Rank(rep)
  BY <1>3, <1>6 DEF Sorted, Rank
<1>11. \A x \in Elem : Rank(x) \in Int
  BY <1>1, Standing
<1>12. a \subseteq Elem /\ b \subseteq Elem /\ F[rep] \subseteq Elem
  BY <1>3, <1>4, <1>6, LinkTypes DEF Forest, NodePtr
<1>13. ASSUME pc = "max"
       PROVE  c \in a /\ \A x \in a \ F[c] : Rank(x) < Rank(c)
  <2>1. c = link["right"][rep] /\ Rank(c) > Rank(rep)
    BY <1>7, <1>8, <1>10, <1>13
  <2>2. F[rep] \subseteq a
    BY <1>3, <1>4, <1>5, <1>13, LinkTypes, Nested
  <2>3. ASSUME NEW x \in a \ F[c]
        PROVE  Rank(x) < Rank(c)
    <3>1. Rank(x) < Rank(rep) \/ x = rep
      BY <2>1, <1>5, <1>9, <1>10, <1>13
    <3> QED BY <3>1, <2>1, <1>6, <1>8, <1>11, <1>12
  <2> QED BY <2>2, <2>3, <1>8
<1>14. ASSUME pc = "min"
       PROVE  c \in b /\ \A x \in b \ F[c] : Rank(x) > Rank(c)
  <2>1. c = link["left"][rep] /\ Rank(c) < Rank(rep)
    BY <1>7, <1>8, <1>10, <1>14
  <2>2. F[rep] \subseteq b
    BY <1>3, <1>4, <1>5, <1>14, LinkTypes, Nested
  <2>3. ASSUME NEW x \in b \ F[c]
        PROVE  Rank(x) > Rank(c)
    <3>1. Rank(x) > Rank(rep) \/ x = rep
      BY <2>1, <1>5, <1>9, <1>10, <1>14
    <3> QED BY <3>1, <2>1, <1>6, <1>8, <1>11, <1>12
  <2> QED BY <2>2, <2>3, <1>8
<1>15. /\ Absent' <=> Absent
       /\ Present' = Present
       /\ Subtrees(link)' = Subtrees(link)
       /\ \A n : Below(n)' = Below(n)
       /\ \A n : Rank(n)' = Rank(n)
  BY <1>2, SameTree
<1>16. TypeOK'
  BY <1>2, <1>8 DEF Inv, TypeOK, NodePtr
<1>17. Healthy'
  BY <1>1, <1>2, <1>15 DEF Healthy
<1>18. Aimed'
  <2>1. Below(link["left"][cur])' = a /\ Below(link["right"][cur])' = b
        /\ Below(rep)' = F[c] /\ Rank(rep)' = Rank(c)
        /\ Rank(cur)' = Rank(cur) /\ Rank(key)' = Rank(key)
    BY <1>2 DEF Below, Rank
  <2>2. Replaceable(cur)'
    BY <1>2, <1>4 DEF Replaceable, Harmless, Rank, Below
  <2>3. key' \in Elem /\ cur' \in Present' /\ pc' \in {"max", "min"} /\ rep' \in Elem
    BY <1>1, <1>2, <1>4, <1>8, <1>15
  <2>4. pc' = "max" => /\ rep' \in Below(link["left"][cur])'
                       /\ \A x \in Below(link["left"][cur])' \ Below(rep)' : Rank(x)' < Rank(rep)'
    BY <1>2, <1>13, <1>15, <2>1
  <2>5. pc' = "min" => /\ rep' \in Below(link["right"][cur])' /\ link'["left"][cur'] = Null
                       /\ link'["right"][cur'] # Null
                       /\ \A x \in Below(link["right"][cur])' \ Below(rep)' : Rank(x)' > Rank(rep)'
    BY <1>2, <1>5, <1>14, <1>15, <2>1
  <2> QED BY <2>1, <2>2, <2>3, <2>4, <2>5, <1>4, BSTreeAssumption DEF Aimed
<1> QED BY <1>1, <1>2, <1>15, <1>16, <1>17, <1>18 DEF Inv

\* BS_tree_change, given that the pointers it leaves are a search tree.
LEMMA RemoveKeeps ==
    ASSUME Inv, Replacing, NEW L, NEW root, NEW G, Remove(L, root),
           Good(Forget(L, cur), root, tree.compare, G),
           G[root] = Present \ {cur}
    PROVE  Inv' /\ ~Absent'
<1>1. ~Absent /\ Healthy /\ Aimed /\ pc \in {"max", "min"}
  BY DEF Replacing, Inv
<1>2. /\ link' = Forget(L, cur)
      /\ tree' = [tree EXCEPT !.root = root, !.length = (@ - 1) % (MaxU32 + 1)]
      /\ nodes' = nodes \ {cur}
      /\ held' = held \cup {cur}
      /\ ret' = cur /\ pc' = "idle" /\ key' = Null /\ cur' = Null /\ rep' = Null
      /\ UNCHANGED <<freed, fault>>
  BY DEF Remove, Return
<1>3. cur \in Present /\ cur \in Elem /\ Present \subseteq Elem /\ IsFiniteSet(Present) /\ tree \in Tree
  BY <1>1, Standing DEF Aimed
<1>4. Cardinality(Present \ {cur}) = tree.length - 1 /\ tree.length - 1 \in 0..MaxU32
  <2>1. Cardinality(Present \ {cur}) = tree.length - 1
    BY <1>1, <1>3, FS_RemoveElement DEF Healthy
  <2>2. Cardinality(Present \ {cur}) \in Nat
    BY <1>3, FS_RemoveElement, FS_CardinalityType
  <2>3. tree.length \in 0..MaxU32
    BY <1>3 DEF Tree
  <2> QED BY <2>1, <2>2, <2>3, BSTreeAssumption
<1>5. (tree.length - 1) % (MaxU32 + 1) = tree.length - 1
  BY <1>4, BSTreeAssumption
<1>6. root \in NodePtr /\ link' \in Links
  BY <1>2 DEF Good, Rooted, Forest
<1>7. /\ tree' \in Tree /\ tree'.root = root /\ tree'.compare = tree.compare
      /\ tree'.length = tree.length - 1 /\ ~Absent'
  <2>1. tree' = [root |-> root, compare |-> tree.compare, length |-> tree.length - 1]
    BY <1>2, <1>3, <1>5 DEF Tree
  <2>2. tree' \in Tree
    BY <2>1, <1>3, <1>4, <1>6 DEF Tree
  <2> QED BY <2>1, <2>2, BSTreeAssumption DEF Tree, Absent, NodePtr
<1>8. Healthy' /\ Aimed'
  <2>1. tree'.length = Cardinality(G[tree'.root])
    BY <1>4, <1>7
  <2>2. \A x, y \in G[tree'.root] : tree'.compare[x] = tree'.compare[y] => x = y
    BY <1>1, <1>7 DEF Healthy, Rank
  <2>3. held' \cap G[tree'.root] = {} /\ nodes' = G[tree'.root]
    BY <1>1, <1>2, <1>7 DEF Healthy
  <2>4. Good(link', tree'.root, tree'.compare, G)
    BY <1>2, <1>7
  <2> QED BY <2>1, <2>2, <2>3, <2>4, <1>2, <1>7, Rebuilt
<1>9. TypeOK'
  BY <1>2, <1>3, <1>6, <1>7 DEF Inv, TypeOK, NodePtr
<1> QED BY <1>2, <1>7, <1>8, <1>9 DEF Inv

\* When the replacement has no further child in the direction of the loop, it is
\* next to cur in the order, and dropping its other child drops nothing.
LEMMA Replacement ==
    ASSUME Inv, Replacing, rep # Null, link[Toward][rep] = Null
    PROVE  /\ rep \in Subtrees(link)[cur] /\ rep # cur
           /\ \A t \in Sides \ {SideOf(link, rep)} : link[t][rep] = Null
           /\ \A m \in Subtrees(link)[link["left"][cur]] \ {rep} : Rank(m) < Rank(rep)
           /\ \A m \in Subtrees(link)[link["right"][cur]] \ {rep} : Rank(m) > Rank(rep)
<1> DEFINE F == Subtrees(link)
           a == F[link["left"][cur]]
           b == F[link["right"][cur]]
<1>1. ~Absent /\ Healthy /\ Aimed /\ pc \in {"max", "min"}
  BY DEF Replacing, Inv
<1>2. Forest(link, F) /\ Sorted(link, F, tree.compare) /\ Paired(link) /\ link \in Links
      /\ \A x \in Elem : Rank(x) \in Int
  BY <1>1, Standing
<1>3. cur \in Elem /\ Replaceable(cur)
  BY <1>1, Standing DEF Aimed
<1>4. F[cur] = {cur} \cup a \cup b /\ a \subseteq Elem /\ b \subseteq Elem /\ F[cur] \subseteq Elem
  BY <1>2, <1>3, LinkTypes DEF Forest, NodePtr
<1>5. /\ \A x \in a : Rank(x) < Rank(cur)
      /\ \A x \in b : Rank(x) > Rank(cur)
  BY <1>2, <1>3 DEF Sorted, Rank
<1>6. /\ pc = "max" => rep \in a /\ \A x \in a \ F[rep] : Rank(x) < Rank(rep)
      /\ pc = "min" => a = {} /\ rep \in b /\ \A x \in b \ F[rep] : Rank(x) > Rank(rep)
  <2>1. pc = "max" => rep \in a /\ \A x \in a \ F[rep] : Rank(x) < Rank(rep)
    BY <1>1 DEF Aimed, Below
  <2>2. pc = "min" => /\ link["left"][cur] = Null /\ rep \in b
                      /\ \A x \in b \ F[rep] : Rank(x) > Rank(rep)
    BY <1>1 DEF Aimed, Below
  <2> QED BY <2>1, <2>2, <1>2 DEF Forest
<1>7. rep \in F[cur] /\ rep \in Elem /\ rep # cur
  BY <1>1, <1>3, <1>4, <1>5, <1>6, <1>2
<1>8. /\ F[rep] = {rep} \cup F[link["left"][rep]] \cup F[link["right"][rep]]
      /\ \A x \in F[link["left"][rep]] : Rank(x) < Rank(rep)
      /\ \A x \in F[link["right"][rep]] : Rank(x) > Rank(rep)
  BY <1>2, <1>7 DEF Forest, Sorted, Rank
<1>9. (pc = "max" => link["right"][rep] = Null) /\ (pc = "min" => link["left"][rep] = Null)
      /\ F[Null] = {}
  BY <1>2 DEF Toward, Forest
<1>10. /\ pc = "max" => \A x \in a \ {rep} : Rank(x) < Rank(rep)
       /\ pc = "min" => \A x \in b \ {rep} : Rank(x) > Rank(rep)
  BY <1>6, <1>8, <1>9
<1>11. \A m \in a \ {rep} : Rank(m) < Rank(rep)
  BY <1>1, <1>6, <1>10
<1>12. \A m \in b \ {rep} : Rank(m) > Rank(rep)
  <2>1. ASSUME NEW m \in b, pc = "max"
        PROVE  Rank(m) > Rank(rep)
    BY <2>1, <1>2, <1>3, <1>4, <1>5, <1>6
  <2> QED BY <2>1, <1>1, <1>10
<1>13. Harmless(cur, rep)
  <2>1. a = Below(link["left"][cur]) /\ b = Below(link["right"][cur])
    BY DEF Below
  <2>2. CASE pc = "max"
    <3>1. rep \in a /\ \A k \in a : Rank(k) <= Rank(rep)
      BY <2>2, <1>2, <1>4, <1>6, <1>10
    <3> HIDE DEF a, b
    <3> QED BY <3>1, <2>1, <1>3 DEF Replaceable
  <2>3. CASE pc = "min"
    <3>1. a = {} /\ rep \in b /\ \A k \in b : Rank(k) >= Rank(rep)
      BY <2>3, <1>2, <1>4, <1>6, <1>10
    <3> HIDE DEF a, b
    <3> QED BY <3>1, <2>1, <1>3 DEF Replaceable
  <2> QED BY <2>2, <2>3, <1>1
<1>14. \A t \in Sides \ {SideOf(link, rep)} : link[t][rep] = Null
  <2>1. CASE link["parent"][rep] = cur
    <3>1. SideOf(link, rep) \in Sides /\ link[SideOf(link, rep)][cur] = rep
      BY <2>1, <1>2, <1>3, <1>7, SideIs, LinkTypes
    <3>2. rep \in F[link[SideOf(link, rep)][cur]]
      BY <3>1, <1>8
    <3>3. (pc = "max" => SideOf(link, rep) = "left") /\ (pc = "min" => SideOf(link, rep) = "right")
      BY <3>1, <3>2, <1>2, <1>3, <1>4, <1>5, <1>6, <1>7 DEF Sides
    <3> QED BY <3>3, <1>1, <1>9 DEF Sides
  <2>2. CASE link["parent"][rep] # cur
    <3>1. SideOf(link, rep) \in Sides
      BY DEF SideOf, Sides
    <3> QED BY <3>1, <2>2, <1>13 DEF Harmless, Sides
  <2> QED BY <2>1, <2>2
<1> QED BY <1>7, <1>11, <1>12, <1>14

\* A deletion: a replacement, a leaf, or the only node.
LEMMA ChangeKeeps ==
    ASSUME Inv, Change
    PROVE  Inv' /\ ~Absent'
<1> DEFINE F == Subtrees(link)
<1>1. ~Absent /\ Healthy /\ Aimed /\ pc \in {"max", "min"} /\ Replacing
  BY DEF Change, Replacing, Inv
<1>2. cur \in F[tree.root] /\ Present = F[tree.root] /\ Good(link, tree.root, tree.compare, F)
      /\ cur \in Elem
  BY <1>1, Standing DEF Aimed, Healthy
<1>3. ASSUME rep = Null
      PROVE  link["left"][cur] = Null /\ link["right"][cur] = Null
  <2>1. Forest(link, F) /\ link \in Links
    BY <1>1, Standing
  <2>2. F[link["left"][cur]] \subseteq Elem
    BY <2>1, <1>2, LinkTypes DEF Forest, NodePtr
  <2>3. pc = "min"
    BY <2>2, <1>1, <1>3, BSTreeAssumption DEF Aimed, Below
  <2> QED BY <2>3, <1>1, <1>3 DEF Aimed
<1>4. CASE rep # Null /\ link[Toward][rep] = Null
  <2> DEFINE root == IF cur = tree.root THEN rep ELSE tree.root
             L == Replace(link, rep, cur)
  <2>1. Remove(L, root)
    BY <1>4 DEF Change
  <2>2. PICK G : Good(Forget(L, cur), root, tree.compare, G) /\ G[root] = F[tree.root] \ {cur}
    <3>1. /\ rep \in F[cur] /\ rep # cur
          /\ \A t \in Sides \ {SideOf(link, rep)} : link[t][rep] = Null
          /\ \A m \in F[link["left"][cur]] \ {rep} : tree.compare[m] < tree.compare[rep]
          /\ \A m \in F[link["right"][cur]] \ {rep} : tree.compare[m] > tree.compare[rep]
      BY <1>1, <1>4, Replacement DEF Rank
    <3> HIDE DEF F
    <3> QED BY <3>1, <1>2, Replaces
  <2> HIDE DEF L, root
  <2> QED BY <2>1, <2>2, <1>1, <1>2, RemoveKeeps
<1>5. CASE rep = Null /\ link["parent"][cur] # Null
  <2> DEFINE L == [link EXCEPT ![SideOf(link, cur)][link["parent"][cur]] = Null]
  <2>1. Remove(L, tree.root)
    BY <1>5 DEF Change
  <2>2. PICK G : Good(Forget(L, cur), tree.root, tree.compare, G) /\ G[tree.root] = F[tree.root] \ {cur}
    <3> HIDE DEF F
    <3> QED BY <1>2, <1>3, <1>5, Leaves
  <2> HIDE DEF L
  <2> QED BY <2>1, <2>2, <1>1, <1>2, RemoveKeeps
<1>6. CASE rep = Null /\ link["parent"][cur] = Null
  <2>1. Remove(link, Null)
    BY <1>6 DEF Change
  <2>2. Good(Forget(link, cur), Null, tree.compare, F) /\ F[Null] = {} /\ F[tree.root] = {cur}
    <3>1. F[Null] = {}
      BY <1>2 DEF Good, Forest
    <3> HIDE DEF F
    <3>2. cur = tree.root /\ F[tree.root] = {cur} /\ Forget(link, cur) = link
          /\ Good(link, Null, tree.compare, F)
      BY <1>2, <1>3, <1>6, LastLeaves
    <3> QED BY <3>1, <3>2
  <2> HIDE DEF F
  <2>3. F[Null] = Present \ {cur}
    BY <2>2, <1>2
  <2> QED BY <2>1, <2>2, <2>3, <1>1, RemoveKeeps
<1>7. \/ rep # Null /\ link[Toward][rep] = Null
      \/ rep = Null /\ link["parent"][cur] # Null
      \/ rep = Null /\ link["parent"][cur] = Null
  BY DEF Change
<1> QED BY <1>4, <1>5, <1>6, <1>7

\* BS_tree_create keeps the invariant.
LEMMA CreateKeeps ==
    ASSUME Inv, NEW c \in Compare \cup {Null}, Create(c)
    PROVE  Inv'
<1>1. Ready /\ Absent /\ pc = "idle"
  BY DEF Create, Ready
<1>2. CASE Answer(Null)
  BY <1>1, <1>2, AnswerKeeps DEF NodePtr
<1>3. CASE ~Answer(Null)
  <2> DEFINE d == IF c = Null THEN DefaultCompare ELSE c
  <2>1. /\ tree' = [root |-> Null, compare |-> d, length |-> 0]
        /\ ret' = OK /\ pc' = "idle" /\ key' = Null /\ cur' = Null /\ rep' = Null
        /\ UNCHANGED <<nodes, link, held, freed, fault>>
    BY <1>3 DEF Create, Return
  <2>2. d \in Compare /\ d \in [Elem -> Int]
    BY BSTreeAssumption
  <2> HIDE DEF d
  <2>3. tree' \in Tree /\ tree'.root = Null /\ tree'.compare = d /\ tree'.length = 0 /\ ~Absent'
    BY <2>1, <2>2, BSTreeAssumption DEF Tree, NodePtr, Absent
  <2>4. TypeOK'
    BY <2>1, <2>3 DEF Inv, TypeOK, NodePtr
  <2>5. PICK G : Good(link', Null, d, G) /\ G[Null] = {}
    BY <1>1, <2>1, <2>2, Nothing DEF Inv, TypeOK
  <2>6. nodes' = G[tree'.root] /\ tree'.length = Cardinality(G[tree'.root])
        /\ held' \cap G[tree'.root] = {}
        /\ \A x, y \in G[tree'.root] : tree'.compare[x] = tree'.compare[y] => x = y
    BY <1>1, <2>1, <2>3, <2>5, FS_EmptySet DEF Inv
  <2>7. Healthy' /\ Aimed'
    BY <2>1, <2>3, <2>5, <2>6, Rebuilt
  <2> QED BY <2>1, <2>3, <2>4, <2>7 DEF Inv
<1> QED BY <1>2, <1>3

\* BS_tree_insert, up to its loop.
LEMMA InsertKeeps ==
    ASSUME Inv, NEW x \in Mine, Insert(x)
    PROVE  Inv'
<1>1. Ready /\ pc = "idle"
  BY DEF Insert, Ready
<1>2. CASE Answer(ERR)
  BY <1>1, <1>2, AnswerKeeps
<1>3. CASE /\ ~Absent /\ x # Null /\ tree.length = 0
           /\ tree' = [tree EXCEPT !.root = x, !.length = 1]
           /\ nodes' = nodes \cup {x}
           /\ held' = held \ {x}
           /\ Return(OK)
           /\ UNCHANGED <<link, freed, fault>>
  <2> USE <1>3 DEF Return
  <2>1. x \in Elem /\ x \in held
    BY DEF Mine, Inv, TypeOK
  <2>2. Healthy /\ Present = {} /\ Present = Subtrees(link)[tree.root] /\ tree \in Tree
    BY Emptiness, Standing DEF Inv
  <2>3. Good(link, x, tree.compare, Subtrees(link)) /\ Subtrees(link)[x] = {x}
    BY <2>1, <2>2, FirstNode DEF Healthy
  <2>4. tree' \in Tree /\ tree'.root = x /\ tree'.compare = tree.compare /\ tree'.length = 1 /\ ~Absent'
    <3>1. tree' = [root |-> x, compare |-> tree.compare, length |-> 1]
      BY <2>2 DEF Tree
    <3>2. tree' \in Tree
      BY <3>1, <2>1, <2>2, BSTreeAssumption DEF Tree, NodePtr
    <3> QED BY <3>1, <3>2, BSTreeAssumption DEF Tree, Absent, NodePtr
  <2> DEFINE G == Subtrees(link)
  <2>5. nodes' = G[tree'.root] /\ tree'.length = Cardinality(G[tree'.root])
        /\ held' \cap G[tree'.root] = {}
        /\ \A y, z \in G[tree'.root] : tree'.compare[y] = tree'.compare[z] => y = z
    <3>1. nodes = {}
      BY <1>1, <2>2 DEF Healthy
    <3>2. G[tree'.root] = {x} /\ Cardinality({x}) = 1
      BY <2>3, <2>4, FS_Singleton
    <3> HIDE DEF G
    <3> QED BY <3>1, <3>2, <2>4
  <2>6. Good(link', tree'.root, tree'.compare, G)
    BY <2>3, <2>4
  <2> HIDE DEF G
  <2>7. Healthy' /\ Aimed'
    BY <2>4, <2>5, <2>6, Rebuilt
  <2>8. TypeOK'
    BY <2>1, <2>4 DEF Inv, TypeOK, NodePtr
  <2> QED BY <2>4, <2>7, <2>8 DEF Inv
<1>4. CASE /\ ~Absent /\ x # Null /\ tree.length \notin {0, MaxU32}
           /\ nodes' = nodes \cup {x}
           /\ Start("insert", x)
           /\ UNCHANGED <<tree, link, held, freed>>
  <2>1. x \in Elem /\ x \in held
    BY <1>4 DEF Mine, Inv, TypeOK
  <2>2. tree.length < MaxU32
    BY <1>4, Standing, BSTreeAssumption DEF Tree
  <2> QED BY <1>1, <1>4, <2>1, <2>2, StartKeeps
<1> QED BY <1>2, <1>3, <1>4 DEF Insert

\* BS_tree_search, up to its loop.
LEMMA SearchKeeps ==
    ASSUME Inv, NEW x \in Known, Search(x)
    PROVE  Inv'
<1>1. Ready /\ pc = "idle"
  BY DEF Search, Ready
<1>2. CASE Answer(Null)
  BY <1>1, <1>2, AnswerKeeps DEF NodePtr
<1>3. CASE /\ ~Absent /\ x # Null /\ tree.length # 0
           /\ Start("search", x)
           /\ UNCHANGED <<tree, nodes, link, held, freed>>
  <2>1. x \in Elem
    BY <1>3 DEF Known
  <2> QED BY <1>1, <1>3, <2>1, StartKeeps
<1> QED BY <1>2, <1>3 DEF Search

\* BS_tree_delete, up to its loop.  Here the contract is used.
LEMMA DeleteKeeps ==
    ASSUME Contract, Inv, NEW x \in Known, Delete(x)
    PROVE  Inv'
<1>1. Ready /\ pc = "idle"
  BY DEF Delete, Ready
<1>2. CASE Answer(Null)
  BY <1>1, <1>2, AnswerKeeps DEF NodePtr
<1>3. CASE /\ ~Absent /\ x # Null /\ tree.length # 0
           /\ \A n \in nodes : Rank(n) = Rank(x) => Replaceable(n)
           /\ Start("delete", x)
           /\ UNCHANGED <<tree, nodes, link, held, freed>>
  <2>1. x \in Elem
    BY <1>3 DEF Known
  <2> QED BY <1>1, <1>3, <2>1, StartKeeps
<1> QED BY <1>2, <1>3 DEF Delete, Contract

\* A traversal changes nothing.
LEMMA TraverseKeeps ==
    ASSUME Inv, NEW order, NEW hasCallback, Traverse(order, hasCallback)
    PROVE  Inv'
<1>1. pc # "insert"
  BY DEF Traverse, Ready
<1>2. PICK result \in {OK, ERR} : Answer(result)
  BY Zenon DEF Traverse
<1> QED BY <1>1, <1>2, AnswerKeeps

\* BS_tree_destroy frees every node.
LEMMA DestroyKeeps ==
    ASSUME Inv, NEW hasDealloc, Destroy(hasDealloc)
    PROVE  Inv'
<1>1. Ready /\ pc = "idle"
  BY DEF Destroy, Ready
<1>2. CASE Answer(ERR)
  BY <1>1, <1>2, AnswerKeeps
<1>3. CASE ~Answer(ERR)
  <2> DEFINE members == IF tree.length = 0 THEN {} ELSE Below(tree.root)
  <2>1. ~Absent /\ (tree.length # 0 => tree.root # Null)
    BY <1>3, Emptiness DEF Destroy
  <2>2. /\ nodes' = nodes \ members
        /\ freed' = freed \cup members
        /\ link' = [side \in DOMAIN link |-> [n \in Elem |->
                      IF n \in members THEN Null ELSE link[side][n]]]
        /\ tree' = Null
        /\ Return(OK)
        /\ UNCHANGED <<held, fault>>
    BY <1>3, <2>1 DEF Destroy
  <2>3. members = Present /\ nodes = Present /\ Present \subseteq Elem
    <3>1. tree.length = 0 => Present = {}
      BY <2>1, Emptiness
    <3>2. Present = Below(tree.root)
      BY <2>1 DEF Present
    <3> QED BY <1>1, <2>1, <3>1, <3>2, Standing DEF Inv, Healthy
  <2> HIDE DEF members
  <2>4. link \in Links /\ \A n \in Elem \ Present : Bare(link, n)
    BY <2>1, Standing DEF Rooted
  <2>5. link' \in Links /\ \A n \in Elem : Bare(link', n)
    BY <2>2, <2>3, <2>4, LinkTypes DEF Links, Bare, NodePtr
  <2>6. TypeOK'
    BY <2>2, <2>3, <2>5 DEF Inv, TypeOK, Return, NodePtr
  <2> QED BY <2>2, <2>3, <2>5, <2>6 DEF Inv, Absent, Return
<1> QED BY <1>2, <1>3

\* Every step keeps the invariant.
LEMMA StepInv ==
    ASSUME Contract, Inv, [Next]_vars
    PROVE  Inv'
<1>1. CASE \E c \in Compare \cup {Null} : Create(c)
  BY <1>1, CreateKeeps
<1>2. CASE \E x \in Mine : Insert(x)
  BY <1>2, InsertKeeps
<1>3. CASE \E x \in Known : Search(x)
  BY <1>3, SearchKeeps
<1>4. CASE \E x \in Known : Delete(x)
  BY <1>4, DeleteKeeps
<1>5. CASE Descend
  BY <1>5, DescendKeeps
<1>6. CASE Missing
  BY <1>6, MissingKeeps
<1>7. CASE Found
  BY <1>7, FoundKeeps
<1>8. CASE SeekReplacement
  BY <1>8, SeekKeeps
<1>9. CASE Change
  BY <1>9, ChangeKeeps
<1>10. CASE \E o \in Order \cup {"level"}, b \in BOOLEAN : Traverse(o, b)
  BY <1>10, TraverseKeeps
<1>11. CASE \E b \in BOOLEAN : Destroy(b)
  BY <1>11, DestroyKeeps
<1>12. CASE UNCHANGED vars
  <2>1. UNCHANGED <<tree, nodes, link, held, freed, ret, fault, pc, key, cur, rep>>
    BY <1>12 DEF vars, local
  <2> QED BY <2>1 DEF Inv, TypeOK, Absent, Healthy, Aimed, Present, Below, Rank, Replaceable, Harmless
<1> QED BY <1>1, <1>2, <1>3, <1>4, <1>5, <1>6, <1>7, <1>8, <1>9, <1>10, <1>11, <1>12 DEF Next

\* The invariant holds in every state of the program.
THEOREM Invariance == Contract => (Spec => []Inv)
<1> SUFFICES ASSUME Contract PROVE Spec => []Inv
  OBVIOUS
<1>1. Init => Inv
  BY InitInv
<1>2. Inv /\ [Next]_vars => Inv'
  BY StepInv
<1> QED BY <1>1, <1>2, PTL DEF Spec

\* What the invariant says about the properties the runs check.
LEMMA InvSays ==
    ASSUME Inv
    PROVE  TypeOK /\ MemorySafe /\ Counted /\ Linked /\ SearchOrder /\ LoopsAim
<1>1. TypeOK /\ MemorySafe
  BY DEF Inv, MemorySafe
<1>2. CASE Absent
  BY <1>1, <1>2 DEF Inv, Counted, Linked, SearchOrder, LoopsAim, Present
<1>3. CASE ~Absent
  <2> DEFINE F == Subtrees(link)
  <2>1. Healthy /\ Aimed
    BY <1>3 DEF Inv
  <2>2. Forest(link, F) /\ Sorted(link, F, tree.compare) /\ Paired(link) /\ Rooted(link, tree.root, F)
        /\ Present = F[tree.root] /\ Present \subseteq Elem /\ link \in Links
    BY <1>3, Standing
  <2>3. Counted
    BY <2>1 DEF Healthy, Counted
  <2>4. Linked
    <3>1. ASSUME NEW n \in Present, NEW s \in {"left", "right"}, link[s][n] # Null
          PROVE  link["parent"][link[s][n]] = n /\ link[s][n] \in nodes
      <4>1. link["parent"][link[s][n]] = n
        BY <2>2, <3>1 DEF Paired, Sides
      <4>2. link[s][n] \in F[n]
        BY <2>2, <3>1, LinkTypes DEF Forest
      <4>3. F[n] \subseteq Present
        BY <2>2, Nested DEF Rooted
      <4> QED BY <4>1, <4>2, <4>3, <2>1 DEF Healthy
    <3> QED BY <2>2, <3>1 DEF Linked, Rooted
  <2>5. SearchOrder
    BY <2>2 DEF SearchOrder, Sorted, Below, Rank
  <2>6. LoopsAim
    BY <2>1 DEF LoopsAim, Aimed
  <2> QED BY <1>1, <2>3, <2>4, <2>5, <2>6
<1> QED BY <1>2, <1>3

\* No call dereferences NULL, and every variable keeps its type: what the search
\* loops and BS_tree_change dereference is a node of the tree.
THEOREM Safety == Contract => (Spec => [](TypeOK /\ MemorySafe))
<1>1. Inv => TypeOK /\ MemorySafe
  BY InvSays
<1> QED BY <1>1, Invariance, PTL

\* length is the number of elements a search can reach and no other node is
\* allocated; the parent pointers are the inverse of left and right.
THEOREM Structure == Contract => (Spec => [](Counted /\ Linked))
<1>1. Inv => Counted /\ Linked
  BY InvSays
<1> QED BY <1>1, Invariance, PTL

\* After any sequence of insertions and deletions the tree is ordered at every
\* depth, and the loops look where the element they want must be.
THEOREM SearchTree == Contract => (Spec => [](SearchOrder /\ LoopsAim))
<1>1. Inv => SearchOrder /\ LoopsAim
  BY InvSays
<1> QED BY <1>1, Invariance, PTL

-----------------------------------------------------------------------------
\* The set a client sees: the substitution of Abstract.
View == IF Absent THEN Null ELSE [members |-> Present, compare |-> tree.compare]

\* A set is not NULL.
LEMMA ViewHere ==
    ASSUME Inv
    PROVE  /\ Absent => View = Null
           /\ ~Absent => View = [members |-> Present, compare |-> tree.compare] /\ View # Null
<1>1. Absent => View = Null
  BY DEF View
<1>2. ASSUME ~Absent
      PROVE  View = [members |-> Present, compare |-> tree.compare] /\ View # Null
  <2>1. View = [members |-> Present, compare |-> tree.compare]
    BY <1>2 DEF View
  <2>2. Present \in SUBSET Elem /\ tree.compare \in Compare
    BY <1>2, Standing DEF Tree
  <2>3. View \in [members : SUBSET Elem, compare : Compare]
    BY <2>1, <2>2
  <2> QED BY <2>1, <2>3, BSTreeAssumption
<1> QED BY <1>1, <1>2

\* A step that leaves the tree alone leaves the set.
LEMMA SameView ==
    ASSUME tree' = tree, link' = link
    PROVE  View' = View
BY SameTree DEF View

\* A step inside a call is a stutter.
LEMMA Unseen ==
    ASSUME UNCHANGED <<tree, link, held, freed, ret>>
    PROVE  UNCHANGED Abstract!vars
BY SameView DEF Abstract!vars, View

\* A call that answers ERR or NULL and changes nothing refuses.
LEMMA Refuses ==
    ASSUME UNCHANGED <<tree, link, held, freed>>, ret' \in {ERR, Null}
    PROVE  Abstract!Next
<1>1. Abstract!Refused
  BY SameView DEF Abstract!Refused, Abstract!ERR, ERR, View
<1> QED BY <1>1 DEF Abstract!Next

\* A call that puts x in.
LEMMA Inserts ==
    ASSUME Inv, Inv', ~Absent, ~Absent', pc' = "idle", NEW x \in held,
           tree'.compare = tree.compare,
           nodes' = Present \cup {x}, held' = held \ {x}, freed' = freed, ret' = OK,
           \A y \in Present : Rank(y) # Rank(x)
    PROVE  Abstract!Next
<1>1. View = [members |-> Present, compare |-> tree.compare] /\ View # Null
  BY ViewHere
<1>2. View' = [members |-> Present \cup {x}, compare |-> tree.compare]
  <2>1. Present' = nodes'
    BY DEF Inv, Healthy
  <2> QED BY <2>1 DEF View
<1>3. View' = [View EXCEPT !.members = @ \cup {x}]
  BY <1>1, <1>2
<1>4. Abstract!Equals(x) = {}
  BY <1>1 DEF Abstract!Equals, View, Rank
<1>5. Abstract!Insert(x)
  BY <1>1, <1>3, <1>4 DEF Abstract!Insert, Abstract!OK, OK, View
<1> QED BY <1>5 DEF Abstract!Next

\* A call that takes x out.
LEMMA Deletes ==
    ASSUME Inv, Inv', ~Absent, ~Absent', pc' = "idle", NEW x \in Present, NEW y \in Elem,
           Rank(x) = Rank(y), tree'.compare = tree.compare,
           nodes' = Present \ {x}, held' = held \cup {x}, freed' = freed, ret' = x
    PROVE  Abstract!Next
<1>1. View = [members |-> Present, compare |-> tree.compare] /\ View # Null
  BY ViewHere
<1>2. View' = [members |-> Present \ {x}, compare |-> tree.compare]
  <2>1. Present' = nodes'
    BY DEF Inv, Healthy
  <2> QED BY <2>1 DEF View
<1>3. View' = [View EXCEPT !.members = @ \ {x}]
  BY <1>1, <1>2
<1>4. x \in Abstract!Equals(y)
  BY <1>1 DEF Abstract!Equals, View, Rank
<1>5. Abstract!Delete(y)
  BY <1>1, <1>3, <1>4 DEF Abstract!Delete, View
<1> QED BY <1>5 DEF Abstract!Next

\* The start of a loop is not seen.
LEMMA StartUnseen ==
    ASSUME Inv, ~Absent, tree.length # 0, NEW loop, NEW x, Start(loop, x),
           UNCHANGED <<tree, link, held, freed>>
    PROVE  UNCHANGED Abstract!vars
BY Emptiness, Unseen DEF Start

\* Every step is a step of the set, or a stutter.
LEMMA StepRefines ==
    ASSUME Inv, Inv', [Next]_vars
    PROVE  [Abstract!Next]_(Abstract!vars)
<1>1. ASSUME NEW c \in Compare \cup {Null}, Create(c)
      PROVE  Abstract!Next
  <2>1. CASE Answer(Null)
    BY <2>1, Refuses DEF Answer, Return
  <2>2. CASE ~Answer(Null)
    <3> DEFINE d == IF c = Null THEN DefaultCompare ELSE c
    <3>1. /\ Absent /\ tree' = [root |-> Null, compare |-> d, length |-> 0]
          /\ ret' = OK /\ pc' = "idle"
          /\ UNCHANGED <<nodes, link, held, freed, fault>>
      BY <1>1, <2>2 DEF Create, Return
    <3>2. d \in Compare
      BY BSTreeAssumption
    <3> HIDE DEF d
    <3>3. ~Absent' /\ tree'.compare = d
      BY <3>1, <3>2, BSTreeAssumption DEF Absent
    <3>4. View = Null
      BY <3>1, ViewHere
    <3>5. Present' = {}
      BY <3>1, <3>3 DEF Inv, Healthy
    <3>6. View' = [members |-> {}, compare |-> d]
      BY <3>3, <3>5 DEF View
    <3>7. Abstract!Create(d)
      BY <3>1, <3>4, <3>6 DEF Abstract!Create, Abstract!OK, OK, View
    <3> QED BY <3>2, <3>7 DEF Abstract!Next
  <2> QED BY <2>1, <2>2
<1>2. ASSUME NEW x \in Mine, Insert(x)
      PROVE  Abstract!Next \/ UNCHANGED Abstract!vars
  <2>1. CASE Answer(ERR)
    BY <2>1, Refuses DEF Answer, Return
  <2>2. CASE /\ Ready /\ ~Absent /\ x # Null /\ tree.length = 0
             /\ tree' = [tree EXCEPT !.root = x, !.length = 1]
             /\ nodes' = nodes \cup {x}
             /\ held' = held \ {x}
             /\ Return(OK)
             /\ UNCHANGED <<link, freed, fault>>
    <3>1. x \in held /\ ret' = OK /\ pc' = "idle" /\ pc = "idle"
      BY <2>2 DEF Mine, Return, Ready
    <3>2. Present = {} /\ nodes = {}
      BY <2>2, <3>1, Emptiness DEF Inv, Healthy
    <3>3. tree' = [root |-> x, compare |-> tree.compare, length |-> 1] /\ tree' \in Tree \cup {Null}
      BY <2>2, Standing DEF Tree, Inv, TypeOK
    <3>4. ~Absent' /\ tree'.compare = tree.compare
      <4>1. tree.compare \in Compare /\ x \in Elem /\ 1 \in 0..MaxU32
        BY <2>2, <3>1, Standing, BSTreeAssumption DEF Tree, Inv, TypeOK
      <4> QED BY <3>3, <4>1, BSTreeAssumption DEF Absent
    <3> QED BY <2>2, <3>1, <3>2, <3>4, Inserts
  <2>3. CASE /\ ~Absent /\ tree.length \notin {0, MaxU32}
             /\ Start("insert", x)
             /\ UNCHANGED <<tree, link, held, freed>>
    BY <2>3, StartUnseen
  <2> QED BY <1>2, <2>1, <2>2, <2>3 DEF Insert
<1>3. ASSUME NEW x, Search(x) \/ Delete(x)
      PROVE  Abstract!Next \/ UNCHANGED Abstract!vars
  <2>1. CASE Answer(Null)
    BY <2>1, Refuses DEF Answer, Return
  <2>2. CASE ~Answer(Null)
    <3>1. PICK loop : /\ ~Absent /\ tree.length # 0 /\ Start(loop, x)
                      /\ UNCHANGED <<tree, link, held, freed>>
      BY <1>3, <2>2 DEF Search, Delete
    <3> QED BY <3>1, StartUnseen
  <2> QED BY <2>1, <2>2
<1>4. ASSUME Descend \/ SeekReplacement
      PROVE  UNCHANGED Abstract!vars
  BY <1>4, Unseen DEF Descend, SeekReplacement
<1>5. ASSUME Missing
      PROVE  Abstract!Next
  <2>1. CASE pc # "insert"
    BY <1>5, <2>1, Refuses DEF Missing, Answer, Return
  <2>2. CASE pc = "insert"
    <3>1. ~Absent /\ Healthy /\ Aimed /\ key \in held /\ tree \in Tree
      BY <1>5, <2>2, Standing DEF Missing, Searching, Inv, Aimed
    <3>2. /\ tree' = [tree EXCEPT !.length = @ + 1]
          /\ held' = held \ {key} /\ ret' = OK /\ pc' = "idle"
          /\ UNCHANGED <<nodes, freed, fault>>
      BY <1>5, <2>2 DEF Missing, Answer, Return
    <3>3. nodes' = Present \cup {key}
      BY <2>2, <3>1, <3>2 DEF Healthy
    <3>4. tree' = [root |-> tree.root, compare |-> tree.compare, length |-> tree.length + 1]
      BY <3>1, <3>2 DEF Tree
    <3>5. ~Absent' /\ tree'.compare = tree.compare
      <4>1. tree.compare \in Compare /\ tree.root \in Elem \cup {Null} /\ tree.length + 1 \in 0..MaxU32
        BY <2>2, <3>1, BSTreeAssumption DEF Tree, NodePtr, Aimed
      <4> QED BY <3>4, <4>1, BSTreeAssumption DEF Absent
    <3> QED BY <1>5, <3>1, <3>2, <3>3, <3>5, NothingEqual, Inserts
  <2> QED BY <2>1, <2>2
<1>6. ASSUME Found
      PROVE  Abstract!Next \/ UNCHANGED Abstract!vars
  <2>1. CASE pc = "insert"
    BY <1>6, <2>1, Refuses DEF Found, Answer, Return
  <2>2. CASE pc = "delete"
    BY <1>6, <2>2, Unseen DEF Found, Answer, Return
  <2>3. CASE pc = "search"
    <3>1. ~Absent /\ Aimed /\ key \in Elem /\ cur \in Present /\ Rank(key) = Rank(cur)
      BY <1>6, <2>3 DEF Found, Searching, Inv, Aimed
    <3>2. UNCHANGED <<tree, link, held, freed>> /\ ret' = cur
      BY <1>6, <2>3 DEF Found, Answer, Return
    <3>3. View = [members |-> Present, compare |-> tree.compare] /\ View # Null /\ View' = View
      BY <3>1, <3>2, ViewHere, SameView
    <3>4. cur \in Abstract!Equals(key)
      BY <3>1, <3>3 DEF Abstract!Equals, View, Rank
    <3>5. Abstract!Search(key)
      BY <3>2, <3>3, <3>4 DEF Abstract!Search, View
    <3> QED BY <3>1, <3>5 DEF Abstract!Next
  <2> QED BY <1>6, <2>1, <2>2, <2>3 DEF Found, Searching
<1>7. ASSUME Change
      PROVE  Abstract!Next
  <2>1. PICK L, root : Remove(L, root)
    BY <1>7 DEF Change
  <2>2. ~Absent /\ Healthy /\ Aimed /\ pc \in {"max", "min"} /\ tree \in Tree
    BY <1>7, Standing DEF Change, Replacing, Inv
  <2>3. /\ tree' = [tree EXCEPT !.root = root, !.length = (@ - 1) % (MaxU32 + 1)]
        /\ nodes' = nodes \ {cur} /\ held' = held \cup {cur}
        /\ ret' = cur /\ pc' = "idle" /\ freed' = freed
    BY <2>1 DEF Remove, Return
  <2>4. nodes' = Present \ {cur} /\ key \in Elem /\ cur \in Present /\ Rank(cur) = Rank(key)
    BY <2>2, <2>3 DEF Healthy, Aimed
  <2>5. tree' = [root |-> root, compare |-> tree.compare, length |-> (tree.length - 1) % (MaxU32 + 1)]
    BY <2>2, <2>3 DEF Tree
  <2>6. tree'.compare = tree.compare
    BY <2>5
  <2>7. ~Absent'
    BY <1>7, ChangeKeeps
  <2> QED BY <2>2, <2>3, <2>4, <2>6, <2>7, Deletes
<1>8. ASSUME NEW o, NEW b, Traverse(o, b)
      PROVE  Abstract!Next
  <2>1. PICK result \in {OK, ERR} : Answer(result)
    BY <1>8, Zenon DEF Traverse
  <2>2. CASE Answer(ERR)
    BY <2>2, Refuses DEF Answer, Return
  <2>3. CASE Absent
    BY <1>8, <2>3, Refuses DEF Traverse, Answer, Return
  <2>4. CASE Answer(OK) /\ ~Absent
    <3>1. View # Null /\ View' = View /\ ret' = OK /\ UNCHANGED <<held, freed>>
      BY <2>4, ViewHere, SameView DEF Answer, Return
    <3>2. Abstract!Traverse
      BY <3>1 DEF Abstract!Traverse, Abstract!OK, OK, View
    <3> QED BY <3>2 DEF Abstract!Next
  <2> QED BY <2>1, <2>2, <2>3, <2>4
<1>9. ASSUME NEW b, Destroy(b)
      PROVE  Abstract!Next
  <2>1. CASE Answer(ERR)
    BY <2>1, Refuses DEF Answer, Return
  <2>2. CASE ~Answer(ERR)
    <3> DEFINE members == IF tree.length = 0 THEN {} ELSE Below(tree.root)
    <3>1. ~Absent /\ (tree.length # 0 => tree.root # Null)
      BY <1>9, <2>2, Emptiness DEF Destroy
    <3>2. freed' = freed \cup members /\ tree' = Null /\ ret' = OK /\ held' = held
      BY <1>9, <2>2, <3>1 DEF Destroy, Return
    <3>3. members = Present
      BY <3>1, Emptiness DEF Present
    <3>4. View = [members |-> Present, compare |-> tree.compare] /\ View # Null /\ View' = Null
      BY <3>1, <3>2, ViewHere DEF View, Absent
    <3>5. Abstract!Destroy
      BY <3>2, <3>3, <3>4 DEF Abstract!Destroy, Abstract!OK, OK, View
    <3> QED BY <3>5 DEF Abstract!Next
  <2> QED BY <2>1, <2>2
<1>10. ASSUME UNCHANGED vars
       PROVE  UNCHANGED Abstract!vars
  BY <1>10, Unseen DEF vars
<1> QED BY <1>1, <1>2, <1>3, <1>4, <1>5, <1>6, <1>7, <1>8, <1>9, <1>10 DEF Next

\* The calls implement a set without equal elements (OrderedSet): every insertion,
\* deletion and search answers what it would, at the step that decides it.
THEOREM Refinement == Contract => (Spec => ImplementsOrderedSet)
<1> SUFFICES ASSUME Contract PROVE Spec => ImplementsOrderedSet
  OBVIOUS
<1>1. Init => Inv /\ Abstract!Init
  <2>1. Init => Abstract!Init
    BY DEF Init, Absent, Abstract!Init
  <2> QED BY <2>1, InitInv
<1>2. Inv /\ [Next]_vars => Inv' /\ [Abstract!Next]_(Abstract!vars)
  BY StepInv, StepRefines
<1> QED BY <1>1, <1>2, PTL DEF Spec, ImplementsOrderedSet, Abstract!Spec

-----------------------------------------------------------------------------
\* g solves, on the nodes of S, an equation that gives its value at a node from those
\* at the children: what a recursion over the trees of L defines.
Solves(L, base, step, g, S) ==
    /\ g[Null] = base
    /\ \A n \in S : g[n] = step[n][g[L["left"][n]]][g[L["right"][n]]]

\* Two solutions on a subtree agree at its root: look at a deepest node where not.
LEMMA SolutionIsUnique ==
    ASSUME NEW L, NEW F, NEW r, Forest(L, F), Sorted(L, F, r), NEW V, NEW base \in V,
           NEW step \in [Elem -> [V -> [V -> V]]]
    PROVE  \A n \in NodePtr : \A g, h :
              Solves(L, base, step, g, F[n]) /\ Solves(L, base, step, h, F[n]) => g[n] = h[n]
<1> SUFFICES ASSUME NEW n \in NodePtr, NEW g, NEW h,
                    Solves(L, base, step, g, F[n]), Solves(L, base, step, h, F[n])
             PROVE  g[n] = h[n]
  OBVIOUS
<1> DEFINE B == {m \in F[n] : g[m] # h[m]}
<1>1. B \in SUBSET Elem
  BY DEF Forest
<1>2. B = {}
  <2> SUFFICES ASSUME B # {} PROVE FALSE
    OBVIOUS
  <2>1. PICK m \in B : L["left"][m] \notin B /\ L["right"][m] \notin B
    BY <1>1, Deepest
  <2>2. m \in Elem /\ m \in F[n] /\ F[m] \subseteq F[n] /\ g[m] # h[m]
    BY <2>1, Nested
  <2>3. ASSUME NEW s \in Sides PROVE g[L[s][m]] = h[L[s][m]]
    <3>1. CASE L[s][m] = Null
      BY <3>1 DEF Solves
    <3>2. CASE L[s][m] # Null
      <4>1. L[s][m] \in Elem
        BY <2>2, <3>2, LinkTypes DEF Forest, Sides
      <4>2. L[s][m] \in F[L[s][m]] /\ F[L[s][m]] \subseteq F[m]
        BY <2>2, <4>1 DEF Forest, Sides
      <4> QED BY <2>1, <2>2, <4>2, <2>3 DEF Sides
    <3> QED BY <3>1, <3>2
  <2> QED BY <2>2, <2>3 DEF Solves, Sides
<1>3. CASE n = Null
  BY <1>3 DEF Solves
<1>4. CASE n # Null
  BY <1>2, <1>4 DEF Forest, NodePtr
<1> QED BY <1>3, <1>4

\* A recursion over the trees of L defines a function.  On the subtree of a deepest
\* node that has no solution, the solutions of its children would make one.
LEMMA SolutionBelow ==
    ASSUME NEW L, NEW F, NEW r, Forest(L, F), Sorted(L, F, r), NEW V, NEW base \in V,
           NEW step \in [Elem -> [V -> [V -> V]]]
    PROVE  \A n \in NodePtr : \E g \in [NodePtr -> V] : Solves(L, base, step, g, F[n])
<1> DEFINE Has(n) == \E g \in [NodePtr -> V] : Solves(L, base, step, g, F[n])
           B == {n \in Elem : ~Has(n)}
<1>1. Has(Null)
  <2> DEFINE g == [m \in NodePtr |-> base]
  <2>1. g \in [NodePtr -> V] /\ g[Null] = base
    BY DEF NodePtr
  <2>2. F[Null] = {}
    BY DEF Forest
  <2> QED BY <2>1, <2>2 DEF Solves
<1>2. B = {}
  <2> SUFFICES ASSUME B # {} PROVE FALSE
    OBVIOUS
  <2>1. PICK n \in B : L["left"][n] \notin B /\ L["right"][n] \notin B
    BY Deepest
  <2> DEFINE a == L["left"][n]
             b == L["right"][n]
  <2>2. n \in Elem /\ a \in NodePtr /\ b \in NodePtr /\ Has(a) /\ Has(b)
    BY <1>1, <2>1, LinkTypes DEF Forest, NodePtr
  <2>3. PICK g \in [NodePtr -> V] : Solves(L, base, step, g, F[a])
    BY <2>2
  <2>4. PICK h \in [NodePtr -> V] : Solves(L, base, step, h, F[b])
    BY <2>2
  <2> DEFINE f == [m \in NodePtr |-> IF m = n THEN step[n][g[a]][h[b]]
                                     ELSE IF m \in F[a] THEN g[m] ELSE h[m]]
  <2>5. f \in [NodePtr -> V]
    BY <2>2, <2>3, <2>4
  <2>6. F[n] = {n} \cup F[a] \cup F[b] /\ n \notin F[a] /\ n \notin F[b] /\ F[a] \cap F[b] = {}
        /\ F[a] \subseteq Elem /\ F[b] \subseteq Elem /\ Null \notin Elem
    <3>1. ASSUME NEW m \in F[a], m \in F[b] PROVE FALSE
      BY <2>2, <3>1 DEF Sorted, Forest
    <3> QED BY <2>2, <3>1, Smaller, LinkTypes DEF Forest, Sides
  <2>7. f[Null] = base
    BY <2>2, <2>4, <2>6 DEF Solves, NodePtr
  <2>8. ASSUME NEW m \in F[a], NEW s \in Sides
        PROVE  f[L[s][m]] = g[L[s][m]]
    <3>1. m \in Elem /\ F[m] \subseteq F[a]
      BY <2>2, Nested
    <3>2. CASE L[s][m] = Null
      BY <2>7, <2>3, <3>2 DEF Solves
    <3>3. CASE L[s][m] # Null
      <4>1. L[s][m] \in Elem
        BY <3>1, <3>3, LinkTypes DEF Forest, Sides
      <4>2. L[s][m] \in F[L[s][m]] /\ F[L[s][m]] \subseteq F[m]
        BY <3>1, <4>1 DEF Forest, Sides
      <4>3. L[s][m] \in F[a]
        BY <3>1, <4>2
      <4> QED BY <4>1, <4>3, <2>6 DEF NodePtr
    <3> QED BY <3>2, <3>3
  <2>9. ASSUME NEW m \in F[b], NEW s \in Sides
        PROVE  f[L[s][m]] = h[L[s][m]]
    <3>1. m \in Elem /\ F[m] \subseteq F[b]
      BY <2>2, Nested
    <3>2. CASE L[s][m] = Null
      BY <2>7, <2>4, <3>2 DEF Solves
    <3>3. CASE L[s][m] # Null
      <4>1. L[s][m] \in Elem
        BY <3>1, <3>3, LinkTypes DEF Forest, Sides
      <4>2. L[s][m] \in F[L[s][m]] /\ F[L[s][m]] \subseteq F[m]
        BY <3>1, <4>1 DEF Forest, Sides
      <4>3. L[s][m] \in F[b]
        BY <3>1, <4>2
      <4> QED BY <4>1, <4>3, <2>6 DEF NodePtr
    <3> QED BY <3>2, <3>3
  <2>10. f[n] = step[n][f[a]][f[b]]
    <3>1. f[a] = g[a]
      <4>1. CASE a = Null
        BY <4>1, <2>7, <2>3 DEF Solves
      <4>2. CASE a # Null
        <5>1. a \in F[a]
          BY <2>2, <4>2 DEF Forest, NodePtr
        <5> QED BY <5>1, <2>2, <2>6
      <4> QED BY <4>1, <4>2
    <3>2. f[b] = h[b]
      <4>1. CASE b = Null
        BY <4>1, <2>7, <2>4 DEF Solves
      <4>2. CASE b # Null
        <5>1. b \in F[b]
          BY <2>2, <4>2 DEF Forest, NodePtr
        <5> QED BY <5>1, <2>2, <2>6
      <4> QED BY <4>1, <4>2
    <3>3. f[n] = step[n][g[a]][h[b]]
      BY <2>2 DEF NodePtr
    <3> QED BY <3>1, <3>2, <3>3
  <2>11. ASSUME NEW m \in F[a]
         PROVE  f[m] = step[m][f[L["left"][m]]][f[L["right"][m]]]
    <3>1. f[m] = g[m]
      BY <2>6 DEF NodePtr
    <3> HIDE DEF f
    <3> QED BY <3>1, <2>3, <2>8 DEF Solves, Sides
  <2>12. ASSUME NEW m \in F[b]
         PROVE  f[m] = step[m][f[L["left"][m]]][f[L["right"][m]]]
    <3>1. f[m] = h[m]
      BY <2>6 DEF NodePtr
    <3> HIDE DEF f
    <3> QED BY <3>1, <2>4, <2>9 DEF Solves, Sides
  <2> HIDE DEF f
  <2>13. Solves(L, base, step, f, F[n])
    BY <2>6, <2>7, <2>10, <2>11, <2>12 DEF Solves
  <2> QED BY <2>1, <2>5, <2>13
<1> QED BY <1>1, <1>2 DEF NodePtr

\* ... on all of them: the values at the roots of the subtrees agree.
LEMMA SolutionExists ==
    ASSUME NEW L, NEW F, NEW r, Forest(L, F), Sorted(L, F, r), NEW V, NEW base \in V,
           NEW step \in [Elem -> [V -> [V -> V]]]
    PROVE  \E g \in [NodePtr -> V] : Solves(L, base, step, g, Elem)
<1> DEFINE P(n, g) == g \in [NodePtr -> V] /\ Solves(L, base, step, g, F[n])
           H == [n \in NodePtr |-> CHOOSE g : P(n, g)]
           G == [n \in NodePtr |-> H[n][n]]
<1>1. \A c \in NodePtr : \A g, h :
         Solves(L, base, step, g, F[c]) /\ Solves(L, base, step, h, F[c]) => g[c] = h[c]
  BY SolutionIsUnique
<1>2. ASSUME NEW n \in NodePtr PROVE P(n, H[n])
  <2>1. \E g : P(n, g)
    BY SolutionBelow
  <2>2. P(n, CHOOSE g : P(n, g))
    BY <2>1, Zenon
  <2> QED BY <2>2
<1> HIDE DEF H
<1>3. G \in [NodePtr -> V]
  BY <1>2
<1>4. G[Null] = base
  BY <1>2 DEF Solves, NodePtr
<1>5. ASSUME NEW n \in Elem
      PROVE  G[n] = step[n][G[L["left"][n]]][G[L["right"][n]]]
  <2>1. \A s \in Sides : L[s][n] \in NodePtr /\ F[L[s][n]] \subseteq F[n]
    BY LinkTypes DEF Forest, Sides
  <2>2. n \in NodePtr /\ n \in F[n]
    BY DEF Forest, NodePtr
  <2>3. ASSUME NEW s \in Sides PROVE H[n][L[s][n]] = G[L[s][n]]
    <3>1. Solves(L, base, step, H[n], F[L[s][n]]) /\ Solves(L, base, step, H[L[s][n]], F[L[s][n]])
      BY <1>2, <2>1, <2>2 DEF Solves
    <3> DEFINE c == L[s][n]
    <3>2. c \in NodePtr /\ Solves(L, base, step, H[n], F[c]) /\ Solves(L, base, step, H[c], F[c])
      BY <3>1, <2>1
    <3> HIDE DEF c
    <3>3. H[n][c] = H[c][c]
      BY <3>2, <1>1
    <3> QED BY <3>3, <2>1 DEF c
  <2>4. G[n] = H[n][n]
    BY <2>2
  <2> HIDE DEF G
  <2> QED BY <1>2, <2>2, <2>3, <2>4 DEF Solves, Sides
<1> HIDE DEF G
<1> QED BY <1>3, <1>4, <1>5 DEF Solves

\* What the recursion of traverse computes, at every node and for every walk so far.
Traverses(T, order, bad) ==
    /\ \A w \in Walks : T[Null][w] = w
    /\ \A n \in Elem, w \in Walks :
          T[n][w] = IF w.rc = ERR THEN w
                    ELSE CASE order = "pre" ->
                                T[link["right"][n]][T[link["left"][n]][Visit(n, w, bad)]]
                           [] order = "in" ->
                                T[link["right"][n]][Visit(n, T[link["left"][n]][w], bad)]
                           [] order = "post" ->
                                Visit(n, T[link["right"][n]][T[link["left"][n]][w]], bad)

\* Walk w has gone on to v, showing the callback the elements of s.
Went(w, v, s) == v.seen = w.seen \o s

\* A call of the callback makes a walk of a walk.
LEMMA VisitIs ==
    ASSUME NEW n \in Elem, NEW w \in Walks, NEW bad
    PROVE  /\ Visit(n, w, bad) \in Walks
           /\ Went(w, Visit(n, w, bad), <<n>>)
           /\ Visit(n, w, bad).rc = IF n \in bad THEN ERR ELSE OK
<1>1. w.seen \in Seq(Elem)
  BY DEF Walks
<1>2. Append(w.seen, n) \in Seq(Elem) /\ Append(w.seen, n) = w.seen \o <<n>>
  BY <1>1, AppendProperties, AppendIsConcat
<1> QED BY <1>2 DEF Visit, Walks, Went

\* The recursion of traverse is defined on a tree.
LEMMA RecursionIs ==
    ASSUME NEW F, NEW r, Forest(link, F), Sorted(link, F, r), NEW order \in Order, NEW bad
    PROVE  \E T : Traverses(T, order, bad) /\ Recursion(order, bad) = T[tree.root][Unwalked]
<1> DEFINE V == [Walks -> Walks]
           Go(n, l, m, w) == IF w.rc = ERR THEN w
                             ELSE CASE order = "pre"  -> m[l[Visit(n, w, bad)]]
                                    [] order = "in"   -> m[Visit(n, l[w], bad)]
                                    [] order = "post" -> Visit(n, m[l[w]], bad)
           base == [w \in Walks |-> w]
           step == [n \in Elem |-> [l \in V |-> [m \in V |-> [w \in Walks |-> Go(n, l, m, w)]]]]
           P(g) == g = [n \in NodePtr |->
                          IF n = Null THEN base
                          ELSE [w \in Walks |-> Go(n, g[link["left"][n]], g[link["right"][n]], w)]]
<1>1. \A n \in Elem, l \in V, m \in V, w \in Walks : Go(n, l, m, w) \in Walks
  <2> SUFFICES ASSUME NEW n \in Elem, NEW l \in V, NEW m \in V, NEW w \in Walks
               PROVE  Go(n, l, m, w) \in Walks
    OBVIOUS
  <2>1. m[l[Visit(n, w, bad)]] \in Walks
    BY VisitIs
  <2>2. m[Visit(n, l[w], bad)] \in Walks
    BY VisitIs
  <2>3. Visit(n, m[l[w]], bad) \in Walks
    BY VisitIs
  <2> QED BY <2>1, <2>2, <2>3 DEF Order
<1> HIDE DEF Go
<1>2. step \in [Elem -> [V -> [V -> V]]] /\ base \in V
  BY <1>1
<1>3. PICK g \in [NodePtr -> V] : Solves(link, base, step, g, Elem)
  <2> HIDE DEF step, base, V
  <2> QED BY <1>2, SolutionExists
<1>4. P(g)
  <2>1. ASSUME NEW n \in Elem
        PROVE  g[n] = [w \in Walks |-> Go(n, g[link["left"][n]], g[link["right"][n]], w)]
    <3>1. g[link["left"][n]] \in V /\ g[link["right"][n]] \in V
      BY LinkTypes DEF Forest
    <3>2. g[n] = step[n][g[link["left"][n]]][g[link["right"][n]]]
      <4> HIDE DEF step, base, V
      <4> QED BY <1>3 DEF Solves
    <3> QED BY <3>1, <3>2
  <2>2. g[Null] = base
    <3> HIDE DEF step, base, V
    <3> QED BY <1>3 DEF Solves
  <2> DEFINE h == [n \in NodePtr |->
                     IF n = Null THEN base
                     ELSE [w \in Walks |-> Go(n, g[link["left"][n]], g[link["right"][n]], w)]]
  <2>3. \A n \in NodePtr : g[n] = h[n]
    BY <2>1, <2>2 DEF NodePtr
  <2>4. g = h
    <3>1. g = [n \in NodePtr |-> g[n]] /\ h = [n \in NodePtr |-> h[n]]
      OBVIOUS
    <3> HIDE DEF h
    <3> QED BY <2>3, <3>1
  <2> QED BY <2>4
<1>5. \E T : P(T)
  <2> HIDE DEF P
  <2> QED BY <1>4
<1> DEFINE T == CHOOSE t : P(t)
<1>6. P(T)
  <2> HIDE DEF P
  <2> QED BY <1>5, Zenon
<1>7. Recursion(order, bad) = T[tree.root][Unwalked]
  BY Zenon DEF Recursion, Go
<1> HIDE DEF T
<1>8. Traverses(T, order, bad)
  <2>1. T[Null] = base
    BY <1>6 DEF NodePtr
  <2>2. \A w \in Walks : T[Null][w] = w
    BY <2>1
  <2>3. ASSUME NEW n \in Elem, NEW w \in Walks
        PROVE  T[n][w] = Go(n, T[link["left"][n]], T[link["right"][n]], w)
    <3>1. T[n] = [v \in Walks |-> Go(n, T[link["left"][n]], T[link["right"][n]], v)]
      BY <1>6, BSTreeAssumption DEF NodePtr
    <3> QED BY <3>1
  <2> QED BY <2>2, <2>3, Zenon DEF Traverses, Go
<1> QED BY <1>7, <1>8

-----------------------------------------------------------------------------
\* s has every element of S once.
Full(s, S) ==
    /\ s \in Seq(S)
    /\ \A x \in S : \E k \in 1..Len(s) : s[k] = x
    /\ Len(s) = Cardinality(S)

\* Every element of s ranks below those after it.
Rising(s, r) == \A j, k \in 1..Len(s) : j < k => r[s[j]] < r[s[k]]

\* What a callback that answers CERB_ERR at the elements of bad has seen of S when
\* the traversal of S returns rc.
Told(s, S, bad, rc) ==
    /\ s \in Seq(S)
    /\ rc \in {OK, ERR}
    /\ rc = OK => (\A x \in S : \E k \in 1..Len(s) : s[k] = x) /\ S \cap bad = {}
    /\ rc = ERR => Len(s) > 0 /\ s[Len(s)] \in bad
    /\ \A k \in 1..(Len(s) - 1) : s[k] \notin bad

\* Two sequences one after the other.
LEMMA Concat ==
    ASSUME NEW S, NEW U, NEW s \in Seq(S), NEW t \in Seq(U)
    PROVE  /\ s \o t \in Seq(S \cup U)
           /\ s \in Seq(S \cup U) /\ t \in Seq(S \cup U)
           /\ Len(s) \in Nat /\ Len(t) \in Nat
           /\ Len(s \o t) = Len(s) + Len(t)
           /\ \A k \in 1..Len(s) : s[k] \in S
           /\ \A k \in 1..Len(t) : t[k] \in U
           /\ \A k \in 1..Len(s) : k \in 1..Len(s \o t) /\ (s \o t)[k] = s[k]
           /\ \A k \in 1..Len(t) : Len(s) + k \in 1..Len(s \o t) /\ (s \o t)[Len(s) + k] = t[k]
           /\ \A k \in 1..Len(s \o t) :
                 k \in 1..Len(s) \/ (k - Len(s) \in 1..Len(t) /\ (s \o t)[k] = t[k - Len(s)])
<1>1. s \in Seq(S \cup U) /\ t \in Seq(S \cup U)
  BY SeqMonotonic
<1>2. /\ s \o t \in Seq(S \cup U)
      /\ Len(s \o t) = Len(s) + Len(t)
      /\ \A i \in 1..Len(s) + Len(t) :
            (s \o t)[i] = IF i <= Len(s) THEN s[i] ELSE t[i - Len(s)]
  BY <1>1, ConcatProperties
<1>3. Len(s) \in Nat /\ Len(t) \in Nat
  BY <1>1, LenProperties
<1>4. (\A k \in 1..Len(s) : s[k] \in S) /\ (\A k \in 1..Len(t) : t[k] \in U)
  BY ElementOfSeq
<1>5. \A k \in 1..Len(s) : k \in 1..Len(s \o t) /\ (s \o t)[k] = s[k]
  BY <1>2, <1>3
<1>6. \A k \in 1..Len(t) : Len(s) + k \in 1..Len(s \o t) /\ (s \o t)[Len(s) + k] = t[k]
  <2> SUFFICES ASSUME NEW k \in 1..Len(t)
               PROVE  Len(s) + k \in 1..Len(s \o t) /\ (s \o t)[Len(s) + k] = t[k]
    OBVIOUS
  <2>1. Len(s) + k \in 1..Len(s) + Len(t) /\ ~(Len(s) + k <= Len(s)) /\ (Len(s) + k) - Len(s) = k
    BY <1>3
  <2> QED BY <2>1, <1>2
<1>7. \A k \in 1..Len(s \o t) :
         k \in 1..Len(s) \/ (k - Len(s) \in 1..Len(t) /\ (s \o t)[k] = t[k - Len(s)])
  BY <1>2, <1>3
<1> QED BY <1>1, <1>2, <1>3, <1>4, <1>5, <1>6, <1>7

\* One element.
LEMMA FullOne ==
    ASSUME NEW n
    PROVE  Full(<<n>>, {n}) /\ (\A r : Rising(<<n>>, r))
<1>1. <<n>> \in Seq({n}) /\ Len(<<n>>) = 1 /\ <<n>>[1] = n
  OBVIOUS
<1>2. Cardinality({n}) = 1
  BY FS_Singleton
<1> QED BY <1>1, <1>2 DEF Full, Rising

\* All of S, then all of U.
LEMMA FullConcat ==
    ASSUME NEW S, NEW U, IsFiniteSet(S), IsFiniteSet(U), S \cap U = {},
           NEW s, NEW t, Full(s, S), Full(t, U)
    PROVE  /\ Full(s \o t, S \cup U) /\ IsFiniteSet(S \cup U)
           /\ \A r : Rising(s, r) /\ Rising(t, r)
                     /\ (\A x \in S, y \in U : r[x] < r[y]) => Rising(s \o t, r)
<1>1. s \in Seq(S) /\ t \in Seq(U)
  BY DEF Full
<1>2. IsFiniteSet(S \cup U) /\ Cardinality(S \cup U) = Cardinality(S) + Cardinality(U)
  <2>1. Cardinality(S \cap U) = 0
    BY FS_EmptySet
  <2>2. Cardinality(S) \in Nat /\ Cardinality(U) \in Nat
    BY FS_CardinalityType
  <2>3. IsFiniteSet(S \cup U)
        /\ Cardinality(S \cup U) = Cardinality(S) + Cardinality(U) - Cardinality(S \cap U)
    BY FS_Union
  <2> QED BY <2>1, <2>2, <2>3
<1>3. \A x \in S \cup U : \E k \in 1..Len(s \o t) : (s \o t)[k] = x
  <2>1. ASSUME NEW x \in S PROVE \E k \in 1..Len(s \o t) : (s \o t)[k] = x
    <3>1. PICK k \in 1..Len(s) : s[k] = x
      BY DEF Full
    <3> QED BY <1>1, <3>1, Concat
  <2>2. ASSUME NEW x \in U PROVE \E k \in 1..Len(s \o t) : (s \o t)[k] = x
    <3>1. PICK k \in 1..Len(t) : t[k] = x
      BY DEF Full
    <3>2. Len(s) + k \in 1..Len(s \o t) /\ (s \o t)[Len(s) + k] = t[k]
      BY <1>1, Concat
    <3> QED BY <3>1, <3>2
  <2> QED BY <2>1, <2>2
<1>4. Full(s \o t, S \cup U)
  <2>1. s \o t \in Seq(S \cup U) /\ Len(s \o t) = Len(s) + Len(t)
    BY <1>1, Concat
  <2>2. Len(s \o t) = Cardinality(S \cup U)
    BY <2>1, <1>2 DEF Full
  <2> QED BY <2>1, <2>2, <1>3 DEF Full
<1>5. ASSUME NEW r, Rising(s, r), Rising(t, r), \A x \in S, y \in U : r[x] < r[y]
      PROVE  Rising(s \o t, r)
  <2> SUFFICES ASSUME NEW j \in 1..Len(s \o t), NEW k \in 1..Len(s \o t), j < k
               PROVE  r[(s \o t)[j]] < r[(s \o t)[k]]
    BY DEF Rising
  <2> DEFINE st == s \o t
  <2>1. /\ Len(s) \in Nat /\ Len(t) \in Nat /\ Len(st) = Len(s) + Len(t)
        /\ \A i \in 1..Len(s) : s[i] \in S /\ st[i] = s[i]
        /\ \A i \in 1..Len(t) : t[i] \in U
        /\ \A i \in 1..Len(st) :
                 i \in 1..Len(s) \/ (i - Len(s) \in 1..Len(t) /\ st[i] = t[i - Len(s)])
    BY <1>1, Concat
  <2> HIDE DEF st
  <2>2. CASE k \in 1..Len(s)
    <3>1. j \in 1..Len(s)
      BY <2>2
    <3> QED BY <2>1, <2>2, <3>1, <1>5 DEF Rising, st
  <2>3. CASE k - Len(s) \in 1..Len(t) /\ st[k] = t[k - Len(s)]
    <3>1. CASE j \in 1..Len(s)
      BY <2>1, <2>3, <3>1, <1>5 DEF st
    <3>2. CASE j - Len(s) \in 1..Len(t) /\ st[j] = t[j - Len(s)]
      <4>1. j - Len(s) < k - Len(s)
        BY <2>1
      <4> QED BY <2>1, <2>3, <3>2, <4>1, <1>5 DEF Rising, st
    <3> QED BY <2>1, <3>1, <3>2 DEF st
  <2> QED BY <2>1, <2>2, <2>3 DEF st
<1> QED BY <1>2, <1>4, <1>5

\* A callback that has not stopped is given the next part.
LEMMA ToldThen ==
    ASSUME NEW S, NEW U, NEW bad, NEW s, NEW t, NEW rc, Told(s, S, bad, OK), Told(t, U, bad, rc)
    PROVE  Told(s \o t, S \cup U, bad, rc)
<1> DEFINE st == s \o t
<1>1. s \in Seq(S) /\ t \in Seq(U)
  BY DEF Told
<1>2. /\ st \in Seq(S \cup U)
      /\ Len(s) \in Nat /\ Len(t) \in Nat /\ Len(st) = Len(s) + Len(t)
      /\ \A k \in 1..Len(s) : s[k] \in S /\ k \in 1..Len(st) /\ st[k] = s[k]
      /\ \A k \in 1..Len(t) : t[k] \in U /\ Len(s) + k \in 1..Len(st) /\ st[Len(s) + k] = t[k]
      /\ \A k \in 1..Len(st) :
                 k \in 1..Len(s) \/ (k - Len(s) \in 1..Len(t) /\ st[k] = t[k - Len(s)])
  BY <1>1, Concat
<1> HIDE DEF st
<1>3. ASSUME rc = OK PROVE (\A x \in S \cup U : \E k \in 1..Len(st) : st[k] = x)
                            /\ (S \cup U) \cap bad = {}
  <2>1. (S \cup U) \cap bad = {}
    BY <1>3 DEF Told
  <2>2. ASSUME NEW x \in S PROVE \E k \in 1..Len(st) : st[k] = x
    <3>1. PICK k \in 1..Len(s) : s[k] = x
      BY DEF Told
    <3> QED BY <1>2, <3>1
  <2>3. ASSUME NEW x \in U PROVE \E k \in 1..Len(st) : st[k] = x
    <3>1. PICK k \in 1..Len(t) : t[k] = x
      BY <1>3 DEF Told
    <3>2. Len(s) + k \in 1..Len(st) /\ st[Len(s) + k] = t[k]
      BY <1>2
    <3> QED BY <3>1, <3>2
  <2> QED BY <2>1, <2>2, <2>3
<1>4. ASSUME rc = ERR PROVE Len(st) > 0 /\ st[Len(st)] \in bad
  <2>1. Len(t) > 0 /\ t[Len(t)] \in bad /\ Len(t) \in 1..Len(t)
    BY <1>2, <1>4 DEF Told
  <2> QED BY <1>2, <2>1
<1>5. ASSUME NEW k \in 1..(Len(st) - 1) PROVE st[k] \notin bad
  <2>1. CASE k \in 1..Len(s)
    BY <2>1, <1>2 DEF Told, OK
  <2>2. CASE k - Len(s) \in 1..Len(t) /\ st[k] = t[k - Len(s)]
    <3>1. k - Len(s) \in 1..(Len(t) - 1)
      BY <1>2, <2>2
    <3> QED BY <2>2, <3>1 DEF Told
  <2> QED BY <1>2, <2>1, <2>2
<1> QED BY <1>2, <1>3, <1>4, <1>5 DEF Told, st

\* A callback that has stopped is given nothing more.
LEMMA ToldSome ==
    ASSUME NEW S, NEW U, NEW bad, NEW s, Told(s, S, bad, ERR)
    PROVE  Told(s, S \cup U, bad, ERR)
<1>1. s \in Seq(S \cup U)
  BY SeqMonotonic DEF Told
<1> QED BY <1>1 DEF Told, OK, ERR

\* A callback that is given one element.
LEMMA ToldOne ==
    ASSUME NEW n, NEW bad
    PROVE  Told(<<n>>, {n}, bad, IF n \in bad THEN ERR ELSE OK)
BY DEF Told, OK, ERR

\* A walk goes on when the callback answers CERB_OK.
LEMMA VisitFine ==
    ASSUME NEW n \in Elem
    PROVE  \A w \in Walks : /\ Visit(n, w, {}) \in Walks
                            /\ Went(w, Visit(n, w, {}), <<n>>)
                            /\ Visit(n, w, {}).rc = OK
<1> DEFINE bad == {}
<1>1. n \notin bad
  OBVIOUS
<1> HIDE DEF bad
<1>2. \A w \in Walks : /\ Visit(n, w, bad) \in Walks
                       /\ Went(w, Visit(n, w, bad), <<n>>)
                       /\ Visit(n, w, bad).rc = OK
  BY <1>1, VisitIs
<1> QED BY <1>2 DEF bad

\* Walks that go on one after the other.
LEMMA Appended ==
    ASSUME NEW w \in Walks, NEW w1 \in Walks, NEW w2 \in Walks, NEW w3 \in Walks,
           NEW x \in Seq(Elem), NEW y \in Seq(Elem), NEW z \in Seq(Elem),
           Went(w, w1, x), Went(w1, w2, y), Went(w2, w3, z)
    PROVE  Went(w, w3, x \o y \o z)
<1> DEFINE q == w.seen
           v == x \o y
<1>1. q \in Seq(Elem) /\ w3.seen = ((q \o x) \o y) \o z
  BY DEF Walks, Went
<1>2. v \in Seq(Elem)
  BY ConcatProperties
<1> HIDE DEF q, v
<1>3. (q \o x) \o y = q \o (x \o y)
  BY <1>1, ConcatAssociative
<1>4. (q \o v) \o z = q \o (v \o z)
  BY <1>1, <1>2, ConcatAssociative
<1> QED BY <1>1, <1>3, <1>4 DEF q, v, Went

\* Two of them.
LEMMA AppendedTwo ==
    ASSUME NEW w \in Walks, NEW w1 \in Walks, NEW w2 \in Walks,
           NEW x \in Seq(Elem), NEW y \in Seq(Elem), Went(w, w1, x), Went(w1, w2, y)
    PROVE  Went(w, w2, x \o y)
<1> DEFINE q == w.seen
<1>1. q \in Seq(Elem) /\ w2.seen = (q \o x) \o y
  BY DEF Walks, Went
<1> HIDE DEF q
<1>2. (q \o x) \o y = q \o (x \o y)
  BY <1>1, ConcatAssociative
<1> QED BY <1>1, <1>2 DEF q, Went

\* T goes through S from walk w on, and shows the callback every element once.
Shows(T, n, w, S, order, r) ==
    \E s : /\ Full(s, S)
           /\ order = "in" => Rising(s, r)
           /\ T[n][w] \in Walks
           /\ Went(w, T[n][w], s)
           /\ T[n][w].rc = OK

\* A callback that always answers CERB_OK is shown every element once; in order, smallest
\* first.
LEMMA ShowsEverything ==
    ASSUME NEW F, NEW r, Forest(link, F), Sorted(link, F, r), NEW order \in Order,
           NEW T, Traverses(T, order, {})
    PROVE  \A n \in NodePtr, w \in Walks : w.rc = OK => Shows(T, n, w, F[n], order, r)
<1> DEFINE Fine(n) == \A w \in Walks : w.rc = OK => Shows(T, n, w, F[n], order, r)
           B == {n \in Elem : ~Fine(n)}
<1>1. Fine(Null)
  <2> SUFFICES ASSUME NEW w \in Walks, w.rc = OK
               PROVE  Shows(T, Null, w, {}, order, r)
    BY DEF Forest
  <2>1. T[Null][w] = w
    BY DEF Traverses
  <2>2. Full(<<>>, {}) /\ Rising(<<>>, r)
    BY FS_EmptySet DEF Full, Rising
  <2>3. Went(w, w, <<>>)
    BY ConcatEmptySeq DEF Walks, Went
  <2> QED BY <2>1, <2>2, <2>3 DEF Shows
<1>2. B = {}
  <2> SUFFICES ASSUME B # {} PROVE FALSE
    OBVIOUS
  <2>1. PICK n \in B : link["left"][n] \notin B /\ link["right"][n] \notin B
    BY Deepest
  <2> DEFINE a == link["left"][n]
             b == link["right"][n]
  <2>2. n \in Elem /\ a \in NodePtr /\ b \in NodePtr /\ Fine(a) /\ Fine(b)
    <3>1. n \in Elem /\ a \in NodePtr /\ b \in NodePtr
      BY <2>1, LinkTypes DEF Forest, B
    <3> HIDE DEF Fine
    <3> QED BY <1>1, <2>1, <3>1 DEF NodePtr, B
  <2> HIDE DEF B
  <2>3. /\ F[n] = {n} \cup F[a] \cup F[b]
        /\ F[a] \subseteq Elem /\ F[b] \subseteq Elem
        /\ \A x \in F[a] : r[x] < r[n]
        /\ \A y \in F[b] : r[n] < r[y]
        /\ r \in [Elem -> Int]
    BY <2>2 DEF Forest, Sorted
  <2>4. \A x \in F[a], y \in F[b] : r[x] < r[y]
    <3> SUFFICES ASSUME NEW x \in F[a], NEW y \in F[b] PROVE r[x] < r[y]
      OBVIOUS
    <3>1. r[x] \in Int /\ r[n] \in Int /\ r[y] \in Int
      BY <2>2, <2>3
    <3> QED BY <2>3, <3>1
  <2>5. F[a] \cap F[b] = {} /\ n \notin F[a] /\ n \notin F[b]
        /\ {n} \cap F[a] = {} /\ F[a] \cap {n} = {}
    <3>1. \A x \in Elem : ~(r[x] < r[x])
      BY <2>3
    <3> QED BY <2>2, <2>3, <2>4, <3>1
  <2>6. IsFiniteSet(F[a]) /\ IsFiniteSet(F[b]) /\ IsFiniteSet({n})
    BY <2>3, FS_Subset, FS_Singleton, BSTreeAssumption
  <2>7. Full(<<n>>, {n}) /\ Rising(<<n>>, r) /\ <<n>> \in Seq(Elem)
    BY <2>2, FullOne
  <2>8. \A w \in Walks : /\ Visit(n, w, {}) \in Walks
                           /\ Went(w, Visit(n, w, {}), <<n>>)
                           /\ Visit(n, w, {}).rc = OK
    BY <2>2, VisitFine
  <2> HIDE DEF a, b
  <2>9. Fine(n)
    <3> SUFFICES ASSUME NEW w \in Walks, w.rc = OK
                 PROVE  Shows(T, n, w, F[n], order, r)
      OBVIOUS
    <3>1. w.seen \in Seq(Elem)
      BY DEF Walks
    <3>2. T[n][w] = CASE order = "pre"  -> T[b][T[a][Visit(n, w, {})]]
                      [] order = "in"   -> T[b][Visit(n, T[a][w], {})]
                      [] order = "post" -> Visit(n, T[b][T[a][w]], {})
      <4>1. T[n][w] = IF w.rc = ERR THEN w
                      ELSE CASE order = "pre"  -> T[b][T[a][Visit(n, w, {})]]
                             [] order = "in"   -> T[b][Visit(n, T[a][w], {})]
                             [] order = "post" -> Visit(n, T[b][T[a][w]], {})
        BY <2>2, Zenon DEF Traverses, a, b
      <4>2. w.rc # ERR
        BY DEF OK, ERR
      <4> QED BY <4>1, <4>2, Zenon
    <3>3. CASE order = "pre"
      <4> DEFINE w1 == Visit(n, w, {})
                 w2 == T[a][w1]
                 w3 == T[b][w2]
      <4>1. w1 \in Walks /\ Went(w, w1, <<n>>) /\ w1.rc = OK
        BY <2>8
      <4> HIDE DEF w1
      <4>2. PICK s : Full(s, F[a]) /\ w2 \in Walks /\ Went(w1, w2, s) /\ w2.rc = OK
        BY <2>2, <4>1 DEF Shows
      <4> HIDE DEF w2
      <4>3. PICK t : Full(t, F[b]) /\ w3 \in Walks /\ Went(w2, w3, t) /\ w3.rc = OK
        BY <2>2, <4>2 DEF Shows
      <4>4. T[n][w] = w3
        BY <3>2, <3>3 DEF w1, w2
      <4>5. s \in Seq(Elem) /\ t \in Seq(Elem)
        BY <2>3, <4>2, <4>3, SeqMonotonic DEF Full
      <4>6. Went(w, w3, <<n>> \o s \o t)
        BY <2>7, <4>1, <4>2, <4>3, <4>5, Appended
      <4>7. Full(<<n>> \o s, {n} \cup F[a]) /\ IsFiniteSet({n} \cup F[a])
        BY <2>5, <2>6, <2>7, <4>2, FullConcat
      <4>8. ({n} \cup F[a]) \cap F[b] = {}
        BY <2>5
      <4>9. Full((<<n>> \o s) \o t, ({n} \cup F[a]) \cup F[b])
        BY <2>6, <4>3, <4>7, <4>8, FullConcat
      <4>10. ({n} \cup F[a]) \cup F[b] = F[n]
        BY <2>3
      <4> QED BY <3>3, <4>3, <4>4, <4>6, <4>9, <4>10 DEF Shows
    <3>4. CASE order = "in"
      <4> DEFINE w1 == T[a][w]
                 w2 == Visit(n, w1, {})
                 w3 == T[b][w2]
      <4>1. PICK s : Full(s, F[a]) /\ w1 \in Walks /\ Went(w, w1, s) /\ w1.rc = OK
                     /\ Rising(s, r)
        BY <2>2, <3>4 DEF Shows
      <4> HIDE DEF w1
      <4>2. w2 \in Walks /\ Went(w1, w2, <<n>>) /\ w2.rc = OK
        BY <2>8, <4>1
      <4> HIDE DEF w2
      <4>3. PICK t : Full(t, F[b]) /\ w3 \in Walks /\ Went(w2, w3, t) /\ w3.rc = OK
                     /\ Rising(t, r)
        BY <2>2, <3>4, <4>2 DEF Shows
      <4>4. T[n][w] = w3
        BY <3>2, <3>4 DEF w1, w2
      <4>5. s \in Seq(Elem) /\ t \in Seq(Elem)
        BY <2>3, <4>1, <4>3, SeqMonotonic DEF Full
      <4>6. Went(w, w3, s \o <<n>> \o t)
        BY <2>7, <4>1, <4>2, <4>3, <4>5, Appended
      <4>7. Full(s \o <<n>>, F[a] \cup {n}) /\ IsFiniteSet(F[a] \cup {n})
            /\ (\A q : Rising(s, q) /\ Rising(<<n>>, q) /\ (\A x \in F[a], y \in {n} : q[x] < q[y])
                        => Rising(s \o <<n>>, q))
        BY <2>5, <2>6, <2>7, <4>1, FullConcat
      <4>8. (F[a] \cup {n}) \cap F[b] = {}
        BY <2>5
      <4>9. Rising(s \o <<n>>, r)
        BY <2>3, <2>7, <4>1, <4>7
      <4>10. F[n] = (F[a] \cup {n}) \cup F[b] /\ \A x \in F[a] \cup {n}, y \in F[b] : r[x] < r[y]
        BY <2>3, <2>4
      <4>11. Full(s \o <<n>> \o t, (F[a] \cup {n}) \cup F[b])
             /\ (\A q : Rising(s \o <<n>>, q) /\ Rising(t, q)
                        /\ (\A x \in F[a] \cup {n}, y \in F[b] : q[x] < q[y])
                        => Rising(s \o <<n>> \o t, q))
        BY <2>6, <4>3, <4>7, <4>8, FullConcat
      <4>12. Full(s \o <<n>> \o t, F[n]) /\ Rising(s \o <<n>> \o t, r)
        BY <4>3, <4>9, <4>10, <4>11
      <4> QED BY <4>3, <4>4, <4>6, <4>12 DEF Shows
    <3>5. CASE order = "post"
      <4> DEFINE w1 == T[a][w]
                 w2 == T[b][w1]
                 w3 == Visit(n, w2, {})
      <4>1. PICK s : Full(s, F[a]) /\ w1 \in Walks /\ Went(w, w1, s) /\ w1.rc = OK
        BY <2>2 DEF Shows
      <4> HIDE DEF w1
      <4>2. PICK t : Full(t, F[b]) /\ w2 \in Walks /\ Went(w1, w2, t) /\ w2.rc = OK
        BY <2>2, <4>1 DEF Shows
      <4> HIDE DEF w2
      <4>3. w3 \in Walks /\ Went(w2, w3, <<n>>) /\ w3.rc = OK
        BY <2>8, <4>2
      <4>4. T[n][w] = w3
        BY <3>2, <3>5 DEF w1, w2
      <4>5. s \in Seq(Elem) /\ t \in Seq(Elem)
        BY <2>3, <4>1, <4>2, SeqMonotonic DEF Full
      <4>6. Went(w, w3, s \o t \o <<n>>)
        BY <2>7, <4>1, <4>2, <4>3, <4>5, Appended
      <4>7. Full(s \o t, F[a] \cup F[b]) /\ IsFiniteSet(F[a] \cup F[b])
        BY <2>5, <2>6, <4>1, <4>2, FullConcat
      <4>8. (F[a] \cup F[b]) \cap {n} = {} /\ F[n] = (F[a] \cup F[b]) \cup {n}
        BY <2>3, <2>5
      <4>9. Full((s \o t) \o <<n>>, (F[a] \cup F[b]) \cup {n})
        BY <2>6, <2>7, <4>7, <4>8, FullConcat
      <4> QED BY <3>5, <4>3, <4>4, <4>6, <4>8, <4>9 DEF Shows
    <3> QED BY <3>3, <3>4, <3>5 DEF Order
  <2> QED BY <2>1, <2>9 DEF B
<1> QED BY <1>1, <1>2 DEF NodePtr

\* T goes through S from walk w on, until the callback answers CERB_ERR.
Tells(T, n, w, S, bad) ==
    \E s : /\ Told(s, S, bad, T[n][w].rc)
           /\ T[n][w] \in Walks
           /\ Went(w, T[n][w], s)

\* Pre-order, a callback that answers CERB_ERR is not called again.
LEMMA TellsUntilTold ==
    ASSUME NEW F, NEW r, Forest(link, F), Sorted(link, F, r), NEW bad,
           NEW T, Traverses(T, "pre", bad)
    PROVE  \A n \in NodePtr, w \in Walks : w.rc = OK => Tells(T, n, w, F[n], bad)
<1> DEFINE Fine(n) == \A w \in Walks : w.rc = OK => Tells(T, n, w, F[n], bad)
           B == {n \in Elem : ~Fine(n)}
<1>1. Fine(Null)
  <2> SUFFICES ASSUME NEW w \in Walks, w.rc = OK
               PROVE  Tells(T, Null, w, {}, bad)
    BY DEF Forest
  <2>1. T[Null][w] = w
    BY DEF Traverses
  <2>2. Told(<<>>, {}, bad, OK)
    BY DEF Told, OK, ERR
  <2>3. Went(w, w, <<>>)
    BY ConcatEmptySeq DEF Walks, Went
  <2> QED BY <2>1, <2>2, <2>3 DEF Tells
<1>2. \A n \in NodePtr, w \in Walks : w.rc = ERR => T[n][w] = w
  BY DEF Traverses, NodePtr
<1>3. B = {}
  <2> SUFFICES ASSUME B # {} PROVE FALSE
    OBVIOUS
  <2>1. PICK n \in B : link["left"][n] \notin B /\ link["right"][n] \notin B
    BY Deepest
  <2> DEFINE a == link["left"][n]
             b == link["right"][n]
  <2>2. n \in Elem /\ a \in NodePtr /\ b \in NodePtr /\ Fine(a) /\ Fine(b)
    <3>1. n \in Elem /\ a \in NodePtr /\ b \in NodePtr
      BY <2>1, LinkTypes DEF Forest, B
    <3> HIDE DEF Fine
    <3> QED BY <1>1, <2>1, <3>1 DEF NodePtr, B
  <2> HIDE DEF B
  <2>3. F[n] = ({n} \cup F[a]) \cup F[b] /\ F[a] \subseteq Elem /\ F[b] \subseteq Elem
    BY <2>2 DEF Forest
  <2>4. <<n>> \in Seq(Elem)
    BY <2>2
  <2> HIDE DEF a, b
  <2>5. Fine(n)
    <3> SUFFICES ASSUME NEW w \in Walks, w.rc = OK
                 PROVE  Tells(T, n, w, F[n], bad)
      OBVIOUS
    <3> DEFINE w1 == Visit(n, w, bad)
               w2 == T[a][w1]
               w3 == T[b][w2]
    <3>1. T[n][w] = w3
      <4>1. T[n][w] = IF w.rc = ERR THEN w ELSE T[b][T[a][Visit(n, w, bad)]]
        BY <2>2, Zenon DEF Traverses, a, b
      <4>2. w.rc # ERR
        BY DEF OK, ERR
      <4> QED BY <4>1, <4>2
    <3>2. w1 \in Walks /\ Went(w, w1, <<n>>) /\ w1.rc = IF n \in bad THEN ERR ELSE OK
      BY <2>2, VisitIs
    <3> HIDE DEF w1
    <3>3. Told(<<n>>, {n}, bad, w1.rc)
      BY <3>2, ToldOne
    <3>4. CASE w1.rc = ERR
      <4>1. w2 = w1 /\ w3 = w1
        BY <2>2, <1>2, <3>2, <3>4
      <4>2. {n} \cup (F[a] \cup F[b]) = F[n]
        BY <2>3
      <4>3. Told(<<n>>, F[n], bad, ERR)
        BY <3>3, <3>4, <4>2, ToldSome
      <4> QED BY <3>1, <3>2, <3>4, <4>1, <4>3 DEF Tells
    <3>5. CASE w1.rc = OK
      <4>1. PICK s : Told(s, F[a], bad, w2.rc) /\ w2 \in Walks /\ Went(w1, w2, s)
        BY <2>2, <3>2, <3>5 DEF Tells
      <4> HIDE DEF w2
      <4>2. Told(<<n>> \o s, {n} \cup F[a], bad, w2.rc)
        BY <3>3, <3>5, <4>1, ToldThen
      <4>3. s \in Seq(Elem)
        BY <2>3, <4>1, SeqMonotonic DEF Told
      <4>4. CASE w2.rc = ERR
        <5>1. w3 = w2
          BY <2>2, <1>2, <4>1, <4>4
        <5>2. Told(<<n>> \o s, F[n], bad, ERR)
          <6> DEFINE ns == <<n>> \o s
                     na == {n} \cup F[a]
          <6>1. Told(ns, na, bad, ERR)
            BY <4>2, <4>4
          <6> HIDE DEF ns, na
          <6>2. Told(ns, na \cup F[b], bad, ERR)
            BY <6>1, ToldSome
          <6>3. F[n] = na \cup F[b]
            BY <2>3 DEF na
          <6>4. Told(ns, F[n], bad, ERR)
            BY <6>2, <6>3
          <6> QED BY <6>4 DEF ns
        <5>3. Went(w, w2, <<n>> \o s)
          BY <2>4, <3>2, <4>1, <4>3, AppendedTwo
        <5> QED BY <3>1, <4>1, <4>4, <5>1, <5>2, <5>3 DEF Tells
      <4>5. CASE w2.rc = OK
        <5>1. PICK t : Told(t, F[b], bad, w3.rc) /\ w3 \in Walks /\ Went(w2, w3, t)
          BY <2>2, <4>1, <4>5 DEF Tells
        <5> HIDE DEF w3
        <5>2. t \in Seq(Elem)
          BY <2>3, <5>1, SeqMonotonic DEF Told
        <5>3. Told((<<n>> \o s) \o t, F[n], bad, w3.rc)
          BY <2>3, <4>2, <4>5, <5>1, ToldThen
        <5>4. Went(w, w3, <<n>> \o s \o t)
          BY <2>4, <3>2, <4>1, <4>3, <5>1, <5>2, Appended
        <5> QED BY <3>1, <5>1, <5>3, <5>4 DEF Tells
      <4>6. w2.rc \in {OK, ERR}
        BY <4>1 DEF Told
      <4> QED BY <4>4, <4>5, <4>6
    <3> QED BY <3>2, <3>4, <3>5
  <2> QED BY <2>1, <2>5 DEF B
<1> QED BY <1>1, <1>3 DEF NodePtr


-----------------------------------------------------------------------------
\* Any set of numbers has a least one.
LEMMA LeastNumber ==
    ASSUME NEW K \in SUBSET Nat, K # {}
    PROVE  \E k \in K : \A j \in K : k <= j
<1>1. PICK k \in K : \A j \in K : ~(<<j, k>> \in OpToRel(<, Nat))
  BY WFMin, NatLessThanWellFounded
<1>2. ASSUME NEW j \in K, j < k
      PROVE  FALSE
  <2> DEFINE e == <<j, k>>
  <2>1. e \in Nat \X Nat /\ e[1] < e[2]
    BY <1>2
  <2>2. e \in OpToRel(<, Nat)
    BY <2>1 DEF OpToRel
  <2> QED BY <1>1, <2>2
<1> QED BY <1>2

\* g is what a loop that starts with base makes in its first n iterations.
Iterates(V, base, step, g, n) ==
    /\ g \in [Nat -> V]
    /\ g[0] = base
    /\ \A k \in Nat : k < n => g[k + 1] = step[g[k]]

\* Every number of iterations can be made ...
LEMMA IteratesExist ==
    ASSUME NEW V, NEW base \in V, NEW step \in [V -> V]
    PROVE  \A n \in Nat : \E g : Iterates(V, base, step, g, n)
<1> DEFINE Has(n) == \E g : Iterates(V, base, step, g, n)
           B == {n \in Nat : ~Has(n)}
<1>1. Has(0)
  <2> DEFINE g == [k \in Nat |-> base]
  <2>1. Iterates(V, base, step, g, 0)
    BY DEF Iterates
  <2> QED BY <2>1
<1>2. ASSUME NEW n \in Nat, Has(n)
      PROVE  Has(n + 1)
  <2>1. PICK g : Iterates(V, base, step, g, n)
    BY <1>2
  <2> DEFINE h == [k \in Nat |-> IF k = n + 1 THEN step[g[n]] ELSE g[k]]
  <2>2. step[g[n]] \in V /\ g \in [Nat -> V]
    BY <2>1 DEF Iterates
  <2>3. h \in [Nat -> V] /\ h[0] = base
    BY <2>1, <2>2 DEF Iterates
  <2>4. ASSUME NEW k \in Nat, k < n + 1
        PROVE  h[k + 1] = step[h[k]]
    BY <2>1, <2>4 DEF Iterates
  <2>5. Iterates(V, base, step, h, n + 1)
    BY <2>3, <2>4 DEF Iterates
  <2> QED BY <2>5
<1>3. B = {}
  <2> SUFFICES ASSUME B # {} PROVE FALSE
    OBVIOUS
  <2> HIDE DEF Has
  <2>1. PICK n \in B : \A j \in B : n <= j
    BY LeastNumber
  <2>2. n # 0 /\ n \in Nat /\ ~Has(n)
    BY <1>1, <2>1
  <2>3. n - 1 \in Nat /\ n - 1 \notin B
    BY <2>1, <2>2
  <2>4. Has(n - 1)
    BY <2>3
  <2>5. Has((n - 1) + 1)
    BY <1>2, <2>3, <2>4
  <2>6. (n - 1) + 1 = n
    BY <2>2
  <2> QED BY <2>2, <2>5, <2>6
<1> QED BY <1>3

\* ... in one way.
LEMMA IteratesAgree ==
    ASSUME NEW V, NEW base \in V, NEW step \in [V -> V], NEW n \in Nat,
           NEW g, Iterates(V, base, step, g, n), NEW h, Iterates(V, base, step, h, n)
    PROVE  \A k \in 0..n : g[k] = h[k]
<1> DEFINE B == {k \in 0..n : g[k] # h[k]}
<1> SUFFICES ASSUME B # {} PROVE FALSE
  OBVIOUS
<1>1. B \in SUBSET Nat
  OBVIOUS
<1>2. PICK k \in B : \A j \in B : k <= j
  <2> HIDE DEF B
  <2> QED BY <1>1, LeastNumber
<1>3. k # 0 /\ k \in Nat /\ k <= n /\ g[k] # h[k]
  BY <1>2 DEF Iterates
<1>4. k - 1 \in Nat /\ k - 1 < n /\ g[k - 1] = h[k - 1]
  BY <1>2, <1>3
<1>5. g[(k - 1) + 1] = h[(k - 1) + 1]
  BY <1>4 DEF Iterates
<1> QED BY <1>3, <1>5

\* A loop defines what it has made after every number of iterations.
LEMMA LoopExists ==
    ASSUME NEW V, NEW base \in V, NEW step \in [V -> V]
    PROVE  \E g \in [Nat -> V] : g[0] = base /\ \A k \in Nat : g[k + 1] = step[g[k]]
<1> DEFINE G(n) == CHOOSE g : Iterates(V, base, step, g, n)
           f == [n \in Nat |-> G(n)[n]]
<1>1. ASSUME NEW n \in Nat
      PROVE  Iterates(V, base, step, G(n), n)
  <2>1. \E g : Iterates(V, base, step, g, n)
    BY IteratesExist
  <2> QED BY <2>1, Zenon
<1> HIDE DEF G
<1>2. f \in [Nat -> V] /\ f[0] = base
  BY <1>1 DEF Iterates
<1>3. ASSUME NEW n \in Nat
      PROVE  f[n + 1] = step[f[n]]
  <2>1. Iterates(V, base, step, G(n), n) /\ Iterates(V, base, step, G(n + 1), n + 1)
    BY <1>1
  <2>2. Iterates(V, base, step, G(n + 1), n)
    BY <2>1 DEF Iterates
  <2>3. G(n + 1)[n] = G(n)[n]
    BY <2>1, <2>2, IteratesAgree
  <2>4. G(n + 1)[n + 1] = step[G(n + 1)[n]]
    BY <2>1 DEF Iterates
  <2> QED BY <2>3, <2>4
<1> QED BY <1>2, <1>3

\* What traverse_LOT enqueues for pointer n, and what its loop keeps.
Line(n) == IF n = Null THEN <<>> ELSE <<n>>
Waves == [queue : Seq(Elem), walk : Walks]

\* T[k] is what the loop of traverse_LOT has made after k iterations.
Levels(T, bad) ==
    /\ T[0] = [queue |-> Line(tree.root), walk |-> Unwalked]
    /\ \A k \in Nat :
         /\ T[k] \in Waves
         /\ T[k].queue = <<>> \/ T[k].walk.rc = ERR => T[k + 1] = T[k]
         /\ T[k].queue # <<>> /\ T[k].walk.rc # ERR =>
              LET n == Head(T[k].queue)
              IN  /\ T[k + 1].queue = Tail(T[k].queue) \o Line(link["left"][n])
                                                       \o Line(link["right"][n])
                  /\ T[k + 1].walk = Visit(n, T[k].walk, bad)

\* The loop of traverse_LOT is defined on a tree.
LEMMA LevelOrderIs ==
    ASSUME NEW F, Forest(link, F), tree.root \in NodePtr, NEW bad
    PROVE  \E T : Levels(T, bad) /\ LevelOrder(bad) = T[Cardinality(Elem) + 1].walk
<1> DEFINE base == [queue |-> Line(tree.root), walk |-> Unwalked]
           Go(t) == IF t.queue = <<>> \/ t.walk.rc = ERR THEN t
                    ELSE [queue |-> Tail(t.queue) \o Line(link["left"][Head(t.queue)])
                                                  \o Line(link["right"][Head(t.queue)]),
                          walk |-> Visit(Head(t.queue), t.walk, bad)]
           step == [t \in Waves |-> Go(t)]
           P(g) == g = [k \in Nat |-> IF k = 0 THEN base ELSE Go(g[k - 1])]
<1>1. \A n \in NodePtr : Line(n) \in Seq(Elem)
  BY BSTreeAssumption DEF NodePtr, Line
<1>2. base \in Waves
  <2>1. Unwalked \in Walks
    BY DEF Unwalked, Walks, OK, ERR
  <2> QED BY <1>1, <2>1 DEF Waves
<1>3. ASSUME NEW t \in Waves
      PROVE  Go(t) \in Waves
  <2>1. CASE t.queue = <<>> \/ t.walk.rc = ERR
    BY <2>1
  <2>2. CASE ~(t.queue = <<>> \/ t.walk.rc = ERR)
    <3> DEFINE q == t.queue
               n == Head(q)
               x == Line(link["left"][n])
               y == Line(link["right"][n])
    <3>1. q \in Seq(Elem) /\ q # <<>> /\ t.walk \in Walks
      BY <2>2 DEF Waves
    <3> HIDE DEF q
    <3>2. n \in Elem /\ Tail(q) \in Seq(Elem)
      BY <3>1, HeadTailProperties
    <3>3. x \in Seq(Elem) /\ y \in Seq(Elem)
      BY <1>1, <3>2, LinkTypes DEF Forest
    <3>4. Visit(n, t.walk, bad) \in Walks
      BY <3>1, <3>2, VisitIs
    <3> HIDE DEF n, x, y
    <3>5. Tail(q) \o x \o y \in Seq(Elem)
      BY <3>2, <3>3, ConcatProperties
    <3>6. Go(t) = [queue |-> Tail(q) \o x \o y, walk |-> Visit(n, t.walk, bad)]
      BY <2>2 DEF q, n, x, y
    <3> QED BY <3>4, <3>5, <3>6 DEF Waves
  <2> QED BY <2>1, <2>2
<1>4. step \in [Waves -> Waves]
  <2> HIDE DEF Go
  <2> QED BY <1>3
<1>5. PICK g \in [Nat -> Waves] : g[0] = base /\ \A k \in Nat : g[k + 1] = step[g[k]]
  <2> HIDE DEF base, step
  <2> QED BY <1>2, <1>4, LoopExists
<1>6. P(g)
  <2> HIDE DEF base, Go
  <2>1. ASSUME NEW k \in Nat
        PROVE  g[k] = IF k = 0 THEN base ELSE Go(g[k - 1])
    <3>1. CASE k # 0
      <4>1. k - 1 \in Nat /\ (k - 1) + 1 = k
        BY <3>1
      <4>2. g[(k - 1) + 1] = step[g[k - 1]] /\ g[k - 1] \in Waves
        BY <1>5, <4>1
      <4> QED BY <3>1, <4>1, <4>2
    <3> QED BY <1>5, <3>1
  <2> DEFINE h == [k \in Nat |-> IF k = 0 THEN base ELSE Go(g[k - 1])]
  <2>2. \A k \in Nat : g[k] = h[k]
    BY <2>1
  <2>3. g = h
    <3>1. g = [k \in Nat |-> g[k]] /\ h = [k \in Nat |-> h[k]]
      OBVIOUS
    <3> HIDE DEF h
    <3> QED BY <2>2, <3>1
  <2> QED BY <2>3
<1>7. \E T : P(T)
  <2> HIDE DEF P
  <2> QED BY <1>6
<1> DEFINE T == CHOOSE t : P(t)
<1>8. P(T)
  <2> HIDE DEF P
  <2> QED BY <1>7, Zenon
<1>9. LevelOrder(bad) = T[Cardinality(Elem) + 1].walk
  BY Zenon DEF LevelOrder, Line
<1> HIDE DEF T
<1>10. T[0] = base /\ \A k \in Nat : T[k + 1] = Go(T[k])
  <2> HIDE DEF base, Go
  <2>1. \A k \in Nat : T[k] = IF k = 0 THEN base ELSE Go(T[k - 1])
    BY <1>8
  <2>2. ASSUME NEW k \in Nat
        PROVE  T[k + 1] = Go(T[k])
    <3>1. k + 1 \in Nat /\ k + 1 # 0 /\ (k + 1) - 1 = k
      OBVIOUS
    <3> QED BY <2>1, <3>1
  <2> QED BY <2>1, <2>2
<1>11. \A k \in Nat : T[k] \in Waves
  <2> HIDE DEF base, Go
  <2> DEFINE B == {k \in Nat : T[k] \notin Waves}
  <2>1. B = {}
    <3> SUFFICES ASSUME B # {} PROVE FALSE
      OBVIOUS
    <3>1. PICK k \in B : \A j \in B : k <= j
      BY LeastNumber
    <3>2. k # 0 /\ k \in Nat
      BY <1>2, <1>10, <3>1
    <3>3. k - 1 \in Nat /\ k - 1 \notin B /\ (k - 1) + 1 = k
      BY <3>1, <3>2
    <3> QED BY <1>3, <1>10, <3>1, <3>3
  <2> QED BY <2>1
<1>12. ASSUME NEW k \in Nat
       PROVE  /\ T[k].queue = <<>> \/ T[k].walk.rc = ERR => T[k + 1] = T[k]
              /\ T[k].queue # <<>> /\ T[k].walk.rc # ERR =>
                   LET n == Head(T[k].queue)
                   IN  /\ T[k + 1].queue = Tail(T[k].queue) \o Line(link["left"][n])
                                                            \o Line(link["right"][n])
                       /\ T[k + 1].walk = Visit(n, T[k].walk, bad)
  <2> DEFINE t == T[k]
             u == T[k + 1]
             n == Head(t.queue)
             q == Tail(t.queue) \o Line(link["left"][n]) \o Line(link["right"][n])
             v == Visit(n, t.walk, bad)
  <2>1. u = Go(t)
    BY <1>10
  <2> HIDE DEF u
  <2>2. t.queue = <<>> \/ t.walk.rc = ERR => u = t
    BY <2>1
  <2>3. ASSUME t.queue # <<>>, t.walk.rc # ERR
        PROVE  u.queue = q /\ u.walk = v
    <3>1. u = [queue |-> q, walk |-> v]
      BY <2>1, <2>3
    <3> HIDE DEF q, v
    <3> QED BY <3>1
  <2> QED BY <2>2, <2>3 DEF u
<1> QED BY <1>9, <1>10, <1>11, <1>12 DEF Levels

-----------------------------------------------------------------------------
\* The subtrees at the nodes of q are the parts of R.
Parts(q, F, R) ==
    /\ q \in Seq(Elem)
    /\ \A i \in 1..Len(q) : F[q[i]] \subseteq R
    /\ \A x \in R : \E i \in 1..Len(q) : x \in F[q[i]]
    /\ \A i, j \in 1..Len(q) : i # j => F[q[i]] \cap F[q[j]] = {}

\* Without its first node, a queue has the rest of the parts.
LEMMA PartsTail ==
    ASSUME NEW F, NEW R, NEW q, Parts(q, F, R), q # <<>>
    PROVE  /\ Head(q) \in Elem /\ F[Head(q)] \subseteq R
           /\ Parts(Tail(q), F, R \ F[Head(q)])
<1> DEFINE h == Head(q)
           t == Tail(q)
<1>1. q \in Seq(Elem) /\ Len(q) \in Nat /\ Len(q) # 0 /\ h = q[1]
  BY EmptySeq, LenProperties DEF Parts
<1>2. /\ h \in Elem /\ t \in Seq(Elem) /\ Len(t) = Len(q) - 1
      /\ \A i \in 1..Len(t) : t[i] = q[i + 1]
  BY <1>1, HeadTailProperties
<1> HIDE DEF h, t
<1>3. F[h] \subseteq R
  BY <1>1 DEF Parts
<1>4. \A i \in 1..Len(t) : i + 1 \in 1..Len(q) /\ i + 1 # 1
  BY <1>1, <1>2
<1>5. ASSUME NEW i \in 1..Len(t)
      PROVE  F[t[i]] \subseteq R \ F[h]
  <2> DEFINE k == i + 1
  <2>1. k \in 1..Len(q) /\ 1 \in 1..Len(q) /\ k # 1 /\ t[i] = q[k]
    BY <1>1, <1>2, <1>4
  <2> HIDE DEF k
  <2>2. F[q[k]] \subseteq R /\ F[q[k]] \cap F[q[1]] = {}
    BY <2>1 DEF Parts
  <2> QED BY <1>1, <2>1, <2>2
<1>6. ASSUME NEW x \in R \ F[h]
      PROVE  \E i \in 1..Len(t) : x \in F[t[i]]
  <2>1. PICK j \in 1..Len(q) : x \in F[q[j]]
    BY DEF Parts
  <2>2. j # 1
    BY <1>1, <2>1
  <2>3. j - 1 \in 1..Len(t) /\ (j - 1) + 1 = j
    BY <1>1, <1>2, <2>2
  <2>4. t[j - 1] = q[j]
    BY <1>2, <2>3
  <2> QED BY <2>1, <2>3, <2>4
<1>7. ASSUME NEW i \in 1..Len(t), NEW j \in 1..Len(t), i # j
      PROVE  F[t[i]] \cap F[t[j]] = {}
  <2>1. i + 1 # j + 1
    BY <1>2, <1>7
  <2>2. F[q[i + 1]] \cap F[q[j + 1]] = {}
    BY <1>4, <2>1 DEF Parts
  <2> QED BY <1>2, <2>2
<1> QED BY <1>2, <1>3, <1>5, <1>6, <1>7 DEF Parts, h, t

\* A queue behind a queue has the parts of both.
LEMMA PartsConcat ==
    ASSUME NEW F, NEW R, NEW U, R \cap U = {}, NEW p, NEW q, Parts(p, F, R), Parts(q, F, U)
    PROVE  Parts(p \o q, F, R \cup U)
<1> DEFINE pq == p \o q
<1>1. p \in Seq(Elem) /\ q \in Seq(Elem) /\ Elem \cup Elem = Elem
  BY DEF Parts
<1>2. /\ pq \in Seq(Elem)
      /\ Len(p) \in Nat /\ Len(q) \in Nat /\ Len(pq) = Len(p) + Len(q)
      /\ \A k \in 1..Len(p) : k \in 1..Len(pq) /\ pq[k] = p[k]
      /\ \A k \in 1..Len(q) : Len(p) + k \in 1..Len(pq) /\ pq[Len(p) + k] = q[k]
      /\ \A k \in 1..Len(pq) :
            (k \in 1..Len(p) /\ pq[k] = p[k])
            \/ (k - Len(p) \in 1..Len(q) /\ pq[k] = q[k - Len(p)])
  BY <1>1, Concat
<1> HIDE DEF pq
<1>3. ASSUME NEW k \in 1..Len(pq)
      PROVE  F[pq[k]] \subseteq R \cup U
  BY <1>2 DEF Parts
<1>4. ASSUME NEW x \in R \cup U
      PROVE  \E k \in 1..Len(pq) : x \in F[pq[k]]
  <2>1. CASE x \in R
    <3>1. PICK k \in 1..Len(p) : x \in F[p[k]]
      BY <2>1 DEF Parts
    <3> QED BY <1>2, <3>1
  <2>2. CASE x \in U
    <3>1. PICK k \in 1..Len(q) : x \in F[q[k]]
      BY <2>2 DEF Parts
    <3> QED BY <1>2, <3>1
  <2> QED BY <2>1, <2>2
<1>5. ASSUME NEW i \in 1..Len(pq), NEW j \in 1..Len(pq), i # j
      PROVE  F[pq[i]] \cap F[pq[j]] = {}
  <2>1. CASE i \in 1..Len(p) /\ j \in 1..Len(p) /\ pq[i] = p[i] /\ pq[j] = p[j]
    BY <1>5, <2>1 DEF Parts
  <2>2. CASE i \in 1..Len(p) /\ pq[i] = p[i]
             /\ j - Len(p) \in 1..Len(q) /\ pq[j] = q[j - Len(p)]
    <3>1. F[pq[i]] \subseteq R /\ F[pq[j]] \subseteq U
      BY <2>2 DEF Parts
    <3> QED BY <3>1
  <2>3. CASE j \in 1..Len(p) /\ pq[j] = p[j]
             /\ i - Len(p) \in 1..Len(q) /\ pq[i] = q[i - Len(p)]
    <3>1. F[pq[j]] \subseteq R /\ F[pq[i]] \subseteq U
      BY <2>3 DEF Parts
    <3> QED BY <3>1
  <2>4. CASE /\ i - Len(p) \in 1..Len(q) /\ pq[i] = q[i - Len(p)]
             /\ j - Len(p) \in 1..Len(q) /\ pq[j] = q[j - Len(p)]
    <3>1. i - Len(p) # j - Len(p)
      BY <1>2, <1>5
    <3>2. F[q[i - Len(p)]] \cap F[q[j - Len(p)]] = {}
      BY <2>4, <3>1 DEF Parts
    <3> QED BY <2>4, <3>2
  <2> QED BY <1>2, <2>1, <2>2, <2>3, <2>4
<1> QED BY <1>2, <1>3, <1>4, <1>5 DEF Parts, pq

\* What traverse_LOT enqueues for a pointer is the subtree there.
LEMMA PartsLine ==
    ASSUME NEW F, Forest(link, F), NEW n \in NodePtr
    PROVE  Parts(Line(n), F, F[n])
<1>1. CASE n = Null
  <2>1. Line(n) = <<>> /\ F[n] = {}
    BY <1>1 DEF Forest, Line
  <2>2. \A G : Parts(<<>>, G, {})
    BY DEF Parts
  <2> QED BY <2>1, <2>2
<1>2. CASE n # Null
  <2>1. Line(n) = <<n>> /\ n \in Elem
    BY <1>2 DEF Line, NodePtr
  <2>2. Parts(<<n>>, F, F[n])
    BY <2>1 DEF Parts
  <2> QED BY <2>1, <2>2
<1> QED BY <1>1, <1>2

\* A node is dequeued, and its children are enqueued.
LEMMA PartsServe ==
    ASSUME NEW F, NEW r, Forest(link, F), Sorted(link, F, r),
           NEW R, NEW q, Parts(q, F, R), q # <<>>
    PROVE  LET n == Head(q)
           IN  /\ n \in Elem /\ n \in R
               /\ Parts(Tail(q) \o Line(link["left"][n]) \o Line(link["right"][n]), F, R \ {n})
<1> DEFINE n == Head(q)
           t == Tail(q)
           a == link["left"][n]
           b == link["right"][n]
           x == Line(a)
           y == Line(b)
           C == R \ F[n]
<1>1. n \in Elem /\ F[n] \subseteq R /\ Parts(t, F, C)
  BY PartsTail
<1> HIDE DEF n, t
<1>2. a \in NodePtr /\ b \in NodePtr
  BY <1>1, LinkTypes DEF Forest
<1>3. Parts(x, F, F[a]) /\ Parts(y, F, F[b])
  BY <1>2, PartsLine
<1>4. F[n] = {n} \cup F[a] \cup F[b] /\ n \notin F[a] /\ n \notin F[b] /\ F[a] \cap F[b] = {}
  <2>1. F[n] = {n} \cup F[a] \cup F[b] /\ F[a] \subseteq Elem
    BY <1>1, <1>2 DEF Forest
  <2>2. r \in [Elem -> Int] /\ (\A m \in F[a] : r[m] < r[n]) /\ (\A m \in F[b] : r[m] > r[n])
    BY <1>1 DEF Sorted
  <2>3. \A m \in Elem : ~(m \in F[a] /\ m \in F[b])
    BY <1>1, <2>2
  <2>4. n \notin F[a] /\ n \notin F[b]
    BY <1>1, <2>2
  <2> QED BY <2>1, <2>3, <2>4
<1> HIDE DEF a, b, x, y
<1>5. C \cap F[a] = {} /\ (C \cup F[a]) \cap F[b] = {} /\ (C \cup F[a]) \cup F[b] = R \ {n}
  BY <1>1, <1>4
<1> HIDE DEF C
<1>6. Parts(t \o x, F, C \cup F[a])
  BY <1>1, <1>3, <1>5, PartsConcat
<1>7. Parts((t \o x) \o y, F, (C \cup F[a]) \cup F[b])
  <2> DEFINE tx == t \o x
             U == C \cup F[a]
  <2> HIDE DEF tx, U
  <2>1. U \cap F[b] = {} /\ Parts(tx, F, U)
    BY <1>5, <1>6 DEF tx, U
  <2>2. Parts(tx \o y, F, U \cup F[b])
    BY <1>3, <2>1, PartsConcat
  <2> QED BY <2>2 DEF tx, U
<1>8. Parts((t \o x) \o y, F, R \ {n})
  BY <1>5, <1>7
<1>9. n \in R
  BY <1>1, <1>4
<1> QED BY <1>1, <1>8, <1>9 DEF n, t, a, b, x, y

\* After k iterations: the callback has seen the elements D, and the subtrees at the
\* nodes of the queue are the others; or the callback has answered CERB_ERR.
Layer(t, k, F, S, bad) ==
    /\ t.walk.rc = OK =>
         \E D \in SUBSET S :
            /\ Full(t.walk.seen, D)
            /\ D \cap bad = {}
            /\ Parts(t.queue, F, S \ D)
            /\ t.queue = <<>> \/ Len(t.walk.seen) = k
    /\ t.walk.rc = ERR => Told(t.walk.seen, S, bad, ERR)

\* A sequence of elements at which the callback answers CERB_OK.
LEMMA ToldAll ==
    ASSUME NEW s, NEW D, NEW bad, Full(s, D), D \cap bad = {}
    PROVE  Told(s, D, bad, OK)
<1>1. s \in Seq(D) /\ (\A x \in D : \E k \in 1..Len(s) : s[k] = x) /\ Len(s) \in Nat
  BY LenProperties DEF Full
<1>2. \A k \in 1..Len(s) : s[k] \in D
  BY <1>1, ElementOfSeq
<1>3. \A k \in 1..(Len(s) - 1) : s[k] \notin bad
  BY <1>1, <1>2
<1> QED BY <1>1, <1>3 DEF Told, OK, ERR

\* An iteration of the loop of traverse_LOT.
LEMMA LayerStep ==
    ASSUME NEW F, NEW r, Forest(link, F), Sorted(link, F, r), NEW S \in SUBSET Elem, NEW bad,
           NEW T, Levels(T, bad), NEW k \in Nat, Layer(T[k], k, F, S, bad)
    PROVE  Layer(T[k + 1], k + 1, F, S, bad)
<1> DEFINE t == T[k]
           u == T[k + 1]
           q == t.queue
           n == Head(q)
           w == t.walk
<1>1. t \in Waves /\ u \in Waves
  <2>1. k + 1 \in Nat
    OBVIOUS
  <2> QED BY <2>1, Zenon DEF Levels
<1>2. w \in Walks /\ w.seen \in Seq(Elem) /\ w.rc \in {OK, ERR}
  BY <1>1 DEF Waves, Walks
<1>3. CASE q = <<>> \/ w.rc = ERR
  <2>1. u = t
    BY <1>3, Zenon DEF Levels
  <2>2. w.rc = OK => q = <<>>
    BY <1>3 DEF OK, ERR
  <2> HIDE DEF t, u
  <2>3. Layer(t, k, F, S, bad)
    BY DEF t
  <2>4. Layer(t, k + 1, F, S, bad)
    BY <2>2, <2>3 DEF Layer
  <2> QED BY <2>1, <2>4 DEF t, u
<1>4. CASE q # <<>> /\ w.rc # ERR
  <2> DEFINE p == Tail(q) \o Line(link["left"][n]) \o Line(link["right"][n])
             v == Visit(n, w, bad)
  <2>1. u.queue = p /\ u.walk = v
    BY <1>4, Zenon DEF Levels
  <2>2. PICK D \in SUBSET S : /\ Full(w.seen, D)
                              /\ D \cap bad = {}
                              /\ Parts(q, F, S \ D)
                              /\ q = <<>> \/ Len(w.seen) = k
    <3>1. w.rc = OK
      BY <1>2, <1>4
    <3> QED BY <3>1, Zenon DEF Layer
  <2>3. n \in Elem /\ n \in S \ D /\ Parts(p, F, (S \ D) \ {n})
    <3> DEFINE R == S \ D
    <3> HIDE DEF q, R
    <3>1. Parts(q, F, R) /\ q # <<>>
      BY <1>4, <2>2 DEF R
    <3>2. n \in Elem /\ n \in R /\ Parts(p, F, R \ {n})
      BY <3>1, PartsServe
    <3> QED BY <3>2 DEF R
  <2> HIDE DEF n, w, p, q
  <2>4. v \in Walks /\ Went(w, v, <<n>>) /\ v.rc = IF n \in bad THEN ERR ELSE OK
    BY <1>2, <2>3, VisitIs
  <2> HIDE DEF v, u
  <2> DEFINE s == w.seen \o <<n>>
  <2>5. v.seen = s
    BY <2>4 DEF Went
  <2>6. CASE n \in bad
    <3>1. v.rc = ERR
      BY <2>4, <2>6
    <3>2. Told(w.seen, D, bad, OK)
      BY <2>2, ToldAll
    <3>3. Told(<<n>>, {n}, bad, ERR)
      BY <2>6, ToldOne
    <3>4. Told(s, D \cup {n}, bad, ERR)
      BY <3>2, <3>3, ToldThen
    <3> DEFINE Dn == D \cup {n}
    <3> HIDE DEF s, Dn
    <3>5. Told(s, Dn \cup S, bad, ERR)
      BY <3>4, ToldSome DEF Dn
    <3>6. Dn \cup S = S
      BY <2>2, <2>3 DEF Dn
    <3>7. Told(s, S, bad, ERR)
      BY <3>5, <3>6
    <3>8. u.walk.rc # OK /\ u.walk.seen = s
      BY <2>1, <2>5, <3>1 DEF OK, ERR
    <3>9. Layer(u, k + 1, F, S, bad)
      BY <3>7, <3>8 DEF Layer
    <3> QED BY <3>9 DEF u
  <2>7. CASE n \notin bad
    <3>1. v.rc = OK /\ v.rc # ERR
      BY <2>4, <2>7 DEF OK, ERR
    <3>2. IsFiniteSet(D) /\ IsFiniteSet({n}) /\ D \cap {n} = {}
      BY <2>2, <2>3, FS_Subset, FS_Singleton, BSTreeAssumption
    <3>3. Full(<<n>>, {n})
      BY FullOne
    <3>4. Full(s, D \cup {n})
      BY <2>2, <3>2, <3>3, FullConcat
    <3>5. Len(w.seen) = k /\ Len(s) = k + 1
      <4>1. Len(w.seen) = k
        BY <1>4, <2>2 DEF q
      <4>2. <<n>> \in Seq(Elem) /\ Len(<<n>>) = 1
        BY <2>3
      <4> DEFINE e == <<n>>
                 z == w.seen
      <4> HIDE DEF e, z
      <4>3. Len(z \o e) = Len(z) + Len(e)
        BY <1>2, <4>2, ConcatProperties DEF e, z
      <4> QED BY <4>1, <4>2, <4>3 DEF e, z
    <3> DEFINE Dn == D \cup {n}
    <3>6. Dn \in SUBSET S /\ Dn \cap bad = {} /\ (S \ D) \ {n} = S \ Dn
      BY <2>2, <2>3, <2>7
    <3> HIDE DEF s, Dn
    <3>7. Full(s, Dn)
      BY <3>4 DEF Dn
    <3>8. Parts(p, F, S \ Dn)
      BY <2>3, <3>6
    <3>9. u.walk.rc # ERR /\ u.walk.seen = s /\ u.queue = p
      BY <2>1, <2>5, <3>1
    <3>10. Layer(u, k + 1, F, S, bad)
      <4>1. Dn \in SUBSET S /\ Full(u.walk.seen, Dn) /\ Dn \cap bad = {}
            /\ Parts(u.queue, F, S \ Dn) /\ Len(u.walk.seen) = k + 1
        BY <3>5, <3>6, <3>7, <3>8, <3>9
      <4> QED BY <3>9, <4>1 DEF Layer
    <3> QED BY <3>10 DEF u
  <2> QED BY <2>6, <2>7
<1> QED BY <1>3, <1>4

\* A traversal in level order shows the callback every element once, or all up to one
\* at which it answers CERB_ERR: the loop runs long enough.
LEMMA LevelOrderShows ==
    ASSUME NEW F, NEW r, Forest(link, F), Sorted(link, F, r), tree.root \in NodePtr, NEW bad
    PROVE  LET w == LevelOrder(bad)
               S == F[tree.root]
           IN  /\ w.rc \in {OK, ERR}
               /\ w.rc = OK => Full(w.seen, S) /\ S \cap bad = {}
               /\ w.rc = ERR => Told(w.seen, S, bad, ERR)
<1> DEFINE S == F[tree.root]
           N == Cardinality(Elem) + 1
<1>1. PICK T : Levels(T, bad) /\ LevelOrder(bad) = T[N].walk
  BY LevelOrderIs
<1>2. S \in SUBSET Elem /\ IsFiniteSet(Elem) /\ Cardinality(Elem) \in Nat /\ N \in Nat
  BY FS_CardinalityType, BSTreeAssumption DEF Forest
<1>3. Layer(T[0], 0, F, S, bad)
  <2>1. T[0].queue = Line(tree.root) /\ T[0].walk.seen = <<>> /\ T[0].walk.rc # ERR
    BY <1>1 DEF Levels, Unwalked, OK, ERR
  <2>2. Parts(Line(tree.root), F, S)
    BY PartsLine
  <2>3. Full(<<>>, {})
    BY FS_EmptySet DEF Full
  <2>4. S \ {} = S /\ {} \cap bad = {} /\ {} \in SUBSET S /\ Len(<<>>) = 0
    OBVIOUS
  <2> DEFINE D == {}
             e == <<>>
  <2> HIDE DEF D, e, S
  <2>5. Full(e, D) /\ D \cap bad = {} /\ D \in SUBSET S /\ Len(e) = 0
        /\ Parts(Line(tree.root), F, S \ D)
    BY <2>2, <2>3, <2>4 DEF D, e
  <2>6. T[0].walk.seen = e
    BY <2>1 DEF e
  <2> QED BY <2>1, <2>5, <2>6 DEF Layer
<1> HIDE DEF S
<1>4. \A k \in Nat : Layer(T[k], k, F, S, bad)
  <2> DEFINE B == {k \in Nat : ~Layer(T[k], k, F, S, bad)}
  <2> SUFFICES ASSUME B # {} PROVE FALSE
    OBVIOUS
  <2>1. PICK k \in B : \A j \in B : k <= j
    BY LeastNumber
  <2>2. k # 0 /\ k \in Nat
    BY <1>3, <2>1
  <2>3. k - 1 \in Nat /\ k - 1 \notin B /\ (k - 1) + 1 = k
    BY <2>1, <2>2
  <2>4. Layer(T[k - 1], k - 1, F, S, bad)
    BY <2>3
  <2>5. Layer(T[(k - 1) + 1], (k - 1) + 1, F, S, bad)
    BY <1>1, <1>2, <2>3, <2>4, LayerStep
  <2> QED BY <2>1, <2>3, <2>5
<1> DEFINE w == T[N].walk
<1>5. w.rc \in {OK, ERR}
  BY <1>1, <1>2 DEF Levels, Waves, Walks
<1>6. Layer(T[N], N, F, S, bad)
  BY <1>2, <1>4
<1>7. w.rc = ERR => Told(w.seen, S, bad, ERR)
  BY <1>6 DEF Layer
<1>8. ASSUME w.rc = OK
      PROVE  Full(w.seen, S) /\ S \cap bad = {}
  <2>1. PICK D \in SUBSET S : /\ Full(w.seen, D)
                              /\ D \cap bad = {}
                              /\ Parts(T[N].queue, F, S \ D)
                              /\ T[N].queue = <<>> \/ Len(w.seen) = N
    BY <1>6, <1>8, Zenon DEF Layer
  <2>2. Cardinality(D) \in Nat /\ Cardinality(D) <= Cardinality(Elem)
    BY <1>2, FS_Subset, FS_CardinalityType
  <2>3. Len(w.seen) # N
    BY <1>2, <2>1, <2>2 DEF Full
  <2>4. T[N].queue = <<>>
    BY <2>1, <2>3
  <2>5. S \ D = {}
    BY <2>1, <2>4 DEF Parts
  <2>6. D = S
    BY <2>5
  <2> QED BY <2>1, <2>6
<1> QED BY <1>1, <1>5, <1>7, <1>8 DEF S

\* No traversal has begun.
LEMMA AtStart ==
    /\ Unwalked \in Walks /\ Unwalked.rc = OK
    /\ \A v, s : s \in Seq(Elem) /\ Went(Unwalked, v, s) => v.seen = s
<1>1. Unwalked.seen = <<>> /\ Unwalked.rc = OK /\ Unwalked \in Walks
  BY DEF Unwalked, Walks, OK
<1>2. ASSUME NEW v, NEW s \in Seq(Elem), Went(Unwalked, v, s)
      PROVE  v.seen = s
  <2>1. v.seen = <<>> \o s
    BY <1>1, <1>2 DEF Went
  <2> QED BY <2>1, ConcatEmptySeq
<1> QED BY <1>1, <1>2

\* Every traversal of a tree shows a callback that always answers CERB_OK every element
\* once; in order, smallest first.
LEMMA WalkShows ==
    ASSUME Inv, ~Absent, NEW order \in Order \cup {"level"}
    PROVE  /\ Full(Walk(order, {}).seen, Present)
           /\ order = "in" => Rising(Walk(order, {}).seen, tree.compare)
<1> DEFINE F == Subtrees(link)
           r == tree.compare
           w == Walk(order, {})
<1>1. Forest(link, F) /\ Sorted(link, F, r) /\ tree.root \in NodePtr
      /\ Present = F[tree.root] /\ F[tree.root] \subseteq Elem
  BY Standing DEF Rooted
<1>2. CASE order = "level"
  <2> DEFINE bad == {}
  <2>1. w = LevelOrder(bad)
    BY <1>2 DEF Walk
  <2> HIDE DEF F, r, bad, w
  <2>2. /\ LevelOrder(bad).rc \in {OK, ERR}
        /\ LevelOrder(bad).rc = OK => Full(LevelOrder(bad).seen, F[tree.root])
        /\ LevelOrder(bad).rc = ERR => Told(LevelOrder(bad).seen, F[tree.root], bad, ERR)
    BY <1>1, LevelOrderShows
  <2>3. ~Told(LevelOrder(bad).seen, F[tree.root], bad, ERR)
    BY DEF Told, bad
  <2> QED BY <1>1, <1>2, <2>1, <2>2, <2>3 DEF w
<1>3. CASE order # "level"
  <2>1. order \in Order
    BY <1>3
  <2> DEFINE bad == {}
  <2>2. w = Recursion(order, bad)
    BY <1>3 DEF Walk
  <2> HIDE DEF F, r, w
  <2>3. PICK T : Traverses(T, order, bad) /\ Recursion(order, bad) = T[tree.root][Unwalked]
    <3> HIDE DEF bad
    <3> QED BY <1>1, <2>1, RecursionIs
  <2>4. Shows(T, tree.root, Unwalked, F[tree.root], order, r)
    BY <1>1, <2>1, <2>3, AtStart, ShowsEverything
  <2> HIDE DEF bad
  <2>5. PICK s : /\ Full(s, F[tree.root])
                 /\ order = "in" => Rising(s, r)
                 /\ Went(Unwalked, T[tree.root][Unwalked], s)
    BY <2>4 DEF Shows
  <2>6. s \in Seq(Elem)
    BY <1>1, <2>5, SeqMonotonic DEF Full
  <2>7. w.seen = s
    BY <2>2, <2>3, <2>5, <2>6, AtStart
  <2> QED BY <1>1, <2>5, <2>7 DEF w, r, bad
<1> QED BY <1>2, <1>3

\* A callback within the contract is not called again after it has answered CERB_ERR.
LEMMA WalkTold ==
    ASSUME Inv, ~Absent, NEW order \in {"pre", "level"}, NEW bad
    PROVE  Told(Walk(order, bad).seen, Present, bad, Walk(order, bad).rc)
<1> DEFINE F == Subtrees(link)
           r == tree.compare
           w == Walk(order, bad)
<1>1. Forest(link, F) /\ Sorted(link, F, r) /\ tree.root \in NodePtr
      /\ Present = F[tree.root] /\ F[tree.root] \subseteq Elem
  BY Standing DEF Rooted
<1>2. CASE order = "level"
  <2>1. w = LevelOrder(bad)
    BY <1>2 DEF Walk
  <2> HIDE DEF F, r, w
  <2>2. /\ w.rc \in {OK, ERR}
        /\ w.rc = OK => Full(w.seen, F[tree.root]) /\ F[tree.root] \cap bad = {}
        /\ w.rc = ERR => Told(w.seen, F[tree.root], bad, ERR)
    BY <1>1, <2>1, LevelOrderShows
  <2>3. w.rc = OK => Told(w.seen, F[tree.root], bad, OK)
    BY <2>2, ToldAll
  <2> QED BY <1>1, <2>2, <2>3 DEF w
<1>3. CASE order = "pre"
  <2>1. w = Recursion(order, bad) /\ order \in Order
    BY <1>3 DEF Walk, Order
  <2> HIDE DEF F, r, w
  <2>2. PICK T : Traverses(T, order, bad) /\ Recursion(order, bad) = T[tree.root][Unwalked]
    BY <1>1, <2>1, RecursionIs
  <2>3. Tells(T, tree.root, Unwalked, F[tree.root], bad)
    <3>1. Traverses(T, "pre", bad)
      BY <1>3, <2>2
    <3> QED BY <1>1, <3>1, AtStart, TellsUntilTold
  <2>4. PICK s : /\ Told(s, F[tree.root], bad, T[tree.root][Unwalked].rc)
                 /\ Went(Unwalked, T[tree.root][Unwalked], s)
    BY <2>3 DEF Tells
  <2>5. s \in Seq(Elem)
    BY <1>1, <2>4, SeqMonotonic DEF Told
  <2>6. w.seen = s /\ w.rc = T[tree.root][Unwalked].rc
    BY <2>1, <2>2, <2>4, <2>5, AtStart
  <2> QED BY <1>1, <2>4, <2>6 DEF w
<1> QED BY <1>2, <1>3

\* In every state between calls, a traversal of the tree gives the callback every element
\* exactly once, in order smallest first (BS_tree_traverse).
THEOREM Traversal == Contract => (Spec => []WalksEverything)
<1>1. Inv => WalksEverything
  <2> SUFFICES ASSUME Inv, ~Absent, NEW order \in Order \cup {"level"}
               PROVE  LET s == Walk(order, {}).seen
                      IN  /\ {s[k] : k \in DOMAIN s} = Present
                          /\ Len(s) = tree.length
                          /\ order = "in" => \A k \in 1..(Len(s) - 1) :
                                                Rank(s[k]) < Rank(s[k + 1])
    BY DEF WalksEverything
  <2> DEFINE s == Walk(order, {}).seen
  <2>1. Full(s, Present) /\ (order = "in" => Rising(s, tree.compare))
    BY WalkShows
  <2> HIDE DEF s
  <2>2. s \in Seq(Present) /\ Len(s) \in Nat /\ DOMAIN s = 1..Len(s)
    BY <2>1, LenProperties DEF Full
  <2>3. \A k \in 1..Len(s) : s[k] \in Present
    BY <2>2, ElementOfSeq
  <2>4. {s[k] : k \in DOMAIN s} = Present
    BY <2>1, <2>2, <2>3 DEF Full
  <2>5. Len(s) = tree.length
    BY <2>1 DEF Full, Inv, Healthy
  <2>6. ASSUME order = "in", NEW k \in 1..(Len(s) - 1)
        PROVE  Rank(s[k]) < Rank(s[k + 1])
    <3>1. k \in 1..Len(s) /\ k + 1 \in 1..Len(s) /\ k < k + 1
      BY <2>2
    <3> QED BY <2>1, <2>6, <3>1 DEF Rising, Rank
  <2> QED BY <2>4, <2>5, <2>6 DEF s
<1> QED BY <1>1, Invariance, PTL

\* In every state between calls, a traversal the contract lets the callback stop ends with
\* the first CERB_ERR, and returns it.
THEOREM Stopping ==
    Contract /\ "stop_late" \notin Beyond => (Spec => []StopsWhenTold)
<1> SUFFICES ASSUME Contract, "stop_late" \notin Beyond
             PROVE  Spec => []StopsWhenTold
  OBVIOUS
<1>1. Inv => StopsWhenTold
  <2> SUFFICES ASSUME Inv, ~Absent,
                      NEW order \in Stoppable, NEW bad \in SUBSET Present
               PROVE  LET w == Walk(order, bad)
                      IN  /\ \A k \in 1..(Len(w.seen) - 1) : w.seen[k] \notin bad
                          /\ w.rc = ERR <=> bad # {}
    BY DEF StopsWhenTold
  <2> DEFINE w == Walk(order, bad)
  <2>1. order \in {"pre", "level"}
    BY DEF Stoppable
  <2>2. Told(w.seen, Present, bad, w.rc)
    BY <2>1, WalkTold
  <2> HIDE DEF w
  <2>3. w.rc = OK => bad = {}
    BY <2>2 DEF Told
  <2>4. w.rc = ERR => bad # {}
    BY <2>2 DEF Told
  <2>5. w.rc \in {OK, ERR} /\ \A k \in 1..(Len(w.seen) - 1) : w.seen[k] \notin bad
    BY <2>2 DEF Told
  <2> QED BY <2>3, <2>4, <2>5 DEF w, OK, ERR
<1> QED BY <1>1, Invariance, PTL

-----------------------------------------------------------------------------
(***************************************************************************)
(* The loops end.                                                          *)
(***************************************************************************)

\* There is less below a child than below its parent.
LEMMA ChildNarrows ==
    ASSUME Inv, ~Absent, NEW n \in Elem, NEW s \in Sides
    PROVE  Below(link[s][n]) \subseteq Below(n) /\ Below(link[s][n]) # Below(n)
<1>1. Forest(link, Subtrees(link)) /\ Sorted(link, Subtrees(link), tree.compare)
  BY Standing
<1>2. n \notin Below(link[s][n])
  BY <1>1, Smaller DEF Below
<1>3. Below(link[s][n]) \subseteq Below(n) /\ n \in Below(n)
  BY <1>1 DEF Below, Forest, Sides
<1> QED BY <1>2, <1>3

\* An iteration of a search.
LEMMA DescendNarrows ==
    ASSUME Inv, Descend
    PROVE  Narrows(cur)
<1>1. ~Absent /\ cur \in Elem
  BY Standing DEF Descend, Searching, Inv, Aimed
<1>2. Side \in Sides
  BY DEF Side, Sides
<1>3. Below(link[Side][cur]) \subseteq Below(cur) /\ Below(link[Side][cur]) # Below(cur)
  BY <1>1, <1>2, ChildNarrows
<1>4. Below(cur)' = Below(link[Side][cur])
  BY DEF Descend, Below
<1> QED BY <1>3, <1>4 DEF Narrows

\* An iteration of BS_tree_find_replacement.
LEMMA SeekNarrows ==
    ASSUME Inv, SeekReplacement
    PROVE  Narrows(rep)
<1>1. ~Absent /\ rep \in Elem
  BY DEF SeekReplacement, Replacing, Inv, TypeOK, NodePtr
<1>2. Toward \in Sides
  BY DEF Toward, Sides
<1>3. Below(link[Toward][rep]) \subseteq Below(rep) /\ Below(link[Toward][rep]) # Below(rep)
  BY <1>1, <1>2, ChildNarrows
<1>4. Below(rep)' = Below(link[Toward][rep])
  BY DEF SeekReplacement, Below
<1> QED BY <1>3, <1>4 DEF Narrows

\* Every iteration of the while (1) loops of insert, search and delete, and of the search
\* for a replacement, leaves strictly fewer nodes below it: none of them runs forever.
THEOREM LoopsNarrow == Contract => (Spec => LoopsDescend)
<1> SUFFICES ASSUME Contract PROVE Spec => LoopsDescend
  OBVIOUS
<1> DEFINE Step == pc' = pc => /\ pc \in {"insert", "search", "delete"} => Narrows(cur)
                               /\ pc \in {"max", "min"} => Narrows(rep)
<1>1. Inv /\ [Next]_vars => [Step]_vars
  <2> SUFFICES ASSUME Inv, Next, pc' = pc, pc # "idle"
               PROVE  /\ pc \in {"insert", "search", "delete"} => Narrows(cur)
                      /\ pc \in {"max", "min"} => Narrows(rep)
    OBVIOUS
  <2>1. Descend \/ SeekReplacement
    <3>1. ~Ready
      BY DEF Ready
    <3>2. ~Missing /\ ~Change
      BY DEF Missing, Change, Remove, Answer, Return
    <3>3. ~Found
      BY DEF Found, Searching, Answer, Return
    <3> QED BY <3>1, <3>2, <3>3 DEF Next, Create, Insert, Search, Delete, Traverse, Destroy
  <2>2. CASE Descend
    BY <2>2, DescendNarrows DEF Descend, Searching
  <2>3. CASE SeekReplacement
    BY <2>3, SeekNarrows DEF SeekReplacement, Replacing
  <2> QED BY <2>1, <2>2, <2>3
<1> QED BY <1>1, Invariance, PTL DEF Spec, LoopsDescend
=============================================================================
