---------------------------- MODULE ListsProofs ----------------------------
(***************************************************************************)
(* Proofs about the two linked lists, for any elements, pointers, compare  *)
(* callbacks and UINT32_MAX, within the contract.                          *)
(*                                                                         *)
(* The invariant Inv: there are sequences S, without a common element,     *)
(* along which next leads onward and prev back, or a reversal has turned   *)
(* round the beginning of one of them; the structs have their ends and     *)
(* lengths; nodes are their elements.  TypeOK, Linked and Ownership follow *)
(* from it, but none of them says where the fields lead.                   *)
(*                                                                         *)
(* Every call of both libraries is one of a few moves (EnterMove,          *)
(* LeaveMove, JoinMove, TearMove, CreateMove, DestroyMove, TurnMove,       *)
(* TurnedMove, QuietMove): a change of S, the stores that follow it, and   *)
(* the step of ListADT that it is.  What is left to say of a call is which *)
(* position it finds and that it reads allocated nodes only.               *)
(***************************************************************************)
EXTENDS Lists, ListNodesProofs
-----------------------------------------------------------------------------
\* What holds between the steps when list l holds the elements S[l].
Shape(S) ==
    /\ Family(List, S)
    /\ \A l \in List : IF Present(l) THEN list[l].count = Len(S[l]) ELSE S[l] = <<>>
    /\ nodes = {p \in Elem : In(List, S, p)}
    /\ held \cap nodes = {} /\ held \cap freed = {} /\ nodes \cap freed = {}
    /\ held \cup nodes \cup freed = Elem

\* The links: no reversal is running, ...
Still(S) ==
    /\ rev = Null
    /\ Onward(next, List, S)
    /\ \A l \in List : Present(l) => list[l].first = First(S[l])

\* ... or one has turned the first r elements of its list round, ...
Turning(S) ==
    /\ rev # Null /\ kind = "singly"
    /\ Present(rev.list)
    /\ \E r \in 1..(Len(S[rev.list]) - 1) :
         /\ rev.first = S[rev.list][r]
         /\ rev.second = S[rev.list][r + 1]
         /\ rev.third = After(S[rev.list], r + 1)
         /\ Turns(next, List, S, rev.list, r)
    /\ \A l \in List : Present(l) /\ l # rev.list => list[l].first = First(S[l])

\* ... and the links back.
Twofold(S) ==
    kind = "doubly" =>
        /\ rev = Null
        /\ Back(prev, List, S)
        /\ \A l \in List : Present(l) => list[l].last = End(S[l])

State(S) ==
    /\ TypeOK
    /\ ~fault
    /\ Shape(S)
    /\ Still(S) \/ Turning(S)
    /\ Twofold(S)

Inv == \E S \in [List -> Seq(Elem)] : State(S)

\* The contract.
Contract == Beyond = {}

StructOf == IF kind = "singly" THEN Singly!Struct ELSE Doubly!Struct

\* The structs after a step, when the lists then hold T.
Fitting(T) ==
    /\ list' \in [List -> {Null} \cup StructOf]
    /\ \A l \in List : IF list'[l] = Null THEN T[l] = <<>>
                       ELSE /\ list'[l].count = Len(T[l])
                            /\ list'[l].first = First(T[l])
                            /\ kind = "doubly" => list'[l].last = End(T[l])

\* The client's side of a step: x are the elements it gives, y those it gets back,
\* z those that are freed.
Books(x, y, z) ==
    /\ nodes' = (nodes \cup x) \ (y \cup z)
    /\ held' = (held \ x) \cup y
    /\ freed' = freed \cup z

\* The links after a step.
LinkedUp(T) ==
    /\ Onward(next', List, T)
    /\ IF kind = "doubly" THEN Back(prev', List, T) ELSE prev' = prev

\* A step that links up sequences T and keeps the books ends in order.
LEMMA Rebuilt ==
    ASSUME NEW S, State(S), NEW T, Family(List, T), Fitting(T), LinkedUp(T),
           NEW x \in SUBSET held, NEW y \in SUBSET nodes, NEW z \in SUBSET nodes, y \cap z = {},
           Books(x, y, z),
           \A p \in Elem : In(List, T, p) <=> (In(List, S, p) \/ p \in x) /\ p \notin y /\ p \notin z,
           ret' \in {OK, ERR, Null} \cup Elem, fault' = FALSE, rev' = Null, kind' = kind
    PROVE  State(T)'
<1>1. TypeOK /\ Shape(S) /\ Twofold(S)
  BY DEF State
<1>2. TypeOK'
  <2>1. list' \in [List -> {Null} \cup IF kind' = "singly" THEN Singly!Struct ELSE Doubly!Struct]
    BY DEF Fitting, StructOf
  <2>2. next' \in [Ptr -> Ptr]
    BY DEF LinkedUp, Onward
  <2>3. prev' \in [Ptr -> Ptr]
    BY <1>1 DEF LinkedUp, Back, TypeOK
  <2>4. nodes' \subseteq Elem /\ held' \subseteq Elem /\ freed' \subseteq Elem
    BY <1>1 DEF Books, TypeOK
  <2>5. fault' \in BOOLEAN
    BY <1>1 DEF TypeOK
  <2> QED BY <2>1, <2>2, <2>3, <2>4, <2>5, <1>1 DEF TypeOK
<1>3. Shape(T)'
  <2>1. \A l \in List : IF Present(l)' THEN list'[l].count = Len(T[l]) ELSE T[l] = <<>>
    BY DEF Fitting, Present
  <2>2. nodes' = {p \in Elem : In(List, T, p)}
    BY <1>1 DEF Shape, Books, TypeOK
  <2>3. held' \cap nodes' = {} /\ held' \cap freed' = {} /\ nodes' \cap freed' = {}
    BY <1>1 DEF Shape, Books
  <2>4. held' \cup nodes' \cup freed' = Elem
    BY <1>1 DEF Shape, Books
  <2> QED BY <2>1, <2>2, <2>3, <2>4 DEF Shape
<1>4. Still(T)'
  BY DEF Still, Fitting, LinkedUp, Present
<1>5. Twofold(T)'
  BY DEF Twofold, Fitting, LinkedUp, Present
<1> QED BY <1>2, <1>3, <1>4, <1>5 DEF State

\* One struct has changed.
Relisted(l, a, b, n) ==
    /\ list' \in [List -> {Null} \cup StructOf]
    /\ list'[l] # Null
    /\ list'[l].first = a
    /\ list'[l].count = n
    /\ kind = "doubly" => list'[l].last = b
    /\ list'[l].compare = list[l].compare
    /\ \A m \in List : m # l => list'[m] = list[m]

\* The fields of a struct.
LEMMA StructIs ==
    ASSUME TypeOK, NEW l \in List, Present(l)
    PROVE  /\ list[l].first \in Ptr /\ list[l].compare \in Compare
           /\ list[l].count \in Nat /\ list[l].count <= MaxU32
           /\ kind = "singly" =>
                list[l] = [first |-> list[l].first, compare |-> list[l].compare, count |-> list[l].count]
           /\ kind = "doubly" =>
                /\ list[l].last \in Ptr
                /\ list[l] = [first |-> list[l].first, last |-> list[l].last,
                              compare |-> list[l].compare, count |-> list[l].count]
<1>0. MaxU32 \in Nat
  BY ListAssumption
<1>1. list[l] # Null /\ list[l] \in {Null} \cup IF kind = "singly" THEN Singly!Struct ELSE Doubly!Struct
  BY DEF TypeOK, Present
<1>2. kind \in {"singly", "doubly"}
  BY DEF TypeOK
<1>3. CASE kind = "singly"
  <2>1. list[l] \in Singly!Struct
    BY <1>1, <1>3
  <2> QED BY <2>1, <1>0, <1>3 DEF Singly!Struct, Singly!Ptr, Ptr
<1>4. CASE kind = "doubly"
  <2>1. list[l] \in Doubly!Struct
    BY <1>1, <1>4
  <2> QED BY <2>1, <1>0, <1>4 DEF Doubly!Struct, Doubly!Ptr, Ptr
<1> QED BY <1>2, <1>3, <1>4

\* A store to the struct of one singly linked list ...
LEMMA SinglyRelists ==
    ASSUME TypeOK, kind = "singly", NEW l \in List, Present(l), NEW a \in Ptr,
           NEW n \in Nat, n <= MaxU32,
           list' = [list EXCEPT ![l] = [first |-> a, compare |-> list[l].compare, count |-> n]]
    PROVE  Relisted(l, a, Null, n)
<1> DEFINE r == [first |-> a, compare |-> list[l].compare, count |-> n]
<1>1. r \in Singly!Struct
  <2>1. n \in 0..MaxU32
    BY ListAssumption
  <2>2. list[l].compare \in Compare
    BY StructIs
  <2> QED BY <2>1, <2>2 DEF Singly!Struct, Singly!Ptr, Ptr
<1>2. r # Null
  BY <1>1, ListAssumption DEF Singly!Struct, Singly!Ptr
<1>3. list \in [List -> {Null} \cup StructOf] /\ r \in StructOf
  BY <1>1 DEF TypeOK, StructOf
<1>4. r.first = a /\ r.count = n /\ r.compare = list[l].compare
  OBVIOUS
<1>5. list' = [list EXCEPT ![l] = r]
  OBVIOUS
<1> HIDE DEF r
<1>6. list' \in [List -> {Null} \cup StructOf] /\ list'[l] = r
      /\ \A m \in List : m # l => list'[m] = list[m]
  BY <1>3, <1>5
<1> QED BY <1>2, <1>4, <1>6 DEF Relisted

\* ... or of a doubly linked one.
LEMMA DoublyRelists ==
    ASSUME TypeOK, kind = "doubly", NEW l \in List, Present(l), NEW a \in Ptr, NEW b \in Ptr,
           NEW n \in Nat, n <= MaxU32,
           list' = [list EXCEPT ![l] = [first |-> a, last |-> b, compare |-> list[l].compare,
                                        count |-> n]]
    PROVE  Relisted(l, a, b, n)
<1> DEFINE r == [first |-> a, last |-> b, compare |-> list[l].compare, count |-> n]
<1>1. r \in Doubly!Struct
  <2>1. n \in 0..MaxU32
    BY ListAssumption
  <2>2. list[l].compare \in Compare
    BY StructIs
  <2> QED BY <2>1, <2>2 DEF Doubly!Struct, Doubly!Ptr, Ptr
<1>2. r # Null
  BY <1>1, ListAssumption DEF Doubly!Struct, Doubly!Ptr
<1>3. list \in [List -> {Null} \cup StructOf] /\ r \in StructOf
  BY <1>1 DEF TypeOK, StructOf
<1>4. r.first = a /\ r.last = b /\ r.count = n /\ r.compare = list[l].compare
  OBVIOUS
<1>5. list' = [list EXCEPT ![l] = r]
  OBVIOUS
<1> HIDE DEF r
<1>6. list' \in [List -> {Null} \cup StructOf] /\ list'[l] = r
      /\ \A m \in List : m # l => list'[m] = list[m]
  BY <1>3, <1>5
<1> QED BY <1>2, <1>4, <1>6 DEF Relisted

\* If one struct changes with its sequence, the structs fit.
LEMMA RelistedFits ==
    ASSUME NEW S, State(S), Still(S), NEW l \in List, NEW T, NEW a, NEW b, NEW n,
           Relisted(l, a, b, n), a = First(T[l]), b = End(T[l]) \/ kind # "doubly", n = Len(T[l]),
           \A m \in List : m # l => T[m] = S[m]
    PROVE  Fitting(T)
<1>1. \A m \in List : IF list[m] = Null THEN S[m] = <<>>
                      ELSE /\ list[m].count = Len(S[m])
                           /\ list[m].first = First(S[m])
                           /\ kind = "doubly" => list[m].last = End(S[m])
  BY DEF State, Shape, Still, Twofold, Present
<1> QED BY <1>1 DEF Fitting, Relisted

\* The loops see the sequences.
LEMMA SeesSequences ==
    ASSUME NEW S, State(S), Still(S), NEW l \in List
    PROVE  /\ Contents(l) = S[l] /\ S[l] \in Seq(Elem) /\ Len(S[l]) \in Nat
           /\ Members(l) = {S[l][i] : i \in 1..Len(S[l])}
           /\ Size(l) = Len(S[l])
           /\ \A i \in 1..Len(S[l]) : S[l][i] \in nodes /\ S[l][i] \in Elem /\ S[l][i] # Null
<1>1. Family(List, S) /\ Onward(next, List, S)
  BY DEF State, Shape, Still
<1>2. S[l] \in Seq(Elem)
  BY <1>1 DEF Family
<1>3. Walk(next, First(S[l])) = S[l]
  BY <1>1, WalkIs
<1>4. IF Present(l) THEN list[l].first = First(S[l]) /\ list[l].count = Len(S[l])
      ELSE S[l] = <<>>
  BY DEF State, Shape, Still
<1>5. Contents(l) = S[l]
  BY <1>3, <1>4 DEF Contents
<1>6. Range(S[l]) = {S[l][i] : i \in 1..Len(S[l])} /\ Len(<<>>) = 0
  BY <1>2 DEF Range
<1>7. Members(l) = {S[l][i] : i \in 1..Len(S[l])}
  <2>1. CASE Present(l)
    BY <2>1, <1>3, <1>4, <1>6 DEF Members, Visited
  <2>2. CASE ~Present(l)
    BY <2>2, <1>4, <1>6 DEF Members
  <2> QED BY <2>1, <2>2
<1>8. ASSUME NEW i \in 1..Len(S[l])
      PROVE  S[l][i] \in nodes /\ S[l][i] \in Elem /\ S[l][i] # Null
  <2>1. S[l][i] \in Elem /\ In(List, S, S[l][i])
    BY <1>2 DEF In
  <2> QED BY <2>1, Pointers DEF State, Shape
<1> QED BY <1>2, <1>4, <1>5, <1>7, <1>8 DEF Size

\* What the search loops find.
LEMMA MatchIs ==
    ASSUME NEW S, State(S), Still(S), NEW l \in List, NEW c, NEW key, NEW from \in Nat \ {0}
    PROVE  \/ MatchBy(c, l, key, from) = 0
           \/ /\ MatchBy(c, l, key, from) \in from..Len(S[l])
              /\ MatchBy(c, l, key, from) \in 1..Len(S[l])
              /\ c[S[l][MatchBy(c, l, key, from)]] = c[key]
<1> DEFINE hits == {i \in from..Len(Contents(l)) : c[Contents(l)[i]] = c[key]}
           m == MatchBy(c, l, key, from)
<1>1. Contents(l) = S[l] /\ Len(S[l]) \in Nat
  BY SeesSequences
<1>2. CASE hits = {}
  BY <1>2 DEF MatchBy
<1>3. CASE hits # {}
  <2>1. m = Min(hits)
    BY <1>3 DEF MatchBy
  <2>2. hits \in SUBSET Nat
    BY <1>1
  <2>3. PICK k \in hits : \A j \in hits : k <= j
    BY <1>3, <2>2, Least
  <2>4. m \in hits
    BY <2>1, <2>3 DEF Min
  <2>5. m \in from..Len(S[l]) /\ c[S[l][m]] = c[key]
    BY <1>1, <2>4
  <2> HIDE DEF m
  <2> QED BY <2>5, <1>1 DEF m
<1> QED BY <1>2, <1>3

\* The node at a position, and the nodes read on the way.
LEMMA NthIs ==
    ASSUME NEW S, State(S), Still(S), NEW l \in List, NEW i \in 0..Len(S[l])
    PROVE  /\ Nth(l, i) = IF i = 0 THEN Null ELSE S[l][i]
           /\ Passed(l, i) \subseteq nodes
<1>1. /\ Contents(l) = S[l] /\ Len(S[l]) \in Nat
      /\ \A j \in 1..Len(S[l]) : S[l][j] \in nodes
  BY SeesSequences
<1>2. ASSUME NEW j \in 1..(IF i = 0 THEN Len(S[l]) ELSE i)
      PROVE  S[l][j] \in nodes
  <2>1. j \in 1..Len(S[l])
    BY <1>1
  <2> QED BY <1>1, <2>1
<1> QED BY <1>1, <1>2 DEF Nth, Passed

\* The operators of ListNodes are the same in both modules.

\* Those of SinglyLinked: the loops, ...
LEMMA SinglyWalk ==
    ASSUME NEW f, NEW p
    PROVE  Singly!Walk(f, p) = Walk(f, p)
<1>1. Singly!Cardinality(Elem) = Cardinality(Elem)
  BY Zenon DEF Cardinality, Singly!Cardinality
<1> QED BY <1>1, Zenon DEF Singly!Walk, Walk, Singly!Ptr, Ptr

\* ... what they read, ...
LEMMA SinglyLoops ==
    ASSUME NEW l
    PROVE  /\ Singly!Contents(l) = Contents(l)
           /\ Singly!Members(l) = Members(l)
           /\ Singly!Size(l) = Size(l)
           /\ Singly!Present(l) = Present(l)
<1>1. Singly!Present(l) = Present(l)
  BY Zenon DEF Singly!Present, Present
<1>2. Singly!Contents(l) = Contents(l)
  BY <1>1, SinglyWalk, Zenon DEF Singly!Contents, Contents
<1>3. Singly!Members(l) = Members(l)
  BY <1>1, SinglyWalk, Zenon DEF Singly!Members, Members, Singly!Visited, Visited, Singly!Range, Range
<1>4. Singly!Size(l) = Size(l)
  BY <1>1, Zenon DEF Singly!Size, Size
<1> QED BY <1>1, <1>2, <1>3, <1>4

\* ... the searches, ...
LEMMA SinglyMatch ==
    ASSUME NEW l, NEW c, NEW key, NEW from
    PROVE  /\ Singly!MatchBy(c, l, key, from) = MatchBy(c, l, key, from)
           /\ Singly!Match(l, key, from) = Match(l, key, from)
           /\ Singly!InList(l, key) = InList(l, key)
<1> DEFINE hits(d, x, n) == {i \in n..Len(Contents(l)) : d[Contents(l)[i]] = d[x]}
<1>0. Singly!Contents(l) = Contents(l)
  BY SinglyLoops
<1>1. ASSUME NEW d, NEW x, NEW n
      PROVE  Singly!MatchBy(d, l, x, n) = IF hits(d, x, n) = {} THEN 0 ELSE Min(hits(d, x, n))
  <2> DEFINE H == {i \in n..Len(Singly!Contents(l)) : d[Singly!Contents(l)[i]] = d[x]}
  <2>1. H = hits(d, x, n)
    BY <1>0
  <2>2. \A K : Singly!Min(K) = Min(K)
    BY Zenon DEF Singly!Min, Min
  <2>3. Singly!MatchBy(d, l, x, n) = IF H = {} THEN 0 ELSE Singly!Min(H)
    BY Zenon DEF Singly!MatchBy
  <2> HIDE DEF H, hits
  <2> QED BY <2>1, <2>2, <2>3, Zenon
<1>2. \A d, x, n : MatchBy(d, l, x, n) = IF hits(d, x, n) = {} THEN 0 ELSE Min(hits(d, x, n))
  BY Zenon DEF MatchBy
<1> HIDE DEF hits
<1>3. \A d, x, n : Singly!MatchBy(d, l, x, n) = MatchBy(d, l, x, n)
  BY <1>1, <1>2, Zenon
<1>4. \A x, n : Singly!Match(l, x, n) = Match(l, x, n)
  BY <1>3, Zenon DEF Singly!Match, Match
<1>5. \A i : Singly!Nth(l, i) = Nth(l, i)
  BY SinglyLoops, Zenon DEF Singly!Nth, Nth
<1>6. Singly!InList(l, key) = InList(l, key)
  BY <1>4, <1>5, Zenon DEF Singly!InList, InList
<1> QED BY <1>3, <1>4, <1>6

\* ... and the nodes they have read.
LEMMA SinglyPassed ==
    ASSUME NEW l, NEW i
    PROVE  Singly!Passed(l, i) = Passed(l, i) /\ Singly!Nth(l, i) = Nth(l, i)
<1>1. Singly!Nth(l, i) = Nth(l, i)
  BY SinglyLoops, Zenon DEF Singly!Nth, Nth
<1>2. Singly!Passed(l, i) = Passed(l, i)
  <2>1. Singly!Contents(l) = Contents(l)
    BY SinglyLoops
  <2> QED BY <2>1 DEF Singly!Passed, Passed
<1> QED BY <1>1, <1>2

\* Those of DoublyLinked: the loops, ...
LEMMA DoublyWalk ==
    ASSUME NEW f, NEW p
    PROVE  Doubly!Walk(f, p) = Walk(f, p)
<1>1. Doubly!Cardinality(Elem) = Cardinality(Elem)
  BY Zenon DEF Cardinality, Doubly!Cardinality
<1> QED BY <1>1, Zenon DEF Doubly!Walk, Walk, Doubly!Ptr, Ptr

\* ... what they read, ...
LEMMA DoublyLoops ==
    ASSUME NEW l
    PROVE  /\ Doubly!Contents(l) = Contents(l)
           /\ Doubly!Members(l) = Members(l)
           /\ Doubly!Size(l) = Size(l)
           /\ Doubly!Present(l) = Present(l)
<1>1. Doubly!Present(l) = Present(l)
  BY Zenon DEF Doubly!Present, Present
<1>2. Doubly!Contents(l) = Contents(l)
  BY <1>1, DoublyWalk, Zenon DEF Doubly!Contents, Contents
<1>3. Doubly!Members(l) = Members(l)
  BY <1>1, DoublyWalk, Zenon DEF Doubly!Members, Members, Doubly!Visited, Visited, Doubly!Range, Range
<1>4. Doubly!Size(l) = Size(l)
  BY <1>1, Zenon DEF Doubly!Size, Size
<1> QED BY <1>1, <1>2, <1>3, <1>4

\* ... the searches, ...
LEMMA DoublyMatch ==
    ASSUME NEW l, NEW c, NEW key, NEW from
    PROVE  /\ Doubly!MatchBy(c, l, key, from) = MatchBy(c, l, key, from)
           /\ Doubly!Match(l, key, from) = Match(l, key, from)
           /\ Doubly!InList(l, key) = InList(l, key)
<1> DEFINE hits(d, x, n) == {i \in n..Len(Contents(l)) : d[Contents(l)[i]] = d[x]}
<1>0. Doubly!Contents(l) = Contents(l)
  BY DoublyLoops
<1>1. ASSUME NEW d, NEW x, NEW n
      PROVE  Doubly!MatchBy(d, l, x, n) = IF hits(d, x, n) = {} THEN 0 ELSE Min(hits(d, x, n))
  <2> DEFINE H == {i \in n..Len(Doubly!Contents(l)) : d[Doubly!Contents(l)[i]] = d[x]}
  <2>1. H = hits(d, x, n)
    BY <1>0
  <2>2. \A K : Doubly!Min(K) = Min(K)
    BY Zenon DEF Doubly!Min, Min
  <2>3. Doubly!MatchBy(d, l, x, n) = IF H = {} THEN 0 ELSE Doubly!Min(H)
    BY Zenon DEF Doubly!MatchBy
  <2> HIDE DEF H, hits
  <2> QED BY <2>1, <2>2, <2>3, Zenon
<1>2. \A d, x, n : MatchBy(d, l, x, n) = IF hits(d, x, n) = {} THEN 0 ELSE Min(hits(d, x, n))
  BY Zenon DEF MatchBy
<1> HIDE DEF hits
<1>3. \A d, x, n : Doubly!MatchBy(d, l, x, n) = MatchBy(d, l, x, n)
  BY <1>1, <1>2, Zenon
<1>4. \A x, n : Doubly!Match(l, x, n) = Match(l, x, n)
  BY <1>3, Zenon DEF Doubly!Match, Match
<1>5. \A i : Doubly!Nth(l, i) = Nth(l, i)
  BY DoublyLoops, Zenon DEF Doubly!Nth, Nth
<1>6. Doubly!InList(l, key) = InList(l, key)
  BY <1>4, <1>5, Zenon DEF Doubly!InList, InList
<1> QED BY <1>3, <1>4, <1>6

\* ... and the nodes they have read.
LEMMA DoublyPassed ==
    ASSUME NEW l, NEW i
    PROVE  Doubly!Passed(l, i) = Passed(l, i) /\ Doubly!Nth(l, i) = Nth(l, i)
<1>1. Doubly!Nth(l, i) = Nth(l, i)
  BY DoublyLoops, Zenon DEF Doubly!Nth, Nth
<1>2. Doubly!Passed(l, i) = Passed(l, i)
  <2>1. Doubly!Contents(l) = Contents(l)
    BY DoublyLoops
  <2> QED BY <2>1 DEF Doubly!Passed, Passed
<1> QED BY <1>1, <1>2

\* Next, what the properties read.
Shown(S) ==
    [l \in List |-> IF Present(l) THEN [items |-> S[l], compare |-> list[l].compare] ELSE Null]

\* Sequence is what the list holds, in the middle of a reversal too.
LEMMA SequenceIs ==
    ASSUME NEW S, State(S), NEW l \in List
    PROVE  Sequence(l) = S[l]
<1>1. Family(List, S) /\ Null \notin List /\ S[l] \in Seq(Elem)
  BY ListAssumption DEF State, Shape, Family
<1>2. CASE Still(S)
  <2>1. rev = Null
    BY <1>2 DEF Still
  <2>2. Sequence(l) = Contents(l)
    BY <2>1 DEF Sequence
  <2> QED BY <2>2, <1>2, SeesSequences
<1>3. CASE Turning(S)
  <2> DEFINE k == rev.list
             s == S[k]
  <2>1. rev # Null /\ k \in List
    <3>1. rev \in Singly!Reversal
      BY <1>3 DEF Turning, State, TypeOK
    <3> QED BY <3>1, <1>3 DEF Singly!Reversal, Turning
  <2>2. PICK r \in 1..(Len(s) - 1) :
           /\ rev.first = s[r] /\ rev.second = s[r + 1]
           /\ Turns(next, List, S, k, r)
    BY <1>3 DEF Turning
  <2> DEFINE J == List \cup {Null}
             G == Halves(List, S, k, r)
  <2>3. s \in Seq(Elem) /\ Len(s) \in Nat /\ r \in Nat /\ 1 <= r /\ r < Len(s)
        /\ \A i \in 1..Len(s) : s[i] \in Elem
    BY <1>1, <2>1, <2>2 DEF Family
  <2>4. Family(J, G) /\ Onward(next, J, G)
    BY <1>1, <2>1, <2>2, HalvesOnward
  <2>5. \A m \in J : Walk(next, First(G[m])) = G[m]
    BY <2>4, WalkIs
  <2>6. /\ G[Null] = [i \in 1..r |-> s[r - i + 1]]
        /\ G[k] = [i \in 1..(Len(s) - r) |-> s[r + i]]
        /\ \A m \in List : m # k => G[m] = S[m]
    BY <1>1, <2>1 DEF Halves
  <2> HIDE DEF G, k, s
  <2>7. CASE l = k
    <3> DEFINE u == G[Null]
               v == G[k]
               w == Reverse(u) \o v
    <3>1. u \in Seq(Elem) /\ v \in Seq(Elem)
      BY <2>1, <2>4 DEF Family, J
    <3>2. Len(u) = r /\ \A i \in 1..r : u[i] = s[r - i + 1]
      <4>1. u = [i \in 1..r |-> s[r - i + 1]]
        BY <2>6
      <4> HIDE DEF u
      <4> QED BY <4>1, <2>3, <3>1
    <3>3. Len(v) = Len(s) - r /\ \A i \in 1..(Len(s) - r) : v[i] = s[r + i]
      <4>1. v = [i \in 1..(Len(s) - r) |-> s[r + i]] /\ Len(s) - r \in Nat
        BY <2>3, <2>6
      <4> HIDE DEF v
      <4> QED BY <4>1, <3>1
    <3> HIDE DEF u, v
    <3>4. First(u) = rev.first /\ First(v) = rev.second
      <4>1. 1 \in 1..r /\ 1 \in 1..(Len(s) - r) /\ r - 1 + 1 = r /\ r # 0 /\ Len(s) - r # 0
        BY <2>3
      <4> QED BY <4>1, <3>2, <3>3, <2>2 DEF First
    <3>5. Walk(next, rev.first) = u /\ Walk(next, rev.second) = v
      <4>1. Null \in J /\ k \in J
        BY <2>1
      <4> QED BY <4>1, <2>5, <3>4 DEF u, v
    <3>6. Sequence(l) = w
      BY <2>1, <2>7, <3>5 DEF Sequence, k
    <3>7. Reverse(u) \in Seq(Elem) /\ Len(Reverse(u)) = r
          /\ \A i \in 1..r : Reverse(u)[i] = u[r - i + 1]
      BY <3>1, <3>2, ReverseIs
    <3>8. /\ w \in Seq(Elem) /\ Len(w) = r + (Len(s) - r)
          /\ \A i \in 1..(r + (Len(s) - r)) : w[i] = IF i <= r THEN Reverse(u)[i] ELSE v[i - r]
      <4> DEFINE x == Reverse(u)
      <4>1. x \in Seq(Elem) /\ Len(x) = r /\ Len(v) = Len(s) - r
        BY <3>3, <3>7
      <4> HIDE DEF x
      <4>2. /\ x \o v \in Seq(Elem) /\ Len(x \o v) = Len(x) + Len(v)
            /\ \A i \in 1..(Len(x) + Len(v)) :
                 (x \o v)[i] = IF i <= Len(x) THEN x[i] ELSE v[i - Len(x)]
        BY <3>1, <4>1, GlueIs
      <4> QED BY <4>1, <4>2 DEF x
    <3> HIDE DEF w
    <3>9. Len(w) = Len(s)
      BY <2>3, <3>8
    <3>10. ASSUME NEW i \in 1..Len(s)
           PROVE  w[i] = s[i]
      <4>1. i \in Nat /\ i \in 1..(r + (Len(s) - r))
        BY <2>3
      <4>2. CASE i <= r
        <5>1. i \in 1..r /\ r - i + 1 \in 1..r /\ r - (r - i + 1) + 1 = i
          BY <2>3, <4>1, <4>2
        <5> QED BY <3>2, <3>7, <3>8, <4>1, <4>2, <5>1
      <4>3. CASE ~(i <= r)
        <5>1. i - r \in 1..(Len(s) - r) /\ r + (i - r) = i
          BY <2>3, <4>1, <4>3
        <5> QED BY <3>3, <3>8, <4>1, <4>3, <5>1
      <4> QED BY <4>2, <4>3
    <3>11. w = s
      <4>1. w = [i \in 1..Len(w) |-> w[i]] /\ s = [i \in 1..Len(s) |-> s[i]]
        BY <2>3, <3>8
      <4> QED BY <4>1, <3>9, <3>10
    <3> QED BY <2>7, <3>6, <3>11 DEF s
  <2>8. CASE l # k
    <3>1. Sequence(l) = Contents(l)
      BY <2>8 DEF Sequence, k
    <3>2. G[l] = S[l] /\ Walk(next, First(S[l])) = S[l]
      <4>1. G[l] = S[l] /\ l \in J
        BY <2>6, <2>8
      <4> QED BY <4>1, <2>5
    <3>3. CASE Present(l)
      <4>1. list[l].first = First(S[l])
        BY <1>3, <2>8, <3>3 DEF Turning, k
      <4> QED BY <3>1, <3>2, <3>3, <4>1 DEF Contents
    <3>4. CASE ~Present(l)
      BY <3>1, <3>4 DEF Contents, State, Shape
    <3> QED BY <3>3, <3>4
  <2> QED BY <2>7, <2>8
<1> QED BY <1>2, <1>3 DEF State

View ==
    [l \in List |->
       IF Present(l) THEN [items |-> Sequence(l), compare |-> list[l].compare] ELSE Null]

\* What ListADT is shown.
LEMMA ViewIs ==
    ASSUME NEW S
    PROVE  State(S) => View = Shown(S)
<1>1. SUFFICES ASSUME State(S)
               PROVE  View = Shown(S)
  OBVIOUS
<1>2. \A l \in List : Sequence(l) = S[l]
  BY <1>1, SequenceIs
<1> QED BY <1>2 DEF View, Shown

\* The same after a step.
LEMMA ViewNext ==
    ASSUME NEW S
    PROVE  (State(S) => View = Shown(S))'
<1>1. State(S) => View = Shown(S)
  BY ViewIs
<1> QED BY <1>1, PTL

-----------------------------------------------------------------------------
(***************************************************************************)
(* What the calls do: a few moves, each of which keeps the state in order  *)
(* and is a step of ListADT.                                               *)
(***************************************************************************)
Item(s, c) == [items |-> s, compare |-> c]

\* One sequence of it, ...
LEMMA ShownIs ==
    ASSUME NEW S, State(S), NEW l \in List
    PROVE  /\ View[l] = IF Present(l) THEN Item(S[l], list[l].compare) ELSE Null
           /\ Present(l) => Item(S[l], list[l].compare) # Null /\ list[l].compare \in Compare
           /\ View = [m \in List |-> View[m]]
<1>1. View = Shown(S)
  BY ViewIs
<1>2. View[l] = IF Present(l) THEN Item(S[l], list[l].compare) ELSE Null
  BY <1>1 DEF Shown, Item
<1>3. View = [m \in List |-> View[m]]
  BY DEF View
<1>4. ASSUME Present(l)
      PROVE  Item(S[l], list[l].compare) # Null /\ list[l].compare \in Compare
  <2>1. list[l].compare \in Compare
    BY <1>4, StructIs DEF State
  <2>2. S[l] \in Seq(Elem)
    BY DEF State, Shape, Family
  <2>3. Item(S[l], list[l].compare) \in [items : Seq(Elem), compare : Compare]
    BY <2>1, <2>2 DEF Item
  <2> QED BY <2>1, <2>3, ListAssumption
<1> QED BY <1>2, <1>3, <1>4

\* ... and one after a step.
LEMMA ShownNext ==
    ASSUME NEW T, State(T)', NEW l \in List
    PROVE  /\ View'[l] = IF list'[l] # Null THEN Item(T[l], list'[l].compare) ELSE Null
           /\ View' = [m \in List |-> View'[m]]
<1>1. View' = Shown(T)'
  BY ViewNext
<1>2. Shown(T)' = [m \in List |-> IF list'[m] # Null
                                  THEN [items |-> T[m], compare |-> list'[m].compare] ELSE Null]
  BY DEF Shown, Present
<1> QED BY <1>1, <1>2 DEF Item

\* A step in which only the struct of l, and its sequence, differ.
LEMMA ViewOfOne ==
    ASSUME NEW S, State(S), NEW T, State(T)', NEW l \in List, Present(l),
           \A m \in List : m # l => T[m] = S[m],
           NEW a, NEW b, NEW n, Relisted(l, a, b, n)
    PROVE  View' = [View EXCEPT ![l].items = T[l]] /\ View[l] # Null /\ View[l].items = S[l]
<1>1. \A m \in List : View[m] = IF Present(m) THEN Item(S[m], list[m].compare) ELSE Null
  BY ShownIs
<1>2. \A m \in List : View'[m] = IF list'[m] # Null THEN Item(T[m], list'[m].compare) ELSE Null
  BY ShownNext
<1>3. View = [m \in List |-> View[m]] /\ View' = [m \in List |-> View'[m]]
  BY ShownIs, ShownNext
<1>4. View[l] = Item(S[l], list[l].compare) /\ View[l] # Null
  BY <1>1, ShownIs
<1>5. View'[l] = Item(T[l], list[l].compare)
  BY <1>2 DEF Relisted
<1>6. [View[l] EXCEPT !.items = T[l]] = Item(T[l], list[l].compare)
  BY <1>4 DEF Item
<1>7. \A m \in List : m # l => View'[m] = View[m]
  BY <1>1, <1>2 DEF Relisted, Present
<1>8. View' = [View EXCEPT ![l] = [View[l] EXCEPT !.items = T[l]]]
  BY <1>3, <1>5, <1>6, <1>7
<1> QED BY <1>4, <1>8 DEF Item

\* The steps that succeed.
Goes == (\E T \in [List -> Seq(Elem)] : State(T)') /\ [Abstract!Next]_(Abstract!vars)

\* How a step is shown to go.
LEMMA GoesBy ==
    ASSUME NEW T, State(T)', Abstract!Next
    PROVE  Goes
<1>1. T \in [List -> Seq(Elem)]
  BY DEF State, Shape, Family
<1> QED BY <1>1 DEF Goes

\* Nothing but ret changes.
LEMMA QuietMove ==
    ASSUME NEW S, State(S), UNCHANGED <<list, next, prev, nodes, held, freed, rev, kind>>,
           fault' = FALSE,
           ret' \in {ERR, Null} \/ ret' = ret
             \/ \E l \in List : Present(l) /\ \E i \in 1..Len(S[l]) : ret' = S[l][i]
    PROVE  Goes
<1>1. S \in [List -> Seq(Elem)] /\ ret \in {OK, ERR, Null} \cup Elem
  BY DEF State, Shape, Family, TypeOK
<1>2. ret' \in {OK, ERR, Null} \cup Elem
  BY <1>1
<1>3. State(S)'
  <2>1. TypeOK'
    BY <1>2 DEF State, TypeOK
  <2>2. Shape(S)'
    BY DEF State, Shape, Present
  <2>3. (Still(S) \/ Turning(S))'
    BY DEF State, Still, Turning, Present
  <2>4. Twofold(S)'
    BY DEF State, Twofold, Present
  <2> QED BY <2>1, <2>2, <2>3, <2>4 DEF State
<1>4. View' = View
  <2>1. View = Shown(S) /\ View' = Shown(S)'
    BY <1>3, ViewIs, ViewNext
  <2>2. Shown(S)' = Shown(S)
    BY DEF Shown, Present
  <2> QED BY <2>1, <2>2
<1>5. CASE ret' = ret
  BY <1>1, <1>3, <1>4, <1>5 DEF Goes, Abstract!vars, View
<1>6. CASE ret' \in {ERR, Null}
  <2>1. Abstract!Refused
    BY <1>4, <1>6 DEF Abstract!Refused, Abstract!ERR, ERR, View
  <2> QED BY <1>3, <2>1, GoesBy DEF Abstract!Next
<1>7. CASE \E l \in List : Present(l) /\ \E i \in 1..Len(S[l]) : ret' = S[l][i]
  <2>1. PICK l \in List : Present(l) /\ \E i \in 1..Len(S[l]) : ret' = S[l][i]
    BY <1>7
  <2>2. View[l] # Null /\ View[l].items = S[l]
    <3>1. View[l] = Item(S[l], list[l].compare) /\ Item(S[l], list[l].compare) # Null
      BY <2>1, ShownIs
    <3> QED BY <3>1 DEF Item
  <2>3. ret' \in {S[l][i] : i \in DOMAIN S[l]}
    BY <1>1, <2>1
  <2>4. Abstract!Search(l)
    BY <1>4, <2>2, <2>3 DEF Abstract!Search, Abstract!Items, View, Abstract!ToSet
  <2>5. l \in Abstract!Live
    BY <2>2 DEF Abstract!Live, View
  <2> QED BY <1>3, <2>4, <2>5, GoesBy DEF Abstract!Next
<1> QED BY <1>5, <1>6, <1>7

\* What list l holds is a sequence.
LEMMA LensIs ==
    ASSUME NEW S, State(S), NEW l \in List
    PROVE  S[l] \in Seq(Elem) /\ Len(S[l]) \in Nat
BY DEF State, Shape, Family

\* The last k-th element of s, when x comes in or one goes.
LEMMA EnterEnds ==
    ASSUME NEW s \in Seq(Elem), NEW k \in 1..(Len(s) + 1), NEW x \in Elem
    PROVE  /\ First(InsertAt(s, k, x)) = IF k = 1 THEN x ELSE First(s)
           /\ End(InsertAt(s, k, x)) = IF k = Len(s) + 1 THEN x ELSE End(s)
<1> DEFINE t == InsertAt(s, k, x)
<1>1. k \in Nat /\ Len(s) \in Nat /\ 1 <= k /\ k <= Len(s) + 1
  OBVIOUS
<1>2. /\ Len(t) = Len(s) + 1
      /\ \A i \in 1..(Len(s) + 1) : t[i] = IF i < k THEN s[i] ELSE IF i = k THEN x ELSE s[i - 1]
  BY InsertAtIs
<1> HIDE DEF t
<1>3. 1 \in 1..(Len(s) + 1) /\ Len(s) + 1 \in 1..(Len(s) + 1) /\ Len(s) + 1 # 0 /\ (Len(s) + 1) - 1 = Len(s)
      /\ (k # 1 => 1 < k /\ Len(s) # 0) /\ (k # Len(s) + 1 => ~(Len(s) + 1 < k) /\ Len(s) # 0)
  BY <1>1
<1>4. t[1] = IF k = 1 THEN x ELSE s[1]
  BY <1>2, <1>3
<1>5. t[Len(s) + 1] = IF k = Len(s) + 1 THEN x ELSE s[Len(s)]
  BY <1>1, <1>2, <1>3
<1> QED BY <1>2, <1>3, <1>4, <1>5 DEF First, End, t

\* Its ends, when element k goes.
LEMMA LeaveEnds ==
    ASSUME NEW s \in Seq(Elem), NEW k \in 1..Len(s)
    PROVE  /\ First(RemoveAt(s, k)) = IF k = 1 THEN After(s, 1) ELSE First(s)
           /\ End(RemoveAt(s, k)) = IF k = Len(s) THEN Before(s, k) ELSE End(s)
<1> DEFINE t == RemoveAt(s, k)
           n == Len(s)
<1>1. k \in Nat /\ n \in Nat /\ 1 <= k /\ k <= n
  OBVIOUS
<1>2. /\ Len(t) = n - 1
      /\ \A i \in 1..(n - 1) : t[i] = IF i < k THEN s[i] ELSE s[i + 1]
  BY RemoveAtIs
<1> HIDE DEF t
<1>3. CASE n = 1
  <2>1. k = 1 /\ Len(t) = 0
    BY <1>1, <1>2, <1>3
  <2> QED BY <2>1, <1>3 DEF First, End, After, Before, t
<1>4. CASE n # 1
  <2>1. 1 \in 1..(n - 1) /\ n - 1 \in 1..(n - 1) /\ n - 1 # 0 /\ n # 0 /\ (n - 1) + 1 = n /\ 1 < n
        /\ (k # 1 => 1 < k) /\ (k = n => n - 1 < k /\ 1 < k)
        /\ (k # n => k <= n - 1)
    <3> HIDE DEF n
    <3> QED BY <1>1, <1>4
  <2>2. t[1] = IF k = 1 THEN s[2] ELSE s[1]
    BY <1>1, <1>2, <2>1
  <2>3. t[n - 1] = IF k = n THEN s[n - 1] ELSE s[n]
    <3>1. t[n - 1] = IF n - 1 < k THEN s[n - 1] ELSE s[(n - 1) + 1]
      BY <1>2, <2>1
    <3>2. n - 1 < k <=> k = n
      <4> HIDE DEF n
      <4> QED BY <1>1
    <3> QED BY <2>1, <3>1, <3>2
  <2>4. First(t) = IF k = 1 THEN After(s, 1) ELSE First(s)
    BY <1>2, <2>1, <2>2 DEF First, After
  <2>5. End(t) = IF k = n THEN Before(s, k) ELSE End(s)
    BY <1>2, <2>1, <2>3 DEF End, Before
  <2> QED BY <2>4, <2>5 DEF t
<1> QED BY <1>3, <1>4

\* A node for x comes in as number k of list l.
LEMMA EnterMove ==
    ASSUME NEW S, State(S), Still(S), NEW l \in List, Present(l),
           NEW k \in 1..(Len(S[l]) + 1), NEW x \in held, NEW b,
           kind = "doubly" => b = IF k = Len(S[l]) + 1 THEN x ELSE list[l].last,
           Relisted(l, IF k = 1 THEN x ELSE list[l].first, b, Len(S[l]) + 1),
           \/ next' = Put(Put(next, Before(S[l], k), x), x, At(S[l], k))
           \/ next' = Put(Put(next, x, At(S[l], k)), Before(S[l], k), x),
           IF kind = "doubly" THEN prev' = Put(Put(prev, At(S[l], k), x), x, Before(S[l], k))
           ELSE prev' = prev,
           nodes' = nodes \cup {x}, held' = held \ {x}, freed' = freed, ret' = OK,
           fault' = FALSE, rev' = Null, kind' = kind
    PROVE  Goes
<1> DEFINE s == S[l]
           t == InsertAt(s, k, x)
           T == [S EXCEPT ![l] = t]
<1>1. S \in [List -> Seq(Elem)] /\ s \in Seq(Elem) /\ x \in Elem /\ Family(List, S)
      /\ held \subseteq Elem
  BY DEF State, Shape, Family, TypeOK
<1>2. t \in Seq(Elem) /\ Len(t) = Len(s) + 1
      /\ \A i \in 1..(Len(s) + 1) : t[i] = IF i < k THEN s[i] ELSE IF i = k THEN x ELSE s[i - 1]
  BY <1>1, InsertAtIs
<1>3. /\ First(t) = IF k = 1 THEN x ELSE First(s)
      /\ End(t) = IF k = Len(s) + 1 THEN x ELSE End(s)
  BY <1>1, EnterEnds
<1> HIDE DEF t
<1>4. T \in [List -> Seq(Elem)] /\ T[l] = t /\ \A m \in List : m # l => T[m] = S[m]
  BY <1>1, <1>2
<1> HIDE DEF T
<1>5. Entered(List, S, T, l, k, x)
  BY <1>2, <1>4 DEF Entered
<1>6. ~In(List, S, x)
  BY <1>1 DEF State, Shape
<1>7. Family(List, T) /\ \A p : In(List, T, p) <=> In(List, S, p) \/ p = x
  BY <1>1, <1>5, <1>6, Enters
<1>8. list[l].first = First(s) /\ (kind = "doubly" => list[l].last = End(s))
  BY DEF State, Still, Twofold
<1>9. Fitting(T)
  <2> DEFINE a == IF k = 1 THEN x ELSE list[l].first
  <2>1. a = First(T[l]) /\ (b = End(T[l]) \/ kind # "doubly") /\ Len(S[l]) + 1 = Len(T[l])
    BY <1>2, <1>3, <1>4, <1>8
  <2>2. Relisted(l, a, b, Len(S[l]) + 1)
    OBVIOUS
  <2> HIDE DEF a
  <2> QED BY <2>1, <2>2, <1>4, RelistedFits
<1>10. LinkedUp(T)
  <2>1. Onward(next', List, T)
    <3>1. Onward(next, List, S)
      BY DEF Still
    <3> QED BY <1>1, <1>5, <1>6, <3>1, PlaceNext
  <2>2. ASSUME kind = "doubly"
        PROVE  Back(prev', List, T)
    <3>1. Back(prev, List, S)
      BY <2>2 DEF State, Twofold
    <3> QED BY <1>1, <1>5, <1>6, <2>2, <3>1, PlacePrev
  <2> QED BY <2>1, <2>2 DEF LinkedUp
<1>11. State(T)'
  <2>1. Books({x}, {}, {})
    BY <1>1 DEF Books
  <2>2. \A p \in Elem : In(List, T, p) <=> (In(List, S, p) \/ p \in {x}) /\ p \notin {} /\ p \notin {}
    BY <1>7
  <2>3. {x} \in SUBSET held /\ {} \in SUBSET nodes /\ {} \cap {} = {}
        /\ ret' \in {OK, ERR, Null} \cup Elem
    OBVIOUS
  <2>4. Family(List, T)
    BY <1>7
  <2> QED BY <2>1, <2>2, <2>3, <2>4, <1>9, <1>10, Rebuilt
<1>12. View' = [View EXCEPT ![l].items = t] /\ View[l] # Null /\ View[l].items = s
  BY <1>4, <1>11, ViewOfOne
<1>13. Abstract!Insert(l, x)
  BY <1>12 DEF Abstract!Insert, Abstract!Items, View, t, InsertAt, Abstract!InsertAt, OK, Abstract!OK
<1>14. l \in Abstract!Live
  BY <1>12 DEF Abstract!Live, View
<1> QED BY <1>11, <1>13, <1>14, GoesBy DEF Abstract!Next

\* Node number k of list l goes.
LEMMA LeaveMove ==
    ASSUME NEW S, State(S), Still(S), NEW l \in List, Present(l), NEW k \in 1..Len(S[l]), NEW b,
           kind = "doubly" => b = IF k = Len(S[l]) THEN Before(S[l], k) ELSE list[l].last,
           Relisted(l, IF k = 1 THEN After(S[l], 1) ELSE list[l].first, b, Len(S[l]) - 1),
           next' = Forget(Put(next, Before(S[l], k), After(S[l], k)), {S[l][k]}),
           IF kind = "doubly"
             THEN prev' = Forget(Put(prev, After(S[l], k), Before(S[l], k)), {S[l][k]})
             ELSE prev' = prev,
           nodes' = nodes \ {S[l][k]}, held' = held \cup {S[l][k]}, freed' = freed,
           ret' = S[l][k], fault' = FALSE, rev' = Null, kind' = kind
    PROVE  Goes
<1> DEFINE s == S[l]
           x == s[k]
           t == RemoveAt(s, k)
           T == [S EXCEPT ![l] = t]
<1>1. S \in [List -> Seq(Elem)] /\ s \in Seq(Elem) /\ x \in Elem /\ Family(List, S)
      /\ x \in nodes /\ held \cap nodes = {}
  <2>1. S \in [List -> Seq(Elem)] /\ s \in Seq(Elem) /\ x \in Elem /\ Family(List, S)
    BY DEF State, Shape, Family
  <2> QED BY <2>1, SeesSequences DEF State, Shape
<1>2. t \in Seq(Elem) /\ Len(t) = Len(s) - 1
      /\ \A i \in 1..(Len(s) - 1) : t[i] = IF i < k THEN s[i] ELSE s[i + 1]
  BY <1>1, RemoveAtIs
<1>3. /\ First(t) = IF k = 1 THEN After(s, 1) ELSE First(s)
      /\ End(t) = IF k = Len(s) THEN Before(s, k) ELSE End(s)
  BY <1>1, LeaveEnds
<1> HIDE DEF t
<1>4. T \in [List -> Seq(Elem)] /\ T[l] = t /\ \A m \in List : m # l => T[m] = S[m]
  BY <1>1, <1>2
<1> HIDE DEF T
<1>5. k \in Nat /\ Len(s) \in Nat /\ k - k + 1 = 1 /\ k \in k..Len(s)
  BY <1>1
<1>6. Parted(List, S, T, l, k, k)
  BY <1>2, <1>4, <1>5 DEF Parted
<1>7. Part(s, k, k) = {x}
  <2>1. \A i \in k..k : i = k
    BY <1>5
  <2> QED BY <2>1, <1>5 DEF Part
<1>8. Family(List, T) /\ \A p : In(List, T, p) <=> In(List, S, p) /\ p \notin {x}
  BY <1>1, <1>5, <1>6, <1>7, Parts
<1>9. list[l].first = First(s) /\ (kind = "doubly" => list[l].last = End(s))
  BY DEF State, Still, Twofold
<1>10. Fitting(T)
  <2> DEFINE a == IF k = 1 THEN After(s, 1) ELSE list[l].first
  <2>1. a = First(T[l]) /\ (b = End(T[l]) \/ kind # "doubly") /\ Len(S[l]) - 1 = Len(T[l])
    BY <1>2, <1>3, <1>4, <1>9
  <2>2. Relisted(l, a, b, Len(S[l]) - 1)
    OBVIOUS
  <2> HIDE DEF a
  <2> QED BY <2>1, <2>2, <1>4, RelistedFits
<1>11. LinkedUp(T)
  <2>1. Onward(next', List, T)
    <3>1. Onward(next, List, S)
      BY DEF Still
    <3> QED BY <1>1, <1>6, <3>1, CutNext
  <2>2. ASSUME kind = "doubly"
        PROVE  Back(prev', List, T)
    <3>1. Back(prev, List, S)
      BY <2>2 DEF State, Twofold
    <3> QED BY <1>1, <1>6, <2>2, <3>1, CutPrev
  <2> QED BY <2>1, <2>2 DEF LinkedUp
<1>12. State(T)'
  <2>1. Books({}, {x}, {})
    BY <1>1 DEF Books
  <2>2. \A p \in Elem : In(List, T, p) <=> (In(List, S, p) \/ p \in {}) /\ p \notin {x} /\ p \notin {}
    BY <1>8
  <2>3. {x} \in SUBSET nodes /\ {} \in SUBSET held /\ {} \in SUBSET nodes /\ {x} \cap {} = {}
        /\ ret' \in {OK, ERR, Null} \cup Elem
    BY <1>1
  <2>4. Family(List, T)
    BY <1>8
  <2> QED BY <2>1, <2>2, <2>3, <2>4, <1>10, <1>11, Rebuilt
<1>13. View' = [View EXCEPT ![l].items = t] /\ View[l] # Null /\ View[l].items = s
  BY <1>4, <1>12, ViewOfOne
<1>14. Abstract!TakeOut(l)
  <2>1. k \in DOMAIN s /\ s[k] = x
    BY <1>1
  <2> HIDE DEF s
  <2> QED BY <1>13, <2>1 DEF Abstract!TakeOut, Abstract!Items, View, t, RemoveAt, Abstract!RemoveAt, s
<1>15. l \in Abstract!Live
  BY <1>13 DEF Abstract!Live, View
<1> QED BY <1>12, <1>14, <1>15, GoesBy DEF Abstract!Next

\* List m is appended to l.
LEMMA JoinMove ==
    ASSUME NEW S, State(S), Still(S), NEW l \in List, NEW m \in List, l # m,
           Present(l), Present(m), Len(S[l]) # 0, Len(S[m]) # 0,
           list[l].compare = list[m].compare,
           list' \in [List -> {Null} \cup StructOf], list'[l] # Null, list'[m] = Null,
           list'[l].first = list[l].first, list'[l].count = Len(S[l]) + Len(S[m]),
           kind = "doubly" => list'[l].last = list[m].last,
           list'[l].compare = list[l].compare,
           \A o \in List : o # l /\ o # m => list'[o] = list[o],
           next' = Put(next, S[l][Len(S[l])], S[m][1]),
           IF kind = "doubly" THEN prev' = Put(prev, S[m][1], S[l][Len(S[l])])
           ELSE prev' = prev,
           nodes' = nodes, held' = held, freed' = freed, ret' = OK,
           fault' = FALSE, rev' = Null, kind' = kind
    PROVE  Goes
<1> DEFINE s == S[l]
           u == S[m]
           t == s \o u
           T == [[S EXCEPT ![l] = t] EXCEPT ![m] = <<>>]
<1>1. S \in [List -> Seq(Elem)] /\ s \in Seq(Elem) /\ u \in Seq(Elem) /\ Family(List, S)
      /\ Len(s) \in Nat /\ Len(u) \in Nat
  BY DEF State, Shape, Family
<1>2. t \in Seq(Elem) /\ Len(t) = Len(s) + Len(u)
      /\ \A i \in 1..(Len(s) + Len(u)) : t[i] = IF i <= Len(s) THEN s[i] ELSE u[i - Len(s)]
  <2> HIDE DEF s, u
  <2> QED BY <1>1, GlueIs
<1> HIDE DEF t
<1>4. T \in [List -> Seq(Elem)] /\ T[l] = t /\ T[m] = <<>>
      /\ \A o \in List : o # l /\ o # m => T[o] = S[o]
  <2>1. <<>> \in Seq(Elem)
    OBVIOUS
  <2> QED BY <1>1, <1>2, <2>1
<1> HIDE DEF T
<1>5. Joined(List, S, T, l, m)
  BY <1>2, <1>4 DEF Joined
<1>6. Family(List, T) /\ \A p : In(List, T, p) <=> In(List, S, p)
  BY <1>1, <1>5, Joins
<1>7. First(t) = First(s) /\ End(t) = End(u)
  <2>1. 1 \in 1..(Len(s) + Len(u)) /\ 1 <= Len(s) /\ Len(s) + Len(u) \in 1..(Len(s) + Len(u))
        /\ ~(Len(s) + Len(u) <= Len(s)) /\ (Len(s) + Len(u)) - Len(s) = Len(u) /\ Len(s) + Len(u) # 0
    BY <1>1
  <2>2. t[1] = s[1] /\ t[Len(s) + Len(u)] = u[Len(u)]
    BY <1>2, <2>1
  <2> QED BY <1>2, <2>1, <2>2 DEF First, End
<1>8. \A o \in List : IF Present(o)
                      THEN /\ list[o].count = Len(S[o]) /\ list[o].first = First(S[o])
                           /\ kind = "doubly" => list[o].last = End(S[o])
                      ELSE S[o] = <<>>
  BY DEF State, Shape, Still, Twofold
<1>9. Fitting(T)
  <2>1. ASSUME NEW o \in List
        PROVE  IF list'[o] = Null THEN T[o] = <<>>
               ELSE /\ list'[o].count = Len(T[o])
                    /\ list'[o].first = First(T[o])
                    /\ kind = "doubly" => list'[o].last = End(T[o])
    <3>1. CASE o = l
      BY <3>1, <1>2, <1>4, <1>7, <1>8
    <3>2. CASE o = m
      BY <3>2, <1>4
    <3>3. CASE o # l /\ o # m
      BY <3>3, <1>4, <1>8 DEF Present
    <3> QED BY <3>1, <3>2, <3>3
  <2> QED BY <2>1 DEF Fitting
<1>10. LinkedUp(T)
  <2>1. Onward(next', List, T)
    <3>1. Onward(next, List, S)
      BY DEF Still
    <3> QED BY <1>1, <1>5, <3>1, JoinNext
  <2>2. ASSUME kind = "doubly"
        PROVE  Back(prev', List, T)
    <3>1. Back(prev, List, S)
      BY <2>2 DEF State, Twofold
    <3> QED BY <1>1, <1>5, <2>2, <3>1, JoinPrev
  <2> QED BY <2>1, <2>2 DEF LinkedUp
<1>11. State(T)'
  <2>1. Books({}, {}, {})
    BY DEF Books
  <2>2. \A p \in Elem : In(List, T, p) <=> (In(List, S, p) \/ p \in {}) /\ p \notin {} /\ p \notin {}
    BY <1>6
  <2>3. {} \in SUBSET held /\ {} \in SUBSET nodes /\ {} \cap {} = {}
        /\ ret' \in {OK, ERR, Null} \cup Elem
    OBVIOUS
  <2>4. Family(List, T)
    BY <1>6
  <2> QED BY <2>1, <2>2, <2>3, <2>4, <1>9, <1>10, Rebuilt
<1>12. /\ View[l] = Item(s, list[l].compare) /\ View[l] # Null
       /\ View[m] = Item(u, list[m].compare) /\ View[m] # Null
       /\ View = [o \in List |-> View[o]]
       /\ \A o \in List : View[o] = IF Present(o) THEN Item(S[o], list[o].compare) ELSE Null
  BY ShownIs
<1>13. /\ View'[l] = Item(t, list[l].compare) /\ View'[m] = Null
       /\ View' = [o \in List |-> View'[o]]
       /\ \A o \in List : o # l /\ o # m => View'[o] = View[o]
  <2>1. \A o \in List : View'[o] = IF list'[o] # Null THEN Item(T[o], list'[o].compare) ELSE Null
    BY <1>11, ShownNext
  <2>2. View' = [o \in List |-> View'[o]]
    BY <1>11, ShownNext
  <2>3. View'[l] = Item(t, list[l].compare)
    BY <2>1, <1>4
  <2>4. View'[m] = Null
    BY <2>1
  <2>5. \A o \in List : o # l /\ o # m => View'[o] = View[o]
    BY <2>1, <1>4, <1>12 DEF Present
  <2> HIDE DEF View
  <2> QED BY <2>2, <2>3, <2>4, <2>5
<1>14. View' = [View EXCEPT ![l].items = t, ![m] = Null]
  <2>1. [View[l] EXCEPT !.items = t] = Item(t, list[l].compare)
    BY <1>12 DEF Item
  <2>2. View' = [[View EXCEPT ![l] = [View[l] EXCEPT !.items = t]] EXCEPT ![m] = Null]
    BY <1>12, <1>13, <2>1
  <2> QED BY <2>2
<1>15. Abstract!Join(l, m)
  <2>1. View[l].items = s /\ View[m].items = u /\ View[l].compare = View[m].compare
    BY <1>12 DEF Item
  <2> QED BY <1>14, <2>1 DEF Abstract!Join, Abstract!Items, View, t, OK, Abstract!OK
<1>16. l \in Abstract!Live /\ m \in Abstract!Live
  BY <1>12 DEF Abstract!Live, View
<1> QED BY <1>11, <1>15, <1>16, GoesBy DEF Abstract!Next

\* Pointer l gets a new, empty list.
LEMMA CreateMove ==
    ASSUME NEW S, State(S), Still(S), NEW l \in List, ~Present(l),
           list' \in [List -> {Null} \cup StructOf], list'[l] # Null,
           list'[l].first = Null, list'[l].count = 0, kind = "doubly" => list'[l].last = Null,
           list'[l].compare \in Compare,
           \A o \in List : o # l => list'[o] = list[o],
           next' = next, prev' = prev, nodes' = nodes, held' = held, freed' = freed, ret' = OK,
           fault' = FALSE, rev' = Null, kind' = kind
    PROVE  Goes
<1>1. \A o \in List : IF Present(o)
                      THEN /\ list[o].count = Len(S[o]) /\ list[o].first = First(S[o])
                           /\ kind = "doubly" => list[o].last = End(S[o])
                      ELSE S[o] = <<>>
  BY DEF State, Shape, Still, Twofold
<1>2. S[l] = <<>> /\ Len(<<>>) = 0
  BY <1>1
<1>3. Fitting(S)
  <2>1. ASSUME NEW o \in List
        PROVE  IF list'[o] = Null THEN S[o] = <<>>
               ELSE /\ list'[o].count = Len(S[o])
                    /\ list'[o].first = First(S[o])
                    /\ kind = "doubly" => list'[o].last = End(S[o])
    <3>1. CASE o = l
      BY <3>1, <1>2 DEF First, End
    <3>2. CASE o # l
      BY <3>2, <1>1 DEF Present
    <3> QED BY <3>1, <3>2
  <2> QED BY <2>1 DEF Fitting
<1>4. State(S)'
  <2>1. Books({}, {}, {})
    BY DEF Books
  <2>2. \A p \in Elem : In(List, S, p) <=> (In(List, S, p) \/ p \in {}) /\ p \notin {} /\ p \notin {}
    OBVIOUS
  <2>3. {} \in SUBSET held /\ {} \in SUBSET nodes /\ {} \cap {} = {}
        /\ ret' \in {OK, ERR, Null} \cup Elem
    OBVIOUS
  <2>4. Family(List, S)
    BY DEF State, Shape
  <2>5. LinkedUp(S)
    BY DEF State, Still, Twofold, LinkedUp
  <2> QED BY <2>1, <2>2, <2>3, <2>4, <2>5, <1>3, Rebuilt
<1>5. \A o \in List : View[o] = IF Present(o) THEN Item(S[o], list[o].compare) ELSE Null
  BY ShownIs
<1>6. \A o \in List : View'[o] = IF list'[o] # Null THEN Item(S[o], list'[o].compare) ELSE Null
  BY <1>4, ShownNext
<1>7. View = [o \in List |-> View[o]] /\ View' = [o \in List |-> View'[o]]
  BY <1>4, ShownIs, ShownNext
<1>8. View[l] = Null /\ View'[l] = Item(<<>>, list'[l].compare)
  BY <1>2, <1>5, <1>6
<1>9. \A o \in List : o # l => View'[o] = View[o]
  BY <1>5, <1>6 DEF Present
<1>10. View' = [View EXCEPT ![l] = Item(<<>>, list'[l].compare)]
  <2> HIDE DEF View
  <2> QED BY <1>7, <1>8, <1>9
<1>0. PICK c \in Compare : c = list'[l].compare
  OBVIOUS
<1>11. Abstract!Create(l, c)
  BY <1>0, <1>8, <1>10 DEF Abstract!Create, Abstract!Live, View, Item, OK, Abstract!OK
<1>12. Abstract!Next
  <2>1. \E d \in Compare : Abstract!Create(l, d)
    BY <1>11, Zenon
  <2> QED BY <2>1, Zenon DEF Abstract!Next
<1> QED BY <1>4, <1>12, GoesBy

\* Every node of list l, and l, are freed.
LEMMA DestroyMove ==
    ASSUME NEW S, State(S), Still(S), NEW l \in List, Present(l),
           NEW N, N = {S[l][i] : i \in 1..Len(S[l])},
           list' = [list EXCEPT ![l] = Null],
           next' = Forget(next, N),
           IF kind = "doubly" THEN prev' = Forget(prev, N) ELSE prev' = prev,
           nodes' = nodes \ N, held' = held, freed' = freed \cup N, ret' = OK,
           fault' = FALSE, rev' = Null, kind' = kind
    PROVE  Goes
<1> DEFINE s == S[l]
           T == [S EXCEPT ![l] = <<>>]
<1>1. S \in [List -> Seq(Elem)] /\ s \in Seq(Elem) /\ Family(List, S) /\ <<>> \in Seq(Elem)
      /\ list \in [List -> {Null} \cup StructOf]
  BY DEF State, Shape, Family, TypeOK, StructOf
<1>2. N \subseteq nodes /\ N = Abstract!ToSet(s)
  <2>1. N \subseteq nodes
    BY SeesSequences
  <2>2. DOMAIN s = 1..Len(s)
    BY <1>1
  <2>3. Abstract!ToSet(s) = {s[i] : i \in DOMAIN s}
    BY DEF Abstract!ToSet
  <2> QED BY <2>1, <2>2, <2>3
<1>3. T \in [List -> Seq(Elem)] /\ T[l] = <<>> /\ \A m \in List : m # l => T[m] = S[m]
  BY <1>1
<1> HIDE DEF T
<1>4. Emptied(List, S, T, l)
  BY <1>3 DEF Emptied
<1>5. Family(List, T) /\ \A p : In(List, T, p) <=> In(List, S, p) /\ p \notin N
  BY <1>1, <1>4, Empties
<1>6. Fitting(T)
  <2>1. \A o \in List : IF Present(o)
                      THEN /\ list[o].count = Len(S[o]) /\ list[o].first = First(S[o])
                           /\ kind = "doubly" => list[o].last = End(S[o])
                      ELSE S[o] = <<>>
    BY DEF State, Shape, Still, Twofold
  <2>2. list' \in [List -> {Null} \cup StructOf] /\ list'[l] = Null
        /\ \A o \in List : o # l => list'[o] = list[o]
    BY <1>1
  <2> QED BY <2>1, <2>2, <1>3 DEF Fitting, Present
<1>7. LinkedUp(T)
  <2>1. Onward(next', List, T)
    <3>1. Onward(next, List, S)
      BY DEF Still
    <3> QED BY <1>1, <1>4, <3>1, EmptyNext
  <2>2. ASSUME kind = "doubly"
        PROVE  Back(prev', List, T)
    <3>1. Back(prev, List, S)
      BY <2>2 DEF State, Twofold
    <3> QED BY <1>1, <1>4, <2>2, <3>1, EmptyPrev
  <2> QED BY <2>1, <2>2 DEF LinkedUp
<1>8. State(T)'
  <2>1. Books({}, {}, N)
    BY DEF Books
  <2>2. \A p \in Elem : In(List, T, p) <=> (In(List, S, p) \/ p \in {}) /\ p \notin {} /\ p \notin N
    BY <1>5
  <2>3. {} \in SUBSET held /\ {} \in SUBSET nodes /\ N \in SUBSET nodes /\ {} \cap N = {}
        /\ ret' \in {OK, ERR, Null} \cup Elem
    BY <1>2
  <2>4. Family(List, T)
    BY <1>5
  <2> QED BY <2>1, <2>2, <2>3, <2>4, <1>6, <1>7, Rebuilt
<1>9. \A o \in List : View[o] = IF Present(o) THEN Item(S[o], list[o].compare) ELSE Null
  BY ShownIs
<1>10. \A o \in List : View'[o] = IF list'[o] # Null THEN Item(T[o], list'[o].compare) ELSE Null
  BY <1>8, ShownNext
<1>11. View = [o \in List |-> View[o]] /\ View' = [o \in List |-> View'[o]]
  BY <1>8, ShownIs, ShownNext
<1>12. View[l] # Null /\ View[l] = Item(s, list[l].compare)
  BY ShownIs
<1>13. View'[l] = Null
  BY <1>1, <1>10
<1>14. \A o \in List : o # l => View'[o] = View[o]
  <2>1. \A o \in List : o # l => list'[o] = list[o]
    BY <1>1
  <2> QED BY <2>1, <1>3, <1>9, <1>10 DEF Present
<1>15. View' = [View EXCEPT ![l] = Null]
  <2> HIDE DEF View
  <2> QED BY <1>11, <1>13, <1>14
<1>16. Abstract!Destroy(l)
  <2>1. View[l].items = s
    BY <1>12 DEF Item
  <2> QED BY <1>2, <1>15, <2>1 DEF Abstract!Destroy, Abstract!Items, View, OK, Abstract!OK
<1>17. l \in Abstract!Live
  BY <1>12 DEF Abstract!Live, View
<1> QED BY <1>8, <1>16, <1>17, GoesBy DEF Abstract!Next

\* First and last of the two parts.
LEMMA TearEnds ==
    ASSUME NEW s \in Seq(Elem), NEW a \in 1..Len(s), NEW b \in a..Len(s), b - a + 1 < Len(s)
    PROVE  /\ First(Without(s, a, b)) = IF a = 1 THEN After(s, b) ELSE First(s)
           /\ End(Without(s, a, b)) = IF b = Len(s) THEN Before(s, a) ELSE End(s)
           /\ First(SubSeq(s, a, b)) = s[a] /\ End(SubSeq(s, a, b)) = s[b]
<1> DEFINE t == Without(s, a, b)
           u == SubSeq(s, a, b)
           n == Len(s)
           d == b - a + 1
<1>0. a \in Nat /\ b \in Nat /\ n \in Nat /\ 1 <= a /\ a <= b /\ b <= n /\ d \in Nat /\ d < n /\ 1 <= d
      /\ d = b - a + 1
  OBVIOUS
<1>1. Len(t) = n - d /\ \A i \in 1..(n - d) : t[i] = IF i < a THEN s[i] ELSE s[i + d]
  BY WithoutIs
<1>2. Len(u) = d /\ \A i \in 1..d : u[i] = s[a + i - 1]
  <2>1. a \in 1..(Len(s) + 1) /\ b \in (a - 1)..Len(s)
    BY <1>0
  <2> QED BY <2>1, PartIs
<1> HIDE DEF t, u, n, d
<1>3. 1 \in 1..(n - d) /\ n - d \in 1..(n - d) /\ n - d # 0 /\ (n - d) + d = n /\ 1 \in 1..d /\ d \in 1..d
      /\ a + 1 - 1 = a /\ a + d - 1 = b /\ d # 0 /\ n # 0
  BY <1>0
<1>4. First(u) = s[a] /\ End(u) = s[b]
  BY <1>2, <1>3 DEF First, End
<1>5. First(t) = IF a = 1 THEN After(s, b) ELSE First(s)
  <2>1. a = 1 => 1 + d = b + 1 /\ b < n /\ ~(1 < a)
    BY <1>0
  <2>2. a # 1 => 1 < a
    BY <1>0
  <2> QED BY <1>1, <1>3, <2>1, <2>2 DEF First, After, n
<1>6. End(t) = IF b = n THEN Before(s, a) ELSE End(s)
  <2>1. b = n => n - d = a - 1 /\ n - d < a /\ 1 < a
    BY <1>0
  <2>2. b # n => ~(n - d < a)
    BY <1>0
  <2> QED BY <1>1, <1>3, <2>1, <2>2 DEF End, Before, n
<1> QED BY <1>4, <1>5, <1>6 DEF t, u, n

\* Elements a to b of list l become the list new.
LEMMA TearMove ==
    ASSUME NEW S, State(S), Still(S), NEW l \in List, NEW new \in List, l # new,
           Present(l), ~Present(new),
           NEW a \in 1..Len(S[l]), NEW b \in a..Len(S[l]), b - a + 1 < Len(S[l]),
           list' \in [List -> {Null} \cup StructOf], list'[l] # Null, list'[new] # Null,
           list'[l].first = IF a = 1 THEN After(S[l], b) ELSE list[l].first,
           list'[l].count = Len(S[l]) - (b - a + 1),
           kind = "doubly" =>
             list'[l].last = IF b = Len(S[l]) THEN Before(S[l], a) ELSE list[l].last,
           list'[l].compare = list[l].compare,
           list'[new].first = S[l][a], list'[new].count = b - a + 1,
           kind = "doubly" => list'[new].last = S[l][b],
           list'[new].compare = list[l].compare,
           \A o \in List : o # l /\ o # new => list'[o] = list[o],
           next' = Put(Put(next, S[l][b], Null), Before(S[l], a), After(S[l], b)),
           IF kind = "doubly"
             THEN prev' = Put(Put(prev, S[l][a], Null), After(S[l], b), Before(S[l], a))
             ELSE prev' = prev,
           nodes' = nodes, held' = held, freed' = freed, ret' = OK,
           fault' = FALSE, rev' = Null, kind' = kind
    PROVE  Goes
<1> DEFINE s == S[l]
           t == Without(s, a, b)
           u == SubSeq(s, a, b)
           T == [[S EXCEPT ![l] = t] EXCEPT ![new] = u]
<1>0. a \in Nat /\ b \in Nat /\ 1 <= a /\ a <= b /\ b <= Len(s) /\ Len(s) \in Nat
      /\ a \in DOMAIN s /\ b \in DOMAIN s
  <2>1. s \in Seq(Elem)
    BY DEF State, Shape, Family
  <2> HIDE DEF s
  <2>2. DOMAIN s = 1..Len(s) /\ Len(s) \in Nat
    BY <2>1
  <2> QED BY <2>2 DEF s
<1>1. S \in [List -> Seq(Elem)] /\ s \in Seq(Elem) /\ Family(List, S) /\ S[new] = <<>>
  BY DEF State, Shape, Family
<1>2. t \in Seq(Elem) /\ Len(t) = Len(s) - (b - a + 1)
      /\ \A i \in 1..(Len(s) - (b - a + 1)) : t[i] = IF i < a THEN s[i] ELSE s[i + (b - a + 1)]
  BY <1>1, WithoutIs
<1>3. u \in Seq(Elem) /\ Len(u) = b - a + 1 /\ \A i \in 1..(b - a + 1) : u[i] = s[a + i - 1]
  <2>1. a \in 1..(Len(s) + 1) /\ b \in (a - 1)..Len(s)
    BY <1>0
  <2> QED BY <1>1, <2>1, PartIs
<1>4. /\ First(t) = IF a = 1 THEN After(s, b) ELSE First(s)
      /\ End(t) = IF b = Len(s) THEN Before(s, a) ELSE End(s)
      /\ First(u) = s[a] /\ End(u) = s[b]
  BY <1>1, TearEnds
<1> HIDE DEF t, u
<1>5. T \in [List -> Seq(Elem)] /\ T[l] = t /\ T[new] = u
      /\ \A o \in List : o # l /\ o # new => T[o] = S[o]
  BY <1>1, <1>2, <1>3
<1> HIDE DEF T
<1>6. Torn(List, S, T, l, a, b, new)
  BY <1>2, <1>3, <1>5 DEF Torn
<1>7. Family(List, T) /\ \A p : In(List, T, p) <=> In(List, S, p)
  BY <1>1, <1>6, Tears
<1>8. \A o \in List : IF Present(o)
                      THEN /\ list[o].count = Len(S[o]) /\ list[o].first = First(S[o])
                           /\ kind = "doubly" => list[o].last = End(S[o])
                      ELSE S[o] = <<>>
  BY DEF State, Shape, Still, Twofold
<1>9. Fitting(T)
  <2>1. ASSUME NEW o \in List
        PROVE  IF list'[o] = Null THEN T[o] = <<>>
               ELSE /\ list'[o].count = Len(T[o])
                    /\ list'[o].first = First(T[o])
                    /\ kind = "doubly" => list'[o].last = End(T[o])
    <3>1. CASE o = l
      BY <3>1, <1>2, <1>4, <1>5, <1>8
    <3>2. CASE o = new
      BY <3>2, <1>3, <1>4, <1>5
    <3>3. CASE o # l /\ o # new
      BY <3>3, <1>5, <1>8 DEF Present
    <3> QED BY <3>1, <3>2, <3>3
  <2> QED BY <2>1 DEF Fitting
<1>10. LinkedUp(T)
  <2>1. Onward(next', List, T)
    <3>1. Onward(next, List, S)
      BY DEF Still
    <3> QED BY <1>1, <1>6, <3>1, TearNext
  <2>2. ASSUME kind = "doubly"
        PROVE  Back(prev', List, T)
    <3>1. Back(prev, List, S)
      BY <2>2 DEF State, Twofold
    <3> QED BY <1>1, <1>6, <2>2, <3>1, TearPrev
  <2> QED BY <2>1, <2>2 DEF LinkedUp
<1>11. State(T)'
  <2>1. Books({}, {}, {})
    BY DEF Books
  <2>2. \A p \in Elem : In(List, T, p) <=> (In(List, S, p) \/ p \in {}) /\ p \notin {} /\ p \notin {}
    BY <1>7
  <2>3. {} \in SUBSET held /\ {} \in SUBSET nodes /\ {} \cap {} = {}
        /\ ret' \in {OK, ERR, Null} \cup Elem
    OBVIOUS
  <2>4. Family(List, T)
    BY <1>7
  <2> QED BY <2>1, <2>2, <2>3, <2>4, <1>9, <1>10, Rebuilt
<1>12. /\ View[l] = Item(s, list[l].compare) /\ View[l] # Null /\ View[new] = Null
       /\ View = [o \in List |-> View[o]]
       /\ \A o \in List : View[o] = IF Present(o) THEN Item(S[o], list[o].compare) ELSE Null
  BY ShownIs
<1>13. /\ View'[l] = Item(t, list[l].compare) /\ View'[new] = Item(u, list[l].compare)
       /\ View' = [o \in List |-> View'[o]]
       /\ \A o \in List : o # l /\ o # new => View'[o] = View[o]
  <2>1. \A o \in List : View'[o] = IF list'[o] # Null THEN Item(T[o], list'[o].compare) ELSE Null
    BY <1>11, ShownNext
  <2>2. View' = [o \in List |-> View'[o]]
    BY <1>11, ShownNext
  <2>3. View'[l] = Item(t, list[l].compare)
    BY <2>1, <1>5
  <2>4. View'[new] = Item(u, list[l].compare)
    BY <2>1, <1>5
  <2>5. \A o \in List : o # l /\ o # new => View'[o] = View[o]
    BY <2>1, <1>5, <1>12 DEF Present
  <2> HIDE DEF View
  <2> QED BY <2>2, <2>3, <2>4, <2>5
<1>14. View' = [View EXCEPT ![l].items = t, ![new] = Item(u, list[l].compare)]
  <2>1. [View[l] EXCEPT !.items = t] = Item(t, list[l].compare)
    BY <1>12 DEF Item
  <2> HIDE DEF View
  <2>2. View' = [[View EXCEPT ![l] = [View[l] EXCEPT !.items = t]] EXCEPT ![new] = Item(u, list[l].compare)]
    BY <1>12, <1>13, <2>1
  <2> QED BY <2>2
<1>15. Abstract!Split(l, new)
  <2>1. View[l].items = s /\ View[l].compare = list[l].compare
    BY <1>12 DEF Item
  <2>2. new \notin Abstract!Live
    BY <1>12 DEF Abstract!Live, View
  <2>3. View' = [View EXCEPT ![l].items = SubSeq(s, 1, a - 1) \o SubSeq(s, b + 1, Len(s)),
                             ![new] = [items |-> SubSeq(s, a, b), compare |-> list[l].compare]]
    BY <1>14 DEF t, u, Without, Item
  <2> DEFINE I == View[l].items
             Took(i, j) == View' = [View EXCEPT ![l].items = SubSeq(@, 1, i - 1) \o SubSeq(@, j + 1, Len(@)),
                                                ![new] = [items |-> SubSeq(I, i, j), compare |-> View[l].compare]]
  <2>4. a \in DOMAIN I /\ b \in DOMAIN I /\ a <= b /\ b - a + 1 < Len(I)
    BY <1>0, <2>1
  <2>5. Took(a, b)
    <3> HIDE DEF View, s
    <3> QED BY <2>1, <2>3
  <2>6. \E i, j \in DOMAIN I : i <= j /\ j - i + 1 < Len(I) /\ Took(i, j)
    <3> HIDE DEF I, Took
    <3> QED BY <2>4, <2>5
  <2> QED BY <2>2, <2>6 DEF Abstract!Split, Abstract!Items, View, OK, Abstract!OK
<1>16. l \in Abstract!Live
  BY <1>12 DEF Abstract!Live, View
<1> QED BY <1>11, <1>15, <1>16, GoesBy DEF Abstract!Next

-----------------------------------------------------------------------------
\* One more element is turned round.
LEMMA TurnsFirst ==
    ASSUME NEW S, Family(List, S), NEW l \in List, 1 < Len(S[l]), NEW f, Onward(f, List, S),
           NEW g, g = Put(f, S[l][1], Null)
    PROVE  Turns(g, List, S, l, 1)
<1> DEFINE s == S[l]
<1>1. S \in [List -> Seq(Elem)] /\ s \in Seq(Elem) /\ Len(s) \in Nat /\ 1 \in 1..Len(s)
      /\ Distinct(List, S) /\ f \in [Ptr -> Ptr]
      /\ \A o \in List : \A i \in 1..Len(S[o]) : S[o][i] \in Elem
  BY DEF Family, Onward
<1>2. s[1] \in Ptr /\ s[1] # Null /\ Null \in Ptr /\ In(List, S, s[1])
  BY <1>1, Pointers DEF In
<1>3. g \in [Ptr -> Ptr] /\ \A q \in Ptr : g[q] = IF q = s[1] THEN Null ELSE f[q]
  <2>1. /\ Put(f, s[1], Null) \in [Ptr -> Ptr]
        /\ \A q \in Ptr : Put(f, s[1], Null)[q] = IF q = s[1] /\ s[1] # Null THEN Null ELSE f[q]
    <3> HIDE DEF s
    <3> QED BY <1>1, <1>2, PutIs
  <2> QED BY <1>2, <2>1
<1>4. ASSUME NEW i \in 1..Len(s)
      PROVE  g[s[i]] = IF i <= 1 THEN IF 1 < i THEN s[i - 1] ELSE Null
                       ELSE IF i < Len(s) THEN s[i + 1] ELSE Null
  <2>1. s[i] \in Ptr /\ f[s[i]] = IF i < Len(s) THEN s[i + 1] ELSE Null
    BY <1>1, Pointers DEF Onward
  <2>2. s[i] = s[1] <=> i = 1
    BY <1>1, SameSpot
  <2>3. i <= 1 <=> i = 1
    OBVIOUS
  <2> QED BY <1>3, <2>1, <2>2, <2>3
<1>5. ASSUME NEW o \in List, o # l, NEW i \in 1..Len(S[o])
      PROVE  g[S[o][i]] = IF i < Len(S[o]) THEN S[o][i + 1] ELSE Null
  <2>1. S[o][i] \in Ptr /\ f[S[o][i]] = IF i < Len(S[o]) THEN S[o][i + 1] ELSE Null
    BY <1>1, Pointers DEF Onward
  <2>2. S[o][i] # s[1]
    BY <1>1, <1>5, SameSpot
  <2> QED BY <1>3, <2>1, <2>2
<1>6. ASSUME NEW p \in Ptr, ~In(List, S, p)
      PROVE  g[p] = Null
  BY <1>2, <1>3, <1>6 DEF Onward
<1> QED BY <1>3, <1>4, <1>5, <1>6 DEF Turns, Half

\* The same for element r + 1.
LEMMA TurnsAnother ==
    ASSUME NEW S, Family(List, S), NEW l \in List, NEW r \in 1..(Len(S[l]) - 1),
           NEW f, Turns(f, List, S, l, r), NEW g, g = Put(f, S[l][r + 1], S[l][r])
    PROVE  Turns(g, List, S, l, r + 1)
<1> DEFINE s == S[l]
<1>1. S \in [List -> Seq(Elem)] /\ s \in Seq(Elem) /\ Len(s) \in Nat /\ r \in 1..Len(s)
      /\ r \in Nat /\ r + 1 \in 1..Len(s) /\ 1 < r + 1 /\ (r + 1) - 1 = r
      /\ Distinct(List, S) /\ f \in [Ptr -> Ptr]
      /\ \A o \in List : \A i \in 1..Len(S[o]) : S[o][i] \in Elem
  BY DEF Family, Turns
<1>2. s[r + 1] \in Ptr /\ s[r + 1] # Null /\ s[r] \in Ptr /\ In(List, S, s[r + 1])
  BY <1>1, Pointers DEF In
<1>3. g \in [Ptr -> Ptr] /\ \A q \in Ptr : g[q] = IF q = s[r + 1] THEN s[r] ELSE f[q]
  <2>1. /\ Put(f, s[r + 1], s[r]) \in [Ptr -> Ptr]
        /\ \A q \in Ptr : Put(f, s[r + 1], s[r])[q] = IF q = s[r + 1] /\ s[r + 1] # Null THEN s[r] ELSE f[q]
    <3>1. \A p, v \in Ptr : /\ Put(f, p, v) \in [Ptr -> Ptr]
                           /\ \A q \in Ptr : Put(f, p, v)[q] = IF q = p /\ p # Null THEN v ELSE f[q]
      BY <1>1, PutIs
    <3>2. s[r] \in Ptr /\ s[r + 1] \in Ptr
      BY <1>2
    <3> HIDE DEF s
    <3> QED BY <3>1, <3>2, Zenon
  <2> QED BY <1>2, <2>1
<1>4. ASSUME NEW i \in 1..Len(s)
      PROVE  g[s[i]] = IF i <= r + 1 THEN IF 1 < i THEN s[i - 1] ELSE Null
                       ELSE IF i < Len(s) THEN s[i + 1] ELSE Null
  <2>1. s[i] \in Ptr
    BY <1>1, Pointers
  <2>2. f[s[i]] = IF i <= r THEN IF 1 < i THEN s[i - 1] ELSE Null
                  ELSE IF i < Len(s) THEN s[i + 1] ELSE Null
    BY DEF Turns, Half
  <2>3. s[i] = s[r + 1] <=> i = r + 1
    BY <1>1, SameSpot
  <2>4. CASE i = r + 1
    BY <1>1, <1>3, <2>1, <2>4
  <2>5. CASE i # r + 1
    <3>1. i <= r + 1 <=> i <= r
      BY <1>1, <2>5
    <3> QED BY <1>3, <2>1, <2>2, <2>3, <2>5, <3>1
  <2> QED BY <2>4, <2>5
<1>5. ASSUME NEW o \in List, o # l, NEW i \in 1..Len(S[o])
      PROVE  g[S[o][i]] = IF i < Len(S[o]) THEN S[o][i + 1] ELSE Null
  <2>1. S[o][i] \in Ptr /\ f[S[o][i]] = IF i < Len(S[o]) THEN S[o][i + 1] ELSE Null
    BY <1>1, <1>5, Pointers DEF Turns
  <2>2. S[o][i] # s[r + 1]
    BY <1>1, <1>5, SameSpot
  <2> QED BY <1>3, <2>1, <2>2
<1>6. ASSUME NEW p \in Ptr, ~In(List, S, p)
      PROVE  g[p] = Null
  BY <1>2, <1>3, <1>6 DEF Turns
<1> QED BY <1>3, <1>4, <1>5, <1>6 DEF Turns, Half

\* All of them are.
LEMMA TurnsAll ==
    ASSUME NEW S, Family(List, S), NEW l \in List, NEW f, Turns(f, List, S, l, Len(S[l])),
           NEW T, T \in [List -> Seq(Elem)], T[l] = Reverse(S[l]),
           \A o \in List : o # l => T[o] = S[o]
    PROVE  /\ Family(List, T)
           /\ \A p : In(List, T, p) <=> In(List, S, p)
           /\ Onward(f, List, T)
<1> DEFINE s == S[l]
           n == Len(S[l])
           old(o, i) == IF o = l THEN n - i + 1 ELSE i
<1>1. S \in [List -> Seq(Elem)] /\ s \in Seq(Elem) /\ n \in Nat /\ Distinct(List, S)
      /\ \A o \in List : Len(S[o]) \in Nat
  BY DEF Family
<1>2. Len(T[l]) = n /\ \A i \in 1..n : T[l][i] = s[n - i + 1]
  BY <1>1, ReverseIs
<1>3. ASSUME NEW o \in List, NEW i \in 1..Len(S[o])
      PROVE  Len(T[o]) = Len(S[o]) /\ T[o][i] = S[o][old(o, i)] /\ old(o, i) \in 1..Len(S[o])
             /\ old(o, old(o, i)) = i
  <2>1. CASE o = l
    <3>1. i \in 1..n /\ old(o, i) = n - i + 1 /\ n - i + 1 \in 1..n /\ n - (n - i + 1) + 1 = i
      BY <1>1, <2>1
    <3> QED BY <1>2, <2>1, <3>1
  <2>2. CASE o # l
    BY <2>2
  <2> QED BY <2>1, <2>2
<1>4. \A o \in List : Len(T[o]) = Len(S[o])
  BY <1>2
<1>5. ASSUME NEW o \in List, NEW m \in List, NEW i \in 1..Len(T[o]), NEW j \in 1..Len(T[m]),
             T[o][i] = T[m][j]
      PROVE  o = m /\ i = j
  <2>1. i \in 1..Len(S[o]) /\ j \in 1..Len(S[m])
    BY <1>4
  <2>2. S[o][old(o, i)] = S[m][old(m, j)] /\ old(o, i) \in 1..Len(S[o]) /\ old(m, j) \in 1..Len(S[m])
    BY <1>3, <1>5, <2>1
  <2>3. old(o, old(o, i)) = i /\ old(m, old(m, j)) = j
    BY <1>3, <2>1
  <2> HIDE DEF old
  <2>4. o = m /\ old(o, i) = old(m, j)
    BY <1>1, <2>2, SameSpot
  <2> QED BY <2>3, <2>4
<1>6. Family(List, T)
  BY <1>5 DEF Family, Distinct
<1>7. ASSUME NEW p
      PROVE  In(List, T, p) <=> In(List, S, p)
  <2>1. ASSUME In(List, T, p)
        PROVE  In(List, S, p)
    <3>1. PICK o \in List : \E i \in 1..Len(T[o]) : p = T[o][i]
      BY <2>1 DEF In
    <3>2. PICK i \in 1..Len(T[o]) : p = T[o][i]
      BY <3>1
    <3>3. old(o, i) \in 1..Len(S[o]) /\ p = S[o][old(o, i)]
      BY <1>3, <1>4, <3>2
    <3> HIDE DEF old
    <3> QED BY <3>3 DEF In
  <2>2. ASSUME In(List, S, p)
        PROVE  In(List, T, p)
    <3>1. PICK o \in List : \E i \in 1..Len(S[o]) : p = S[o][i]
      BY <2>2 DEF In
    <3>2. PICK i \in 1..Len(S[o]) : p = S[o][i]
      BY <3>1
    <3>3. old(o, i) \in 1..Len(S[o]) /\ old(o, old(o, i)) = i
      BY <1>3
    <3> HIDE DEF old
    <3>4. T[o][old(o, i)] = S[o][old(o, old(o, i))] /\ old(o, i) \in 1..Len(T[o])
      BY <1>3, <1>4, <3>3
    <3>5. p = T[o][old(o, i)]
      BY <3>2, <3>3, <3>4
    <3> QED BY <3>4, <3>5 DEF In
  <2> QED BY <2>1, <2>2
<1>8. f \in [Ptr -> Ptr]
  BY DEF Turns
<1>9. ASSUME NEW o \in List, NEW i \in 1..Len(T[o])
      PROVE  f[T[o][i]] = IF i < Len(T[o]) THEN T[o][i + 1] ELSE Null
  <2>1. CASE o = l
    <3> DEFINE j == n - i + 1
    <3>0. i \in 1..n /\ i \in Nat
      BY <1>2, <2>1
    <3>1. j \in 1..n /\ j <= n /\ (1 < j <=> i < n) /\ (i < n => i + 1 \in 1..n /\ n - (i + 1) + 1 = j - 1)
      BY <3>0, <1>1
    <3>2. T[o][i] = s[j] /\ (i < n => T[o][i + 1] = s[j - 1])
      BY <1>2, <2>1, <3>0, <3>1
    <3> HIDE DEF j
    <3>3. f[s[j]] = IF j <= n THEN IF 1 < j THEN s[j - 1] ELSE Null
                    ELSE IF j < n THEN s[j + 1] ELSE Null
      BY <3>1 DEF Turns, Half
    <3> QED BY <1>2, <2>1, <3>1, <3>2, <3>3
  <2>2. CASE o # l
    BY <2>2 DEF Turns
  <2> QED BY <2>1, <2>2
<1>10. \A p \in Ptr : ~In(List, T, p) => f[p] = Null
  BY <1>7 DEF Turns
<1> QED BY <1>6, <1>7, <1>8, <1>9, <1>10 DEF Onward

\* A reversal begins or goes on.
LEMMA TurnMove ==
    ASSUME NEW S, State(S), NEW l \in List, Present(l), kind = "singly",
           NEW r \in 1..(Len(S[l]) - 1),
           \A o \in List : Present(o) /\ o # l => list[o].first = First(S[o]),
           Turns(next', List, S, l, r),
           rev' = [list |-> l, first |-> S[l][r], second |-> S[l][r + 1],
                   third |-> After(S[l], r + 1)],
           UNCHANGED <<list, prev, nodes, held, freed, ret, kind>>, fault' = FALSE
    PROVE  Goes
<1> DEFINE s == S[l]
<1>1. S \in [List -> Seq(Elem)] /\ s \in Seq(Elem) /\ Len(s) \in Nat
      /\ r \in 1..Len(s) /\ r + 1 \in 1..Len(s) /\ r + 1 \in 1..(Len(s) + 1)
      /\ \A i \in 1..Len(s) : s[i] \in Elem
  BY DEF State, Shape, Family
<1>2. rev' \in Singly!Reversal /\ rev' # Null
  <2>1. s[r] \in Ptr /\ s[r + 1] \in Ptr /\ After(s, r + 1) \in Ptr
    BY <1>1, Pointers, Neighbours
  <2>2. rev' \in Singly!Reversal
    BY <2>1 DEF Singly!Reversal, Singly!Ptr, Ptr
  <2> QED BY <2>2, ListAssumption DEF Singly!Reversal, Singly!Ptr
<1>3. State(S)'
  <2>1. TypeOK'
    <3>1. next' \in [Ptr -> Ptr]
      BY DEF Turns
    <3> QED BY <1>2, <3>1 DEF State, TypeOK
  <2>2. Shape(S)'
    BY DEF State, Shape, Present
  <2>3. Turning(S)'
    <3>1. /\ rev'.list = l /\ rev'.first = s[r] /\ rev'.second = s[r + 1]
          /\ rev'.third = After(s, r + 1)
      OBVIOUS
    <3>2. Present(l)' /\ \A o \in List : Present(o)' /\ o # l => list'[o].first = First(S[o])
      BY DEF Present
    <3> QED BY <1>2, <3>1, <3>2 DEF Turning
  <2>4. Twofold(S)'
    BY DEF Twofold
  <2> QED BY <2>1, <2>2, <2>3, <2>4 DEF State
<1>4. View' = View
  <2>1. View = Shown(S) /\ View' = Shown(S)'
    BY <1>3, ViewIs, ViewNext
  <2>2. Shown(S)' = Shown(S)
    BY DEF Shown, Present
  <2> QED BY <2>1, <2>2
<1> QED BY <1>1, <1>3, <1>4 DEF Goes, Abstract!vars, View

\* A reversal ends.
LEMMA TurnedMove ==
    ASSUME NEW S, State(S), NEW l \in List, Present(l), kind = "singly", S[l] # <<>>,
           \A o \in List : Present(o) /\ o # l => list[o].first = First(S[o]),
           Turns(next', List, S, l, Len(S[l])),
           Relisted(l, S[l][Len(S[l])], Null, list[l].count),
           UNCHANGED <<prev, nodes, held, freed, ret, kind>>, fault' = FALSE, rev' = Null
    PROVE  Goes
<1> DEFINE s == S[l]
           t == Reverse(s)
           T == [S EXCEPT ![l] = t]
<1>1. S \in [List -> Seq(Elem)] /\ s \in Seq(Elem) /\ Family(List, S) /\ Len(s) \in Nat /\ Len(s) # 0
  <2>1. S \in [List -> Seq(Elem)] /\ s \in Seq(Elem) /\ Family(List, S)
    BY DEF State, Shape, Family
  <2> HIDE DEF s
  <2>2. Len(s) \in Nat /\ (Len(s) = 0 => s = <<>>)
    BY <2>1
  <2> QED BY <2>1, <2>2 DEF s
<1>2. t \in Seq(Elem) /\ Len(t) = Len(s) /\ First(t) = End(s)
  BY <1>1, ReverseIs
<1>3. t = Reverse(s)
  OBVIOUS
<1> HIDE DEF t
<1>4. T \in [List -> Seq(Elem)] /\ T[l] = t /\ \A m \in List : m # l => T[m] = S[m]
  BY <1>1, <1>2
<1> HIDE DEF T
<1>5. Family(List, T) /\ (\A p : In(List, T, p) <=> In(List, S, p)) /\ Onward(next', List, T)
  BY <1>1, <1>3, <1>4, TurnsAll
<1>6. Fitting(T)
  <2>1. \A o \in List : IF Present(o)
                      THEN list[o].count = Len(S[o]) /\ (o # l => list[o].first = First(S[o]))
                      ELSE S[o] = <<>>
    BY DEF State, Shape
  <2>2. First(T[l]) = s[Len(s)]
    BY <1>1, <1>2, <1>4 DEF End
  <2> QED BY <1>2, <1>4, <2>1, <2>2 DEF Fitting, Relisted, Present
<1>7. State(T)'
  <2>1. Books({}, {}, {})
    BY DEF Books
  <2>2. \A p \in Elem : In(List, T, p) <=> (In(List, S, p) \/ p \in {}) /\ p \notin {} /\ p \notin {}
    BY <1>5
  <2>3. {} \in SUBSET held /\ {} \in SUBSET nodes /\ {} \cap {} = {}
        /\ ret' \in {OK, ERR, Null} \cup Elem
    BY DEF State, TypeOK
  <2>4. LinkedUp(T)
    BY <1>5 DEF LinkedUp
  <2>5. Family(List, T) /\ kind' = kind
    BY <1>5
  <2> QED BY <2>1, <2>2, <2>3, <2>4, <2>5, <1>6, Rebuilt
<1>8. View' = [View EXCEPT ![l].items = t] /\ View[l] # Null /\ View[l].items = s
  BY <1>4, <1>7, ViewOfOne
<1>9. Abstract!Reversed(l)
  BY <1>8 DEF Abstract!Reversed, Abstract!Items, View, t, Reverse, Abstract!Reverse
<1>10. l \in Abstract!Live
  BY <1>8 DEF Abstract!Live, View
<1> QED BY <1>7, <1>9, <1>10, GoesBy DEF Abstract!Next

-----------------------------------------------------------------------------
(***************************************************************************)
(* The calls of singly_linked.c.                                           *)
(***************************************************************************)

\* In 32 bits nothing is lost.
LEMMA ByIs ==
    ASSUME NEW n \in Nat, NEW d \in Int, 0 <= n + d, n + d <= MaxU32
    PROVE  By(n, d) = n + d
<1>1. MaxU32 \in Nat
  BY ListAssumption
<1> QED BY <1>1 DEF By

\* Stores to the fields of one struct.
LEMMA StoreSingly ==
    ASSUME TypeOK, kind = "singly", NEW l \in List, Present(l), NEW a, NEW n,
           NEW now, now = [list EXCEPT ![l].first = a, ![l].count = n]
    PROVE  now = [list EXCEPT ![l] = [first |-> a, compare |-> list[l].compare, count |-> n]]
<1>0. PICK f, c, m : list[l] = [first |-> f, compare |-> c, count |-> m] /\ c = list[l].compare
  BY StructIs
<1>1. list \in [List -> {Null} \cup StructOf]
  BY DEF TypeOK, StructOf
<1>2. \A k \in List : k # l => now[k] = list[k]
  BY <1>1
<1>3. now[l] = [[list[l] EXCEPT !.first = a] EXCEPT !.count = n]
  BY <1>1
<1>4. now[l] = [first |-> a, compare |-> c, count |-> n]
  <2>1. [list[l] EXCEPT !.first = a] = [first |-> a, compare |-> c, count |-> m]
    BY <1>0
  <2>2. [[first |-> a, compare |-> c, count |-> m] EXCEPT !.count = n]
        = [first |-> a, compare |-> c, count |-> n]
    OBVIOUS
  <2> QED BY <1>3, <2>1, <2>2
<1>5. DOMAIN now = List /\ now = [k \in List |-> now[k]]
  BY <1>1
<1>6. DOMAIN list = List /\ list = [k \in List |-> list[k]]
  BY <1>1
<1> QED BY <1>0, <1>2, <1>4, <1>5, <1>6

Stored(l, a, b, n) == [list EXCEPT ![l].first = a, ![l].last = b, ![l].count = n]

\* The same for a doubly linked list.
LEMMA StoreDoubly ==
    ASSUME TypeOK, kind = "doubly", NEW l \in List, Present(l), NEW a, NEW b, NEW n,
           NEW now, now = Stored(l, a, b, n)
    PROVE  now = [list EXCEPT ![l] = [first |-> a, last |-> b, compare |-> list[l].compare,
                                      count |-> n]]
<1>0. PICK f, g, c, m : /\ list[l] = [first |-> f, last |-> g, compare |-> c, count |-> m]
                        /\ c = list[l].compare
  BY StructIs
<1>1. list \in [List -> {Null} \cup StructOf]
  BY DEF TypeOK, StructOf
<1>2. \A k \in List : k # l => now[k] = list[k]
  BY <1>1 DEF Stored
<1>3. now[l] = [[[list[l] EXCEPT !.first = a] EXCEPT !.last = b] EXCEPT !.count = n]
  BY <1>1 DEF Stored
<1>4. now[l] = [first |-> a, last |-> b, compare |-> c, count |-> n]
  <2>1. [list[l] EXCEPT !.first = a] = [first |-> a, last |-> g, compare |-> c, count |-> m]
    BY <1>0
  <2>2. [[first |-> a, last |-> g, compare |-> c, count |-> m] EXCEPT !.last = b]
        = [first |-> a, last |-> b, compare |-> c, count |-> m]
    OBVIOUS
  <2>3. [[first |-> a, last |-> b, compare |-> c, count |-> m] EXCEPT !.count = n]
        = [first |-> a, last |-> b, compare |-> c, count |-> n]
    OBVIOUS
  <2> QED BY <1>3, <2>1, <2>2, <2>3
<1>5. DOMAIN now = List /\ now = [k \in List |-> now[k]]
  BY <1>1 DEF Stored
<1>6. DOMAIN list = List /\ list = [k \in List |-> list[k]]
  BY <1>1
<1> QED BY <1>0, <1>2, <1>4, <1>5, <1>6

\* Where a step of the singly linked list begins.
Single(S) ==
    /\ State(S) /\ Still(S)
    /\ kind = "singly"
    /\ Contract
    /\ rev' = rev /\ prev' = prev /\ kind' = kind

\* The stores of SinglyLinked are those of ListNodes.
LEMMA SinglyStores ==
    /\ \A f, p, v : Singly!Put(f, p, v) = Put(f, p, v)
    /\ \A f, M : Singly!Forget(f, M) = Forget(f, M)
    /\ \A n, d : Singly!By(n, d) = By(n, d)
    /\ Singly!OK = OK /\ Singly!ERR = ERR
BY DEF Singly!Put, Put, Singly!Forget, Forget, Singly!By, By, Singly!OK, OK, Singly!ERR, ERR,
       Singly!Ptr, Ptr

\* A refused call.
LEMMA SinglyRefuses ==
    ASSUME NEW S, Single(S), NEW result, NEW N \in SUBSET nodes, Singly!Refuse(result, N),
           \/ result \in {ERR, Null}
           \/ \E l \in List : Present(l) /\ \E i \in 1..Len(S[l]) : result = S[l][i]
    PROVE  Goes
<1>1. State(S)
  BY DEF Single
<1>2. UNCHANGED <<list, next, prev, nodes, held, freed, rev, kind>> /\ ret' = result
  BY DEF Single, Singly!Refuse, Singly!Fails
<1>3. fault' = FALSE
  BY DEF Singly!Refuse, Singly!Fails, Singly!Derefs
<1> QED BY <1>1, <1>2, <1>3, QuietMove

\* The fields of a node, by its place.
LEMMA NextIs ==
    ASSUME NEW S, State(S), Still(S), NEW l \in List, NEW i \in 1..Len(S[l])
    PROVE  next[S[l][i]] = After(S[l], i) /\ S[l][i] # Null /\ S[l][i] \in nodes /\ S[l][i] \in Elem
<1>1. next[S[l][i]] = After(S[l], i)
  BY DEF Still, Onward, After
<1> QED BY <1>1, SeesSequences

\* Also for NULL.
LEMMA NextNull ==
    ASSUME NEW S, State(S), Still(S)
    PROVE  next[Null] = Null
<1>1. ~In(List, S, Null)
  <2>1. SUFFICES ASSUME In(List, S, Null)
                 PROVE  FALSE
    OBVIOUS
  <2>2. PICK l \in List : \E i \in 1..Len(S[l]) : Null = S[l][i]
    BY <2>1 DEF In
  <2> QED BY <2>2, SeesSequences
<1> QED BY <1>1, Pointers DEF Still, Onward

\* A node comes in at position k.
LEMMA SinglyInserts ==
    ASSUME NEW S, Single(S), NEW l \in List, Present(l), NEW k \in 1..(Len(S[l]) + 1),
           NEW x \in held, NEW N \in SUBSET nodes, Len(S[l]) + 1 <= MaxU32,
           NEW p, p = Before(S[l], k), Singly!Insert(l, p, x, N)
    PROVE  Goes
<1> DEFINE s == S[l]
           a == IF k = 1 THEN x ELSE list[l].first
<1>1. State(S) /\ Still(S) /\ kind = "singly" /\ TypeOK /\ rev' = Null /\ prev' = prev /\ kind' = kind
  BY DEF Single, State, Still
<1>2. s \in Seq(Elem) /\ Len(s) \in Nat /\ list[l].count = Len(s) /\ list[l].first = First(s)
      /\ x \in Elem
  <2>1. list[l].count = Len(s) /\ list[l].first = First(s) /\ x \in Elem
    BY <1>1 DEF State, Shape, Still, TypeOK
  <2> QED BY <1>1, <2>1, LensIs
<1>3. p = Null <=> k = 1
  <2>1. k \in Nat /\ (1 < k => k - 1 \in 1..Len(s)) /\ (k = 1 <=> ~(1 < k))
    BY <1>2
  <2>2. 1 < k => s[k - 1] # Null
    BY <1>1, <2>1, NextIs
  <2> QED BY <2>1, <2>2 DEF Before
<1>4. a \in Ptr
  BY <1>1, <1>2, StructIs, Pointers
<1>5. By(list[l].count, 1) = Len(s) + 1 /\ Len(s) + 1 \in Nat
  <2>1. 0 <= Len(s) + 1 /\ 1 \in Int
    BY <1>2
  <2> QED BY <1>2, <2>1, ByIs
<1>6. list' = [list EXCEPT ![l] = [first |-> a, compare |-> list[l].compare, count |-> Len(s) + 1]]
  <2>1. list' = [list EXCEPT ![l].first = IF p = Null THEN x ELSE @, ![l].count = By(@, 1)]
    BY SinglyStores DEF Singly!Insert
  <2>2. list[l] = [first |-> list[l].first, compare |-> list[l].compare, count |-> list[l].count]
    BY <1>1, StructIs
  <2>3. list \in [List -> {Null} \cup StructOf]
    BY <1>1 DEF TypeOK, StructOf
  <2>4. list' = [list EXCEPT ![l].first = IF p = Null THEN x ELSE list[l].first,
                             ![l].count = By(list[l].count, 1)]
    <3> HIDE DEF a, s
    <3> QED BY <2>1, <2>2, <2>3
  <2>5. list' = [list EXCEPT ![l].first = a, ![l].count = Len(s) + 1]
    BY <2>4, <1>3, <1>5
  <2> HIDE DEF a, s
  <2> QED BY <1>1, <2>5, StoreSingly
<1>7. Relisted(l, a, Null, Len(s) + 1)
  <2> HIDE DEF a, s
  <2> QED BY <1>1, <1>4, <1>5, <1>6, SinglyRelists DEF s
<1>8. next' = Put(Put(next, x, At(s, k)), Before(s, k), x)
  <2>1. next' = Put(Put(next, x, IF p = Null THEN list[l].first ELSE next[p]), p, x)
    BY SinglyStores DEF Singly!Insert
  <2>2. (IF p = Null THEN list[l].first ELSE next[p]) = At(s, k)
    <3>1. CASE k = 1
      BY <3>1, <1>2, <1>3 DEF First, At
    <3>2. CASE k # 1
      <4>1. 1 < k /\ k - 1 \in 1..Len(s) /\ (k - 1) + 1 = k /\ (k - 1 < Len(s) <=> k <= Len(s))
        BY <3>2, <1>2
      <4>2. p = s[k - 1] /\ next[s[k - 1]] = After(s, k - 1)
        BY <1>1, <4>1, NextIs DEF Before
      <4> QED BY <1>3, <3>2, <4>1, <4>2 DEF After, At
    <3> QED BY <3>1, <3>2
  <2> QED BY <2>1, <2>2
<1>9. nodes' = nodes \cup {x} /\ held' = held \ {x} /\ freed' = freed /\ ret' = OK /\ fault' = FALSE
  BY SinglyStores DEF Singly!Insert, Singly!Gains, Singly!Derefs
<1> QED BY <1>1, <1>7, <1>8, <1>9, EnterMove DEF s, a

\* Node k goes.
LEMMA SinglyDetaches ==
    ASSUME NEW S, Single(S), NEW l \in List, Present(l), NEW k \in 1..Len(S[l]),
           NEW N \in SUBSET nodes,
           NEW p, p = Before(S[l], k), Singly!Detach(l, p, S[l][k], N)
    PROVE  Goes
<1> DEFINE s == S[l]
           a == IF k = 1 THEN After(s, 1) ELSE list[l].first
<1>1. State(S) /\ Still(S) /\ kind = "singly" /\ TypeOK /\ rev' = Null /\ prev' = prev /\ kind' = kind
  BY DEF Single, State, Still
<1>2. s \in Seq(Elem) /\ Len(s) \in Nat /\ list[l].count = Len(s) /\ list[l].first = First(s)
  <2>1. list[l].count = Len(s) /\ list[l].first = First(s)
    BY <1>1 DEF State, Shape, Still
  <2> QED BY <1>1, <2>1, LensIs
<1>3. p = Null <=> k = 1
  <2>1. k \in Nat /\ (1 < k => k - 1 \in 1..Len(s)) /\ (k = 1 <=> ~(1 < k))
    BY <1>2
  <2>2. 1 < k => s[k - 1] # Null
    BY <1>1, <2>1, NextIs
  <2> QED BY <2>1, <2>2 DEF Before
<1>4. next[s[k]] = After(s, k) /\ s[k] # Null /\ After(s, k) \in Ptr /\ k \in 1..(Len(s) + 1)
  <2>1. k \in 1..(Len(s) + 1)
    BY <1>2
  <2> QED BY <1>1, <1>2, <2>1, NextIs, Neighbours
<1>5. a \in Ptr
  BY <1>1, <1>4, StructIs
<1>6. By(list[l].count, -1) = Len(s) - 1 /\ Len(s) - 1 \in Nat /\ Len(s) - 1 <= MaxU32
  <2>1. -1 \in Int /\ Len(s) - 1 \in Nat /\ Len(s) + (-1) = Len(s) - 1
    BY <1>2
  <2>2. Len(s) <= MaxU32 /\ MaxU32 \in Nat
    BY <1>1, <1>2, StructIs, ListAssumption
  <2>3. 0 <= Len(s) + (-1) /\ Len(s) + (-1) <= MaxU32
    BY <2>1, <2>2, <1>2
  <2> QED BY <1>2, <2>1, <2>3, ByIs
<1>7. list' = [list EXCEPT ![l] = [first |-> a, compare |-> list[l].compare, count |-> Len(s) - 1]]
  <2>1. list' = [list EXCEPT ![l].first = IF p = Null THEN next[s[k]] ELSE @, ![l].count = By(@, -1)]
    BY SinglyStores DEF Singly!Detach
  <2>2. list[l] = [first |-> list[l].first, compare |-> list[l].compare, count |-> list[l].count]
    BY <1>1, StructIs
  <2>3. list \in [List -> {Null} \cup StructOf]
    BY <1>1 DEF TypeOK, StructOf
  <2>4. list' = [list EXCEPT ![l].first = IF p = Null THEN next[s[k]] ELSE list[l].first,
                             ![l].count = By(list[l].count, -1)]
    <3> HIDE DEF a, s
    <3> QED BY <2>1, <2>2, <2>3
  <2>5. list' = [list EXCEPT ![l].first = a, ![l].count = Len(s) - 1]
    BY <2>4, <1>3, <1>4, <1>6
  <2> HIDE DEF a, s
  <2> QED BY <1>1, <2>5, StoreSingly
<1>8. Relisted(l, a, Null, Len(s) - 1)
  <2> HIDE DEF a, s
  <2> QED BY <1>1, <1>5, <1>6, <1>7, SinglyRelists DEF s
<1>9. next' = Forget(Put(next, Before(s, k), After(s, k)), {s[k]})
  BY <1>4, SinglyStores DEF Singly!Detach
<1>10. nodes' = nodes \ {s[k]} /\ held' = held \cup {s[k]} /\ freed' = freed /\ ret' = s[k]
       /\ fault' = FALSE
  BY <1>4, SinglyStores DEF Singly!Detach, Singly!Loses, Singly!Derefs
<1> QED BY <1>1, <1>8, <1>9, <1>10, LeaveMove DEF s, a

\* The nodes by their places, and what the loops read.
LEMMA Places ==
    ASSUME NEW S, State(S), Still(S), NEW l \in List
    PROVE  /\ \A k \in 1..(Len(S[l]) + 1) : Nth(l, k - 1) = Before(S[l], k)
           /\ \A k \in 1..Len(S[l]) : Nth(l, k) = S[l][k] /\ Nth(l, k) # Null /\ Nth(l, k) \in nodes
           /\ Nth(l, 0) = Null
           /\ \A k \in 0..Len(S[l]) : Passed(l, k) \subseteq nodes
           /\ Members(l) \subseteq nodes
           /\ Len(Contents(l)) = Len(S[l]) /\ Size(l) = Len(S[l]) /\ Len(S[l]) \in Nat
           /\ Present(l) => /\ list[l].count = Len(S[l]) /\ list[l].first = First(S[l])
                            /\ Len(S[l]) # 0 => list[l].first = S[l][1] /\ list[l].first \in nodes
                            /\ Len(S[l]) = 0 => list[l].first = Null
           /\ ~Present(l) => Len(S[l]) = 0
<1>1. Len(S[l]) \in Nat /\ Contents(l) = S[l] /\ Size(l) = Len(S[l])
      /\ Members(l) = {S[l][i] : i \in 1..Len(S[l])}
      /\ \A i \in 1..Len(S[l]) : S[l][i] \in nodes /\ S[l][i] \in Elem /\ S[l][i] # Null
  BY SeesSequences
<1>2. ASSUME NEW k \in 1..(Len(S[l]) + 1)
      PROVE  Nth(l, k - 1) = Before(S[l], k)
  <2>1. k - 1 \in 0..Len(S[l]) /\ (k - 1 = 0 <=> ~(1 < k))
    BY <1>1
  <2>2. Nth(l, k - 1) = IF k - 1 = 0 THEN Null ELSE S[l][k - 1]
    BY <2>1, NthIs
  <2> QED BY <2>1, <2>2 DEF Before
<1>3. ASSUME NEW k \in 1..Len(S[l])
      PROVE  Nth(l, k) = S[l][k]
  <2>1. k \in 0..Len(S[l]) /\ k # 0
    BY <1>1
  <2> QED BY <2>1, NthIs
<1>4. Nth(l, 0) = Null
  BY DEF Nth
<1>5. \A k \in 0..Len(S[l]) : Passed(l, k) \subseteq nodes
  BY NthIs
<1>6. Present(l) => list[l].count = Len(S[l]) /\ list[l].first = First(S[l])
  BY DEF State, Shape, Still
<1>7. Len(S[l]) # 0 => First(S[l]) = S[l][1] /\ 1 \in 1..Len(S[l])
  BY <1>1 DEF First
<1>8. Len(S[l]) = 0 => First(S[l]) = Null
  BY DEF First
<1>9. ~Present(l) => Len(S[l]) = 0
  BY <1>1 DEF Size
<1>10. Members(l) \subseteq nodes
  BY <1>1
<1>11. \A k \in 1..Len(S[l]) : Nth(l, k) # Null /\ Nth(l, k) \in nodes
  BY <1>1, <1>3
<1> QED BY <1>1, <1>2, <1>3, <1>4, <1>5, <1>6, <1>7, <1>8, <1>9, <1>10, <1>11

\* singly_linked_create.
LEMMA SinglyCreate ==
    ASSUME NEW S, Single(S), NEW l \in List, NEW c \in Compare \cup {Null}, Singly!Create(l, c)
    PROVE  Goes
<1> DEFINE d == IF c = Null THEN DefaultCompare ELSE c
           r == [first |-> Null, compare |-> d, count |-> 0]
<1>1. State(S) /\ Still(S) /\ kind = "singly" /\ TypeOK /\ rev' = Null /\ prev' = prev /\ kind' = kind
      /\ fault = FALSE
  BY DEF Single, State, Still, TypeOK
<1>2. ~Present(l)
  BY SinglyLoops DEF Singly!Create
<1>3. CASE Singly!Refuse(Null, {})
  <2>1. {} \in SUBSET nodes
    OBVIOUS
  <2> QED BY <1>3, <2>1, SinglyRefuses
<1>4. CASE ~Singly!Refuse(Null, {})
  <2>1. /\ list' = [list EXCEPT ![l] = r] /\ ret' = OK
        /\ UNCHANGED <<next, nodes, held, freed, fault>>
    BY <1>4 DEF Singly!Create, Singly!OK, OK
  <2>2. d \in Compare
    BY ListAssumption
  <2>3. r \in Singly!Struct
    <3>1. 0 \in 0..MaxU32
      BY ListAssumption
    <3> QED BY <2>2, <3>1 DEF Singly!Struct, Singly!Ptr
  <2>4. r # Null /\ r.first = Null /\ r.count = 0 /\ r.compare = d
    BY <2>3, ListAssumption DEF Singly!Struct, Singly!Ptr
  <2>5. r \in StructOf /\ list \in [List -> {Null} \cup StructOf]
    BY <1>1, <2>3 DEF StructOf, TypeOK
  <2> HIDE DEF r
  <2>6. list' \in [List -> {Null} \cup StructOf] /\ list'[l] = r
        /\ \A o \in List : o # l => list'[o] = list[o]
    BY <2>1, <2>5
  <2> QED BY <1>1, <1>2, <2>1, <2>2, <2>4, <2>6, CreateMove
<1> QED BY <1>3, <1>4

\* What the insertions check.
LEMMA SinglyAccepts ==
    ASSUME NEW S, Single(S), NEW l \in List, NEW x \in Singly!Mine, Singly!Accepts(l, x)
    PROVE  Present(l) /\ x \in held /\ Len(S[l]) + 1 <= MaxU32
<1>1. State(S) /\ Still(S) /\ "wide" \notin Beyond
  BY DEF Single, Contract
<1>2. Present(l) /\ x # Null /\ list[l].count + 1 <= MaxU32
  BY <1>1, SinglyLoops DEF Singly!Accepts, Singly!Fits
<1>3. x \in held
  BY <1>2 DEF Singly!Mine
<1> QED BY <1>1, <1>2, <1>3, Places

\* singly_linked_push.
LEMMA SinglyPush ==
    ASSUME NEW S, Single(S), NEW l \in List, NEW x \in Singly!Mine, Singly!Push(l, x)
    PROVE  Goes
<1>1. State(S) /\ Still(S) /\ {} \in SUBSET nodes
  BY DEF Single
<1>2. CASE Singly!Refuse(ERR, {})
  BY <1>1, <1>2, SinglyRefuses
<1>3. CASE /\ Singly!Accepts(l, x)
           /\ Singly!Insert(l, Nth(l, Len(Contents(l))), x, Members(l))
  <2>1. Present(l) /\ x \in held /\ Len(S[l]) + 1 <= MaxU32
    BY <1>3, SinglyAccepts
  <2>2. Len(S[l]) + 1 \in 1..(Len(S[l]) + 1) /\ (Len(S[l]) + 1) - 1 = Len(S[l])
    BY <1>1, Places
  <2>3. Nth(l, Len(Contents(l))) = Before(S[l], Len(S[l]) + 1) /\ Members(l) \in SUBSET nodes
    BY <1>1, <2>2, Places
  <2> QED BY <1>3, <2>1, <2>2, <2>3, SinglyInserts
<1> QED BY <1>2, <1>3, SinglyLoops, SinglyPassed DEF Singly!Push, Singly!ERR, ERR

\* singly_linked_unshift.
LEMMA SinglyUnshift ==
    ASSUME NEW S, Single(S), NEW l \in List, NEW x \in Singly!Mine, Singly!Unshift(l, x)
    PROVE  Goes
<1>1. State(S) /\ Still(S) /\ {} \in SUBSET nodes
  BY DEF Single
<1>2. CASE Singly!Refuse(ERR, {})
  BY <1>1, <1>2, SinglyRefuses
<1>3. CASE Singly!Accepts(l, x) /\ Singly!Insert(l, Null, x, {})
  <2>1. Present(l) /\ x \in held /\ Len(S[l]) + 1 <= MaxU32
    BY <1>3, SinglyAccepts
  <2>2. 1 \in 1..(Len(S[l]) + 1)
    BY <1>1, Places
  <2>3. Null = Before(S[l], 1)
    BY DEF Before
  <2> QED BY <1>1, <1>3, <2>1, <2>2, <2>3, SinglyInserts
<1> QED BY <1>2, <1>3 DEF Singly!Unshift, Singly!ERR, ERR

\* singly_linked_insert_after.
LEMMA SinglyInsertAfter ==
    ASSUME NEW S, Single(S), NEW l \in List, NEW x \in Singly!Mine, NEW entry,
           Singly!InsertAfter(l, entry, x)
    PROVE  Goes
<1> DEFINE i == Match(l, entry, 1)
<1>1. State(S) /\ Still(S) /\ {} \in SUBSET nodes
  BY DEF Single
<1>2. CASE Singly!Refuse(ERR, {})
  BY <1>1, <1>2, SinglyRefuses
<1>3. CASE /\ Singly!Accepts(l, x) /\ InList(l, entry) # Null
           /\ Singly!Insert(l, InList(l, entry), x, Passed(l, i))
  <2>1. Present(l) /\ x \in held /\ Len(S[l]) + 1 <= MaxU32
    BY <1>3, SinglyAccepts
  <2>2. InList(l, entry) = Nth(l, i)
    BY DEF InList
  <2>3. i = 0 \/ i \in 1..Len(S[l])
    BY <1>1, MatchIs DEF Match
  <2> HIDE DEF i
  <2>4. i \in 1..Len(S[l]) /\ Len(S[l]) \in Nat
    BY <1>1, <1>3, <2>2, <2>3, Places
  <2>5. i + 1 \in 1..(Len(S[l]) + 1) /\ (i + 1) - 1 = i /\ i \in 0..Len(S[l])
    BY <2>4
  <2>6. InList(l, entry) = Before(S[l], i + 1) /\ Passed(l, i) \in SUBSET nodes
    BY <1>1, <2>2, <2>5, Places
  <2> QED BY <1>3, <2>1, <2>5, <2>6, SinglyInserts
<1> QED BY <1>2, <1>3, SinglyMatch, SinglyPassed DEF Singly!InsertAfter, Singly!ERR, ERR

\* singly_linked_insert_before.
LEMMA SinglyInsertBefore ==
    ASSUME NEW S, Single(S), NEW l \in List, NEW x \in Singly!Mine, NEW entry,
           Singly!InsertBefore(l, entry, x)
    PROVE  Goes
<1> DEFINE i == Match(l, entry, 1)
<1>1. State(S) /\ Still(S) /\ {} \in SUBSET nodes
  BY DEF Single
<1>2. CASE Singly!Refuse(ERR, {})
  BY <1>1, <1>2, SinglyRefuses
<1>3. CASE Singly!Accepts(l, x) /\ i # 0 /\ Singly!Insert(l, Nth(l, i - 1), x, Passed(l, i))
  <2>1. Present(l) /\ x \in held /\ Len(S[l]) + 1 <= MaxU32
    BY <1>3, SinglyAccepts
  <2>3. i \in 1..Len(S[l]) /\ Len(S[l]) \in Nat
    BY <1>1, <1>3, MatchIs, Places DEF Match
  <2> HIDE DEF i
  <2>5. i \in 1..(Len(S[l]) + 1) /\ i \in 0..Len(S[l])
    BY <2>3
  <2>6. Nth(l, i - 1) = Before(S[l], i) /\ Passed(l, i) \in SUBSET nodes
    BY <1>1, <2>5, Places
  <2> QED BY <1>3, <2>1, <2>5, <2>6, SinglyInserts
<1> QED BY <1>2, <1>3, SinglyMatch, SinglyPassed DEF Singly!InsertBefore, Singly!ERR, ERR

\* singly_linked_pop.
LEMMA SinglyPop ==
    ASSUME NEW S, Single(S), NEW l \in List, Singly!Pop(l)
    PROVE  Goes
<1> DEFINE n == Len(S[l])
<1>1. State(S) /\ Still(S) /\ {} \in SUBSET nodes /\ kind = "singly" /\ TypeOK
      /\ rev' = Null /\ prev' = prev /\ kind' = kind
  BY DEF Single, State, Still
<1>2. n \in Nat /\ Size(l) = n /\ Len(Contents(l)) = n
  BY <1>1, Places
<1>3. CASE Singly!Refuse(Null, {})
  BY <1>1, <1>3, SinglyRefuses
<1>4. CASE /\ Size(l) = 1
           /\ list' = [list EXCEPT ![l].first = Null, ![l].count = 0]
           /\ next' = Singly!Forget(next, {list[l].first})
           /\ Singly!Loses(list[l].first)
           /\ Singly!Derefs({list[l].first})
  <2>1. n = 1 /\ 1 \in 1..n /\ Present(l)
    BY <1>1, <1>2, <1>4, Places
  <2>2. list[l].first = S[l][1] /\ S[l][1] \in nodes /\ S[l][1] # Null
    <3>1. list[l].first = S[l][1]
      BY <1>1, <2>1, Places
    <3> QED BY <1>1, <2>1, <3>1, NextIs
  <2>3. Before(S[l], 1) = Null /\ After(S[l], 1) = Null
    BY <2>1 DEF Before, After
  <2>4. list' = [list EXCEPT ![l] = [first |-> Null, compare |-> list[l].compare, count |-> 0]]
    BY <1>1, <1>4, <2>1, StoreSingly
  <2>5. Null \in Ptr /\ 0 \in Nat /\ 0 <= MaxU32
    BY ListAssumption, Pointers
  <2>6. Relisted(l, Null, Null, 0)
    BY <1>1, <2>1, <2>4, <2>5, SinglyRelists
  <2>7. next' = Forget(Put(next, Before(S[l], 1), After(S[l], 1)), {S[l][1]})
    BY <1>4, <2>2, <2>3, SinglyStores DEF Put
  <2>8. nodes' = nodes \ {S[l][1]} /\ held' = held \cup {S[l][1]} /\ freed' = freed /\ ret' = S[l][1]
        /\ fault' = FALSE
    BY <1>4, <2>2 DEF Singly!Loses, Singly!Derefs
  <2>9. Len(S[l]) - 1 = 0
    BY <2>1
  <2> HIDE DEF n
  <2> QED BY <1>1, <2>1, <2>3, <2>6, <2>7, <2>8, <2>9, LeaveMove DEF n
<1>5. CASE /\ Size(l) > 1
           /\ Singly!Detach(l, Nth(l, n - 1), Nth(l, n), Members(l) \cup {next[list[l].first]})
  <2>1. n > 1 /\ n \in 1..n /\ n \in 1..(n + 1) /\ 1 \in 1..n /\ Present(l)
    BY <1>1, <1>2, <1>5, Places
  <2>2. Nth(l, n - 1) = Before(S[l], n) /\ Nth(l, n) = S[l][n]
    BY <1>1, <2>1, Places
  <2>3. list[l].first = S[l][1] /\ Members(l) \subseteq nodes
    BY <1>1, <2>1, Places
  <2>4. next[S[l][1]] = S[l][2] /\ 2 \in 1..n
    <3>1. next[S[l][1]] = After(S[l], 1)
      BY <1>1, <2>1, NextIs
    <3> QED BY <3>1, <2>1 DEF After
  <2>5. S[l][2] \in nodes
    BY <1>1, <2>4, NextIs
  <2>6. Members(l) \cup {next[list[l].first]} \in SUBSET nodes
    BY <2>3, <2>4, <2>5
  <2> QED BY <1>5, <2>1, <2>2, <2>6, SinglyDetaches
<1>6. Singly!Pop(l) <=> \/ Singly!Size(l) = 0 /\ Singly!Refuse(Null, {})
                        \/ /\ Singly!Size(l) = 1
                           /\ list' = [list EXCEPT ![l].first = Null, ![l].count = 0]
                           /\ next' = Singly!Forget(next, {list[l].first})
                           /\ Singly!Loses(list[l].first)
                           /\ Singly!Derefs({list[l].first})
                        \/ /\ Singly!Size(l) > 1
                           /\ Singly!Detach(l, Singly!Nth(l, Len(Singly!Contents(l)) - 1),
                                            Singly!Nth(l, Len(Singly!Contents(l))),
                                            Singly!Members(l) \cup {next[list[l].first]})
  BY DEF Singly!Pop
<1> QED BY <1>2, <1>3, <1>4, <1>5, <1>6, SinglyLoops, SinglyPassed

\* singly_linked_shift.
LEMMA SinglyShift ==
    ASSUME NEW S, Single(S), NEW l \in List, Singly!Shift(l)
    PROVE  Goes
<1>1. State(S) /\ Still(S) /\ {} \in SUBSET nodes
  BY DEF Single
<1>2. CASE Singly!Refuse(Null, {})
  BY <1>1, <1>2, SinglyRefuses
<1>3. CASE /\ Present(l) /\ list[l].first # Null
           /\ Singly!Detach(l, Null, list[l].first, {list[l].first})
  <2>1. Len(S[l]) # 0 /\ list[l].first = S[l][1] /\ list[l].first \in nodes /\ Len(S[l]) \in Nat
    BY <1>1, <1>3, Places
  <2>2. 1 \in 1..Len(S[l])
    BY <2>1
  <2>3. Null = Before(S[l], 1) /\ {list[l].first} \in SUBSET nodes
    BY <2>1 DEF Before
  <2> QED BY <1>3, <2>1, <2>2, <2>3, SinglyDetaches
<1> QED BY <1>2, <1>3, SinglyLoops DEF Singly!Shift

\* singly_linked_remove.
LEMMA SinglyRemove ==
    ASSUME NEW S, Single(S), NEW l \in List, NEW entry, Singly!Remove(l, entry)
    PROVE  Goes
<1> DEFINE i == Match(l, entry, 1)
<1>1. State(S) /\ Still(S) /\ {} \in SUBSET nodes
  BY DEF Single
<1>2. i = 0 \/ i \in 1..Len(S[l])
  BY <1>1, MatchIs DEF Match
<1>3. CASE Singly!Refuse(Null, {})
  BY <1>1, <1>3, SinglyRefuses
<1>4. CASE i # 0 /\ Size(l) # 0 /\ Singly!Detach(l, Nth(l, i - 1), Nth(l, i), Passed(l, i))
  <2> HIDE DEF i
  <2>1. i \in 1..Len(S[l]) /\ Len(S[l]) \in Nat /\ Present(l)
    BY <1>1, <1>2, <1>4, Places
  <2>2. i \in 1..(Len(S[l]) + 1) /\ i \in 0..Len(S[l])
    BY <2>1
  <2>3. Nth(l, i - 1) = Before(S[l], i) /\ Nth(l, i) = S[l][i] /\ Passed(l, i) \in SUBSET nodes
    BY <1>1, <2>1, <2>2, Places
  <2> QED BY <1>4, <2>1, <2>3, SinglyDetaches
<1>5. CASE i = 0 /\ Size(l) # 0 /\ Singly!Refuse(Null, {list[l].first} \cup Passed(l, i))
  <2> HIDE DEF i
  <2>1. Present(l) /\ Len(S[l]) # 0 /\ 0 \in 0..Len(S[l])
    BY <1>1, <1>5, Places
  <2>2. Passed(l, i) \subseteq nodes /\ list[l].first \in nodes
    BY <1>1, <1>5, <2>1, Places
  <2>3. {list[l].first} \cup Passed(l, i) \in SUBSET nodes
    BY <2>2
  <2> QED BY <1>5, <2>3, SinglyRefuses
<1> QED BY <1>3, <1>4, <1>5, SinglyLoops, SinglyMatch, SinglyPassed DEF Singly!Remove

\* singly_linked_remove_after.
LEMMA SinglyRemoveAfter ==
    ASSUME NEW S, Single(S), NEW l \in List, NEW entry, Singly!RemoveAfter(l, entry)
    PROVE  Goes
<1> DEFINE i == Match(l, entry, 1)
           node == InList(l, entry)
<1>1. State(S) /\ Still(S) /\ {} \in SUBSET nodes
  BY DEF Single
<1>2. i = 0 \/ i \in 1..Len(S[l])
  BY <1>1, MatchIs DEF Match
<1>3. node = Nth(l, i)
  BY DEF InList
<1> HIDE DEF i, node
<1>4. Passed(l, i) \subseteq nodes /\ Len(S[l]) \in Nat
  <2>1. i \in 0..Len(S[l]) /\ Len(S[l]) \in Nat
    BY <1>1, <1>2, Places
  <2> QED BY <1>1, <2>1, Places
<1>5. CASE Singly!Refuse(Null, {})
  BY <1>1, <1>5, SinglyRefuses
<1>6. CASE Singly!Refuse(Null, Passed(l, i))
  <2>1. Passed(l, i) \in SUBSET nodes
    BY <1>4
  <2> QED BY <1>6, <2>1, SinglyRefuses
<1>7. CASE /\ Size(l) # 0 /\ next[node] # Null
           /\ Singly!Detach(l, node, next[node], Passed(l, i) \cup {next[node]})
  <2>1. i # 0
    BY <1>1, <1>3, <1>7, Places, NextNull
  <2>2. i \in 1..Len(S[l]) /\ node = S[l][i]
    BY <1>1, <1>2, <1>3, <2>1, Places
  <2>3. next[node] = After(S[l], i)
    BY <1>1, <2>2, NextIs
  <2>4. i < Len(S[l]) /\ next[node] = S[l][i + 1]
    BY <1>7, <2>3 DEF After
  <2>5. i + 1 \in 1..Len(S[l]) /\ (i + 1) - 1 = i /\ 1 < i + 1
    BY <1>4, <2>2, <2>4
  <2>6. node = Before(S[l], i + 1)
    BY <2>2, <2>5 DEF Before
  <2>7. S[l][i + 1] \in nodes
    BY <1>1, <2>5, NextIs
  <2>8. Passed(l, i) \cup {next[node]} \in SUBSET nodes
    BY <1>4, <2>4, <2>7
  <2>9. Present(l)
    BY <1>7 DEF Size
  <2> QED BY <1>7, <2>4, <2>5, <2>6, <2>8, <2>9, SinglyDetaches
<1> QED BY <1>5, <1>6, <1>7, SinglyLoops, SinglyMatch, SinglyPassed DEF Singly!RemoveAfter, i, node

\* singly_linked_remove_before.
LEMMA SinglyRemoveBefore ==
    ASSUME NEW S, Single(S), NEW l \in List, NEW entry, Singly!RemoveBefore(l, entry)
    PROVE  Goes
<1> DEFINE i == Match(l, entry, 2)
           N == {list[l].first, next[list[l].first]} \cup Passed(l, i)
<1>1. State(S) /\ Still(S) /\ {} \in SUBSET nodes
  BY DEF Single
<1>2. i = 0 \/ i \in 2..Len(S[l])
  BY <1>1, MatchIs DEF Match
<1> HIDE DEF i
<1>3. Len(S[l]) \in Nat /\ Size(l) = Len(S[l])
  BY <1>1, Places
<1>4. ASSUME Size(l) > 1
      PROVE  N \in SUBSET nodes /\ Present(l)
  <2>1. 1 \in 1..Len(S[l]) /\ 2 \in 1..Len(S[l]) /\ 1 < Len(S[l]) /\ i \in 0..Len(S[l]) /\ Present(l)
        /\ Len(S[l]) # 0
    BY <1>1, <1>2, <1>3, <1>4, Places
  <2>2. list[l].first = S[l][1]
    BY <1>1, <2>1, Places
  <2>3. next[S[l][1]] = S[l][2] /\ S[l][1] \in nodes
    <3>1. next[S[l][1]] = After(S[l], 1) /\ S[l][1] \in nodes
      BY <1>1, <2>1, NextIs
    <3> QED BY <3>1, <2>1 DEF After
  <2>4. S[l][2] \in nodes
    BY <1>1, <2>1, NextIs
  <2>5. Passed(l, i) \subseteq nodes
    BY <1>1, <2>1, Places
  <2> QED BY <2>1, <2>2, <2>3, <2>4, <2>5
<1>5. CASE Singly!Refuse(Null, {})
  BY <1>1, <1>5, SinglyRefuses
<1>6. CASE Size(l) > 1 /\ Singly!Refuse(Null, N)
  <2> HIDE DEF N
  <2> QED BY <1>4, <1>6, SinglyRefuses
<1>7. CASE Size(l) > 1 /\ i # 0 /\ Singly!Detach(l, Nth(l, i - 2), Nth(l, i - 1), N)
  <2>1. i - 1 \in 1..Len(S[l]) /\ i - 1 \in 1..(Len(S[l]) + 1) /\ (i - 1) - 1 = i - 2
    BY <1>2, <1>3, <1>7
  <2>2. Nth(l, i - 2) = Before(S[l], i - 1) /\ Nth(l, i - 1) = S[l][i - 1]
    BY <1>1, <2>1, Places
  <2> HIDE DEF N
  <2> QED BY <1>4, <1>7, <2>1, <2>2, SinglyDetaches
<1> QED BY <1>5, <1>6, <1>7, SinglyLoops, SinglyMatch, SinglyPassed DEF Singly!RemoveBefore, i

\* singly_linked_search.
LEMMA SinglySearch ==
    ASSUME NEW S, Single(S), NEW l \in List, NEW c, NEW key, Singly!Search(l, c, key)
    PROVE  Goes
<1> DEFINE i == MatchBy(c, l, key, 1)
<1>1. State(S) /\ Still(S) /\ {} \in SUBSET nodes
  BY DEF Single
<1>2. i = 0 \/ i \in 1..Len(S[l])
  BY <1>1, MatchIs
<1> HIDE DEF i
<1>3. CASE Singly!Refuse(Null, {})
  BY <1>1, <1>3, SinglyRefuses
<1>4. CASE Present(l) /\ Singly!Refuse(Nth(l, i), Passed(l, i))
  <2>1. i \in 0..Len(S[l])
    BY <1>1, <1>2, Places
  <2>2. Passed(l, i) \in SUBSET nodes
    BY <1>1, <2>1, Places
  <2>3. Nth(l, i) = Null \/ \E k \in 1..Len(S[l]) : Nth(l, i) = S[l][k]
    BY <1>1, <1>2, Places
  <2> QED BY <1>4, <2>2, <2>3, SinglyRefuses
<1> QED BY <1>3, <1>4, SinglyLoops, SinglyMatch, SinglyPassed DEF Singly!Search, i

\* A struct keeps all but its count, and another goes.
LEMMA SinglyJoin ==
    ASSUME NEW S, Single(S), NEW l \in List, NEW m \in List \ {l}, Singly!Join(l, m)
    PROVE  Goes
<1>1. State(S) /\ Still(S) /\ {} \in SUBSET nodes /\ kind = "singly" /\ TypeOK
      /\ rev' = Null /\ prev' = prev /\ kind' = kind /\ "wide" \notin Beyond
  BY DEF Single, State, Still, Contract
<1>2. CASE Singly!Refuse(ERR, {})
  BY <1>1, <1>2, SinglyRefuses
<1>3. CASE /\ Singly!Joinable(l, m) /\ Singly!Fits(list[l].count + list[m].count)
           /\ next' = Put(next, Nth(l, Len(Contents(l))), list[m].first)
           /\ list' = [list EXCEPT ![l].count = By(@, list[m].count), ![m] = Null]
           /\ ret' = OK
           /\ Singly!Derefs(Members(l))
           /\ UNCHANGED <<nodes, held, freed>>
  <2> DEFINE n == Len(S[l])
             k == Len(S[m])
             r == [list[l] EXCEPT !.count = n + k]
  <2>1. Present(l) /\ Present(m) /\ list[l].count # 0 /\ list[m].count # 0
        /\ list[l].compare = list[m].compare /\ list[l].count + list[m].count <= MaxU32
    BY <1>1, <1>3, SinglyLoops DEF Singly!Joinable, Singly!Fits
  <2>2. list[l].count = n /\ list[m].count = k /\ n \in Nat /\ k \in Nat /\ n # 0 /\ k # 0
    BY <1>1, <2>1, Places
  <2>3. n \in 1..n /\ Nth(l, Len(Contents(l))) = S[l][n] /\ list[m].first = S[m][1]
    <3>1. n \in 1..n /\ Len(Contents(l)) = n
      BY <1>1, <2>2, Places
    <3> QED BY <1>1, <2>1, <2>2, <3>1, Places
  <2>4. By(list[l].count, list[m].count) = n + k /\ n + k \in Nat /\ n + k <= MaxU32
    <3>1. n + k <= MaxU32 /\ 0 <= n + k /\ k \in Int
      <4>1. list[l].count + list[m].count = n + k
        BY <2>2
      <4> HIDE DEF n, k
      <4> QED BY <2>1, <2>2, <4>1
    <3> HIDE DEF n, k
    <3> QED BY <2>2, <3>1, ByIs
  <2>5. list \in [List -> {Null} \cup StructOf]
    BY <1>1 DEF TypeOK, StructOf
  <2>6. list' = [[list EXCEPT ![l] = r] EXCEPT ![m] = Null]
    <3>1. list' = [list EXCEPT ![l].count = By(list[l].count, list[m].count), ![m] = Null]
      BY <1>3, <2>5
    <3> HIDE DEF n, k
    <3> QED BY <2>4, <2>5, <3>1
  <2>7. r = [first |-> list[l].first, compare |-> list[l].compare, count |-> n + k]
    <3>1. list[l] = [first |-> list[l].first, compare |-> list[l].compare, count |-> list[l].count]
      BY <1>1, <2>1, StructIs
    <3> HIDE DEF n, k
    <3> QED BY <3>1
  <2>8. r \in Singly!Struct /\ r # Null
    <3>1. n + k \in 0..MaxU32
      <4> HIDE DEF n, k
      <4> QED BY <2>2, <2>4, ListAssumption
    <3>2. list[l].compare \in Compare /\ list[l].first \in Ptr
      BY <1>1, <2>1, StructIs
    <3>3. r \in Singly!Struct
      <4> HIDE DEF n, k
      <4> QED BY <2>7, <3>1, <3>2 DEF Singly!Struct, Singly!Ptr, Ptr
    <3> HIDE DEF r
    <3> QED BY <3>3, ListAssumption DEF Singly!Struct, Singly!Ptr
  <2>9. r.first = list[l].first /\ r.compare = list[l].compare /\ r.count = n + k
    BY <2>7
  <2>10. r \in StructOf
    BY <1>1, <2>8 DEF StructOf
  <2> HIDE DEF r
  <2>11. list' \in [List -> {Null} \cup StructOf] /\ list'[l] = r /\ list'[m] = Null
         /\ \A o \in List : o # l /\ o # m => list'[o] = list[o]
    BY <2>5, <2>6, <2>10
  <2>12. next' = Put(next, S[l][Len(S[l])], S[m][1])
    BY <1>3, <2>3
  <2>13. fault' = FALSE /\ nodes' = nodes /\ held' = held /\ freed' = freed /\ ret' = OK
    <3>1. Members(l) \subseteq nodes
      BY <1>1, Places
    <3> QED BY <1>3, <3>1 DEF Singly!Derefs
  <2>14. /\ list'[l] # Null /\ list'[m] = Null /\ list'[l].first = list[l].first
         /\ list'[l].count = Len(S[l]) + Len(S[m]) /\ list'[l].compare = list[l].compare
    BY <2>8, <2>9, <2>11
  <2>15. l # m /\ Len(S[l]) # 0 /\ Len(S[m]) # 0
    BY <2>2
  <2> HIDE DEF n, k
  <2> QED BY <1>1, <2>1, <2>11, <2>12, <2>13, <2>14, <2>15, JoinMove
<1>4. \/ Singly!Refuse(Singly!ERR, {})
      \/ /\ Singly!Joinable(l, m) /\ Singly!Fits(list[l].count + list[m].count)
         /\ next' = Singly!Put(next, Singly!Nth(l, Len(Singly!Contents(l))), list[m].first)
         /\ list' = [list EXCEPT ![l].count = Singly!By(@, list[m].count), ![m] = Null]
         /\ ret' = Singly!OK
         /\ Singly!Derefs(Singly!Members(l))
         /\ UNCHANGED <<nodes, held, freed>>
  BY DEF Singly!Join
<1> QED BY <1>2, <1>3, <1>4, SinglyLoops, SinglyPassed, SinglyStores

\* singly_linked_destroy.
LEMMA SinglyDestroy ==
    ASSUME NEW S, Single(S), NEW l \in List, Singly!Destroy(l)
    PROVE  Goes
<1> DEFINE N == IF list[l].count = 0 THEN {} ELSE Members(l)
<1>1. State(S) /\ Still(S) /\ {} \in SUBSET nodes /\ kind = "singly"
      /\ rev' = Null /\ prev' = prev /\ kind' = kind
  BY DEF Single, Still
<1>2. CASE Singly!Refuse(ERR, {})
  BY <1>1, <1>2, SinglyRefuses
<1>3. CASE Present(l) /\ Singly!Frees(l, N)
  <2>1. Members(l) = {S[l][i] : i \in 1..Len(S[l])} /\ Len(S[l]) \in Nat /\ list[l].count = Len(S[l])
        /\ Members(l) \subseteq nodes
    BY <1>1, <1>3, SeesSequences, Places
  <2>2. N = {S[l][i] : i \in 1..Len(S[l])} /\ N \subseteq nodes
    BY <2>1
  <2> HIDE DEF N
  <2>3. /\ list' = [list EXCEPT ![l] = Null] /\ next' = Forget(next, N)
        /\ nodes' = nodes \ N /\ freed' = freed \cup N /\ ret' = OK /\ held' = held
        /\ fault' = FALSE
    BY <1>3, <2>2, SinglyStores DEF Singly!Frees, Singly!Derefs
  <2> QED BY <1>1, <1>3, <2>2, <2>3, DestroyMove
<1> QED BY <1>2, <1>3, SinglyLoops DEF Singly!Destroy, Singly!ERR, ERR

\* singly_linked_reverse: the first element, ...
LEMMA SinglyReverseStart ==
    ASSUME NEW S, State(S), Still(S), kind = "singly", prev' = prev, kind' = kind,
           NEW l \in List, Singly!ReverseStart(l)
    PROVE  Goes
<1>1. State(S) /\ Still(S) /\ kind = "singly" /\ prev' = prev /\ kind' = kind
      /\ Family(List, S) /\ Onward(next, List, S)
  BY DEF Single, State, Shape, Still
<1>2. 1 < Len(S[l]) /\ Len(S[l]) \in Nat /\ Present(l)
  BY <1>1, SinglyLoops, Places DEF Singly!ReverseStart
<1>3. 1 \in 1..Len(S[l]) /\ 2 \in 1..Len(S[l]) /\ 1 \in 1..(Len(S[l]) - 1) /\ Len(S[l]) # 0 /\ 1 + 1 = 2
      /\ 2 # 1
  BY <1>2
<1>4. list[l].first = S[l][1] /\ next[S[l][1]] = S[l][2] /\ S[l][1] \in nodes
  <2>1. list[l].first = S[l][1]
    BY <1>1, <1>2, <1>3, Places
  <2>2. next[S[l][1]] = After(S[l], 1) /\ S[l][1] \in nodes
    BY <1>1, <1>3, NextIs
  <2> QED BY <1>2, <2>1, <2>2 DEF After
<1>5. next' = Put(next, S[l][1], Null)
  BY <1>4, SinglyStores DEF Singly!ReverseStart
<1>6. Turns(next', List, S, l, 1)
  BY <1>1, <1>2, <1>5, TurnsFirst
<1>7. S[l][2] \in nodes /\ S[l][2] \in Elem /\ next'[S[l][2]] = After(S[l], 2)
  <2>1. S[l][2] \in nodes /\ S[l][2] \in Elem /\ next[S[l][2]] = After(S[l], 2)
    BY <1>1, <1>3, NextIs
  <2>2. S[l][2] # S[l][1]
    BY <1>1, <1>3, SameSpot DEF Family
  <2>3. S[l][2] \in Ptr /\ next \in [Ptr -> Ptr]
    BY <1>1, <2>1, Pointers DEF Onward
  <2>4. next'[S[l][2]] = next[S[l][2]]
    BY <1>5, <2>2, <2>3 DEF Put
  <2> QED BY <2>1, <2>4
<1>8. rev' = [list |-> l, first |-> S[l][1], second |-> S[l][1 + 1], third |-> After(S[l], 1 + 1)]
  <2>1. rev' = [list |-> l, first |-> S[l][1], second |-> S[l][2], third |-> next'[S[l][2]]]
    BY <1>4 DEF Singly!ReverseStart
  <2> QED BY <1>3, <1>7, <2>1
<1>9. UNCHANGED <<list, prev, nodes, held, freed, ret, kind>> /\ fault' = FALSE
  <2>1. {S[l][1], S[l][2]} \subseteq nodes
    BY <1>4, <1>7
  <2> QED BY <1>1, <1>4, <2>1 DEF Singly!ReverseStart, Singly!Derefs
<1>10. \A o \in List : Present(o) /\ o # l => list[o].first = First(S[o])
  BY <1>1 DEF Still
<1> QED BY <1>1, <1>2, <1>3, <1>6, <1>8, <1>9, <1>10, TurnMove

\* A reversal under way.
LEMMA TurningIs ==
    ASSUME NEW S, State(S), rev # Null
    PROVE  \E l \in List : \E r \in 1..(Len(S[l]) - 1) :
             /\ Present(l) /\ kind = "singly" /\ l = rev.list
             /\ rev = [list |-> l, first |-> S[l][r], second |-> S[l][r + 1],
                       third |-> After(S[l], r + 1)]
             /\ Turns(next, List, S, l, r)
             /\ \A o \in List : Present(o) /\ o # l => list[o].first = First(S[o])
<1>1. Turning(S) /\ rev \in Singly!Reversal
  BY DEF State, Still, TypeOK
<1>2. rev.list \in List /\ rev = [list |-> rev.list, first |-> rev.first, second |-> rev.second,
                                  third |-> rev.third]
  BY <1>1 DEF Singly!Reversal
<1>3. PICK r \in 1..(Len(S[rev.list]) - 1) :
         /\ rev.first = S[rev.list][r]
         /\ rev.second = S[rev.list][r + 1]
         /\ rev.third = After(S[rev.list], r + 1)
         /\ Turns(next, List, S, rev.list, r)
  BY <1>1 DEF Turning
<1>4. /\ Present(rev.list) /\ kind = "singly"
      /\ \A o \in List : Present(o) /\ o # rev.list => list[o].first = First(S[o])
  BY <1>1 DEF Turning
<1>5. rev = [list |-> rev.list, first |-> S[rev.list][r], second |-> S[rev.list][r + 1],
             third |-> After(S[rev.list], r + 1)]
  BY <1>2, <1>3
<1> QED BY <1>2, <1>3, <1>4, <1>5

\* ... one turn of the loop, ...
LEMMA SinglyReverseStep ==
    ASSUME NEW S, State(S), prev' = prev, kind' = kind, Singly!ReverseStep
    PROVE  Goes
<1>1. rev # Null /\ rev.third # Null
  BY DEF Singly!ReverseStep
<1>2. PICK l \in List : \E r \in 1..(Len(S[l]) - 1) :
             /\ Present(l) /\ kind = "singly" /\ l = rev.list
             /\ rev = [list |-> l, first |-> S[l][r], second |-> S[l][r + 1],
                       third |-> After(S[l], r + 1)]
             /\ Turns(next, List, S, l, r)
             /\ \A o \in List : Present(o) /\ o # l => list[o].first = First(S[o])
  BY <1>1, TurningIs
<1>3. PICK r \in 1..(Len(S[l]) - 1) :
             /\ Present(l) /\ kind = "singly" /\ l = rev.list
             /\ rev = [list |-> l, first |-> S[l][r], second |-> S[l][r + 1],
                       third |-> After(S[l], r + 1)]
             /\ Turns(next, List, S, l, r)
             /\ \A o \in List : Present(o) /\ o # l => list[o].first = First(S[o])
  BY <1>2
<1> DEFINE s == S[l]
<1>4. s \in Seq(Elem) /\ Len(s) \in Nat /\ Family(List, S) /\ \A i \in 1..Len(s) : s[i] \in Elem
  <2>1. s \in Seq(Elem) /\ Family(List, S)
    BY DEF State, Shape, Family
  <2> HIDE DEF s
  <2> QED BY <2>1
<1>5. \A i \in 1..Len(s) : s[i] \in nodes
  <2>1. \A i \in 1..Len(s) : In(List, S, s[i])
    BY DEF In
  <2> QED BY <1>4, <2>1 DEF State, Shape
<1>6. After(s, r + 1) # Null /\ rev.first = s[r] /\ rev.second = s[r + 1] /\ rev.third = After(s, r + 1)
  <2>1. rev.first = s[r] /\ rev.second = s[r + 1] /\ rev.third = After(s, r + 1)
    BY <1>3
  <2> QED BY <1>1, <2>1
<1>7. r + 1 < Len(s) /\ After(s, r + 1) = s[r + 2]
  <2>1. r \in Nat /\ (r + 1) + 1 = r + 2
    BY <1>4
  <2> QED BY <1>6, <2>1 DEF After
<1>8. r + 1 \in 1..(Len(s) - 1) /\ r + 1 \in 1..Len(s) /\ r + 2 \in 1..Len(s) /\ (r + 1) + 1 = r + 2
      /\ r \in 1..Len(s) /\ ~(r + 2 <= r + 1) /\ ~(r + 2 <= r) /\ (r + 2) + 1 = r + 3
      /\ r + 2 # r + 1
  BY <1>4, <1>7
<1>9. next' = Put(next, s[r + 1], s[r])
  BY <1>6, SinglyStores DEF Singly!ReverseStep
<1>10. Turns(next', List, S, l, r + 1)
  BY <1>3, <1>4, <1>9, TurnsAnother
<1>11. next'[s[r + 2]] = After(s, r + 2)
  <2>1. next'[s[r + 2]] = IF r + 2 <= r + 1 THEN IF 1 < r + 2 THEN s[(r + 2) - 1] ELSE Null
                          ELSE IF r + 2 < Len(s) THEN s[(r + 2) + 1] ELSE Null
    BY <1>8, <1>10 DEF Turns, Half
  <2> QED BY <1>8, <2>1 DEF After
<1>12. rev' = [list |-> l, first |-> s[r + 1], second |-> s[(r + 1) + 1],
               third |-> After(s, (r + 1) + 1)]
  <2>1. rev' = [rev EXCEPT !.first = rev.second, !.second = rev.third, !.third = next'[rev.third]]
    BY DEF Singly!ReverseStep
  <2>2. rev' = [list |-> l, first |-> rev.second, second |-> rev.third, third |-> next'[rev.third]]
    <3>1. PICK a, b, c : rev = [list |-> l, first |-> a, second |-> b, third |-> c]
      BY <1>3
    <3>2. [rev EXCEPT !.first = rev.second] = [list |-> l, first |-> rev.second, second |-> b, third |-> c]
      BY <3>1
    <3>3. [[list |-> l, first |-> rev.second, second |-> b, third |-> c] EXCEPT !.second = rev.third]
          = [list |-> l, first |-> rev.second, second |-> rev.third, third |-> c]
      OBVIOUS
    <3>4. [[list |-> l, first |-> rev.second, second |-> rev.third, third |-> c]
             EXCEPT !.third = next'[rev.third]]
          = [list |-> l, first |-> rev.second, second |-> rev.third, third |-> next'[rev.third]]
      OBVIOUS
    <3> QED BY <2>1, <3>2, <3>3, <3>4
  <2> QED BY <1>6, <1>7, <1>8, <1>11, <2>2
<1>13. UNCHANGED <<list, prev, nodes, held, freed, ret, kind>> /\ fault' = FALSE
  <2>1. {rev.second, rev.third} \subseteq nodes
    BY <1>5, <1>6, <1>7, <1>8
  <2> QED BY <2>1 DEF Singly!ReverseStep, Singly!Derefs
<1> QED BY <1>3, <1>8, <1>10, <1>12, <1>13, TurnMove

\* ... and the end.
LEMMA SinglyReverseEnd ==
    ASSUME NEW S, State(S), prev' = prev, kind' = kind, Singly!ReverseEnd
    PROVE  Goes
<1>1. rev # Null /\ rev.third = Null
  BY DEF Singly!ReverseEnd
<1>2. PICK l \in List : \E r \in 1..(Len(S[l]) - 1) :
             /\ Present(l) /\ kind = "singly" /\ l = rev.list
             /\ rev = [list |-> l, first |-> S[l][r], second |-> S[l][r + 1],
                       third |-> After(S[l], r + 1)]
             /\ Turns(next, List, S, l, r)
             /\ \A o \in List : Present(o) /\ o # l => list[o].first = First(S[o])
  BY <1>1, TurningIs
<1>3. PICK r \in 1..(Len(S[l]) - 1) :
             /\ Present(l) /\ kind = "singly" /\ l = rev.list
             /\ rev = [list |-> l, first |-> S[l][r], second |-> S[l][r + 1],
                       third |-> After(S[l], r + 1)]
             /\ Turns(next, List, S, l, r)
             /\ \A o \in List : Present(o) /\ o # l => list[o].first = First(S[o])
  BY <1>2
<1> DEFINE s == S[l]
<1>4. s \in Seq(Elem) /\ Len(s) \in Nat /\ Family(List, S) /\ \A i \in 1..Len(s) : s[i] \in Elem
  <2>1. s \in Seq(Elem) /\ Family(List, S)
    BY DEF State, Shape, Family
  <2> HIDE DEF s
  <2> QED BY <2>1
<1>5. \A i \in 1..Len(s) : s[i] \in nodes /\ s[i] # Null
  <2>1. \A i \in 1..Len(s) : In(List, S, s[i])
    BY DEF In
  <2> QED BY <1>4, <2>1, Pointers DEF State, Shape
<1>6. After(s, r + 1) = Null /\ rev.first = s[r] /\ rev.second = s[r + 1]
  <2>1. rev.first = s[r] /\ rev.second = s[r + 1] /\ rev.third = After(s, r + 1)
    BY <1>3
  <2> QED BY <1>1, <2>1
<1>7. r + 1 = Len(s)
  <2>1. r \in Nat /\ r + 1 <= Len(s) /\ (r + 1 < Len(s) => (r + 1) + 1 \in 1..Len(s))
    BY <1>4
  <2>2. ~(r + 1 < Len(s))
    BY <1>5, <1>6, <2>1 DEF After
  <2> QED BY <1>4, <2>1, <2>2
<1>8. next' = Put(next, s[r + 1], s[r])
  BY <1>6, SinglyStores DEF Singly!ReverseEnd
<1>9. Turns(next', List, S, l, Len(S[l]))
  <2>1. Turns(next', List, S, l, r + 1)
    BY <1>3, <1>4, <1>8, TurnsAnother
  <2> QED BY <1>7, <2>1
<1>10. TypeOK /\ s # <<>> /\ r + 1 \in 1..Len(s)
  BY <1>4, <1>7 DEF State
<1>11. Relisted(l, S[l][Len(S[l])], Null, list[l].count)
  <2>1. list' = [list EXCEPT ![l].first = s[Len(s)]]
    BY <1>3, <1>6, <1>7 DEF Singly!ReverseEnd
  <2>2. list[l] = [first |-> list[l].first, compare |-> list[l].compare, count |-> list[l].count]
        /\ list[l].count \in Nat /\ list[l].count <= MaxU32
    BY <1>3, <1>10, StructIs
  <2>3. [list[l] EXCEPT !.first = s[Len(s)]]
          = [first |-> s[Len(s)], compare |-> list[l].compare, count |-> list[l].count]
    <3>1. PICK a, b, c : list[l] = [first |-> a, compare |-> b, count |-> c]
      BY <2>2
    <3>2. [list[l] EXCEPT !.first = s[Len(s)]] = [first |-> s[Len(s)], compare |-> b, count |-> c]
      BY <3>1
    <3> QED BY <3>1, <3>2
  <2>4. list' = [list EXCEPT ![l] = [first |-> s[Len(s)], compare |-> list[l].compare,
                                     count |-> list[l].count]]
    BY <2>1, <2>3
  <2>5. s[Len(s)] \in Ptr
    BY <1>4, <1>7, <1>10, Pointers
  <2> QED BY <1>3, <1>10, <2>2, <2>4, <2>5, SinglyRelists
<1>12. UNCHANGED <<prev, nodes, held, freed, ret, kind>> /\ fault' = FALSE /\ rev' = Null
  <2>1. {rev.second} \subseteq nodes
    BY <1>5, <1>6, <1>10
  <2> QED BY <2>1 DEF Singly!ReverseEnd, Singly!Derefs
<1> QED BY <1>3, <1>9, <1>10, <1>11, <1>12, TurnedMove

\* The places of the nodes a split is told.
FromSpot(w, from) == IF from = Null THEN 1 ELSE CHOOSE k \in DOMAIN w : w[k] = from
ToSpot(w, to) == IF to = Null THEN Len(w) ELSE CHOOSE k \in DOMAIN w : w[k] = to

\* The place of a node of the list.
LEMMA Spot ==
    ASSUME NEW S, State(S), Still(S), NEW l \in List, NEW q \in Members(l)
    PROVE  \E k \in 1..Len(S[l]) : S[l][k] = q /\ (CHOOSE i \in DOMAIN Contents(l) : Contents(l)[i] = q) = k
<1> DEFINE k == CHOOSE i \in DOMAIN Contents(l) : Contents(l)[i] = q
<1>1. Contents(l) = S[l] /\ S[l] \in Seq(Elem) /\ Members(l) = {S[l][i] : i \in 1..Len(S[l])}
  BY SeesSequences
<1>2. DOMAIN Contents(l) = 1..Len(S[l])
  BY <1>1
<1>3. \E i \in DOMAIN Contents(l) : Contents(l)[i] = q
  BY <1>1, <1>2
<1>4. k \in DOMAIN Contents(l) /\ Contents(l)[k] = q
  BY <1>3
<1> QED BY <1>1, <1>2, <1>4

\* Split is told two places from left to right, and not the whole list.
LEMMA SplitSpots ==
    ASSUME NEW S, State(S), Still(S), NEW l \in List, NEW from, NEW to,
           Splittable(l, from, to), LeftToRight(l, from, to),
           NEW i, i = FromSpot(Contents(l), from), NEW j, j = ToSpot(Contents(l), to)
    PROVE  /\ i \in 1..Len(S[l]) /\ j \in i..Len(S[l]) /\ j - i + 1 < Len(S[l])
           /\ from # Null => S[l][i] = from
           /\ to # Null => S[l][j] = to
<1>1. /\ Contents(l) = S[l] /\ S[l] \in Seq(Elem) /\ Len(S[l]) \in Nat
      /\ Members(l) = {S[l][k] : k \in 1..Len(S[l])}
      /\ DOMAIN Contents(l) = 1..Len(S[l]) /\ list[l].first = First(S[l])
  <2>1. Contents(l) = S[l] /\ S[l] \in Seq(Elem) /\ Len(S[l]) \in Nat
        /\ Members(l) = {S[l][k] : k \in 1..Len(S[l])}
    BY SeesSequences
  <2>2. list[l].first = First(S[l])
    BY Places DEF Splittable
  <2> QED BY <2>1, <2>2
<1>2. /\ from = Null \/ from \in Members(l)
      /\ to = Null \/ to \in Members(l)
      /\ from # Null \/ to # Null
      /\ from \in {Null, list[l].first} => next[to] # Null
  BY DEF Splittable
<1>3. Len(S[l]) # 0
  <2>1. Members(l) # {}
    BY <1>2
  <2> QED BY <1>1, <2>1
<1>4. i \in 1..Len(S[l]) /\ (from # Null => S[l][i] = from)
  <2>1. CASE from = Null
    BY <1>1, <1>3, <2>1 DEF FromSpot
  <2>2. CASE from # Null
    <3>1. PICK k \in 1..Len(S[l]) :
            S[l][k] = from /\ (CHOOSE m \in DOMAIN Contents(l) : Contents(l)[m] = from) = k
      BY <1>2, <2>2, Spot
    <3> QED BY <2>2, <3>1 DEF FromSpot
  <2> QED BY <2>1, <2>2
<1>5. j \in 1..Len(S[l]) /\ (to # Null => S[l][j] = to)
  <2>1. CASE to = Null
    BY <1>1, <1>3, <2>1 DEF ToSpot
  <2>2. CASE to # Null
    <3>1. PICK k \in 1..Len(S[l]) :
            S[l][k] = to /\ (CHOOSE m \in DOMAIN Contents(l) : Contents(l)[m] = to) = k
      BY <1>2, <2>2, Spot
    <3> QED BY <2>2, <3>1 DEF ToSpot
  <2> QED BY <2>1, <2>2
<1>6. i <= j
  <2>1. CASE from = Null
    BY <1>1, <1>5, <2>1 DEF FromSpot
  <2>2. CASE to = Null
    BY <1>1, <1>4, <2>2 DEF ToSpot
  <2>3. CASE from # Null /\ to # Null
    BY <1>1, <1>4, <1>5, <2>3 DEF LeftToRight
  <2> QED BY <2>1, <2>2, <2>3
<1>7. ~(i = 1 /\ j = Len(S[l]))
  <2>1. SUFFICES ASSUME i = 1, j = Len(S[l])
                 PROVE  FALSE
    OBVIOUS
  <2>2. from \in {Null, list[l].first}
    BY <1>1, <1>3, <1>4, <2>1 DEF First
  <2>3. CASE to = Null
    BY <1>2, <2>2, <2>3, NextNull
  <2>4. CASE to # Null
    <3>1. next[S[l][j]] = After(S[l], j)
      BY <1>5, NextIs
    <3>2. After(S[l], Len(S[l])) = Null
      BY <1>1 DEF After
    <3> QED BY <1>2, <1>5, <2>1, <2>2, <2>4, <3>1, <3>2
  <2> QED BY <2>3, <2>4
<1>8. j - i + 1 < Len(S[l]) /\ j \in i..Len(S[l])
  <2>1. i \in Nat /\ j \in Nat /\ Len(S[l]) \in Nat /\ 1 <= i /\ i <= j /\ j <= Len(S[l])
    BY <1>1, <1>4, <1>5, <1>6
  <2> HIDE DEF First
  <2> QED BY <2>1, <1>7
<1> QED BY <1>4, <1>5, <1>8

\* singly_linked_split.
LEMMA SinglySplit ==
    ASSUME NEW S, Single(S), NEW l \in List, NEW new \in List, ~Singly!Present(new),
           NEW from, NEW to, Singly!Split(l, from, to, new)
    PROVE  Goes
<1> DEFINE w == Contents(l)
           i == FromSpot(w, from)
           j == ToSpot(w, to)
           size == IF to = Null THEN By(list[l].count, 1 - i) ELSE 1 + j - i
<1>1. State(S) /\ Still(S) /\ {} \in SUBSET nodes /\ kind = "singly" /\ TypeOK
      /\ rev' = Null /\ prev' = prev /\ kind' = kind
  BY DEF Single, State, Still
<1>2. CASE Singly!Refuse(Null, {})
  BY <1>1, <1>2, SinglyRefuses
<1>3. CASE /\ Splittable(l, from, to) /\ LeftToRight(l, from, to)
           /\ next' = Put(Put(next, w[j], Null), Nth(l, i - 1), next[w[j]])
           /\ list' = [list EXCEPT ![l].first = IF i = 1 THEN next[w[j]] ELSE @,
                                   ![l].count = By(@, 0 - size),
                                   ![new] = [first |-> w[i], count |-> size,
                                             compare |-> list[l].compare]]
           /\ ret' = OK
           /\ Singly!Derefs(Members(l))
           /\ UNCHANGED <<nodes, held, freed>>
  <2> DEFINE n == Len(S[l])
             d == j - i + 1
             a == IF i = 1 THEN After(S[l], j) ELSE list[l].first
  <2>1. w = S[l] /\ S[l] \in Seq(Elem) /\ n \in Nat /\ Present(l) /\ ~Present(new) /\ l # new
        /\ list[l].count = n /\ Len(w) = n
    <3>1. w = S[l] /\ S[l] \in Seq(Elem) /\ n \in Nat
      BY <1>1, SeesSequences
    <3>2. Present(l) /\ ~Present(new)
      BY <1>3, SinglyLoops DEF Splittable
    <3> QED BY <1>1, <3>1, <3>2, Places
  <2>2. i \in 1..n /\ j \in i..n /\ d < n
    BY <1>1, <1>3, SplitSpots
  <2>3. to = Null => j = n
    BY <2>1 DEF ToSpot
  <2> HIDE DEF w, i, j
  <2>4. i \in Nat /\ j \in Nat /\ 1 <= i /\ i <= j /\ j <= n /\ d \in Nat /\ 1 <= d /\ n <= MaxU32 /\ d < n /\ d = j - i + 1 /\ MaxU32 \in Nat
        /\ i \in 1..(n + 1) /\ j \in 1..n /\ n - d \in Nat
    <3>1. list[l].count <= MaxU32 /\ MaxU32 \in Nat
      BY <1>1, <2>1, StructIs, ListAssumption
    <3> HIDE DEF n
    <3> QED BY <2>1, <2>2, <3>1
  <2>5. size = d
    <3>1. CASE to = Null
      <4>1. 1 - i \in Int /\ 0 <= n + (1 - i) /\ n + (1 - i) <= MaxU32 /\ n + (1 - i) = d
        <5> HIDE DEF n, d
        <5> QED BY <2>1, <2>3, <2>4, <3>1
      <4> HIDE DEF n, d
      <4> QED BY <2>1, <3>1, <4>1, ByIs
    <3>2. CASE to # Null
      BY <2>4, <3>2
    <3> QED BY <3>1, <3>2
  <2> HIDE DEF size
  <2>6. By(list[l].count, 0 - size) = n - d
    <3>1. 0 - d \in Int /\ 0 <= n + (0 - d) /\ n + (0 - d) <= MaxU32 /\ n + (0 - d) = n - d
      <4> HIDE DEF n, d
      <4> QED BY <2>1, <2>4
    <3> HIDE DEF n, d
    <3> QED BY <2>1, <2>5, <3>1, ByIs
  <2>7. next[w[j]] = After(S[l], j) /\ Nth(l, i - 1) = Before(S[l], i) /\ After(S[l], j) \in Ptr
        /\ S[l][i] \in Ptr
    <3>1. next[S[l][j]] = After(S[l], j) /\ Nth(l, i - 1) = Before(S[l], i)
      BY <1>1, <2>4, NextIs, Places
    <3>2. After(S[l], j) \in Ptr
      <4>1. j \in 1..(n + 1)
        BY <2>1, <2>4
      <4> QED BY <2>1, <4>1, Neighbours
    <3>3. S[l][i] \in Ptr
      BY <2>1, <2>2, Pointers
    <3> QED BY <2>1, <3>1, <3>2, <3>3
  <2> DEFINE L1 == [list EXCEPT ![l].first = a, ![l].count = n - d]
             r == [first |-> a, compare |-> list[l].compare, count |-> n - d]
             q == [first |-> S[l][i], compare |-> list[l].compare, count |-> d]
  <2>8. list' = [L1 EXCEPT ![new] = q]
    <3>1. list \in [List -> {Null} \cup StructOf]
      BY <1>1 DEF TypeOK, StructOf
    <3>2. list' = [list EXCEPT ![l].first = IF i = 1 THEN next[w[j]] ELSE list[l].first,
                               ![l].count = By(list[l].count, 0 - size),
                               ![new] = [first |-> w[i], count |-> size, compare |-> list[l].compare]]
      <4>1. list[l] = [first |-> list[l].first, compare |-> list[l].compare, count |-> list[l].count]
        BY <1>1, <2>1, StructIs
      <4> HIDE DEF n, d, a
      <4> QED BY <1>3, <3>1, <4>1
    <3>3. [first |-> w[i], count |-> size, compare |-> list[l].compare] = q
      BY <2>1, <2>5
    <3> HIDE DEF n, d, q
    <3> QED BY <2>6, <2>7, <3>2, <3>3
  <2> HIDE DEF n, d, a
  <2>9. L1 = [list EXCEPT ![l] = r]
    <3>1. L1 = [list EXCEPT ![l].first = a, ![l].count = n - d]
      OBVIOUS
    <3>2. \A x, y, now : now = [list EXCEPT ![l].first = x, ![l].count = y] =>
                        now = [list EXCEPT ![l] = [first |-> x, compare |-> list[l].compare, count |-> y]]
      BY <1>1, <2>1, StoreSingly
    <3> HIDE DEF L1
    <3> QED BY <3>1, <3>2, Zenon
  <2>10. a \in Ptr
    BY <1>1, <2>1, <2>7, StructIs DEF a
  <2>11. r \in Singly!Struct /\ q \in Singly!Struct
    <3>1. n - d \in 0..MaxU32 /\ d \in 0..MaxU32
      BY <2>1, <2>2, <2>4, ListAssumption
    <3>2. list[l].compare \in Compare
      BY <1>1, <2>1, StructIs
    <3> QED BY <2>7, <2>10, <3>1, <3>2 DEF Singly!Struct, Singly!Ptr, Ptr
  <2>12. /\ r # Null /\ r.first = a /\ r.count = n - d /\ r.compare = list[l].compare
         /\ q # Null /\ q.first = S[l][i] /\ q.count = d /\ q.compare = list[l].compare
    BY <2>11, ListAssumption DEF Singly!Struct, Singly!Ptr
  <2>13. r \in StructOf /\ q \in StructOf /\ list \in [List -> {Null} \cup StructOf]
    BY <1>1, <2>11 DEF StructOf, TypeOK
  <2>14. list' = [[list EXCEPT ![l] = r] EXCEPT ![new] = q]
    BY <2>8, <2>9
  <2> HIDE DEF r, q, L1
  <2>15. /\ list' \in [List -> {Null} \cup StructOf] /\ list'[l] = r /\ list'[new] = q
         /\ \A o \in List : o # l /\ o # new => list'[o] = list[o]
    BY <2>1, <2>13, <2>14
  <2>16. next' = Put(Put(next, S[l][j], Null), Before(S[l], i), After(S[l], j))
    BY <1>3, <2>1, <2>7
  <2>17. fault' = FALSE /\ nodes' = nodes /\ held' = held /\ freed' = freed /\ ret' = OK
    <3>1. Members(l) \subseteq nodes
      BY <1>1, Places
    <3> QED BY <1>3, <3>1 DEF Singly!Derefs
  <2>18. /\ list'[l] # Null /\ list'[new] # Null
         /\ list'[l].first = IF i = 1 THEN After(S[l], j) ELSE list[l].first
         /\ list'[l].count = Len(S[l]) - (j - i + 1) /\ list'[l].compare = list[l].compare
         /\ list'[new].first = S[l][i] /\ list'[new].count = j - i + 1
         /\ list'[new].compare = list[l].compare
    BY <2>12, <2>15 DEF a, n, d
  <2>19. i \in 1..Len(S[l]) /\ j \in i..Len(S[l]) /\ j - i + 1 < Len(S[l])
    BY <2>2 DEF n, d
  <2> QED BY <1>1, <2>1, <2>15, <2>16, <2>17, <2>18, <2>19, TearMove
<1>4. Singly!Splittable(l, from, to) <=> Splittable(l, from, to)
  BY SinglyLoops DEF Singly!Splittable, Splittable
<1>5. Singly!LeftToRight(l, from, to) <=> LeftToRight(l, from, to)
  BY SinglyLoops DEF Singly!LeftToRight, LeftToRight
<1>6. ~Singly!Refuse(Null, {}) =>
        LET v == Singly!Contents(l)
            f == FromSpot(v, from)
            t == ToSpot(v, to)
            u == IF to = Null THEN Singly!By(list[l].count, 1 - f) ELSE 1 + t - f
        IN  /\ Singly!Splittable(l, from, to) /\ Singly!LeftToRight(l, from, to)
            /\ next' = Singly!Put(Singly!Put(next, v[t], Null), Singly!Nth(l, f - 1), next[v[t]])
            /\ list' = [list EXCEPT ![l].first = IF f = 1 THEN next[v[t]] ELSE @,
                                    ![l].count = Singly!By(@, 0 - u),
                                    ![new] = [first |-> v[f], count |-> u,
                                              compare |-> list[l].compare]]
            /\ ret' = Singly!OK
            /\ Singly!Derefs(Singly!Members(l))
            /\ UNCHANGED <<nodes, held, freed>>
  BY Zenon DEF Singly!Split, FromSpot, ToSpot
<1> QED BY <1>2, <1>3, <1>4, <1>5, <1>6, SinglyLoops, SinglyPassed, SinglyStores

\* A step of the singly linked list.
LEMMA SinglyGoes ==
    ASSUME NEW S, State(S), Contract, kind = "singly", Singly!Next, UNCHANGED <<prev, kind>>
    PROVE  Goes
<1>1. CASE rev = Null /\ rev' = rev /\ Singly!Call
  <2>1. Still(S) /\ Single(S)
    BY <1>1 DEF State, Turning, Single
  <2>2. PICK l \in List :
           \/ \E c \in Compare \cup {Null} : Singly!Create(l, c)
           \/ \E x \in Singly!Mine : Singly!Push(l, x)
           \/ \E x \in Singly!Mine : Singly!Unshift(l, x)
           \/ \E x \in Singly!Mine, e \in Singly!Known : Singly!InsertAfter(l, e, x)
           \/ \E x \in Singly!Mine, e \in Singly!Known : Singly!InsertBefore(l, e, x)
           \/ Singly!Pop(l)
           \/ Singly!Shift(l)
           \/ \E e \in Singly!Known : Singly!Remove(l, e)
           \/ \E e \in Singly!Known : Singly!RemoveAfter(l, e)
           \/ \E e \in Singly!Known : Singly!RemoveBefore(l, e)
           \/ \E c \in Compare, e \in Singly!Known : Singly!Search(l, c, e)
           \/ \E m \in List \ {l} : Singly!Join(l, m)
           \/ \E new \in List, from, to \in Singly!NodePtr :
                 ~Singly!Present(new) /\ Singly!Split(l, from, to, new)
           \/ Singly!Destroy(l)
    BY <1>1, Zenon DEF Singly!Call
  <2> QED BY <2>1, <2>2, SinglyCreate, SinglyPush, SinglyUnshift, SinglyInsertAfter, SinglyInsertBefore,
             SinglyPop, SinglyShift, SinglyRemove, SinglyRemoveAfter, SinglyRemoveBefore, SinglySearch,
             SinglyJoin, SinglySplit, SinglyDestroy, Zenon
<1>2. CASE rev = Null /\ \E l \in List : Singly!ReverseStart(l)
  <2>1. Still(S)
    BY <1>2 DEF State, Turning
  <2> QED BY <1>2, <2>1, SinglyReverseStart
<1>3. CASE Singly!ReverseStep
  BY <1>3, SinglyReverseStep
<1>4. CASE Singly!ReverseEnd
  BY <1>4, SinglyReverseEnd
<1> QED BY <1>1, <1>2, <1>3, <1>4 DEF Singly!Next

-----------------------------------------------------------------------------
(***************************************************************************)
(* The calls of doubly_linked.c.                                           *)
(***************************************************************************)

\* Where a step of the doubly linked list begins.
Double(S) ==
    /\ State(S) /\ Still(S)
    /\ kind = "doubly"
    /\ Contract
    /\ rev' = rev /\ kind' = kind

\* The stores of DoublyLinked are those of ListNodes.
LEMMA DoublyStores ==
    /\ \A f, p, v : Doubly!Put(f, p, v) = Put(f, p, v)
    /\ \A f, M : Doubly!Forget(f, M) = Forget(f, M)
    /\ \A n, d : Doubly!By(n, d) = By(n, d)
    /\ Doubly!OK = OK /\ Doubly!ERR = ERR
    /\ \A l, p, entry : Doubly!Same(l, p, entry) <=> Same(l, p, entry)
BY DEF Doubly!Put, Put, Doubly!Forget, Forget, Doubly!By, By, Doubly!OK, OK, Doubly!ERR, ERR,
       Doubly!Ptr, Ptr, Doubly!Same, Same

\* A refused call.
LEMMA DoublyRefuses ==
    ASSUME NEW S, Double(S), NEW result, NEW N \in SUBSET nodes, Doubly!Refuse(result, N),
           result \in {ERR, Null}
    PROVE  Goes
<1>1. State(S)
  BY DEF Double
<1>2. UNCHANGED <<list, next, prev, nodes, held, freed, rev, kind>> /\ ret' = result
  BY DEF Double, Doubly!Refuse, Doubly!Fails
<1>3. fault' = FALSE
  BY DEF Doubly!Refuse, Doubly!Fails, Doubly!Derefs
<1> QED BY <1>1, <1>2, <1>3, QuietMove

\* The back link of a node, by its place.
LEMMA PrevIs ==
    ASSUME NEW S, State(S), kind = "doubly", NEW l \in List, NEW i \in 1..Len(S[l])
    PROVE  prev[S[l][i]] = Before(S[l], i)
BY DEF State, Twofold, Back, Before

\* The ends of a list.
LEMMA Ends ==
    ASSUME NEW S, Double(S), NEW l \in List, Present(l)
    PROVE  /\ Len(S[l]) \in Nat /\ Len(S[l]) <= MaxU32 /\ Size(l) = Len(S[l])
           /\ list[l].count = Len(S[l])
           /\ list[l].first = First(S[l]) /\ list[l].last = End(S[l])
           /\ list[l].first \in Ptr /\ list[l].last \in Ptr
           /\ Len(S[l]) # 0 =>
                /\ list[l].first = S[l][1] /\ list[l].last = S[l][Len(S[l])]
                /\ 1 \in 1..Len(S[l]) /\ Len(S[l]) \in 1..Len(S[l])
                /\ list[l].first \in nodes /\ list[l].last \in nodes
                /\ list[l].first # Null /\ list[l].last # Null
<1>1. State(S) /\ Still(S) /\ kind = "doubly" /\ TypeOK
  BY DEF Double, State
<1>2. Len(S[l]) \in Nat /\ Size(l) = Len(S[l]) /\ list[l].count = Len(S[l])
      /\ list[l].first = First(S[l])
  BY <1>1, Places
<1>3. list[l].last = End(S[l])
  BY <1>1 DEF State, Twofold
<1>4. list[l].first \in Ptr /\ list[l].last \in Ptr /\ Len(S[l]) <= MaxU32
  BY <1>1, <1>2, StructIs
<1>5. ASSUME Len(S[l]) # 0
      PROVE  /\ list[l].first = S[l][1] /\ list[l].last = S[l][Len(S[l])]
             /\ 1 \in 1..Len(S[l]) /\ Len(S[l]) \in 1..Len(S[l])
             /\ list[l].first \in nodes /\ list[l].last \in nodes
             /\ list[l].first # Null /\ list[l].last # Null
  <2>1. 1 \in 1..Len(S[l]) /\ Len(S[l]) \in 1..Len(S[l])
    BY <1>2, <1>5
  <2>2. list[l].first = S[l][1] /\ list[l].last = S[l][Len(S[l])]
    BY <1>2, <1>3, <1>5 DEF First, End
  <2> QED BY <1>1, <2>1, <2>2, NextIs
<1> QED BY <1>2, <1>3, <1>4, <1>5

\* The struct after a step that changes its length by d.
LEMMA ResizedValue ==
    ASSUME NEW S, Double(S), NEW l \in List, Present(l), NEW a, NEW b,
           NEW d \in Int, 0 <= Len(S[l]) + d, Len(S[l]) + d <= MaxU32
    PROVE  Doubly!Resized(l, a, b, d) =
             [list EXCEPT ![l] = [first |-> a, last |-> b, compare |-> list[l].compare,
                                  count |-> Len(S[l]) + d]]
<1> DEFINE n == Len(S[l])
           now == Doubly!Resized(l, a, b, d)
<1>1. TypeOK /\ kind = "doubly" /\ n \in Nat /\ list[l].count = n
  BY Ends DEF Double, State
<1>2. By(list[l].count, d) = n + d
  BY <1>1, ByIs
<1>3. list \in [List -> {Null} \cup StructOf]
  BY <1>1 DEF TypeOK, StructOf
<1>4. list[l] = [first |-> list[l].first, last |-> list[l].last,
                 compare |-> list[l].compare, count |-> list[l].count]
  BY <1>1, StructIs
<1>5. now = [list EXCEPT ![l].first = a, ![l].last = b, ![l].count = By(@, d)]
  BY DoublyStores DEF Doubly!Resized
<1> HIDE DEF now, n
<1>6. now = [list EXCEPT ![l].first = a, ![l].last = b, ![l].count = By(list[l].count, d)]
  BY <1>3, <1>4, <1>5
<1>7. PICK z : z = n + d
  OBVIOUS
<1>8. now = Stored(l, a, b, z)
  BY <1>2, <1>6, <1>7 DEF Stored
<1>9. now = [list EXCEPT ![l] = [first |-> a, last |-> b, compare |-> list[l].compare, count |-> z]]
  BY <1>1, <1>8, StoreDoubly
<1> QED BY <1>7, <1>9 DEF now, n

\* Only that struct changes then.
LEMMA ResizedIs ==
    ASSUME NEW S, Double(S), NEW l \in List, Present(l), NEW a \in Ptr, NEW b \in Ptr,
           NEW d \in Int, 0 <= Len(S[l]) + d, Len(S[l]) + d <= MaxU32,
           list' = Doubly!Resized(l, a, b, d)
    PROVE  Relisted(l, a, b, Len(S[l]) + d)
<1> DEFINE n == Len(S[l])
<1>1. TypeOK /\ kind = "doubly" /\ n \in Nat /\ list[l].count = n
  BY Ends DEF Double, State
<1>2. By(list[l].count, d) = n + d /\ n + d \in Nat
  BY <1>1, ByIs
<1>3. list' = [list EXCEPT ![l] = [first |-> a, last |-> b, compare |-> list[l].compare,
                                   count |-> n + d]]
  BY ResizedValue
<1> HIDE DEF n
<1> QED BY <1>1, <1>2, <1>3, DoublyRelists DEF n

\* A node comes in at position k.
LEMMA DoublyEnters ==
    ASSUME NEW S, Double(S), NEW l \in List, Present(l), NEW k \in 1..(Len(S[l]) + 1),
           NEW x \in held, NEW N \in SUBSET nodes, Len(S[l]) + 1 <= MaxU32,
           NEW p, p = Before(S[l], k), NEW n, n = At(S[l], k),
           NEW a, a = IF k = 1 THEN x ELSE list[l].first,
           NEW b, b = IF k = Len(S[l]) + 1 THEN x ELSE list[l].last,
           list' = Doubly!Resized(l, a, b, 1), Doubly!Place(p, x, n), Doubly!Derefs(N)
    PROVE  Goes
<1>1. State(S) /\ Still(S) /\ kind = "doubly" /\ TypeOK /\ rev' = Null /\ kind' = kind
  BY DEF Double, State, Still
<1>2. Len(S[l]) \in Nat /\ list[l].first \in Ptr /\ list[l].last \in Ptr
  BY Ends
<1>3. x \in Ptr
  BY <1>1, Pointers DEF TypeOK
<1>4. a \in Ptr /\ b \in Ptr /\ 1 \in Int /\ 0 <= Len(S[l]) + 1
  BY <1>2, <1>3
<1>5. Relisted(l, a, b, Len(S[l]) + 1)
  BY <1>4, ResizedIs
<1>6. /\ next' = Put(Put(next, Before(S[l], k), x), x, At(S[l], k))
      /\ prev' = Put(Put(prev, At(S[l], k), x), x, Before(S[l], k))
      /\ nodes' = nodes \cup {x} /\ held' = held \ {x} /\ freed' = freed /\ ret' = OK
  BY DoublyStores DEF Doubly!Place, Doubly!Gains
<1>7. fault' = FALSE
  BY DEF Doubly!Derefs
<1> QED BY <1>1, <1>5, <1>6, <1>7, EnterMove

\* Node k goes.
LEMMA DoublyLeaves ==
    ASSUME NEW S, Double(S), NEW l \in List, Present(l), NEW k \in 1..Len(S[l]),
           NEW N \in SUBSET nodes,
           NEW p, p = Before(S[l], k), NEW x, x = S[l][k], NEW n, n = After(S[l], k),
           NEW a, a = IF k = 1 THEN After(S[l], 1) ELSE list[l].first,
           NEW b, b = IF k = Len(S[l]) THEN Before(S[l], k) ELSE list[l].last,
           list' = Doubly!Resized(l, a, b, -1), Doubly!Cut(p, x, n), Doubly!Derefs(N)
    PROVE  Goes
<1>1. State(S) /\ Still(S) /\ kind = "doubly" /\ TypeOK /\ rev' = Null /\ kind' = kind
  BY DEF Double, State, Still
<1>2. Len(S[l]) \in Nat /\ Len(S[l]) <= MaxU32 /\ list[l].first \in Ptr /\ list[l].last \in Ptr
      /\ S[l] \in Seq(Elem)
  BY <1>1, Ends, LensIs
<1>3. x # Null
  BY <1>1, NextIs
<1>4. a \in Ptr /\ b \in Ptr
  <2>1. k \in 1..(Len(S[l]) + 1) /\ 1 \in 1..(Len(S[l]) + 1)
    BY <1>2
  <2>2. After(S[l], 1) \in Ptr /\ Before(S[l], k) \in Ptr
    BY <1>2, <2>1, Neighbours
  <2> QED BY <1>2, <2>2
<1>5. Relisted(l, a, b, Len(S[l]) - 1)
  <2>1. -1 \in Int /\ 0 <= Len(S[l]) + (-1) /\ Len(S[l]) + (-1) <= MaxU32
        /\ Len(S[l]) + (-1) = Len(S[l]) - 1
    BY <1>2, ListAssumption
  <2>2. Relisted(l, a, b, Len(S[l]) + (-1))
    BY <1>4, <2>1, ResizedIs
  <2> QED BY <2>1, <2>2
<1>6. /\ next' = Forget(Put(next, Before(S[l], k), After(S[l], k)), {S[l][k]})
      /\ prev' = Forget(Put(prev, After(S[l], k), Before(S[l], k)), {S[l][k]})
      /\ nodes' = nodes \ {S[l][k]} /\ held' = held \cup {S[l][k]} /\ freed' = freed
      /\ ret' = S[l][k]
  BY <1>3, DoublyStores DEF Doubly!Cut, Doubly!Loses
<1>7. fault' = FALSE
  BY DEF Doubly!Derefs
<1> QED BY <1>1, <1>5, <1>6, <1>7, LeaveMove

\* A node comes in at the end, ...
LEMMA DoublyAddLast ==
    ASSUME NEW S, Double(S), NEW l \in List, Present(l), NEW x \in held, Len(S[l]) + 1 <= MaxU32,
           Doubly!AddLast(l, x)
    PROVE  Goes
<1> DEFINE n == Len(S[l])
           p == IF n = 0 THEN Null ELSE list[l].last
<1>1. State(S) /\ Still(S) /\ n \in Nat /\ (Doubly!Empty(l) <=> n = 0)
  BY Ends, DoublyLoops DEF Double, Doubly!Empty
<1>2. /\ list' = Doubly!Resized(l, IF n = 0 THEN x ELSE list[l].first, x, 1)
      /\ Doubly!Place(p, x, Null)
      /\ Doubly!Derefs(IF n = 0 THEN {} ELSE {p})
  BY <1>1 DEF Doubly!AddLast
<1>3. n + 1 \in 1..(n + 1) /\ (n + 1 = 1 <=> n = 0) /\ (n + 1) - 1 = n /\ ~(n + 1 <= n)
      /\ (1 < n + 1 <=> n # 0)
  BY <1>1
<1>4. p = Before(S[l], n + 1)
  BY <1>3, Ends DEF Before
<1>5. Null = At(S[l], n + 1)
  BY <1>3 DEF At
<1>6. (IF n = 0 THEN {} ELSE {p}) \in SUBSET nodes
  BY Ends
<1> HIDE DEF p
<1>7. (IF n = 0 THEN x ELSE list[l].first) = IF n + 1 = 1 THEN x ELSE list[l].first
  BY <1>3
<1>8. x = IF n + 1 = Len(S[l]) + 1 THEN x ELSE list[l].last
  OBVIOUS
<1> QED BY <1>2, <1>3, <1>4, <1>5, <1>6, <1>7, <1>8, DoublyEnters

\* ... or in front.
LEMMA DoublyAddFirst ==
    ASSUME NEW S, Double(S), NEW l \in List, Present(l), NEW x \in held, Len(S[l]) + 1 <= MaxU32,
           Doubly!AddFirst(l, x)
    PROVE  Goes
<1> DEFINE n == Len(S[l])
           m == IF n = 0 THEN Null ELSE list[l].first
<1>1. State(S) /\ Still(S) /\ n \in Nat /\ (Doubly!Empty(l) <=> n = 0)
  BY Ends, DoublyLoops DEF Double, Doubly!Empty
<1>2. /\ list' = Doubly!Resized(l, x, IF n = 0 THEN x ELSE list[l].last, 1)
      /\ Doubly!Place(Null, x, m)
      /\ Doubly!Derefs(IF n = 0 THEN {} ELSE {m})
  BY <1>1 DEF Doubly!AddFirst
<1>3. 1 \in 1..(n + 1) /\ (1 = n + 1 <=> n = 0) /\ (1 <= n <=> n # 0)
  BY <1>1
<1>4. Null = Before(S[l], 1)
  BY DEF Before
<1>5. m = At(S[l], 1)
  BY <1>3, Ends DEF At
<1>6. (IF n = 0 THEN {} ELSE {m}) \in SUBSET nodes
  BY Ends
<1> HIDE DEF m
<1>7. (IF n = 0 THEN x ELSE list[l].last) = IF 1 = Len(S[l]) + 1 THEN x ELSE list[l].last
  BY <1>3
<1>8. x = IF 1 = 1 THEN x ELSE list[l].first
  OBVIOUS
<1> QED BY <1>2, <1>3, <1>4, <1>5, <1>6, <1>7, <1>8, DoublyEnters

\* The last node goes, ...
LEMMA DoublyDropLast ==
    ASSUME NEW S, Double(S), NEW l \in List, Present(l), Len(S[l]) # 0, NEW N \in SUBSET nodes,
           Doubly!DropLast(l, N)
    PROVE  Goes
<1> DEFINE n == Len(S[l])
           p == IF n = 1 THEN Null ELSE prev[list[l].last]
           M == N \cup {list[l].last} \cup IF n = 1 THEN {} ELSE {p}
<1>1. State(S) /\ Still(S) /\ n \in Nat /\ n # 0 /\ kind = "doubly" /\ (Doubly!Single(l) <=> n = 1)
  BY Ends, DoublyLoops DEF Double, Doubly!Single
<1>2. /\ list' = Doubly!Resized(l, IF n = 1 THEN Null ELSE list[l].first, p, -1)
      /\ Doubly!Cut(p, list[l].last, Null)
      /\ Doubly!Derefs(M)
  BY <1>1 DEF Doubly!DropLast
<1>3. n \in 1..n /\ list[l].last = S[l][n] /\ list[l].last \in nodes
  BY Ends
<1>4. p = Before(S[l], n)
  <2>1. prev[S[l][n]] = Before(S[l], n)
    BY <1>1, <1>3, PrevIs
  <2>2. n = 1 => Before(S[l], n) = Null
    BY DEF Before
  <2> QED BY <1>3, <2>1, <2>2
<1>5. Null = After(S[l], n)
  BY <1>1 DEF After
<1>6. M \in SUBSET nodes
  <2>1. n # 1 => p \in nodes
    <3>1. n # 1 => n - 1 \in 1..n /\ 1 < n
      <4> HIDE DEF n
      <4> QED BY <1>1
    <3>2. n # 1 => S[l][n - 1] \in nodes
      BY <1>1, <3>1, NextIs
    <3> QED BY <1>4, <3>1, <3>2 DEF Before
  <2> HIDE DEF p, n
  <2> QED BY <1>3, <2>1
<1> HIDE DEF p, M
<1>7. (IF n = 1 THEN Null ELSE list[l].first) = IF n = 1 THEN After(S[l], 1) ELSE list[l].first
  BY <1>5
<1>8. p = IF n = Len(S[l]) THEN Before(S[l], n) ELSE list[l].last
  BY <1>4
<1> QED BY <1>2, <1>3, <1>4, <1>5, <1>6, <1>7, <1>8, DoublyLeaves

\* ... or the first.
LEMMA DoublyDropFirst ==
    ASSUME NEW S, Double(S), NEW l \in List, Present(l), Len(S[l]) # 0, NEW N \in SUBSET nodes,
           Doubly!DropFirst(l, N)
    PROVE  Goes
<1> DEFINE n == Len(S[l])
           m == IF n = 1 THEN Null ELSE next[list[l].first]
           M == N \cup {list[l].first} \cup IF n = 1 THEN {} ELSE {m}
<1>1. State(S) /\ Still(S) /\ n \in Nat /\ n # 0 /\ kind = "doubly" /\ (Doubly!Single(l) <=> n = 1)
  BY Ends, DoublyLoops DEF Double, Doubly!Single
<1>2. /\ list' = Doubly!Resized(l, m, IF n = 1 THEN Null ELSE list[l].last, -1)
      /\ Doubly!Cut(Null, list[l].first, m)
      /\ Doubly!Derefs(M)
  BY <1>1 DEF Doubly!DropFirst
<1>3. 1 \in 1..n /\ list[l].first = S[l][1] /\ list[l].first \in nodes
  BY Ends
<1>4. m = After(S[l], 1)
  <2>1. next[S[l][1]] = After(S[l], 1)
    BY <1>1, <1>3, NextIs
  <2>2. n = 1 => After(S[l], 1) = Null
    BY DEF After
  <2> QED BY <1>3, <2>1, <2>2
<1>5. Null = Before(S[l], 1)
  BY DEF Before
<1>6. M \in SUBSET nodes
  <2>1. n # 1 => m \in nodes
    <3>1. n # 1 => 2 \in 1..n /\ 1 < n
      <4> HIDE DEF n
      <4> QED BY <1>1
    <3>2. n # 1 => S[l][2] \in nodes
      BY <1>1, <3>1, NextIs
    <3> QED BY <1>4, <3>1, <3>2 DEF After
  <2> HIDE DEF m, n
  <2> QED BY <1>3, <2>1
<1> HIDE DEF m, M
<1>7. (IF n = 1 THEN Null ELSE list[l].last) = IF 1 = Len(S[l]) THEN Before(S[l], 1) ELSE list[l].last
  BY <1>5
<1>8. m = IF 1 = 1 THEN After(S[l], 1) ELSE list[l].first
  BY <1>4
<1> QED BY <1>2, <1>3, <1>4, <1>5, <1>6, <1>7, <1>8, DoublyLeaves

\* A node that is not at an end goes.
LEMMA DoublyExtracts ==
    ASSUME NEW S, Double(S), NEW l \in List, Present(l), NEW k \in 2..(Len(S[l]) - 1),
           NEW N \in SUBSET nodes, NEW p, p = Before(S[l], k), NEW x, x = S[l][k],
           NEW n, n = After(S[l], k), Doubly!Extract(l, p, x, n, N)
    PROVE  Goes
<1>1. State(S) /\ Still(S) /\ Len(S[l]) \in Nat
  BY Ends DEF Double
<1>2. k \in 1..Len(S[l]) /\ k - 1 \in 1..Len(S[l]) /\ k + 1 \in 1..Len(S[l]) /\ 1 < k /\ k < Len(S[l])
      /\ k # 1 /\ k # Len(S[l])
  BY <1>1
<1>3. p = S[l][k - 1] /\ n = S[l][k + 1]
  BY <1>2 DEF Before, After
<1>4. N \cup {p, x, n} \in SUBSET nodes
  <2>1. S[l][k] \in nodes /\ S[l][k - 1] \in nodes /\ S[l][k + 1] \in nodes
    BY <1>1, <1>2, NextIs
  <2> QED BY <1>3, <2>1
<1>5. list' = Doubly!Resized(l, list[l].first, list[l].last, -1)
      /\ Doubly!Cut(p, x, n) /\ Doubly!Derefs(N \cup {p, x, n})
  BY DEF Doubly!Extract, Doubly!Longer
<1>6. list[l].first = IF k = 1 THEN After(S[l], 1) ELSE list[l].first
  BY <1>2
<1>7. list[l].last = IF k = Len(S[l]) THEN Before(S[l], k) ELSE list[l].last
  BY <1>2
<1> QED BY <1>2, <1>4, <1>5, <1>6, <1>7, DoublyLeaves

\* doubly_linked_create.
LEMMA DoublyCreate ==
    ASSUME NEW S, Double(S), NEW l \in List, NEW c \in Compare \cup {Null}, Doubly!Create(l, c)
    PROVE  Goes
<1> DEFINE d == IF c = Null THEN DefaultCompare ELSE c
           r == [first |-> Null, last |-> Null, compare |-> d, count |-> 0]
<1>1. State(S) /\ Still(S) /\ kind = "doubly" /\ TypeOK /\ rev' = Null /\ kind' = kind
      /\ fault = FALSE
  BY DEF Double, State, Still, TypeOK
<1>2. ~Present(l)
  BY DoublyLoops DEF Doubly!Create
<1>3. CASE Doubly!Refuse(Null, {})
  <2>1. {} \in SUBSET nodes
    OBVIOUS
  <2> QED BY <1>3, <2>1, DoublyRefuses
<1>4. CASE ~Doubly!Refuse(Null, {})
  <2>1. /\ list' = [list EXCEPT ![l] = r] /\ ret' = OK
        /\ UNCHANGED <<next, prev, nodes, held, freed, fault>>
    BY <1>4 DEF Doubly!Create, Doubly!OK, OK
  <2>2. d \in Compare
    BY ListAssumption
  <2>3. r \in Doubly!Struct
    <3>1. 0 \in 0..MaxU32
      BY ListAssumption
    <3> QED BY <2>2, <3>1 DEF Doubly!Struct, Doubly!Ptr
  <2>4. r # Null /\ r.first = Null /\ r.last = Null /\ r.count = 0 /\ r.compare = d
    BY <2>3, ListAssumption DEF Doubly!Struct, Doubly!Ptr
  <2>5. r \in StructOf /\ list \in [List -> {Null} \cup StructOf]
    BY <1>1, <2>3 DEF StructOf, TypeOK
  <2> HIDE DEF r
  <2>6. list' \in [List -> {Null} \cup StructOf] /\ list'[l] = r
        /\ \A o \in List : o # l => list'[o] = list[o]
    BY <2>1, <2>5
  <2> QED BY <1>1, <1>2, <2>1, <2>2, <2>4, <2>6, CreateMove
<1> QED BY <1>3, <1>4

\* What the insertions check.
LEMMA DoublyRoomy ==
    ASSUME NEW S, Double(S), NEW l \in List, Doubly!Roomy(l)
    PROVE  Present(l) /\ Len(S[l]) + 1 <= MaxU32
<1>1. Present(l) /\ list[l].count < MaxU32
  BY DoublyLoops DEF Doubly!Roomy
<1>2. list[l].count = Len(S[l]) /\ Len(S[l]) \in Nat /\ MaxU32 \in Nat
  BY <1>1, Ends, ListAssumption
<1> QED BY <1>1, <1>2

\* doubly_linked_push.
LEMMA DoublyPush ==
    ASSUME NEW S, Double(S), NEW l \in List, NEW x \in Doubly!Mine, Doubly!Push(l, x)
    PROVE  Goes
<1>1. {} \in SUBSET nodes
  OBVIOUS
<1>2. CASE Doubly!Refuse(ERR, {})
  BY <1>1, <1>2, DoublyRefuses
<1>3. CASE Doubly!Roomy(l) /\ x # Null /\ Doubly!AddLast(l, x)
  <2>1. x \in held
    BY <1>3 DEF Doubly!Mine
  <2> QED BY <1>3, <2>1, DoublyRoomy, DoublyAddLast
<1> QED BY <1>2, <1>3 DEF Doubly!Push, Doubly!ERR, ERR

\* doubly_linked_unshift.
LEMMA DoublyUnshift ==
    ASSUME NEW S, Double(S), NEW l \in List, NEW x \in Doubly!Mine, Doubly!Unshift(l, x)
    PROVE  Goes
<1>1. {} \in SUBSET nodes
  OBVIOUS
<1>2. CASE Doubly!Refuse(ERR, {})
  BY <1>1, <1>2, DoublyRefuses
<1>3. CASE Doubly!Roomy(l) /\ x # Null /\ Doubly!AddFirst(l, x)
  <2>1. x \in held
    BY <1>3 DEF Doubly!Mine
  <2> QED BY <1>3, <2>1, DoublyRoomy, DoublyAddFirst
<1> QED BY <1>2, <1>3 DEF Doubly!Unshift, Doubly!ERR, ERR

\* What the search of a list finds.
LEMMA Found ==
    ASSUME NEW S, Double(S), NEW l \in List, Present(l), NEW entry,
           NEW i, i = Match(l, entry, 1)
    PROVE  /\ Passed(l, i) \subseteq nodes
           /\ \/ i = 0 /\ InList(l, entry) = Null
              \/ /\ i \in 1..Len(S[l])
                 /\ InList(l, entry) = S[l][i] /\ S[l][i] # Null
                 /\ next[S[l][i]] = After(S[l], i)
                 /\ prev[S[l][i]] = Before(S[l], i)
                 /\ Same(l, S[l][i], entry)
<1>1. State(S) /\ Still(S) /\ kind = "doubly" /\ Len(S[l]) \in Nat
  BY Ends DEF Double
<1>2. i = 0 \/ (i \in 1..Len(S[l]) /\ list[l].compare[S[l][i]] = list[l].compare[entry])
  <2> DEFINE c == list[l].compare
             m == MatchBy(c, l, entry, 1)
  <2>1. 1 \in Nat \ {0}
    OBVIOUS
  <2>2. m = 0 \/ (m \in 1..Len(S[l]) /\ c[S[l][m]] = c[entry])
    <3> HIDE DEF c
    <3>1. \/ MatchBy(c, l, entry, 1) = 0
          \/ /\ MatchBy(c, l, entry, 1) \in 1..Len(S[l])
             /\ MatchBy(c, l, entry, 1) \in 1..Len(S[l])
             /\ c[S[l][MatchBy(c, l, entry, 1)]] = c[entry]
      BY <1>1, <2>1, MatchIs
    <3> QED BY <3>1, Zenon
  <2>3. i = m
    BY DEF Match
  <2> HIDE DEF m
  <2> QED BY <2>2, <2>3
<1>3. InList(l, entry) = Nth(l, i)
  BY DEF InList
<1>4. Passed(l, i) \subseteq nodes
  <2>1. i \in 0..Len(S[l])
    BY <1>1, <1>2
  <2> QED BY <1>1, <2>1, Places
<1>5. CASE i = 0
  BY <1>1, <1>3, <1>4, <1>5, Places
<1>6. CASE i # 0
  <2>1. i \in 1..Len(S[l]) /\ list[l].compare[S[l][i]] = list[l].compare[entry]
    BY <1>2, <1>6
  <2>2. InList(l, entry) = S[l][i] /\ S[l][i] # Null
    BY <1>1, <1>3, <2>1, Places, NextIs
  <2>3. next[S[l][i]] = After(S[l], i) /\ prev[S[l][i]] = Before(S[l], i)
    BY <1>1, <2>1, NextIs, PrevIs
  <2>4. Same(l, S[l][i], entry)
    BY <2>1, <2>2 DEF Same
  <2> QED BY <1>4, <2>1, <2>2, <2>3, <2>4
<1> QED BY <1>5, <1>6

\* Within the contract a list that a call by entry needs is long enough.
LEMMA EnoughIs ==
    ASSUME NEW S, Double(S), NEW l \in List, Present(l), NEW n \in Nat, Doubly!Enough(l, n)
    PROVE  n <= Len(S[l])
<1>1. State(S) /\ Still(S) /\ "short" \notin Beyond
  BY DEF Double, Contract
<1>2. Len(Contents(l)) >= n
  BY <1>1, DoublyLoops DEF Doubly!Enough
<1> QED BY <1>1, <1>2, Places

\* What a call that looks at one end first reads.
LEMMA LookedIs ==
    ASSUME NEW S, Double(S), NEW l \in List, Present(l), NEW end \in nodes, NEW entry
    PROVE  Doubly!Looked(l, end, entry) \in SUBSET nodes
<1>1. Passed(l, Match(l, entry, 1)) \subseteq nodes
  BY Found
<1> QED BY <1>1, DoublyPassed, DoublyMatch DEF Doubly!Looked

\* doubly_linked_insert_after.
LEMMA DoublyInsertAfter ==
    ASSUME NEW S, Double(S), NEW l \in List, NEW x \in Doubly!Mine, NEW entry,
           Doubly!InsertAfter(l, entry, x)
    PROVE  Goes
<1> DEFINE i == Match(l, entry, 1)
           node == InList(l, entry)
           N == Doubly!Looked(l, list[l].last, entry)
<1>1. {} \in SUBSET nodes
  OBVIOUS
<1>2. CASE Doubly!Refuse(ERR, {})
  BY <1>1, <1>2, DoublyRefuses
<1>3. CASE Doubly!Roomy(l) /\ x # Null /\ Doubly!Enough(l, 1) /\ Doubly!Refuse(ERR, N)
  <2>1. Present(l) /\ 1 <= Len(S[l])
    BY <1>3, DoublyRoomy, EnoughIs
  <2>2. N \in SUBSET nodes
    BY <2>1, Ends, LookedIs
  <2> HIDE DEF N
  <2> QED BY <1>3, <2>2, DoublyRefuses
<1>4. CASE Doubly!Roomy(l) /\ x # Null /\ Doubly!AddLast(l, x)
  <2>1. x \in held
    BY <1>4 DEF Doubly!Mine
  <2> QED BY <1>4, <2>1, DoublyRoomy, DoublyAddLast
<1>5. CASE /\ Doubly!Roomy(l) /\ x # Null /\ Doubly!Enough(l, 1)
           /\ ~Same(l, list[l].last, entry) /\ node # Null
           /\ list' = Doubly!Longer(l, 1)
           /\ Doubly!Place(node, x, next[node])
           /\ Doubly!Derefs({next[node]} \cup N)
  <2>1. Present(l) /\ Len(S[l]) + 1 <= MaxU32 /\ 1 <= Len(S[l]) /\ x \in held
    <3>1. x \in held
      BY <1>5 DEF Doubly!Mine
    <3> QED BY <1>5, <3>1, DoublyRoomy, EnoughIs
  <2>2. N \in SUBSET nodes /\ Len(S[l]) \in Nat /\ list[l].last = S[l][Len(S[l])]
    BY <2>1, Ends, LookedIs
  <2>3. /\ i \in 1..Len(S[l]) /\ node = S[l][i] /\ next[node] = After(S[l], i)
        /\ Same(l, S[l][i], entry)
    BY <1>5, <2>1, Found
  <2> HIDE DEF i, node, N
  <2>4. i # Len(S[l])
    BY <1>5, <2>2, <2>3
  <2>5. i + 1 \in 1..(Len(S[l]) + 1) /\ i + 1 # 1 /\ i + 1 # Len(S[l]) + 1 /\ (i + 1) - 1 = i
        /\ 1 < i + 1 /\ i + 1 <= Len(S[l]) /\ i < Len(S[l]) /\ i + 1 \in 1..Len(S[l])
    BY <2>2, <2>3, <2>4
  <2>6. node = Before(S[l], i + 1) /\ next[node] = At(S[l], i + 1) /\ next[node] = S[l][i + 1]
    BY <2>3, <2>5 DEF Before, At, After
  <2>7. S[l][i + 1] \in nodes
    BY <2>5, NextIs DEF Double
  <2>8. {next[node]} \cup N \in SUBSET nodes
    BY <2>2, <2>6, <2>7
  <2>9. list' = Doubly!Resized(l, list[l].first, list[l].last, 1)
    BY <1>5 DEF Doubly!Longer
  <2>10. list[l].first = IF i + 1 = 1 THEN x ELSE list[l].first
    BY <2>5
  <2>11. list[l].last = IF i + 1 = Len(S[l]) + 1 THEN x ELSE list[l].last
    BY <2>5
  <2> QED BY <1>5, <2>1, <2>5, <2>6, <2>8, <2>9, <2>10, <2>11, DoublyEnters
<1>6. \/ Doubly!Refuse(Doubly!ERR, {})
      \/ /\ Doubly!Roomy(l) /\ x # Null /\ Doubly!Enough(l, 1)
         /\ \/ Doubly!Refuse(Doubly!ERR, Doubly!Looked(l, list[l].last, entry))
            \/ Doubly!AddLast(l, x)
            \/ /\ ~Doubly!Same(l, list[l].last, entry) /\ Doubly!InList(l, entry) # Null
               /\ list' = Doubly!Longer(l, 1)
               /\ Doubly!Place(Doubly!InList(l, entry), x, next[Doubly!InList(l, entry)])
               /\ Doubly!Derefs({next[Doubly!InList(l, entry)]} \cup
                                Doubly!Looked(l, list[l].last, entry))
  BY Zenon DEF Doubly!InsertAfter
<1>7. Doubly!InList(l, entry) = node /\ (Doubly!Same(l, list[l].last, entry) <=> Same(l, list[l].last, entry))
      /\ Doubly!ERR = ERR
  BY DoublyMatch, DoublyStores
<1> HIDE DEF i, node, N
<1> QED BY <1>2, <1>3, <1>4, <1>5, <1>6, <1>7 DEF N

\* doubly_linked_insert_before.
LEMMA DoublyInsertBefore ==
    ASSUME NEW S, Double(S), NEW l \in List, NEW x \in Doubly!Mine, NEW entry,
           Doubly!InsertBefore(l, entry, x)
    PROVE  Goes
<1> DEFINE i == Match(l, entry, 1)
           node == InList(l, entry)
           N == Doubly!Looked(l, list[l].first, entry)
<1>1. {} \in SUBSET nodes
  OBVIOUS
<1>2. CASE Doubly!Refuse(ERR, {})
  BY <1>1, <1>2, DoublyRefuses
<1>3. CASE Doubly!Roomy(l) /\ x # Null /\ Doubly!Enough(l, 1) /\ Doubly!Refuse(ERR, N)
  <2>1. Present(l) /\ 1 <= Len(S[l])
    BY <1>3, DoublyRoomy, EnoughIs
  <2>2. N \in SUBSET nodes
    BY <2>1, Ends, LookedIs
  <2> HIDE DEF N
  <2> QED BY <1>3, <2>2, DoublyRefuses
<1>4. CASE Doubly!Roomy(l) /\ x # Null /\ Doubly!AddFirst(l, x)
  <2>1. x \in held
    BY <1>4 DEF Doubly!Mine
  <2> QED BY <1>4, <2>1, DoublyRoomy, DoublyAddFirst
<1>5. CASE /\ Doubly!Roomy(l) /\ x # Null /\ Doubly!Enough(l, 1)
           /\ ~Same(l, list[l].first, entry) /\ node # Null
           /\ list' = Doubly!Longer(l, 1)
           /\ Doubly!Place(prev[node], x, node)
           /\ Doubly!Derefs({prev[node]} \cup N)
  <2>1. Present(l) /\ Len(S[l]) + 1 <= MaxU32 /\ 1 <= Len(S[l]) /\ x \in held
    <3>1. x \in held
      BY <1>5 DEF Doubly!Mine
    <3> QED BY <1>5, <3>1, DoublyRoomy, EnoughIs
  <2>2. N \in SUBSET nodes /\ Len(S[l]) \in Nat /\ list[l].first = S[l][1]
    BY <2>1, Ends, LookedIs
  <2>3. /\ i \in 1..Len(S[l]) /\ node = S[l][i] /\ prev[node] = Before(S[l], i)
        /\ Same(l, S[l][i], entry)
    BY <1>5, <2>1, Found
  <2> HIDE DEF i, node, N
  <2>4. i # 1
    BY <1>5, <2>2, <2>3
  <2>5. i \in 1..(Len(S[l]) + 1) /\ i # Len(S[l]) + 1 /\ 1 < i /\ i <= Len(S[l])
        /\ i - 1 \in 1..Len(S[l])
    BY <2>2, <2>3, <2>4
  <2>6. node = At(S[l], i) /\ prev[node] = S[l][i - 1]
    BY <2>3, <2>5 DEF Before, At
  <2>7. S[l][i - 1] \in nodes
    BY <2>5, NextIs DEF Double
  <2>8. {prev[node]} \cup N \in SUBSET nodes
    BY <2>2, <2>6, <2>7
  <2>9. list' = Doubly!Resized(l, list[l].first, list[l].last, 1)
    BY <1>5 DEF Doubly!Longer
  <2>10. list[l].first = IF i = 1 THEN x ELSE list[l].first
    BY <2>4
  <2>11. list[l].last = IF i = Len(S[l]) + 1 THEN x ELSE list[l].last
    BY <2>5
  <2> QED BY <1>5, <2>1, <2>3, <2>5, <2>6, <2>8, <2>9, <2>10, <2>11, DoublyEnters
<1>6. \/ Doubly!Refuse(Doubly!ERR, {})
      \/ /\ Doubly!Roomy(l) /\ x # Null /\ Doubly!Enough(l, 1)
         /\ \/ Doubly!Refuse(Doubly!ERR, Doubly!Looked(l, list[l].first, entry))
            \/ Doubly!AddFirst(l, x)
            \/ /\ ~Doubly!Same(l, list[l].first, entry) /\ Doubly!InList(l, entry) # Null
               /\ list' = Doubly!Longer(l, 1)
               /\ Doubly!Place(prev[Doubly!InList(l, entry)], x, Doubly!InList(l, entry))
               /\ Doubly!Derefs({prev[Doubly!InList(l, entry)]} \cup
                                Doubly!Looked(l, list[l].first, entry))
  BY Zenon DEF Doubly!InsertBefore
<1>7. Doubly!InList(l, entry) = node /\ (Doubly!Same(l, list[l].first, entry) <=> Same(l, list[l].first, entry))
      /\ Doubly!ERR = ERR
  BY DoublyMatch, DoublyStores
<1> HIDE DEF i, node, N
<1> QED BY <1>2, <1>3, <1>4, <1>5, <1>6, <1>7 DEF N

\* doubly_linked_pop.
LEMMA DoublyPop ==
    ASSUME NEW S, Double(S), NEW l \in List, Doubly!Pop(l)
    PROVE  Goes
<1>1. {} \in SUBSET nodes
  OBVIOUS
<1>2. CASE Doubly!Refuse(Null, {})
  BY <1>1, <1>2, DoublyRefuses
<1>3. CASE ~Doubly!Empty(l) /\ Doubly!DropLast(l, {})
  <2>1. Present(l)
    BY <1>3, DoublyLoops DEF Doubly!Empty, Size
  <2>2. Len(S[l]) # 0
    BY <1>3, <2>1, DoublyLoops, Ends DEF Doubly!Empty
  <2> QED BY <1>1, <1>3, <2>1, <2>2, DoublyDropLast
<1> QED BY <1>2, <1>3 DEF Doubly!Pop

\* doubly_linked_shift.
LEMMA DoublyShift ==
    ASSUME NEW S, Double(S), NEW l \in List, Doubly!Shift(l)
    PROVE  Goes
<1>1. {} \in SUBSET nodes
  OBVIOUS
<1>2. CASE Doubly!Refuse(Null, {})
  BY <1>1, <1>2, DoublyRefuses
<1>3. CASE ~Doubly!Empty(l) /\ Doubly!DropFirst(l, {})
  <2>1. Present(l)
    BY <1>3, DoublyLoops DEF Doubly!Empty, Size
  <2>2. Len(S[l]) # 0
    BY <1>3, <2>1, DoublyLoops, Ends DEF Doubly!Empty
  <2> QED BY <1>1, <1>3, <2>1, <2>2, DoublyDropFirst
<1> QED BY <1>2, <1>3 DEF Doubly!Shift

\* doubly_linked_remove.
LEMMA DoublyRemove ==
    ASSUME NEW S, Double(S), NEW l \in List, NEW entry, Doubly!Remove(l, entry)
    PROVE  Goes
<1> DEFINE i == Match(l, entry, 1)
           node == InList(l, entry)
           first == list[l].first
           last == list[l].last
           N == {first, last} \cup Passed(l, i)
<1>1. {} \in SUBSET nodes
  OBVIOUS
<1>2. CASE Doubly!Refuse(Null, {})
  BY <1>1, <1>2, DoublyRefuses
<1>3. CASE /\ Present(l) /\ Doubly!Enough(l, 1)
           /\ \/ Doubly!DropFirst(l, {})
              \/ Doubly!DropLast(l, {first})
              \/ /\ ~Same(l, first, entry) /\ ~Same(l, last, entry)
                 /\ \/ node # Null /\ Doubly!Extract(l, prev[node], node, next[node], N)
                    \/ Doubly!Refuse(Null, N)
  <2>1. Present(l) /\ Len(S[l]) # 0
    <3>1. 1 <= Len(S[l])
      BY <1>3, EnoughIs
    <3> QED BY <1>3, <3>1
  <2>2. /\ first = S[l][1] /\ last = S[l][Len(S[l])] /\ {first} \in SUBSET nodes
        /\ {first, last} \in SUBSET nodes /\ Len(S[l]) \in Nat
    BY <2>1, Ends
  <2>3. N \in SUBSET nodes
    BY <2>1, <2>2, Found
  <2> HIDE DEF N, first, last
  <2>4. CASE Doubly!DropFirst(l, {})
    BY <1>1, <2>1, <2>4, DoublyDropFirst
  <2>5. CASE Doubly!DropLast(l, {first})
    BY <2>1, <2>2, <2>5, DoublyDropLast
  <2>6. CASE Doubly!Refuse(Null, N)
    BY <2>3, <2>6, DoublyRefuses
  <2>7. CASE /\ ~Same(l, first, entry) /\ ~Same(l, last, entry)
             /\ node # Null /\ Doubly!Extract(l, prev[node], node, next[node], N)
    <3>1. /\ i \in 1..Len(S[l]) /\ node = S[l][i] /\ prev[node] = Before(S[l], i)
          /\ next[node] = After(S[l], i) /\ Same(l, S[l][i], entry)
      BY <2>1, <2>7, Found
    <3> HIDE DEF i, node
    <3>2. i # 1 /\ i # Len(S[l])
      BY <2>2, <2>7, <3>1
    <3>3. i \in 2..(Len(S[l]) - 1)
      BY <2>2, <3>1, <3>2
    <3> QED BY <2>1, <2>3, <2>7, <3>1, <3>3, DoublyExtracts
  <2> QED BY <1>3, <2>4, <2>5, <2>6, <2>7
<1>4. \/ Doubly!Refuse(Null, {})
      \/ /\ Doubly!Present(l) /\ Doubly!Enough(l, 1)
         /\ \/ Doubly!DropFirst(l, {})
            \/ Doubly!DropLast(l, {first})
            \/ /\ ~Doubly!Same(l, first, entry) /\ ~Doubly!Same(l, last, entry)
               /\ \/ /\ Doubly!InList(l, entry) # Null
                     /\ Doubly!Extract(l, prev[Doubly!InList(l, entry)], Doubly!InList(l, entry),
                                       next[Doubly!InList(l, entry)],
                                       {first, last} \cup
                                         Doubly!Passed(l, Doubly!Match(l, entry, 1)))
                  \/ Doubly!Refuse(Null, {first, last} \cup
                                         Doubly!Passed(l, Doubly!Match(l, entry, 1)))
  BY Zenon DEF Doubly!Remove
<1>5. /\ Doubly!InList(l, entry) = node /\ Doubly!Present(l) = Present(l)
      /\ Doubly!Same(l, first, entry) <=> Same(l, first, entry)
      /\ Doubly!Same(l, last, entry) <=> Same(l, last, entry)
      /\ {first, last} \cup Doubly!Passed(l, Doubly!Match(l, entry, 1)) = N
  BY DoublyMatch, DoublyStores, DoublyLoops, DoublyPassed
<1> HIDE DEF i, node, first, last, N
<1> QED BY <1>2, <1>3, <1>4, <1>5, Zenon

\* doubly_linked_remove_after: within the contract the node before the last is not
\* mistaken for an element.
LEMMA DoublyRemoveAfter ==
    ASSUME NEW S, Double(S), NEW l \in List, NEW entry, Doubly!RemoveAfter(l, entry)
    PROVE  Goes
<1> DEFINE i == Match(l, entry, 1)
           node == InList(l, entry)
           last == list[l].last
           N == {last, prev[last]} \cup Passed(l, i)
<1>1. {} \in SUBSET nodes /\ "remove_after" \notin Beyond
  BY DEF Double, Contract
<1>2. CASE Doubly!Refuse(Null, {})
  BY <1>1, <1>2, DoublyRefuses
<1>3. CASE Present(l) /\ Doubly!Enough(l, 1) /\ Doubly!Refuse(Null, {last})
  <2>1. 1 <= Len(S[l])
    BY <1>3, EnoughIs
  <2>2. {last} \in SUBSET nodes
    BY <1>3, <2>1, Ends
  <2> QED BY <1>3, <2>2, DoublyRefuses
<1>4. CASE /\ Present(l) /\ Doubly!Enough(l, 2) /\ ~Same(l, last, entry)
           /\ \/ "remove_after" \in Beyond
              \/ /\ node # Null
                 /\ next[node] # last \/ "remove_after" \in Beyond
                 /\ Doubly!Extract(l, node, next[node], next[next[node]], N)
              \/ Doubly!Refuse(Null, N)
  <2>1. Present(l) /\ 2 <= Len(S[l])
    BY <1>4, EnoughIs
  <2>2. /\ last = S[l][Len(S[l])] /\ {last} \in SUBSET nodes /\ Len(S[l]) \in Nat
        /\ Len(S[l]) \in 1..Len(S[l]) /\ State(S) /\ Still(S) /\ kind = "doubly"
    BY <2>1, Ends DEF Double
  <2>3. prev[last] \in nodes
    <3>1. 1 < Len(S[l]) /\ Len(S[l]) - 1 \in 1..Len(S[l])
      BY <2>1, <2>2
    <3>2. prev[last] = S[l][Len(S[l]) - 1]
      BY <2>2, <3>1, PrevIs DEF Before
    <3> QED BY <2>2, <3>1, <3>2, NextIs
  <2>4. N \in SUBSET nodes
    BY <2>1, <2>2, <2>3, Found
  <2> HIDE DEF N, last
  <2>5. CASE Doubly!Refuse(Null, N)
    BY <2>4, <2>5, DoublyRefuses
  <2>6. CASE /\ node # Null /\ next[node] # last
             /\ Doubly!Extract(l, node, next[node], next[next[node]], N)
    <3>1. /\ i \in 1..Len(S[l]) /\ node = S[l][i]
          /\ next[node] = After(S[l], i) /\ Same(l, S[l][i], entry)
      BY <2>1, <2>6, Found
    <3> HIDE DEF i, node
    <3>2. i # Len(S[l])
      BY <1>4, <2>2, <3>1
    <3>3. i + 1 \in 1..Len(S[l]) /\ i < Len(S[l]) /\ 1 < i + 1 /\ (i + 1) - 1 = i
      BY <2>2, <3>1, <3>2
    <3>4. next[node] = S[l][i + 1] /\ node = Before(S[l], i + 1)
      BY <3>1, <3>3 DEF After, Before
    <3>5. i + 1 # Len(S[l])
      BY <2>2, <2>6, <3>4
    <3>6. i + 1 \in 2..(Len(S[l]) - 1)
      BY <2>2, <3>3, <3>5
    <3>7. next[next[node]] = After(S[l], i + 1)
      BY <2>2, <3>3, <3>4, NextIs
    <3> QED BY <2>1, <2>4, <2>6, <3>4, <3>6, <3>7, DoublyExtracts
  <2> QED BY <1>1, <1>4, <2>5, <2>6
<1>5. \/ Doubly!Refuse(Null, {})
      \/ Doubly!Present(l) /\ Doubly!Enough(l, 1) /\ Doubly!Refuse(Null, {last})
      \/ /\ Doubly!Present(l) /\ Doubly!Enough(l, 2) /\ ~Doubly!Same(l, last, entry)
         /\ \/ "remove_after" \in Beyond
            \/ /\ Doubly!InList(l, entry) # Null
               /\ next[Doubly!InList(l, entry)] # last \/ "remove_after" \in Beyond
               /\ Doubly!Extract(l, Doubly!InList(l, entry), next[Doubly!InList(l, entry)],
                                 next[next[Doubly!InList(l, entry)]],
                                 {last, prev[last]} \cup
                                   Doubly!Passed(l, Doubly!Match(l, entry, 1)))
            \/ Doubly!Refuse(Null, {last, prev[last]} \cup
                                   Doubly!Passed(l, Doubly!Match(l, entry, 1)))
  BY Zenon DEF Doubly!RemoveAfter
<1>6. /\ Doubly!InList(l, entry) = node /\ Doubly!Present(l) = Present(l)
      /\ Doubly!Same(l, last, entry) <=> Same(l, last, entry)
      /\ {last, prev[last]} \cup Doubly!Passed(l, Doubly!Match(l, entry, 1)) = N
  BY DoublyMatch, DoublyStores, DoublyLoops, DoublyPassed
<1> HIDE DEF i, node, last, N
<1> QED BY <1>2, <1>3, <1>4, <1>5, <1>6, Zenon

\* doubly_linked_remove_before.
LEMMA DoublyRemoveBefore ==
    ASSUME NEW S, Double(S), NEW l \in List, NEW entry, Doubly!RemoveBefore(l, entry)
    PROVE  Goes
<1> DEFINE i == Match(l, entry, 1)
           node == InList(l, entry)
           first == list[l].first
           N == {first, next[first]} \cup Passed(l, i)
<1>1. {} \in SUBSET nodes
  OBVIOUS
<1>2. CASE Doubly!Refuse(Null, {})
  BY <1>1, <1>2, DoublyRefuses
<1>3. CASE Present(l) /\ Doubly!Enough(l, 1) /\ Doubly!Refuse(Null, {first})
  <2>1. 1 <= Len(S[l])
    BY <1>3, EnoughIs
  <2>2. {first} \in SUBSET nodes
    BY <1>3, <2>1, Ends
  <2> QED BY <1>3, <2>2, DoublyRefuses
<1>4. CASE /\ Present(l) /\ Doubly!Enough(l, 2) /\ ~Same(l, first, entry)
           /\ \/ Doubly!DropFirst(l, {next[first]})
              \/ /\ ~Same(l, next[first], entry) /\ node # Null
                 /\ Doubly!Extract(l, prev[prev[node]], prev[node], node, N)
              \/ Doubly!Refuse(Null, N)
  <2>1. Present(l) /\ 2 <= Len(S[l])
    BY <1>4, EnoughIs
  <2>2. /\ first = S[l][1] /\ {first} \in SUBSET nodes /\ Len(S[l]) \in Nat
        /\ 1 \in 1..Len(S[l]) /\ State(S) /\ Still(S) /\ kind = "doubly"
    BY <2>1, Ends DEF Double
  <2>3. next[first] = S[l][2] /\ next[first] \in nodes
    <3>1. 1 < Len(S[l]) /\ 2 \in 1..Len(S[l]) /\ 1 + 1 = 2
      BY <2>1, <2>2
    <3>2. next[first] = S[l][2]
      BY <2>2, <3>1, NextIs DEF After
    <3> QED BY <2>2, <3>1, <3>2, NextIs
  <2>4. N \in SUBSET nodes /\ {next[first]} \in SUBSET nodes
    BY <2>1, <2>2, <2>3, Found
  <2> HIDE DEF N, first
  <2>5. CASE Doubly!Refuse(Null, N)
    BY <2>4, <2>5, DoublyRefuses
  <2>6. CASE Doubly!DropFirst(l, {next[first]})
    BY <2>1, <2>4, <2>6, DoublyDropFirst
  <2>7. CASE /\ ~Same(l, next[first], entry) /\ node # Null
             /\ Doubly!Extract(l, prev[prev[node]], prev[node], node, N)
    <3>1. /\ i \in 1..Len(S[l]) /\ node = S[l][i]
          /\ prev[node] = Before(S[l], i) /\ Same(l, S[l][i], entry)
      BY <2>1, <2>7, Found
    <3> HIDE DEF i, node
    <3>2. i # 1 /\ i # 2
      BY <1>4, <2>2, <2>3, <2>7, <3>1
    <3>3. i - 1 \in 1..Len(S[l]) /\ i - 1 \in 2..(Len(S[l]) - 1) /\ i - 1 < Len(S[l]) /\ 1 < i
          /\ (i - 1) + 1 = i
      BY <2>2, <3>1, <3>2
    <3>4. prev[node] = S[l][i - 1] /\ node = After(S[l], i - 1)
      BY <3>1, <3>3 DEF After, Before
    <3>5. prev[prev[node]] = Before(S[l], i - 1)
      BY <2>2, <3>3, <3>4, PrevIs
    <3> QED BY <2>1, <2>4, <2>7, <3>3, <3>4, <3>5, DoublyExtracts
  <2> QED BY <1>4, <2>5, <2>6, <2>7
<1>5. \/ Doubly!Refuse(Null, {})
      \/ Doubly!Present(l) /\ Doubly!Enough(l, 1) /\ Doubly!Refuse(Null, {first})
      \/ /\ Doubly!Present(l) /\ Doubly!Enough(l, 2) /\ ~Doubly!Same(l, first, entry)
         /\ \/ Doubly!DropFirst(l, {next[first]})
            \/ /\ ~Doubly!Same(l, next[first], entry) /\ Doubly!InList(l, entry) # Null
               /\ Doubly!Extract(l, prev[prev[Doubly!InList(l, entry)]],
                                 prev[Doubly!InList(l, entry)], Doubly!InList(l, entry),
                                 {first, next[first]} \cup
                                   Doubly!Passed(l, Doubly!Match(l, entry, 1)))
            \/ Doubly!Refuse(Null, {first, next[first]} \cup
                                   Doubly!Passed(l, Doubly!Match(l, entry, 1)))
  BY Zenon DEF Doubly!RemoveBefore
<1>6. /\ Doubly!InList(l, entry) = node /\ Doubly!Present(l) = Present(l)
      /\ Doubly!Same(l, first, entry) <=> Same(l, first, entry)
      /\ Doubly!Same(l, next[first], entry) <=> Same(l, next[first], entry)
      /\ {first, next[first]} \cup Doubly!Passed(l, Doubly!Match(l, entry, 1)) = N
  BY DoublyMatch, DoublyStores, DoublyLoops, DoublyPassed
<1> HIDE DEF i, node, first, N
<1> QED BY <1>2, <1>3, <1>4, <1>5, <1>6, Zenon

\* A struct of a doubly linked list.
LEMMA DoublyStructIs ==
    ASSUME NEW a \in Ptr, NEW b \in Ptr, NEW c \in Compare, NEW n \in 0..MaxU32,
           NEW r, r = [first |-> a, last |-> b, compare |-> c, count |-> n]
    PROVE  /\ r \in Doubly!Struct /\ r # Null
           /\ r.first = a /\ r.last = b /\ r.compare = c /\ r.count = n
<1>1. r \in Doubly!Struct
  BY DEF Doubly!Struct, Doubly!Ptr, Ptr
<1>2. r # Null
  <2> HIDE DEF Doubly!Struct
  <2>1. Doubly!Struct = [first : Elem \cup {Null}, last : Elem \cup {Null},
                         compare : Compare, count : 0..MaxU32]
    BY DEF Doubly!Struct, Doubly!Ptr
  <2> QED BY <1>1, <2>1, ListAssumption
<1> QED BY <1>1, <1>2

\* doubly_linked_join.
LEMMA DoublyJoin ==
    ASSUME NEW S, Double(S), NEW l \in List, NEW m \in List \ {l}, Doubly!Join(l, m)
    PROVE  Goes
<1> DEFINE n == Len(S[l])
           k == Len(S[m])
           r == [first |-> list[l].first, last |-> list[m].last, compare |-> list[l].compare,
                 count |-> n + k]
<1>1. State(S) /\ Still(S) /\ {} \in SUBSET nodes /\ kind = "doubly" /\ TypeOK
      /\ rev' = Null /\ kind' = kind /\ "wide" \notin Beyond
  BY DEF Double, State, Still, Contract
<1>2. CASE Doubly!Refuse(ERR, {})
  BY <1>1, <1>2, DoublyRefuses
<1>3. CASE /\ Doubly!Joinable(l, m) /\ Doubly!Fits(list[l].count + list[m].count)
           /\ next' = Put(next, list[l].last, list[m].first)
           /\ prev' = Put(prev, list[m].first, list[l].last)
           /\ list' = [Doubly!Resized(l, list[l].first, list[m].last, list[m].count) EXCEPT ![m] = Null]
           /\ ret' = OK
           /\ Doubly!Derefs({list[m].first, list[l].last})
           /\ UNCHANGED <<nodes, held, freed>>
  <2>1. Present(l) /\ Present(m) /\ list[l].count # 0 /\ list[m].count # 0
        /\ list[l].compare = list[m].compare /\ list[l].count + list[m].count <= MaxU32
    BY <1>1, <1>3, DoublyLoops DEF Doubly!Joinable, Doubly!Fits
  <2>2. list[l].count = n /\ list[m].count = k /\ n \in Nat /\ k \in Nat /\ n # 0 /\ k # 0
        /\ list[l].first \in Ptr /\ list[m].last \in Ptr
    BY <2>1, Ends
  <2>3. list[l].last = S[l][n] /\ list[m].first = S[m][1]
        /\ {list[m].first, list[l].last} \subseteq nodes
    BY <2>1, <2>2, Ends
  <2>4. k \in Int /\ 0 <= n + k /\ n + k <= MaxU32 /\ n + k \in 0..MaxU32
    <3>1. list[l].count + list[m].count = n + k
      BY <2>2
    <3>2. MaxU32 \in Nat
      BY ListAssumption
    <3> HIDE DEF n, k
    <3> QED BY <2>1, <2>2, <3>1, <3>2
  <2>5. list' = [[list EXCEPT ![l] = r] EXCEPT ![m] = Null]
    <3>1. Doubly!Resized(l, list[l].first, list[m].last, k) = [list EXCEPT ![l] = r]
      <4>1. Doubly!Resized(l, list[l].first, list[m].last, k) =
              [list EXCEPT ![l] = [first |-> list[l].first, last |-> list[m].last,
                                   compare |-> list[l].compare, count |-> Len(S[l]) + k]]
        <5> HIDE DEF k
        <5> QED BY <2>1, <2>4, ResizedValue
      <4> QED BY <4>1
    <3> HIDE DEF r
    <3> QED BY <1>3, <2>2, <3>1
  <2>6. list[l].compare \in Compare
    BY <1>1, <2>1, StructIs
  <2> HIDE DEF n, k
  <2>7. /\ r \in Doubly!Struct /\ r # Null
        /\ r.first = list[l].first /\ r.last = list[m].last /\ r.compare = list[l].compare
        /\ r.count = n + k
    BY <2>2, <2>4, <2>6, DoublyStructIs
  <2>8. list \in [List -> {Null} \cup StructOf] /\ r \in StructOf
    BY <1>1, <2>7 DEF TypeOK, StructOf
  <2> HIDE DEF r
  <2>9. list' \in [List -> {Null} \cup StructOf] /\ list'[l] = r /\ list'[m] = Null
        /\ \A o \in List : o # l /\ o # m => list'[o] = list[o]
    BY <2>5, <2>8
  <2>10. /\ next' = Put(next, S[l][Len(S[l])], S[m][1])
         /\ prev' = Put(prev, S[m][1], S[l][Len(S[l])])
    BY <1>3, <2>3 DEF n
  <2>11. fault' = FALSE /\ nodes' = nodes /\ held' = held /\ freed' = freed /\ ret' = OK
    BY <1>3, <2>3 DEF Doubly!Derefs
  <2>12. /\ list'[l] # Null /\ list'[l].first = list[l].first
         /\ list'[l].last = list[m].last
         /\ list'[l].count = Len(S[l]) + Len(S[m]) /\ list'[l].compare = list[l].compare
    BY <2>7, <2>9 DEF n, k
  <2>13. l # m /\ Len(S[l]) # 0 /\ Len(S[m]) # 0
    BY <2>2 DEF n, k
  <2> QED BY <1>1, <2>1, <2>9, <2>10, <2>11, <2>12, <2>13, JoinMove
<1>4. \/ Doubly!Refuse(Doubly!ERR, {})
      \/ /\ Doubly!Joinable(l, m) /\ Doubly!Fits(list[l].count + list[m].count)
         /\ next' = Doubly!Put(next, list[l].last, list[m].first)
         /\ prev' = Doubly!Put(prev, list[m].first, list[l].last)
         /\ list' = [Doubly!Resized(l, list[l].first, list[m].last, list[m].count)
                       EXCEPT ![m] = Null]
         /\ ret' = Doubly!OK
         /\ Doubly!Derefs({list[m].first, list[l].last})
         /\ UNCHANGED <<nodes, held, freed>>
  BY Zenon DEF Doubly!Join
<1> QED BY <1>2, <1>3, <1>4, DoublyStores

\* doubly_linked_destroy.
LEMMA DoublyDestroy ==
    ASSUME NEW S, Double(S), NEW l \in List, Doubly!Destroy(l)
    PROVE  Goes
<1> DEFINE N == Members(l)
<1>1. State(S) /\ Still(S) /\ {} \in SUBSET nodes /\ kind = "doubly"
      /\ rev' = Null /\ kind' = kind
  BY DEF Double, Still
<1>2. CASE Doubly!Refuse(ERR, {})
  BY <1>1, <1>2, DoublyRefuses
<1>3. CASE Present(l) /\ Doubly!Frees(l, N) /\ prev' = Forget(prev, N)
  <2>1. N = {S[l][i] : i \in 1..Len(S[l])} /\ N \subseteq nodes
    BY <1>1, SeesSequences, Places
  <2> HIDE DEF N
  <2>2. /\ list' = [list EXCEPT ![l] = Null] /\ next' = Forget(next, N)
        /\ nodes' = nodes \ N /\ freed' = freed \cup N /\ ret' = OK /\ held' = held
        /\ fault' = FALSE
    BY <1>3, <2>1, DoublyStores DEF Doubly!Frees, Doubly!Derefs
  <2> QED BY <1>1, <1>3, <2>1, <2>2, DestroyMove
<1>4. \/ Doubly!Refuse(Doubly!ERR, {})
      \/ /\ Doubly!Present(l) /\ Doubly!Frees(l, Doubly!Members(l))
         /\ prev' = Doubly!Forget(prev, Doubly!Members(l))
  BY Zenon DEF Doubly!Destroy
<1> HIDE DEF N
<1> QED BY <1>2, <1>3, <1>4, DoublyLoops, DoublyStores DEF N

\* The loop that counts a part, once it is cut off.
LEMMA TornWalk ==
    ASSUME NEW S, State(S), Still(S), NEW l \in List, NEW new \in List, l # new, S[new] = <<>>,
           NEW a \in 1..Len(S[l]), NEW b \in a..Len(S[l]),
           NEW g, g = Put(Put(next, S[l][b], Null), Before(S[l], a), After(S[l], b))
    PROVE  /\ Len(Walk(g, S[l][a])) = b - a + 1
           /\ Range(Walk(g, S[l][a])) \subseteq nodes
<1> DEFINE s == S[l]
           t == Without(s, a, b)
           u == SubSeq(s, a, b)
           T == [[S EXCEPT ![l] = t] EXCEPT ![new] = u]
<1>1. S \in [List -> Seq(Elem)] /\ s \in Seq(Elem) /\ Len(s) \in Nat /\ Family(List, S)
      /\ Onward(next, List, S)
  BY DEF State, Shape, Family, Still
<1>0. a \in Nat /\ b \in Nat /\ 1 <= a /\ a <= b /\ b <= Len(s)
      /\ a \in 1..(Len(s) + 1) /\ b \in (a - 1)..Len(s) /\ 1 \in 1..(b - a + 1) /\ a + 1 - 1 = a
      /\ b - a + 1 # 0
  <2> HIDE DEF s
  <2> QED BY <1>1 DEF s
<1>2. t \in Seq(Elem) /\ Len(t) = Len(s) - (b - a + 1)
      /\ \A i \in 1..(Len(s) - (b - a + 1)) : t[i] = IF i < a THEN s[i] ELSE s[i + (b - a + 1)]
  BY <1>1, WithoutIs
<1>3. u \in Seq(Elem) /\ Len(u) = b - a + 1 /\ \A i \in 1..(b - a + 1) : u[i] = s[a + i - 1]
  BY <1>0, <1>1, PartIs
<1> HIDE DEF t, u
<1>4. T \in [List -> Seq(Elem)] /\ T[l] = t /\ T[new] = u
      /\ \A o \in List : o # l /\ o # new => T[o] = S[o]
  BY <1>1, <1>2, <1>3
<1> HIDE DEF T
<1>5. Torn(List, S, T, l, a, b, new)
  BY <1>2, <1>3, <1>4 DEF Torn
<1>6. Family(List, T)
  BY <1>1, <1>5, Tears
<1>7. Onward(g, List, T)
  BY <1>1, <1>5, TearNext
<1>8. Walk(g, First(T[new])) = T[new]
  BY <1>6, <1>7, WalkIs
<1>9. First(u) = S[l][a]
  BY <1>0, <1>3 DEF First
<1>10. Walk(g, S[l][a]) = u
  BY <1>4, <1>8, <1>9
<1>11. \A i \in 1..(b - a + 1) : a + i - 1 \in 1..Len(s)
  <2> HIDE DEF s
  <2> QED BY <1>0, <1>1
<1>12. \A i \in 1..Len(s) : s[i] \in nodes
  BY SeesSequences
<1>13. DOMAIN u = 1..(b - a + 1)
  BY <1>3
<1>14. Range(u) \subseteq nodes
  BY <1>3, <1>11, <1>12, <1>13 DEF Range
<1> QED BY <1>3, <1>10, <1>14

\* doubly_linked_split.
LEMMA DoublySplit ==
    ASSUME NEW S, Double(S), NEW l \in List, NEW new \in List, ~Doubly!Present(new),
           NEW from, NEW to, Doubly!Split(l, from, to, new)
    PROVE  Goes
<1> DEFINE head == from \in {Null, list[l].first}
           f == IF head THEN list[l].first ELSE from
           t == IF to = Null THEN list[l].last ELSE to
           p == IF head THEN Null ELSE prev[f]
           n == IF to = Null THEN Null ELSE next[t]
           part == Walk(next', f)
           N == Visited(next', f) \cup (IF head THEN {} ELSE {p})
                                  \cup (IF to = Null THEN {} ELSE {n})
           i == FromSpot(Contents(l), from)
           j == ToSpot(Contents(l), to)
           s == S[l]
           k == Len(S[l])
           d == j - i + 1
<1>1. State(S) /\ Still(S) /\ {} \in SUBSET nodes /\ kind = "doubly" /\ TypeOK
      /\ rev' = Null /\ kind' = kind /\ "to_last" \notin Beyond
  BY DEF Double, State, Still, Contract
<1>2. CASE Doubly!Refuse(Null, {})
  BY <1>1, <1>2, DoublyRefuses
<1>3. CASE /\ Splittable(l, from, to) /\ LeftToRight(l, from, to)
           /\ head \/ to # list[l].last \/ "to_last" \in Beyond
           /\ next' = Put(Put(next, t, Null), p, n)
           /\ prev' = Put(Put(prev, f, Null), n, p)
           /\ list' = [list EXCEPT ![l].first = IF head THEN n ELSE @,
                                   ![l].last = IF to = Null THEN p ELSE @,
                                   ![l].count = By(@, 0 - Len(part)),
                                   ![new] = [first |-> f, last |-> t, count |-> Len(part),
                                             compare |-> list[l].compare]]
           /\ ret' = OK
           /\ Doubly!Derefs(N)
           /\ UNCHANGED <<nodes, held, freed>>
  <2>1. Present(l) /\ ~Present(new) /\ l # new
    BY <1>3, DoublyLoops DEF Splittable
  <2>2. /\ i \in 1..k /\ j \in i..k /\ d < k
        /\ from # Null => s[i] = from
        /\ to # Null => s[j] = to
    BY <1>1, <1>3, SplitSpots
  <2>3. (from = Null => i = 1) /\ (to = Null => j = k)
    BY <1>1, SeesSequences DEF FromSpot, ToSpot
  <2>4. k \in Nat /\ k <= MaxU32 /\ MaxU32 \in Nat /\ list[l].count = k
        /\ list[l].first \in Ptr /\ list[l].last \in Ptr /\ s \in Seq(Elem)
    BY <1>1, <2>1, Ends, ListAssumption, LensIs
  <2> HIDE DEF i, j
  <2>5. /\ i \in Nat /\ j \in Nat /\ 1 <= i /\ i <= j /\ j <= k /\ d \in Nat /\ 1 <= d /\ d < k
        /\ j \in 1..k /\ i \in 1..(k + 1) /\ j \in 1..(k + 1) /\ k # 0 /\ 1 \in 1..k /\ k \in 1..k
        /\ k - d \in 0..MaxU32 /\ d \in 0..MaxU32 /\ ~(i = 1 /\ j = k)
    <3>1. d = j - i + 1
      OBVIOUS
    <3> HIDE DEF k, d
    <3>2. i \in Nat /\ j \in Nat /\ 1 <= i /\ i <= j /\ j <= k
      BY <2>2, <2>4
    <3> QED BY <2>2, <2>4, <3>1, <3>2
  <2>6. list[l].first = s[1] /\ list[l].last = s[k]
    BY <2>1, <2>5, Ends
  <2>7. Distinct(List, S)
    BY <1>1 DEF State, Shape, Family
  <2>8. head <=> i = 1
    <3>1. from # Null /\ from = list[l].first => i = 1
      <4>1. from # Null /\ from = list[l].first => s[i] = s[1]
        BY <2>2, <2>6
      <4> QED BY <2>2, <2>5, <2>7, <4>1, SameSpot
    <3>2. i = 1 => from = Null \/ from = list[l].first
      BY <2>2, <2>6
    <3> QED BY <2>3, <3>1, <3>2
  <2>9. f = s[i]
    BY <2>2, <2>6, <2>8
  <2>10. t = s[j]
    BY <2>2, <2>3, <2>6
  <2> HIDE DEF f, t, head
  <2>11. /\ prev[s[i]] = Before(s, i) /\ next[s[j]] = After(s, j)
         /\ s[i] \in nodes /\ s[i] # Null /\ s[i] \in Ptr /\ s[j] \in Ptr
         /\ Before(s, i) \in Ptr /\ After(s, j) \in Ptr
    <3>1. prev[s[i]] = Before(s, i) /\ next[s[j]] = After(s, j) /\ s[i] \in nodes /\ s[i] # Null
      BY <1>1, <2>2, <2>5, PrevIs, NextIs
    <3>2. s[i] \in Ptr /\ s[j] \in Ptr
      BY <2>2, <2>4, <2>5, Pointers
    <3>3. Before(s, i) \in Ptr /\ After(s, j) \in Ptr
      BY <2>4, <2>5, Neighbours
    <3> QED BY <3>1, <3>2, <3>3
  <2>12. p = Before(s, i)
    <3>1. i = 1 => Before(s, i) = Null
      BY DEF Before
    <3> QED BY <2>8, <2>9, <2>11, <3>1
  <2>13. n = After(s, j)
    <3>1. j = k => After(s, j) = Null
      BY <2>4 DEF After
    <3> QED BY <2>3, <2>10, <2>11, <3>1
  <2>14. to # Null => j # k
    <3>1. to # Null /\ j = k => head
      BY <1>1, <1>3, <2>2, <2>6
    <3> QED BY <2>5, <2>8, <3>1
  <2> HIDE DEF p, n
  <2>15. next' = Put(Put(next, s[j], Null), Before(s, i), After(s, j))
         /\ prev' = Put(Put(prev, s[i], Null), After(s, j), Before(s, i))
    BY <1>3, <2>9, <2>10, <2>12, <2>13
  <2>16. Len(part) = d /\ Range(part) \subseteq nodes
    <3>1. S[new] = <<>>
      BY <1>1, <2>1 DEF State, Shape
    <3>2. Len(Walk(next', S[l][i])) = j - i + 1 /\ Range(Walk(next', S[l][i])) \subseteq nodes
      BY <1>1, <2>1, <2>2, <2>15, <3>1, TornWalk
    <3> QED BY <2>9, <3>2
  <2>17. N \subseteq nodes
    <3>1. ~head => p \in nodes
      <4>1. i # 1 => i - 1 \in 1..k /\ 1 < i
        BY <2>5
      <4>2. i # 1 => Before(s, i) \in nodes
        BY <1>1, <4>1, NextIs DEF Before
      <4> QED BY <2>8, <2>12, <4>2
    <3>2. to # Null => n \in nodes
      <4>1. j # k => j + 1 \in 1..k /\ j < k
        BY <2>4, <2>5
      <4>2. j # k => After(s, j) \in nodes
        BY <1>1, <4>1, NextIs DEF After
      <4> QED BY <2>13, <2>14, <4>2
    <3>3. Visited(next', f) \subseteq nodes
      BY <2>16 DEF Visited
    <3> QED BY <3>1, <3>2, <3>3
  <2> DEFINE a == IF i = 1 THEN After(s, j) ELSE list[l].first
             b == IF j = k THEN Before(s, i) ELSE list[l].last
             r == [first |-> a, last |-> b, compare |-> list[l].compare, count |-> k - d]
             q == [first |-> s[i], last |-> s[j], compare |-> list[l].compare, count |-> d]
  <2>18. By(list[l].count, 0 - Len(part)) = k - d
    <3>1. 0 - d \in Int /\ 0 <= k + (0 - d) /\ k + (0 - d) <= MaxU32 /\ k + (0 - d) = k - d
      <4> HIDE DEF k, d
      <4> QED BY <2>4, <2>5
    <3> HIDE DEF k, d, part
    <3> QED BY <2>4, <2>16, <3>1, ByIs
  <2>19. (IF head THEN n ELSE list[l].first) = a /\ (IF to = Null THEN p ELSE list[l].last) = b
    BY <2>3, <2>8, <2>12, <2>13, <2>14
  <2> HIDE DEF a, b, k, d, N, part
  <2>20. list \in [List -> {Null} \cup StructOf]
    BY <1>1 DEF TypeOK, StructOf
  <2>21. list' = [Stored(l, a, b, k - d) EXCEPT ![new] = q]
    <3>1. list[l] = [first |-> list[l].first, last |-> list[l].last,
                     compare |-> list[l].compare, count |-> list[l].count]
      BY <1>1, <2>1, StructIs
    <3>2. list' = [list EXCEPT ![l].first = IF head THEN n ELSE list[l].first,
                               ![l].last = IF to = Null THEN p ELSE list[l].last,
                               ![l].count = By(list[l].count, 0 - Len(part)),
                               ![new] = [first |-> f, last |-> t, count |-> Len(part),
                                         compare |-> list[l].compare]]
      BY <1>3, <2>20, <3>1
    <3>3. [first |-> f, last |-> t, count |-> Len(part), compare |-> list[l].compare] = q
      BY <2>9, <2>10, <2>16
    <3> HIDE DEF q
    <3> QED BY <2>18, <2>19, <3>2, <3>3 DEF Stored
  <2>22. Stored(l, a, b, k - d) = [list EXCEPT ![l] = r]
    <3> DEFINE now == Stored(l, a, b, k - d)
    <3>1. now = Stored(l, a, b, k - d)
      OBVIOUS
    <3> HIDE DEF now
    <3>2. PICK c : c = k - d
      OBVIOUS
    <3>3. now = [list EXCEPT ![l] = [first |-> a, last |-> b, compare |-> list[l].compare,
                                     count |-> c]]
      BY <1>1, <2>1, <3>1, <3>2, StoreDoubly
    <3> QED BY <3>1, <3>2, <3>3
  <2>23. a \in Ptr /\ b \in Ptr /\ list[l].compare \in Compare
    BY <1>1, <2>1, <2>4, <2>11, StructIs DEF a, b
  <2>24. /\ r \in Doubly!Struct /\ r # Null
         /\ r.first = a /\ r.last = b /\ r.compare = list[l].compare /\ r.count = k - d
    BY <2>5, <2>23, DoublyStructIs
  <2>25. /\ q \in Doubly!Struct /\ q # Null
         /\ q.first = s[i] /\ q.last = s[j] /\ q.compare = list[l].compare /\ q.count = d
    BY <2>5, <2>11, <2>23, DoublyStructIs
  <2>26. r \in StructOf /\ q \in StructOf
    BY <1>1, <2>24, <2>25 DEF StructOf
  <2>27. list' = [[list EXCEPT ![l] = r] EXCEPT ![new] = q]
    BY <2>21, <2>22
  <2> HIDE DEF r, q
  <2>28. /\ list' \in [List -> {Null} \cup StructOf] /\ list'[l] = r /\ list'[new] = q
         /\ \A o \in List : o # l /\ o # new => list'[o] = list[o]
    BY <2>1, <2>20, <2>26, <2>27
  <2>29. fault' = FALSE /\ nodes' = nodes /\ held' = held /\ freed' = freed /\ ret' = OK
    BY <1>3, <2>17 DEF Doubly!Derefs
  <2>30. /\ list'[l] # Null /\ list'[new] # Null
         /\ list'[l].first = IF i = 1 THEN After(S[l], j) ELSE list[l].first
         /\ list'[l].count = Len(S[l]) - (j - i + 1)
         /\ list'[l].last = IF j = Len(S[l]) THEN Before(S[l], i) ELSE list[l].last
         /\ list'[l].compare = list[l].compare
         /\ list'[new].first = S[l][i] /\ list'[new].count = j - i + 1
         /\ list'[new].last = S[l][j] /\ list'[new].compare = list[l].compare
    BY <2>24, <2>25, <2>28 DEF a, b, k, d
  <2>31. i \in 1..Len(S[l]) /\ j \in i..Len(S[l]) /\ j - i + 1 < Len(S[l])
    BY <2>2 DEF k, d
  <2> QED BY <1>1, <2>1, <2>15, <2>28, <2>29, <2>30, <2>31, TearMove
<1>4. Doubly!Splittable(l, from, to) <=> Splittable(l, from, to)
  BY DoublyLoops DEF Doubly!Splittable, Splittable
<1>5. Doubly!LeftToRight(l, from, to) <=> LeftToRight(l, from, to)
  BY DoublyLoops DEF Doubly!LeftToRight, LeftToRight
<1>6. \/ Doubly!Refuse(Null, {})
      \/ /\ Doubly!Splittable(l, from, to) /\ Doubly!LeftToRight(l, from, to)
         /\ head \/ to # list[l].last \/ "to_last" \in Beyond
         /\ next' = Doubly!Put(Doubly!Put(next, t, Null), p, n)
         /\ prev' = Doubly!Put(Doubly!Put(prev, f, Null), n, p)
         /\ list' = [list EXCEPT ![l].first = IF head THEN n ELSE @,
                                 ![l].last = IF to = Null THEN p ELSE @,
                                 ![l].count = Doubly!By(@, 0 - Len(Doubly!Walk(next', f))),
                                 ![new] = [first |-> f, last |-> t,
                                           count |-> Len(Doubly!Walk(next', f)),
                                           compare |-> list[l].compare]]
         /\ ret' = Doubly!OK
         /\ Doubly!Derefs(Doubly!Visited(next', f) \cup (IF head THEN {} ELSE {p})
                                                   \cup (IF to = Null THEN {} ELSE {n}))
         /\ UNCHANGED <<nodes, held, freed>>
  BY Zenon DEF Doubly!Split
<1>7. Doubly!Walk(next', f) = part /\ Doubly!Visited(next', f) = Visited(next', f)
  <2>1. Doubly!Walk(next', f) = part
    BY DoublyWalk
  <2> QED BY <2>1, Zenon DEF Doubly!Visited, Visited, Doubly!Range, Range
<1> HIDE DEF head, f, t, p, n
<1> QED BY <1>2, <1>3, <1>4, <1>5, <1>6, <1>7, DoublyStores

\* A step of the doubly linked list.
LEMMA DoublyGoes ==
    ASSUME NEW S, State(S), Contract, kind = "doubly", Doubly!Next, UNCHANGED <<rev, kind>>
    PROVE  Goes
<1>1. Double(S)
  <2>1. "doubly" # "singly"
    OBVIOUS
  <2> QED BY <2>1 DEF Double, State, Turning
<1>2. PICK l \in List :
         \/ \E c \in Compare \cup {Null} : Doubly!Create(l, c)
         \/ \E x \in Doubly!Mine : Doubly!Push(l, x)
         \/ \E x \in Doubly!Mine : Doubly!Unshift(l, x)
         \/ \E x \in Doubly!Mine, e \in Doubly!Known : Doubly!InsertAfter(l, e, x)
         \/ \E x \in Doubly!Mine, e \in Doubly!Known : Doubly!InsertBefore(l, e, x)
         \/ Doubly!Pop(l)
         \/ Doubly!Shift(l)
         \/ \E e \in Doubly!Known : Doubly!Remove(l, e)
         \/ \E e \in Doubly!Known : Doubly!RemoveAfter(l, e)
         \/ \E e \in Doubly!Known : Doubly!RemoveBefore(l, e)
         \/ \E m \in List \ {l} : Doubly!Join(l, m)
         \/ \E new \in List, from, to \in Doubly!NodePtr :
               ~Doubly!Present(new) /\ Doubly!Split(l, from, to, new)
         \/ Doubly!Destroy(l)
  BY Zenon DEF Doubly!Next
<1> QED BY <1>1, <1>2, DoublyCreate, DoublyPush, DoublyUnshift, DoublyInsertAfter, DoublyInsertBefore,
           DoublyPop, DoublyShift, DoublyRemove, DoublyRemoveAfter, DoublyRemoveBefore,
           DoublyJoin, DoublySplit, DoublyDestroy, Zenon

-----------------------------------------------------------------------------
(***************************************************************************)
(* The theorems.                                                           *)
(***************************************************************************)

\* A client that has no list yet.
LEMMA InitInv ==
    ASSUME Init
    PROVE  Inv /\ Abstract!Init
<1> DEFINE S == [l \in List |-> <<>>]
<1>1. /\ list = [l \in List |-> Null] /\ next = [p \in Ptr |-> Null]
      /\ prev = [p \in Ptr |-> Null] /\ nodes = {} /\ held = Elem /\ freed = {} /\ ret = Null
      /\ fault = FALSE /\ rev = Null /\ kind \in {"singly", "doubly"}
  BY DEF Init, Singly!Init, Doubly!Init, Singly!Start, Doubly!Start, Singly!Ptr, Doubly!Ptr, Ptr
<1>2. Null \in Ptr
  BY DEF Ptr
<1>3. TypeOK
  BY <1>1, <1>2 DEF TypeOK
<1>4. <<>> \in Seq(Elem) /\ Len(<<>>) = 0 /\ \A i \in 1..0 : FALSE
  OBVIOUS
<1>5. S \in [List -> Seq(Elem)] /\ \A l \in List : S[l] = <<>> /\ Len(S[l]) = 0
  BY <1>4
<1>6. \A l \in List : ~Present(l)
  BY <1>1 DEF Present
<1> HIDE DEF S
<1>7. Family(List, S) /\ \A p : ~In(List, S, p)
  BY <1>4, <1>5 DEF Family, Distinct, In
<1>8. Shape(S)
  BY <1>1, <1>5, <1>6, <1>7 DEF Shape
<1>9. Onward(next, List, S) /\ Back(prev, List, S)
  BY <1>1, <1>2, <1>4, <1>5 DEF Onward, Back
<1>10. State(S)
  BY <1>1, <1>3, <1>6, <1>8, <1>9 DEF State, Still, Twofold
<1>11. Abstract!Init
  BY <1>1, <1>6 DEF Abstract!Init
<1> QED BY <1>5, <1>10, <1>11 DEF Inv

\* Every step keeps the invariant, and is a step of ListADT or none.
LEMMA StepInv ==
    ASSUME Inv, Contract, [Next]_vars
    PROVE  Inv' /\ [Abstract!Next]_(Abstract!vars)
<1>1. PICK S \in [List -> Seq(Elem)] : State(S)
  BY DEF Inv
<1>2. Goes
  <2>1. CASE kind = "singly" /\ Singly!Next /\ UNCHANGED <<prev, kind>>
    BY <1>1, <2>1, SinglyGoes
  <2>2. CASE kind = "doubly" /\ Doubly!Next /\ UNCHANGED <<rev, kind>>
    BY <1>1, <2>2, DoublyGoes
  <2>3. CASE UNCHANGED vars
    <3>1. fault' = FALSE
      BY <1>1, <2>3 DEF State, TypeOK, vars
    <3> QED BY <1>1, <2>3, <3>1, QuietMove DEF vars
  <2> QED BY <2>1, <2>2, <2>3 DEF Next
<1>3. Inv'
  BY <1>2 DEF Goes, Inv
<1> QED BY <1>2, <1>3 DEF Goes

\* What the invariant says about the properties the runs check.
LEMMA InvSays ==
    ASSUME Inv
    PROVE  TypeOK /\ MemorySafe /\ Linked /\ Ownership
<1>1. PICK S \in [List -> Seq(Elem)] : State(S)
  BY DEF Inv
<1>2. TypeOK /\ MemorySafe
  BY <1>1 DEF State, MemorySafe
<1>3. /\ Family(List, S) /\ Distinct(List, S)
      /\ \A l \in List : S[l] \in Seq(Elem) /\ Len(S[l]) \in Nat /\ DOMAIN S[l] = 1..Len(S[l])
      /\ \A l \in List : Present(l) => list[l].count = Len(S[l])
      /\ nodes = {p \in Elem : In(List, S, p)}
  BY <1>1 DEF State, Shape, Family
<1>4. \A l \in List : Sequence(l) = S[l]
  BY <1>1, SequenceIs
<1>5. \A l \in List : \A p : p \in ToSet(S[l]) <=> \E i \in 1..Len(S[l]) : p = S[l][i]
  BY <1>3 DEF ToSet
<1>6. ASSUME NEW l \in List
      PROVE  ToSet(S[l]) \subseteq nodes
  BY <1>3, <1>5 DEF In
<1>7. ASSUME NEW l \in List
      PROVE  Cardinality(ToSet(S[l])) = Len(S[l])
  <2> DEFINE n == Len(S[l])
             f == [i \in 1..n |-> S[l][i]]
  <2>1. f \in [1..n -> ToSet(S[l])]
    BY <1>5
  <2>2. \A i, j \in 1..n : f[i] = f[j] => i = j
    BY <1>3, SameSpot
  <2>3. \A p \in ToSet(S[l]) : \E i \in 1..n : f[i] = p
    BY <1>5
  <2> HIDE DEF f
  <2>4. f \in Bijection(1..n, ToSet(S[l]))
    BY <2>1, <2>2, <2>3 DEF Bijection, Injection, Surjection, IsInjective
  <2>5. ExistsBijection(1..n, ToSet(S[l]))
    BY <2>4 DEF ExistsBijection
  <2>6. IsFiniteSet(1..n) /\ Cardinality(1..n) = n
    BY <1>3, FS_Interval
  <2> QED BY <2>5, <2>6, FS_Bijection
<1>8. ASSUME NEW l \in List, NEW m \in List \ {l}
      PROVE  ToSet(S[l]) \cap ToSet(S[m]) = {}
  BY <1>3, <1>5, SameSpot
<1>9. ASSUME NEW l \in List, Present(l), kind = "doubly"
      PROVE  Walk(prev, list[l].last) = Reverse(S[l])
  <2>1. Back(prev, List, S) /\ list[l].last = End(S[l])
    BY <1>1, <1>9 DEF State, Twofold
  <2> QED BY <1>3, <2>1, WalkBack
<1>10. ASSUME kind = "doubly", NEW p \in nodes, prev[p] # Null
       PROVE  next[prev[p]] = p
  <2>1. PICK l \in List : \E i \in 1..Len(S[l]) : p = S[l][i]
    BY <1>3 DEF In
  <2>0. PICK i \in 1..Len(S[l]) : p = S[l][i]
    BY <2>1
  <2>2. Still(S)
    BY <1>1, <1>10 DEF State, Turning
  <2>3. prev[p] = Before(S[l], i)
    BY <1>1, <1>10, <2>0, PrevIs
  <2>4. 1 < i /\ prev[p] = S[l][i - 1]
    BY <1>10, <2>3 DEF Before
  <2>5. i - 1 \in 1..Len(S[l]) /\ i - 1 < Len(S[l]) /\ (i - 1) + 1 = i
    BY <1>3, <2>4
  <2>6. next[S[l][i - 1]] = After(S[l], i - 1)
    BY <1>1, <2>2, <2>5, NextIs
  <2> QED BY <2>0, <2>4, <2>5, <2>6 DEF After
<1>11. Linked
  <2>1. ASSUME NEW l \in List, Present(l)
        PROVE  /\ Len(Sequence(l)) = list[l].count
               /\ ToSet(Sequence(l)) \subseteq nodes
               /\ Cardinality(ToSet(Sequence(l))) = Len(Sequence(l))
               /\ \A m \in List \ {l} : ToSet(Sequence(l)) \cap ToSet(Sequence(m)) = {}
               /\ kind = "doubly" =>
                    /\ Walk(prev, list[l].last) = Reverse(Sequence(l))
                    /\ \A p \in nodes : prev[p] # Null => next[prev[p]] = p
    <3>1. \A m \in List \ {l} : ToSet(S[l]) \cap ToSet(Sequence(m)) = {}
      BY <1>4, <1>8
    <3>2. kind = "doubly" => Walk(prev, list[l].last) = Reverse(S[l])
      BY <1>9, <2>1
    <3>3. Len(S[l]) = list[l].count
      BY <1>3, <2>1
    <3>4. Sequence(l) = S[l]
      BY <1>4
    <3> QED BY <1>6, <1>7, <1>10, <3>1, <3>2, <3>3, <3>4
  <2> QED BY <2>1, Zenon DEF Linked
<1>12. Ownership
  <2>1. nodes = UNION {ToSet(Sequence(l)) : l \in List}
    <3>1. \A p : p \in nodes <=> \E l \in List : p \in ToSet(S[l])
      <4>1. \A l \in List : \A i \in 1..Len(S[l]) : S[l][i] \in Elem
        BY <1>3
      <4> QED BY <1>3, <1>5, <4>1 DEF In
    <3>2. \A p : p \in UNION {ToSet(Sequence(l)) : l \in List} <=> \E l \in List : p \in ToSet(S[l])
      BY <1>4
    <3> QED BY <3>1, <3>2
  <2> QED BY <1>1, <2>1 DEF Ownership, State, Shape
<1> QED BY <1>2, <1>11, <1>12

\* The invariant holds in every state of the program.
THEOREM Invariance == Contract => (Spec => []Inv)
<1> SUFFICES ASSUME Contract PROVE Spec => []Inv
  OBVIOUS
<1>1. Init => Inv
  BY InitInv
<1>2. Inv /\ [Next]_vars => Inv'
  BY StepInv
<1> QED BY <1>1, <1>2, PTL DEF Spec

\* No call dereferences NULL or a freed node, and every variable keeps its type, at
\* every step of every call of the two libraries.
THEOREM Safety == Contract => (Spec => [](TypeOK /\ MemorySafe))
<1>1. Inv => TypeOK /\ MemorySafe
  BY InvSays
<1> QED BY <1>1, Invariance, PTL

\* count is the number of nodes, no node is in two lists or twice in one, every loop
\* along next ends, and along prev a doubly linked list reads the same backwards.
THEOREM WellLinked == Contract => (Spec => []Linked)
<1>1. Inv => Linked
  BY InvSays
<1> QED BY <1>1, Invariance, PTL

\* Every element is with the client, in one list or with a dealloc callback: no node
\* is leaked or freed twice.
THEOREM OneOwner == Contract => (Spec => []Ownership)
<1>1. Inv => Ownership
  BY InvSays
<1> QED BY <1>1, Invariance, PTL

\* The calls implement sequences (ListADT): each one's result and effect is that of
\* an operation on them.
THEOREM Refinement == Contract => (Spec => ImplementsLists)
<1> SUFFICES ASSUME Contract PROVE Spec => ImplementsLists
  OBVIOUS
<1>1. Init => Inv /\ Abstract!Init
  BY InitInv
<1>2. Inv /\ [Next]_vars => Inv' /\ [Abstract!Next]_(Abstract!vars)
  BY StepInv
<1> QED BY <1>1, <1>2, PTL DEF Spec, ImplementsLists, Abstract!Spec
=============================================================================
