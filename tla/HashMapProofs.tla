--------------------------- MODULE HashMapProofs ---------------------------
(***************************************************************************)
(* Proofs about HashMap for every set of elements, compare and hash        *)
(* callbacks that agree, numbers of entries and UINT32_MAX.                *)
(*                                                                         *)
(* A bucket is in order when it is a sound d_array (Good) of allocated     *)
(* nodes that hash to it, none of them twice (Home).  The lemmas say that  *)
(* the steps on a bucket keep that; they rest on DArrayOpsProofs.          *)
(* The books (Books) say who owns every element; with them, and because    *)
(* every element is found (Findable), the calls implement Dictionary.      *)
(***************************************************************************)
EXTENDS HashMap, DArrayOpsProofs

-----------------------------------------------------------------------------
\* The entry of map m that x belongs to: Slot, for any map.
Entry(m, x) == m.hash[x] % m.capacity

\* b is a bucket for entry s of map m, over the nodes N.
Home(m, N, s, b) ==
    /\ Good(b)
    /\ b.compare = m.compare
    /\ s < m.capacity
    /\ \A i \in 0..(b.length - 1) :
          /\ b.data[i] \in N
          /\ Entry(m, b.data[i]) = s
          /\ \A j \in 0..(b.length - 1) : b.data[i] = b.data[j] => i = j

\* Node x is in bucket b.
Holds(b, x) == \E i \in 0..(b.length - 1) : b.data[i] = x

\* Every bucket of m is in order, and every node is in the bucket of its hash.
Housing(m, N) ==
    /\ \A s \in Index : m.entries[s] # Null => Home(m, N, s, m.entries[s])
    /\ \A x \in N : m.entries[Entry(m, x)] # Null /\ Holds(m.entries[Entry(m, x)], x)

Housed == IF Absent THEN nodes = {} ELSE Housing(map, nodes)

\* The inductive invariant: besides, an element in the map is not the client's, so
\* that inserting one never makes a second node for it.
IInv ==
    /\ TypeOK
    /\ Housed
    /\ held \cap nodes = {}
    /\ MemorySafe

-----------------------------------------------------------------------------
\* A remainder is below its divisor.
LEMMA ModRange ==
    ASSUME NEW a \in Int, NEW n \in Nat, n > 0
    PROVE  a % n \in Int /\ 0 <= a % n /\ a % n < n
OBVIOUS

\* The fields of a map.
LEMMA Fields ==
    ASSUME NEW m \in Map
    PROVE  /\ m.capacity \in Nat /\ m.capacity >= 1 /\ m.capacity <= MaxU32
           /\ MaxU32 \in Nat /\ m.length \in Nat
           /\ m.compare \in Compare
           /\ m.hash \in [Elem -> U32]
           /\ \A s \in Index : m.entries[s] \in Array \cup {Null}
BY OpsAssumption, HashMapAssumption DEF Map, U32

\* The entry of an element is one of the map's.
LEMMA EntryInMap ==
    ASSUME NEW m \in Map, NEW x \in Elem
    PROVE  /\ Entry(m, x) \in Index
           /\ Entry(m, x) < m.capacity
           /\ m.entries[Entry(m, x)] \in Array \cup {Null}
<1>1. m.hash[x] \in Int /\ m.capacity \in Nat /\ m.capacity > 0
  BY Fields DEF U32
<1>2. Entry(m, x) \in Int /\ 0 <= Entry(m, x) /\ Entry(m, x) < m.capacity
  BY <1>1, ModRange DEF Entry
<1>3. Entry(m, x) \in Index
  BY <1>2, Fields DEF Index
<1> QED BY <1>2, <1>3, Fields

\* length stays in 32 bits.
LEMMA ByInRange ==
    ASSUME map \in Map, NEW d \in Int
    PROVE  By(d) \in U32
<1>1. map.length + d \in Int /\ MaxU32 + 1 \in Nat /\ MaxU32 + 1 > 0 /\ MaxU32 \in Nat
  BY Fields
<1>2. By(d) \in Int /\ 0 <= By(d) /\ By(d) < MaxU32 + 1
  BY <1>1, ModRange DEF By
<1> QED BY <1>1, <1>2 DEF U32

\* A bucket stays in order when the nodes it does not hold come and go.
LEMMA HomeKept ==
    ASSUME NEW m, NEW r, NEW N, NEW M, NEW s, NEW b, Home(m, N, s, b),
           r.compare = m.compare, r.hash = m.hash, r.capacity = m.capacity,
           \A y \in N : Entry(m, y) = s => y \in M
    PROVE  Home(r, M, s, b)
BY DEF Home, Entry

\* What the loops over a bucket read is there (Hashmap_find, Hashmap_destroy).
LEMMA HomeReadable ==
    ASSUME NEW m, NEW s, NEW b, Home(m, nodes, s, b)
    PROVE  Readable(b)
<1>1. InBlock(b, b.length)
  BY DEF Home, Good, BlockSound, InBlock
<1> QED BY <1>1 DEF Home, Readable, Stored

\* If one bucket changes and is in order afterwards, and only its own nodes come or
\* go, the map is in order.
LEMMA HousingKept ==
    ASSUME NEW m \in Map, NEW N \in SUBSET Elem, Housing(m, N),
           NEW M \in SUBSET Elem, NEW k \in Index, NEW b \in Array, NEW r,
           r.compare = m.compare, r.hash = m.hash, r.capacity = m.capacity,
           \A s \in Index : r.entries[s] = IF s = k THEN b ELSE m.entries[s],
           Home(m, M, k, b),
           \A y \in Elem : Entry(m, y) # k => (y \in M <=> y \in N),
           \A y \in M : Entry(m, y) = k => Holds(b, y)
    PROVE  Housing(r, M)
<1>1. \A y : Entry(r, y) = Entry(m, y)
  BY DEF Entry
<1>2. ASSUME NEW s \in Index, r.entries[s] # Null
      PROVE  Home(r, M, s, r.entries[s])
  <2>1. CASE s = k
    <3>1. Home(r, M, k, b)
      BY HomeKept
    <3> QED BY <2>1, <3>1
  <2>2. CASE s # k
    <3>1. r.entries[s] = m.entries[s] /\ Home(m, N, s, m.entries[s])
      BY <1>2, <2>2 DEF Housing
    <3>2. \A y \in N : Entry(m, y) = s => y \in M
      BY <2>2
    <3>3. Home(r, M, s, m.entries[s])
      BY <3>1, <3>2 DEF Home, Entry
    <3> QED BY <3>1, <3>3
  <2> QED BY <2>1, <2>2
<1>3. ASSUME NEW y \in M
      PROVE  r.entries[Entry(r, y)] # Null /\ Holds(r.entries[Entry(r, y)], y)
  <2>1. Entry(m, y) \in Index
    BY EntryInMap
  <2>2. CASE Entry(m, y) = k
    <3>1. r.entries[Entry(r, y)] = b
      BY <1>1, <2>1, <2>2
    <3> QED BY <2>2, <3>1, MapAssumption
  <2>3. CASE Entry(m, y) # k
    <3>1. r.entries[Entry(r, y)] = m.entries[Entry(m, y)]
      BY <1>1, <2>1, <2>3
    <3>2. y \in N
      BY <2>3
    <3> QED BY <3>1, <3>2 DEF Housing
  <2> QED BY <2>2, <2>3
<1> QED BY <1>2, <1>3 DEF Housing

-----------------------------------------------------------------------------
\* The bucket an insertion goes on with is in order and has what was there
\* (find_or_create).
LEMMA OpenedHome ==
    ASSUME map \in Map, NEW x \in Elem, Housing(map, nodes)
    PROVE  /\ Home(map, nodes, Slot(x), Opened(x))
           /\ Opened(x) \in Array
           /\ \A y \in nodes : Entry(map, y) = Slot(x) => Holds(Opened(x), y)
<1>1. Slot(x) \in Index /\ Slot(x) < map.capacity /\ Slot(x) = Entry(map, x)
  BY EntryInMap DEF Slot, Entry
<1>2. Bucket(x) = map.entries[Slot(x)]
  BY DEF Bucket
<1>3. CASE Bucket(x) = Null
  <2>1. Opened(x) = NewArray(map.compare, DefaultEntries)
    BY <1>3 DEF Opened
  <2>2. DefaultEntries \in U32 /\ map.compare \in Compare
    BY Fields, HashMapAssumption DEF U32
  <2>3. Good(Opened(x)) /\ Opened(x).length = 0
    BY <2>1, <2>2, NewArrayGood
  <2>4. Opened(x).compare = map.compare
    BY <2>1 DEF NewArray
  <2>5. Home(map, nodes, Slot(x), Opened(x))
    BY <1>1, <2>3, <2>4 DEF Home
  <2>6. \A y \in nodes : Entry(map, y) # Slot(x)
    BY <1>2, <1>3 DEF Housing
  <2> QED BY <2>3, <2>5, <2>6 DEF Good
<1>4. CASE Bucket(x) # Null
  <2>1. Opened(x) = map.entries[Slot(x)]
    BY <1>2, <1>4 DEF Opened
  <2>2. Home(map, nodes, Slot(x), Opened(x))
    BY <1>1, <1>2, <1>4, <2>1 DEF Housing
  <2>3. \A y \in nodes : Entry(map, y) = Slot(x) => Holds(Opened(x), y)
    BY <2>1 DEF Housing
  <2> QED BY <2>2, <2>3 DEF Home, Good
<1> QED BY <1>3, <1>4

\* Pushing a new node keeps a bucket in order (d_array_push_back).
LEMMA PushedHome ==
    ASSUME NEW m, NEW N, NEW s, NEW a, Home(m, N, s, a), NEW b \in Roomy(a),
           NEW x \in Elem, x \notin N, Entry(m, x) = s,
           NEW c, c = InsertSlot(b, b.length, x)
    PROVE  /\ Home(m, N \cup {x}, s, c)
           /\ \A y : Holds(a, y) \/ y = x => Holds(c, y)
           /\ InBlock(b, b.length + 1)
<1>1. /\ Good(a) /\ Good(b) /\ b.length = a.length /\ b.length < b.slots
      /\ b.compare = a.compare
      /\ \A i \in Index : i < a.length => b.data[i] = a.data[i]
  BY RoomyGood DEF Home
<1>2. /\ a.length \in U32 /\ b.slots \in U32 /\ MaxU32 \in Nat
  BY <1>1, OpsAssumption DEF Good, Array
<1>3. Good(c) /\ c.length = a.length + 1
  BY <1>1, <1>2, InsertSlotGood DEF U32
<1>4. /\ c.compare = a.compare
      /\ \A i \in Index : c.data[i] =
           IF i < b.length THEN b.data[i]
           ELSE IF i = b.length THEN x
           ELSE IF i <= b.length THEN b.data[i - 1] ELSE Junk
  BY <1>1, InsertSlotData
<1>5. /\ \A i \in 0..(a.length - 1) : c.data[i] = a.data[i]
      /\ c.data[a.length] = x
  BY <1>1, <1>2, <1>4 DEF U32, Index
<1>6. \A i \in 0..(c.length - 1) : i \in 0..(a.length - 1) \/ i = a.length
  BY <1>2, <1>3 DEF U32
<1>7. \A i \in 0..(a.length - 1) : a.data[i] \in N /\ Entry(m, a.data[i]) = s
  BY DEF Home
<1>8. \A i, j \in 0..(a.length - 1) : a.data[i] = a.data[j] => i = j
  BY DEF Home
<1>9. \A i, j \in 0..(c.length - 1) : c.data[i] = c.data[j] => i = j
  BY <1>5, <1>6, <1>7, <1>8
<1>10. \A i \in 0..(c.length - 1) : c.data[i] \in N \cup {x} /\ Entry(m, c.data[i]) = s
  BY <1>5, <1>6, <1>7
<1>11. Home(m, N \cup {x}, s, c)
  BY <1>3, <1>4, <1>9, <1>10 DEF Home
<1>12. a.length \in 0..(c.length - 1) /\ \A i \in 0..(a.length - 1) : i \in 0..(c.length - 1)
  BY <1>2, <1>3 DEF U32
<1>13. \A y : Holds(a, y) \/ y = x => Holds(c, y)
  BY <1>5, <1>12 DEF Holds
<1>14. InBlock(b, b.length + 1)
  BY <1>1, <1>2 DEF InBlock, U32
<1> QED BY <1>11, <1>13, <1>14

\* Taking a node out and filling its place with the last one keeps a bucket in order
\* and loses no other node (Hashmap_remove).
LEMMA BackfilledHome ==
    ASSUME NEW m, NEW N, NEW s, NEW b, Home(m, N, s, b),
           NEW i \in 0..(b.length - 1), NEW p \in Backfill(b, i), N \subseteq Elem
    PROVE  /\ Home(m, N \ {b.data[i]}, s, p)
           /\ \A y : Holds(b, y) /\ y # b.data[i] => Holds(p, y)
           /\ i + 1 < b.length => InBlock(p, i + 1)
<1> DEFINE last == b.length - 1
           cut == RemoveSlot(b, last)
<1>1. PICK t \in Trimmed(cut) :
         p = IF i = last THEN t ELSE WriteSlot(t, i, b.data[last])
  BY DEF Backfill
<1>2. /\ Good(b) /\ b.length \in U32 /\ MaxU32 \in Nat
  BY OpsAssumption DEF Home, Good, Array
<1>3. /\ last \in U32 /\ last < b.length /\ b.length \in Nat /\ b.length <= MaxU32
      /\ last \in Nat /\ i \in Nat /\ i <= last
  BY <1>2 DEF U32
<1> HIDE DEF last
<1>4. Good(cut) /\ cut.length = last
  BY <1>2, <1>3, RemoveSlotGood DEF last
<1>5. /\ cut.compare = b.compare
      /\ \A j \in Index : j < last => cut.data[j] = b.data[j]
  BY <1>2, RemoveSlotData
<1> HIDE DEF cut
<1>6. /\ Good(t) /\ t.length = last /\ t.compare = b.compare
      /\ \A j \in Index : j < last => t.data[j] = b.data[j]
  BY <1>4, <1>5, TrimmedGood
<1>7. b.data[last] \in Elem /\ b.data[last] \in N /\ last \in 0..(b.length - 1)
  BY <1>3 DEF Home, last
<1>8. /\ Good(p) /\ p.length = last /\ p.compare = b.compare
      /\ \A j \in 0..(last - 1) : p.data[j] = IF j = i THEN b.data[last] ELSE b.data[j]
  <2>1. CASE i = last
    BY <1>1, <1>2, <1>3, <1>6, <2>1 DEF Index
  <2>2. CASE i # last
    <3>1. i < t.length /\ i \in U32 /\ i \in Index
      BY <1>2, <1>3, <1>6, <2>2 DEF U32, Index
    <3>2. Good(WriteSlot(t, i, b.data[last]))
      BY <1>6, <1>7, <3>1, WriteSlotGood
    <3>3. /\ WriteSlot(t, i, b.data[last]).compare = t.compare
          /\ WriteSlot(t, i, b.data[last]).length = t.length
          /\ \A j \in Index : WriteSlot(t, i, b.data[last]).data[j] =
                                IF j = i THEN b.data[last] ELSE t.data[j]
      BY <1>6, <3>1, WriteSlotData
    <3> QED BY <1>1, <1>2, <1>3, <1>6, <2>2, <3>2, <3>3 DEF Index
  <2> QED BY <2>1, <2>2
<1>9. \A j \in 0..(b.length - 1) : b.data[j] \in N /\ Entry(m, b.data[j]) = s
  BY DEF Home
<1>10. \A j, k \in 0..(b.length - 1) : b.data[j] = b.data[k] => j = k
  BY DEF Home
<1>11. \A j \in 0..(last - 1) : j \in 0..(b.length - 1) /\ j # last
  BY <1>3
<1>12. \A j \in 0..(last - 1) :
          p.data[j] \in N \ {b.data[i]} /\ Entry(m, p.data[j]) = s
  BY <1>7, <1>8, <1>9, <1>10, <1>11
<1>13. \A j, k \in 0..(last - 1) : p.data[j] = p.data[k] => j = k
  BY <1>7, <1>8, <1>10, <1>11
<1>14. Home(m, N \ {b.data[i]}, s, p)
  BY <1>8, <1>12, <1>13 DEF Home
<1>15. ASSUME NEW y, Holds(b, y), y # b.data[i]
       PROVE  Holds(p, y)
  <2>1. PICK j \in 0..(b.length - 1) : b.data[j] = y
    BY <1>15 DEF Holds
  <2>2. CASE j = last
    <3>1. i \in 0..(last - 1)
      BY <1>3, <1>15, <2>1, <2>2
    <3> QED BY <1>8, <2>1, <2>2, <3>1 DEF Holds
  <2>3. CASE j # last
    <3>1. j \in 0..(last - 1) /\ j # i
      BY <1>3, <1>15, <2>1, <2>3 DEF last
    <3> QED BY <1>8, <2>1, <3>1 DEF Holds
  <2> QED BY <2>2, <2>3
<1>16. i + 1 < b.length => InBlock(p, i + 1)
  <2>1. p.length <= p.slots /\ p.slots \in Nat
    BY <1>8, OpsAssumption DEF Good, BlockSound, Array, U32
  <2> QED BY <1>3, <1>8, <2>1 DEF InBlock, last
<1> QED BY <1>14, <1>15, <1>16

-----------------------------------------------------------------------------
\* The loop finds the first of what there is to find (Hashmap_find).
LEMMA FirstExists ==
    ASSUME NEW b, NEW key, Hits(b, key) # {}
    PROVE  \E i \in Index : IsFirst(b, key, i)
<1>1. Hits(b, key) \subseteq Nat
  BY OpsAssumption DEF Hits, Index
<1>2. PICK i \in Hits(b, key) :
         \A j \in Hits(b, key) : ~(<<j, i>> \in OpToRel(<, Nat))
  BY <1>1, WFMin, NatLessThanWellFounded
<1>3. ASSUME NEW j \in Hits(b, key), j < i
      PROVE  FALSE
  <2> DEFINE e == <<j, i>>
  <2>1. e \in Nat \X Nat /\ e[1] < e[2]
    BY <1>1, <1>3
  <2>2. e \in {ss \in Nat \X Nat : ss[1] < ss[2]}
    BY <2>1
  <2>3. e \in OpToRel(<, Nat)
    BY <2>2 DEF OpToRel
  <2> QED BY <1>2, <2>3
<1>4. \A j \in Hits(b, key) : i <= j
  BY <1>1, <1>3
<1> QED BY <1>2, <1>4 DEF IsFirst, Hits

\* Only one position is the first.
LEMMA FirstUnique ==
    ASSUME NEW b, NEW key, NEW i \in Index, NEW j \in Index,
           IsFirst(b, key, i), IsFirst(b, key, j)
    PROVE  i = j
<1>1. i <= j /\ j <= i /\ i \in Int /\ j \in Int
  BY OpsAssumption DEF IsFirst, Index
<1> QED BY <1>1

\* Hashmap_find returns the element at the first hit.
LEMMA FoundIsFirst ==
    ASSUME NEW key, NEW i \in Index, Bucket(key) # Null, IsFirst(Bucket(key), key, i)
    PROVE  Found(key) = Bucket(key).data[i]
<1> DEFINE j == CHOOSE j \in Index : IsFirst(Bucket(key), key, j)
<1>1. j \in Index /\ IsFirst(Bucket(key), key, j)
  OBVIOUS
<1>2. i = j
  BY <1>1, FirstUnique
<1>3. Found(key) = Bucket(key).data[j]
  BY DEF Found, IsFirst
<1> QED BY <1>2, <1>3

\* What Hashmap_find returns is an element or NULL.
LEMMA FoundType ==
    ASSUME NEW key
    PROVE  Found(key) \in Elem \cup {Null}
<1>1. CASE Bucket(key) = Null \/ Hits(Bucket(key), key) = {}
  BY <1>1 DEF Found
<1>2. CASE Bucket(key) # Null /\ Hits(Bucket(key), key) # {}
  <2>1. PICK i \in Index : IsFirst(Bucket(key), key, i)
    BY <1>2, FirstExists
  <2>2. Found(key) = Bucket(key).data[i]
    BY <1>2, <2>1, FoundIsFirst
  <2> QED BY <2>1, <2>2 DEF IsFirst, Hits
<1> QED BY <1>1, <1>2

-----------------------------------------------------------------------------
\* The invariant holds at first: there is no map.
LEMMA InitHolds ==
    ASSUME Init
    PROVE  IInv
BY DEF Init, IInv, TypeOK, Housed, Absent, MemorySafe

\* A call that only answers keeps the invariant.
LEMMA AnswerKeeps ==
    ASSUME IInv, NEW r \in {OK, ERR, Null} \cup Elem, Answer(r)
    PROVE  IInv'
<1>1. TypeOK' /\ (held \cap nodes = {})' /\ MemorySafe'
  BY DEF IInv, TypeOK, MemorySafe, Answer
<1>2. Housed'
  BY DEF IInv, Housed, Absent, Answer
<1> QED BY <1>1, <1>2 DEF IInv

\* Hashmap_create keeps the invariant.
LEMMA CreateKeeps ==
    ASSUME IInv, NEW c \in Compare \cup {Null}, NEW h \in Hash \cup {Null},
           NEW n \in Entries, Create(c, h, n)
    PROVE  IInv' /\ (~Answer(Null) => ~Absent')
<1>1. CASE Answer(Null)
  BY <1>1, AnswerKeeps
<1>2. CASE ~Answer(Null)
  <2>1. PICK left \in Garbage :
           map' = [entries  |-> [i \in Index |-> Null],
                   compare  |-> IF c = Null THEN DefaultCompare ELSE c,
                   hash     |-> IF h = Null THEN DefaultHash ELSE h,
                   capacity |-> IF n = 0 THEN DefaultEntries ELSE n,
                   length   |-> left]
    BY <1>2 DEF Create
  <2>2. /\ ret' = OK /\ nodes' = nodes /\ held' = held /\ freed' = freed
        /\ fault' = fault /\ Absent
    BY <1>2 DEF Create
  <2>3. n \in 0..MaxU32 /\ left \in U32 /\ DefaultEntries \in 1..MaxU32 /\ MaxU32 \in Nat
    BY OpsAssumption, HashMapAssumption DEF U32
  <2>4. (IF n = 0 THEN DefaultEntries ELSE n) \in 1..MaxU32
    BY <2>3
  <2>5. /\ (IF c = Null THEN DefaultCompare ELSE c) \in Compare
        /\ (IF h = Null THEN DefaultHash ELSE h) \in Hash
    BY OpsAssumption, HashMapAssumption
  <2>6. map' \in Map
    BY <2>1, <2>3, <2>4, <2>5 DEF Map
  <2>7. TypeOK' /\ (held \cap nodes = {})' /\ MemorySafe'
    BY <2>2, <2>6 DEF IInv, TypeOK, MemorySafe
  <2>8. nodes' = {} /\ \A s \in Index : map'.entries[s] = Null
    BY <2>1, <2>2 DEF IInv, Housed
  <2>9. Housing(map', nodes')
    BY <2>8 DEF Housing
  <2>10. ~Absent'
    BY <2>6, MapAssumption DEF Absent
  <2>11. Housed'
    BY <2>9, <2>10 DEF Housed
  <2> QED BY <2>7, <2>10, <2>11 DEF IInv
<1> QED BY <1>1, <1>2

\* What a call on a map may rely on.
LEMMA Present ==
    ASSUME IInv, ~Absent
    PROVE  map \in Map /\ Housing(map, nodes) /\ nodes \in SUBSET Elem
BY DEF IInv, TypeOK, Absent, Housed

\* Hashmap_insert keeps the invariant when no full bucket is refused its growth.
LEMMA InsertKeeps ==
    ASSUME IInv, Contract, NEW x \in Mine, Insert(x)
    PROVE  IInv' /\ (~Answer(ERR) => ~Absent')
<1>1. CASE Answer(ERR)
  BY <1>1, AnswerKeeps
<1>2. CASE ~Answer(ERR)
  <2>1. ~Absent /\ x \in held /\ x \in Elem /\ x \notin nodes
    BY <1>2 DEF Insert, Mine, IInv, TypeOK
  <2>2. map \in Map /\ Housing(map, nodes) /\ nodes \in SUBSET Elem
    BY <2>1, Present
  <2>3. /\ Home(map, nodes, Slot(x), Opened(x)) /\ Opened(x) \in Array
        /\ \A y \in nodes : Entry(map, y) = Slot(x) => Holds(Opened(x), y)
    BY <2>1, <2>2, OpenedHome
  <2>4. Slot(x) \in Index /\ Entry(map, x) = Slot(x)
    BY <2>1, <2>2, EntryInMap DEF Slot, Entry
  <2>5. CASE /\ map' = [map EXCEPT !.entries[Slot(x)] = Opened(x)]
             /\ ret' = ERR
             /\ UNCHANGED <<nodes, held, freed, fault>>
    <3>1. /\ map' \in Map
          /\ map'.compare = map.compare /\ map'.hash = map.hash
          /\ map'.capacity = map.capacity
          /\ \A s \in Index : map'.entries[s] =
                IF s = Slot(x) THEN Opened(x) ELSE map.entries[s]
      BY <2>2, <2>3, <2>4, <2>5 DEF Map
    <3>2. Housing(map', nodes)
      BY <2>2, <2>3, <2>4, <3>1, HousingKept
    <3>3. Housed' /\ ~Absent'
      BY <2>5, <3>1, <3>2, MapAssumption DEF Housed, Absent
    <3> QED BY <2>5, <3>1, <3>3 DEF IInv, TypeOK, MemorySafe
  <2>6. ASSUME NEW b \in Roomy(Opened(x)), Added(x, InsertSlot(b, b.length, x)),
               fault' = ~InBlock(b, b.length + 1)
        PROVE  IInv' /\ ~Absent'
    <3> DEFINE c == InsertSlot(b, b.length, x)
               M == nodes \cup {x}
    <3>1. /\ Home(map, M, Slot(x), c)
          /\ \A y : Holds(Opened(x), y) \/ y = x => Holds(c, y)
          /\ InBlock(b, b.length + 1)
      BY <2>1, <2>3, <2>4, PushedHome
    <3>2. c \in Array
      BY <3>1 DEF Home, Good
    <3>3. By(1) \in U32
      BY <2>2, ByInRange
    <3>4. map' = [map EXCEPT !.entries[Slot(x)] = c, !.length = By(1)]
      BY <2>6 DEF Added
    <3> HIDE DEF c
    <3>5. /\ map' \in Map
          /\ map'.compare = map.compare /\ map'.hash = map.hash
          /\ map'.capacity = map.capacity
          /\ \A s \in Index : map'.entries[s] = IF s = Slot(x) THEN c ELSE map.entries[s]
      BY <2>2, <2>4, <3>2, <3>3, <3>4 DEF Map
    <3>6. \A y \in Elem : Entry(map, y) # Slot(x) => (y \in M <=> y \in nodes)
      BY <2>4
    <3>7. \A y \in M : Entry(map, y) = Slot(x) => Holds(c, y)
      BY <2>3, <3>1
    <3>8. M \in SUBSET Elem
      BY <2>1, <2>2
    <3> HIDE DEF M
    <3>9. Housing(map', M)
      BY <2>2, <2>4, <3>1, <3>2, <3>5, <3>6, <3>7, <3>8, HousingKept
    <3>10. /\ nodes' = M /\ held' = held \ {x} /\ ret' = OK /\ freed' = freed
           /\ fault' = FALSE
      BY <2>6, <3>1 DEF Added, M
    <3>11. Housed' /\ ~Absent'
      BY <3>5, <3>9, <3>10, MapAssumption DEF Housed, Absent
    <3>12. TypeOK' /\ MemorySafe'
      BY <3>5, <3>8, <3>10 DEF IInv, TypeOK, MemorySafe
    <3>13. (held \cap nodes = {})'
      BY <3>10 DEF IInv, M
    <3> QED BY <3>11, <3>12, <3>13 DEF IInv
  <2> QED BY <1>2, <2>5, <2>6 DEF Insert, Contract
<1> QED BY <1>1, <1>2

\* Hashmap_find keeps the invariant.
LEMMA FindKeeps ==
    ASSUME IInv, NEW key \in Known, Find(key)
    PROVE  IInv'
<1>1. CASE Answer(Null)
  BY <1>1, AnswerKeeps
<1>2. CASE ~Answer(Null)
  <2>1. /\ ~Absent /\ key \in Elem /\ Bucket(key) # Null
        /\ ret' = Found(key) /\ fault' = ~Readable(Bucket(key))
        /\ UNCHANGED <<map, nodes, held, freed>>
    BY <1>2 DEF Find, Known
  <2>2. map \in Map /\ Housing(map, nodes)
    BY <2>1, Present
  <2>3. Slot(key) \in Index /\ Bucket(key) = map.entries[Slot(key)]
    BY <2>1, <2>2, EntryInMap DEF Slot, Entry, Bucket
  <2>4. Home(map, nodes, Slot(key), Bucket(key))
    BY <2>1, <2>2, <2>3 DEF Housing
  <2>5. Readable(Bucket(key))
    BY <2>4, HomeReadable
  <2>6. ret' \in Elem \cup {Null}
    BY <2>1, FoundType
  <2>7. Housed'
    BY <2>1 DEF IInv, Housed, Absent
  <2> QED BY <2>1, <2>5, <2>6, <2>7 DEF IInv, TypeOK, MemorySafe
<1> QED BY <1>1, <1>2

\* Hashmap_remove keeps the invariant.
LEMMA RemoveKeeps ==
    ASSUME IInv, NEW key \in Known, Remove(key)
    PROVE  IInv' /\ (~Answer(Null) => ~Absent')
<1>1. CASE Answer(Null)
  BY <1>1, AnswerKeeps
<1>2. CASE ~Answer(Null)
  <2>1. ~Absent /\ key \in Elem /\ Bucket(key) # Null
    BY <1>2 DEF Remove, Known
  <2>first. PICK i \in Index :
           /\ IsFirst(Bucket(key), key, i)
           /\ \E p \in Backfill(Bucket(key), i) :
                /\ map' = [map EXCEPT !.entries[Slot(key)] = p, !.length = By(-1)]
                /\ fault' = ~( /\ Readable(Bucket(key))
                               /\ i + 1 < Bucket(key).length => InBlock(p, i + 1) )
    BY <1>2 DEF Remove
  <2>2. PICK p \in Backfill(Bucket(key), i) :
           /\ IsFirst(Bucket(key), key, i)
           /\ map' = [map EXCEPT !.entries[Slot(key)] = p, !.length = By(-1)]
           /\ fault' = ~( /\ Readable(Bucket(key))
                          /\ i + 1 < Bucket(key).length => InBlock(p, i + 1) )
    BY <2>first
  <2>3. /\ nodes' = nodes \ {Found(key)}
        /\ held' = held \cup {Found(key)}
        /\ ret' = Found(key)
        /\ UNCHANGED freed
    BY <1>2 DEF Remove
  <2> DEFINE b == Bucket(key)
             x == b.data[i]
             M == nodes \ {x}
  <2>4. Found(key) = x
    BY <2>1, <2>2, FoundIsFirst
  <2>5. map \in Map /\ Housing(map, nodes) /\ nodes \in SUBSET Elem
    BY <2>1, Present
  <2>6. Slot(key) \in Index /\ b = map.entries[Slot(key)]
    BY <2>1, <2>5, EntryInMap DEF Slot, Entry, Bucket
  <2>7. Home(map, nodes, Slot(key), b)
    BY <2>1, <2>5, <2>6 DEF Housing
  <2>8. i \in 0..(b.length - 1)
    <3>1. i \in Nat /\ i < b.length
      BY <2>2, OpsAssumption DEF Index, IsFirst, Hits
    <3>2. b.length \in Nat
      BY <2>7, OpsAssumption DEF Home, Good, Array, U32
    <3> QED BY <3>1, <3>2
  <2> HIDE DEF b
  <2>9. x \in nodes /\ Entry(map, x) = Slot(key)
    BY <2>7, <2>8 DEF Home
  <2>10. /\ Home(map, M, Slot(key), p)
         /\ \A y : Holds(b, y) /\ y # x => Holds(p, y)
         /\ i + 1 < b.length => InBlock(p, i + 1)
    BY <2>2, <2>5, <2>7, <2>8, BackfilledHome DEF b
  <2>11. fault' = FALSE
    BY <2>2, <2>7, <2>10, HomeReadable DEF b
  <2> HIDE DEF x
  <2>12. p \in Array /\ By(-1) \in U32
    BY <2>5, <2>10, ByInRange DEF Home, Good
  <2>13. /\ map' \in Map
         /\ map'.compare = map.compare /\ map'.hash = map.hash
         /\ map'.capacity = map.capacity
         /\ \A s \in Index : map'.entries[s] = IF s = Slot(key) THEN p ELSE map.entries[s]
    BY <2>2, <2>5, <2>6, <2>12 DEF Map
  <2>14. \A y \in Elem : Entry(map, y) # Slot(key) => (y \in M <=> y \in nodes)
    BY <2>9
  <2>15. \A y \in M : Entry(map, y) = Slot(key) => Holds(p, y)
    BY <2>5, <2>6, <2>10 DEF Housing
  <2>16. M \in SUBSET Elem /\ x \in Elem
    BY <2>5, <2>9
  <2>17. nodes' = M /\ held' = held \cup {x} /\ ret' = x /\ freed' = freed
    BY <2>3, <2>4
  <2>18. (held \cap nodes = {})'
    BY <2>17 DEF IInv
  <2> HIDE DEF M
  <2>19. Housing(map', M)
    BY <2>5, <2>6, <2>10, <2>12, <2>13, <2>14, <2>15, <2>16, HousingKept
  <2>20. Housed' /\ ~Absent'
    BY <2>13, <2>17, <2>19, MapAssumption DEF Housed, Absent
  <2>21. TypeOK' /\ MemorySafe'
    BY <2>11, <2>13, <2>16, <2>17 DEF IInv, TypeOK, MemorySafe
  <2> QED BY <2>18, <2>20, <2>21 DEF IInv
<1> QED BY <1>1, <1>2

\* Hashmap_destroy keeps the invariant: every node is in some bucket, and goes.
LEMMA DestroyKeeps ==
    ASSUME IInv, Destroy
    PROVE  IInv'
<1>1. CASE Answer(ERR)
  BY <1>1, AnswerKeeps
<1>2. CASE ~Answer(ERR)
  <2>1. /\ ~Absent /\ map' = Null /\ nodes' = nodes \ Members
        /\ freed' = freed \cup Members /\ ret' = OK
        /\ fault' = (\E b \in Buckets : ~Readable(b))
        /\ UNCHANGED held
    BY <1>2 DEF Destroy
  <2>2. map \in Map /\ Housing(map, nodes) /\ nodes \in SUBSET Elem
    BY <2>1, Present
  <2>3. /\ map.capacity \in Nat /\ MaxU32 \in Nat
        /\ 0..(map.capacity - 1) \subseteq Index
    BY <2>2, Fields DEF Index
  <2>4. \A b \in Buckets : \E s \in Index : Home(map, nodes, s, b)
    BY <2>2, <2>3 DEF Buckets, Housing
  <2>5. \A b \in Buckets : Readable(b)
    BY <2>4, HomeReadable
  <2>6. Members \subseteq nodes
    BY <2>5 DEF Members, Readable
  <2>7. ASSUME NEW x \in nodes
        PROVE  x \in Members
    <3> DEFINE s == Entry(map, x)
    <3>1. s \in Index /\ s < map.capacity
      BY <2>2, EntryInMap
    <3>2. map.entries[s] # Null /\ Holds(map.entries[s], x)
      BY <2>2 DEF Housing
    <3> HIDE DEF s
    <3>3. s \in 0..(map.capacity - 1)
      BY <2>3, <3>1 DEF Index
    <3>4. map.entries[s] \in Buckets
      BY <3>2, <3>3 DEF Buckets
    <3>5. x \in Stored(map.entries[s])
      BY <3>2 DEF Holds, Stored
    <3> QED BY <3>4, <3>5 DEF Members
  <2>8. nodes' = {} /\ freed' \subseteq Elem /\ fault' = FALSE
    BY <2>1, <2>2, <2>5, <2>6, <2>7 DEF IInv, TypeOK
  <2>9. Housed'
    BY <2>1, <2>8 DEF Housed, Absent
  <2> QED BY <2>1, <2>8, <2>9 DEF IInv, TypeOK, MemorySafe
<1> QED BY <1>1, <1>2

-----------------------------------------------------------------------------
\* Every step keeps the invariant.
LEMMA NextKeeps ==
    ASSUME IInv, Contract, [Next]_vars
    PROVE  IInv'
<1>1. CASE UNCHANGED vars
  <2>1. TypeOK' /\ (held \cap nodes = {})' /\ MemorySafe'
    BY <1>1 DEF vars, IInv, TypeOK, MemorySafe
  <2>2. Housed'
    BY <1>1 DEF vars, IInv, Housed, Absent
  <2> QED BY <2>1, <2>2 DEF IInv
<1>2. ASSUME NEW c \in Compare \cup {Null}, NEW h \in Hash \cup {Null},
             NEW n \in Entries, Create(c, h, n)
      PROVE  IInv'
  BY <1>2, CreateKeeps
<1>3. ASSUME NEW x \in Mine, Insert(x)
      PROVE  IInv'
  BY <1>3, InsertKeeps
<1>4. ASSUME NEW x \in Known, Find(x)
      PROVE  IInv'
  BY <1>4, FindKeeps
<1>5. ASSUME NEW x \in Known, Remove(x)
      PROVE  IInv'
  BY <1>5, RemoveKeeps
<1>6. CASE Destroy
  BY <1>6, DestroyKeeps
<1> QED BY <1>1, <1>2, <1>3, <1>4, <1>5, <1>6 DEF Next

\* The invariant says that the buckets are in order.
LEMMA InOrder ==
    ASSUME IInv
    PROVE  Sound
<1> SUFFICES ASSUME ~Absent, NEW s \in Index, map.entries[s] # Null
             PROVE  LET b == map.entries[s]
                    IN  /\ s < map.capacity
                        /\ b.compare = map.compare
                        /\ BlockSound(b)
                        /\ \A i \in 0..(b.length - 1) :
                              /\ b.data[i] \in nodes /\ Slot(b.data[i]) = s
                              /\ \A j \in 0..(b.length - 1) : b.data[i] = b.data[j] => i = j
  BY DEF Sound
<1>1. Home(map, nodes, s, map.entries[s])
  BY Present DEF Housing
<1> QED BY <1>1 DEF Home, Good, Slot, Entry

\* The invariant says that what is in the map is found.
LEMMA InReach ==
    ASSUME IInv
    PROVE  Findable
<1> SUFFICES ASSUME ~Absent, NEW x \in nodes, NEW key \in Elem,
                    map.compare[x] = map.compare[key]
             PROVE  Found(key) # Null /\ map.compare[Found(key)] = map.compare[key]
  BY DEF Findable
<1>1. map \in Map /\ Housing(map, nodes) /\ x \in Elem
  BY Present
<1>2. map.hash[x] = map.hash[key]
  BY <1>1, HashAgrees DEF Map
<1>3. Bucket(key) = map.entries[Entry(map, x)]
  BY <1>2 DEF Bucket, Slot, Entry
<1> DEFINE b == map.entries[Entry(map, x)]
<1>4. Entry(map, x) \in Index
  BY <1>1, EntryInMap
<1>5. b # Null /\ Holds(b, x) /\ Home(map, nodes, Entry(map, x), b)
  BY <1>1, <1>4 DEF Housing
<1> HIDE DEF b
<1>6. PICK i \in 0..(b.length - 1) : b.data[i] = x
  BY <1>5 DEF Holds
<1>7. b.length \in U32 /\ MaxU32 \in Nat /\ b.compare = map.compare
  BY <1>5, OpsAssumption DEF Home, Good, Array
<1>8. i \in Index /\ i < b.length
  BY <1>7 DEF U32, Index
<1>9. i \in Hits(b, key)
  BY <1>1, <1>6, <1>7, <1>8 DEF Hits
<1>10. PICK j \in Index : IsFirst(b, key, j)
  BY <1>9, FirstExists
<1>11. Found(key) = b.data[j]
  BY <1>3, <1>5, <1>10, FoundIsFirst DEF b
<1>12. b.data[j] \in Elem /\ b.compare[b.data[j]] = b.compare[key]
  BY <1>10 DEF IsFirst, Hits
<1> QED BY <1>7, <1>11, <1>12, OpsAssumption

-----------------------------------------------------------------------------
\* Under the contract, the inductive invariant always holds.
LEMMA Inductive == Contract => (Spec => []IInv)
<1> SUFFICES ASSUME Contract PROVE Spec => []IInv
  OBVIOUS
<1>1. Init => IInv
  BY InitHolds
<1>2. IInv /\ [Next]_vars => IInv'
  BY NextKeeps
<1> QED BY <1>1, <1>2, PTL DEF Spec

\* Used within its contract, the map is well-typed and no call of it leaves the block
\* of a bucket or reads a freed node, whatever is inserted, found and removed.
THEOREM Safety == Contract => (Spec => [](TypeOK /\ Sound /\ MemorySafe))
<1> SUFFICES ASSUME Contract PROVE Spec => [](TypeOK /\ Sound /\ MemorySafe)
  OBVIOUS
<1>1. Spec => []IInv
  BY Inductive
<1>2. IInv => TypeOK /\ Sound /\ MemorySafe
  BY InOrder DEF IInv
<1> QED BY <1>1, <1>2, PTL

\* And every element put in is found again through every key that compares equal to
\* it, although removals move other elements of its bucket.
THEOREM AlwaysFindable == Contract => (Spec => []Findable)
<1> SUFFICES ASSUME Contract PROVE Spec => []Findable
  OBVIOUS
<1>1. Spec => []IInv
  BY Inductive
<1>2. IInv => Findable
  BY InReach
<1> QED BY <1>1, <1>2, PTL

-----------------------------------------------------------------------------
(***************************************************************************)
(* The books: every element is the client's, in the map or freed.          *)
(***************************************************************************)
Books ==
    /\ held \cap freed = {} /\ nodes \cap freed = {}
    /\ held \cup nodes \cup freed = Elem
    /\ IsFiniteSet(nodes)

\* What the map shows of itself.
View == IF Absent THEN Null ELSE [members |-> Members, compare |-> map.compare]

\* The action property of LengthFollows, for one step.
Follows ==
    ~Absent /\ ~Absent' =>
      map'.length = (map.length + Cardinality(nodes') - Cardinality(nodes)) % (MaxU32 + 1)

\* A counter moved by d follows d nodes coming, or going.
LEMMA LengthMoves ==
    ASSUME map \in Map, NEW d \in Int, IsFiniteSet(nodes), map'.length = By(d),
           Cardinality(nodes') = Cardinality(nodes) + d
    PROVE  Follows
<1>1. Cardinality(nodes) \in Int /\ map.length \in Int
  BY FS_CardinalityType, Fields
<1>2. map.length + Cardinality(nodes') - Cardinality(nodes) = map.length + d
  BY <1>1
<1> QED BY <1>2 DEF Follows, By

\* A call that moves neither does, too.
LEMMA LengthStays ==
    ASSUME map \in Map \cup {Null}, IsFiniteSet(nodes), UNCHANGED nodes,
           map' = map \/ map'.length = map.length
    PROVE  Follows
<1> SUFFICES ASSUME ~Absent
             PROVE  Follows
  BY DEF Follows
<1>1. map \in Map /\ map'.length = map.length
  BY DEF Absent
<1>2. map.length \in 0..MaxU32 /\ MaxU32 \in Nat
  BY <1>1, OpsAssumption DEF Map, U32
<1>3. map.length + 0 \in 0..MaxU32 /\ By(0) = map.length
  BY <1>2 DEF By
<1>4. Cardinality(nodes') = Cardinality(nodes) + 0
  BY FS_CardinalityType
<1> QED BY <1>1, <1>3, <1>4, LengthMoves

\* The buckets hold all nodes and nothing else.
LEMMA MembersAreNodes ==
    ASSUME IInv, ~Absent
    PROVE  Members = nodes
<1>1. map \in Map /\ Housing(map, nodes) /\ nodes \in SUBSET Elem
  BY Present
<1>2. /\ map.capacity \in Nat /\ MaxU32 \in Nat
      /\ 0..(map.capacity - 1) \subseteq Index
  BY <1>1, Fields DEF Index
<1>3. \A b \in Buckets : \E s \in Index : Home(map, nodes, s, b)
  BY <1>1, <1>2 DEF Buckets, Housing
<1>4. \A b \in Buckets : Readable(b)
  BY <1>3, HomeReadable
<1>5. Members \subseteq nodes
  BY <1>4 DEF Members, Readable
<1>6. ASSUME NEW x \in nodes
      PROVE  x \in Members
  <2> DEFINE s == Entry(map, x)
  <2>1. s \in Index /\ s < map.capacity
    BY <1>1, EntryInMap
  <2>2. map.entries[s] # Null /\ Holds(map.entries[s], x)
    BY <1>1 DEF Housing
  <2> HIDE DEF s
  <2>3. s \in 0..(map.capacity - 1)
    BY <1>2, <2>1 DEF Index
  <2>4. map.entries[s] \in Buckets
    BY <2>2, <2>3 DEF Buckets
  <2>5. x \in Stored(map.entries[s])
    BY <2>2 DEF Holds, Stored
  <2> QED BY <2>4, <2>5 DEF Members
<1> QED BY <1>5, <1>6

LEMMA MembersNext == (IInv /\ ~Absent => Members = nodes)'
<1>1. IInv /\ ~Absent => Members = nodes
  BY MembersAreNodes
<1> QED BY <1>1, PTL

\* One slot of one bucket for every node.
LEMMA OnePlaceEach ==
    ASSUME IInv, ~Absent
    PROVE  LET Places == {p \in Index \X Index : /\ map.entries[p[1]] # Null
                                                 /\ p[2] < map.entries[p[1]].length}
           IN  Cardinality(Places) = Cardinality(nodes)
<1> DEFINE Places == {p \in Index \X Index : /\ map.entries[p[1]] # Null
                                             /\ p[2] < map.entries[p[1]].length}
           At(s, k) == map.entries[s].data[k]
           f == [p \in Places |-> At(p[1], p[2])]
<1>1. map \in Map /\ Housing(map, nodes) /\ nodes \in SUBSET Elem
  BY Present
<1>2. ASSUME NEW s \in Index, NEW k \in Index, map.entries[s] # Null,
             k < map.entries[s].length
      PROVE  /\ At(s, k) \in nodes /\ Entry(map, At(s, k)) = s
             /\ \A l \in Index : l < map.entries[s].length /\ At(s, l) = At(s, k)
                                => l = k
  <2> DEFINE b == map.entries[s]
  <2>1. Home(map, nodes, s, b) /\ b.length \in Nat
    BY <1>1, <1>2, StoredElem DEF Housing, Home
  <2>2. \A l \in Index : l < b.length => l \in 0..(b.length - 1)
    BY <2>1, OpsAssumption DEF Index
  <2> QED BY <1>2, <2>1, <2>2 DEF Home
<1> HIDE DEF At
<1>3. f \in [Places -> nodes]
  BY <1>2
<1>4. \A p, q \in Places : f[p] = f[q] => p = q
  <2> SUFFICES ASSUME NEW p \in Places, NEW q \in Places, f[p] = f[q]
               PROVE  p = q
    OBVIOUS
  <2>1. /\ p[1] \in Index /\ p[2] \in Index /\ map.entries[p[1]] # Null
        /\ p[2] < map.entries[p[1]].length /\ p = <<p[1], p[2]>>
        /\ q[1] \in Index /\ q[2] \in Index /\ map.entries[q[1]] # Null
        /\ q[2] < map.entries[q[1]].length /\ q = <<q[1], q[2]>>
    OBVIOUS
  <2>2. At(p[1], p[2]) = At(q[1], q[2])
    OBVIOUS
  <2>3. p[1] = q[1]
    BY <1>2, <2>1, <2>2
  <2>4. p[2] = q[2]
    BY <1>2, <2>1, <2>2, <2>3
  <2> QED BY <2>1, <2>3, <2>4
<1>5. \A x \in nodes : \E p \in Places : f[p] = x
  <2> SUFFICES ASSUME NEW x \in nodes
               PROVE  \E p \in Places : f[p] = x
    OBVIOUS
  <2> DEFINE s == Entry(map, x)
             b == map.entries[s]
  <2>1. s \in Index /\ b # Null /\ Holds(b, x) /\ Home(map, nodes, s, b)
    BY <1>1, EntryInMap DEF Housing
  <2>2. PICK k \in 0..(b.length - 1) : b.data[k] = x
    BY <2>1 DEF Holds
  <2>3. k \in Index /\ k < b.length
    BY <2>1, <2>2, StoredElem DEF Home
  <2>4. <<s, k>> \in Places /\ At(s, k) = x
    BY <2>1, <2>2, <2>3 DEF At
  <2> HIDE DEF s
  <2>5. f[<<s, k>>] = x
    BY <2>4
  <2> QED BY <2>4, <2>5
<1>6. IsFiniteSet(Places)
  <2>1. IsFiniteSet(Index)
    <3>1. 0 \in Int /\ MaxU32 - 1 \in Int
      BY OpsAssumption
    <3> QED BY <3>1, FS_Interval DEF Index
  <2>2. IsFiniteSet(Index \X Index)
    BY <2>1, FS_Product
  <2> QED BY <2>2, FS_Subset
<1> HIDE DEF f, Places
<1>7. f \in Bijection(Places, nodes)
  BY <1>3, <1>4, <1>5 DEF Bijection, Injection, Surjection, IsInjective
<1>8. ExistsBijection(Places, nodes)
  BY <1>7 DEF ExistsBijection
<1>9. Cardinality(nodes) = Cardinality(Places)
  BY <1>6, <1>8, FS_Bijection
<1> QED BY <1>9 DEF Places

\* The books say what Ownership says.
LEMMA BooksAreOwnership == IInv /\ Books => Ownership
<1> SUFFICES ASSUME IInv, Books PROVE Ownership
  OBVIOUS
<1>1. nodes = IF Absent THEN {} ELSE Members
  BY MembersAreNodes DEF IInv, Housed
<1> QED BY <1>1, OnePlaceEach DEF Ownership, Books, IInv

-----------------------------------------------------------------------------
\* A map shows as a dictionary of its nodes, and NULL as none.
LEMMA ViewHere ==
    ASSUME IInv
    PROVE  /\ Absent => View = Null
           /\ ~Absent => /\ View = [members |-> nodes, compare |-> map.compare]
                         /\ View # Null
<1> SUFFICES ASSUME ~Absent
             PROVE  /\ View = [members |-> nodes, compare |-> map.compare]
                    /\ View # Null
  BY DEF View
<1>1. View = [members |-> nodes, compare |-> map.compare]
  BY MembersAreNodes DEF View
<1>2. nodes \in SUBSET Elem /\ map.compare \in Compare
  BY Present, Fields
<1>3. View \in [members : SUBSET Elem, compare : Compare]
  BY <1>1, <1>2
<1> QED BY <1>1, <1>3, MapAssumption

\* A call that changes neither the nodes nor whose they are: the books stay as they
\* are, and the map shows the same.
LEMMA NothingMoves ==
    ASSUME IInv, IInv', Books, UNCHANGED <<nodes, held, freed>>,
           \/ map' = map
           \/ /\ ~Absent /\ ~Absent' /\ map'.compare = map.compare
              /\ map'.length = map.length
    PROVE  Books' /\ View' = View /\ Follows
<1>1. View' = View
  <2>1. CASE map' = map
    BY <2>1 DEF View, Absent, Members, Buckets, Stored
  <2>2. CASE /\ ~Absent /\ ~Absent' /\ map'.compare = map.compare
    <3>1. View = [members |-> nodes, compare |-> map.compare]
      BY <2>2, ViewHere
    <3>2. Members' = nodes'
      BY <2>2, MembersNext
    <3>3. View' = [members |-> nodes', compare |-> map'.compare]
      BY <2>2, <3>2 DEF View
    <3> QED BY <2>2, <3>1, <3>3
  <2> QED BY <2>1, <2>2
<1>2. Follows
  BY LengthStays DEF IInv, TypeOK, Books
<1> QED BY <1>1, <1>2 DEF Books

\* A call that only answers is a refusal of the dictionary.
LEMMA RefusalRefines ==
    ASSUME IInv, IInv', Books, NEW r, Answer(r)
    PROVE  Books' /\ Follows /\ Abstract!Refuse(r)
<1>1. UNCHANGED <<map, nodes, held, freed>> /\ ret' = r
  BY DEF Answer
<1>2. Books' /\ View' = View /\ Follows
  BY <1>1, NothingMoves
<1> QED BY <1>1, <1>2 DEF Abstract!Refuse, View

\* Hashmap_create.
LEMMA CreateRefines ==
    ASSUME IInv, IInv', Books, NEW c \in Compare \cup {Null},
           NEW h \in Hash \cup {Null}, NEW n \in Entries, Create(c, h, n)
    PROVE  Books' /\ Follows /\ Abstract!Create(c)
<1>0. View = Null
  BY ViewHere DEF Create
<1>1. CASE Answer(Null)
  BY <1>0, <1>1, RefusalRefines DEF Abstract!Create, View
<1>2. CASE ~Answer(Null)
  <2> DEFINE k == IF c = Null THEN DefaultCompare ELSE c
  <2>1. PICK left \in Garbage :
           map' = [entries  |-> [s \in Index |-> Null],
                   compare  |-> k,
                   hash     |-> IF h = Null THEN DefaultHash ELSE h,
                   capacity |-> IF n = 0 THEN DefaultEntries ELSE n,
                   length   |-> left]
    BY <1>2 DEF Create
  <2>2. ret' = OK /\ Absent /\ UNCHANGED <<nodes, held, freed>>
    BY <1>2 DEF Create
  <2>3. map'.compare = k /\ ~Absent'
    BY <1>2, <2>1, CreateKeeps
  <2>4. nodes = {} /\ nodes' = {}
    BY <2>2 DEF IInv, Housed
  <2>5. Books' /\ Follows
    BY <2>2 DEF Books, Follows
  <2>6. View' = [members |-> {}, compare |-> k]
    <3>1. Members' = nodes'
      BY <2>3, MembersNext
    <3> QED BY <2>3, <2>4, <3>1 DEF View
  <2>7. Abstract!Create(c)
    BY <1>0, <2>2, <2>6 DEF Abstract!Create, Abstract!OK, OK, View
  <2> QED BY <2>5, <2>7
<1> QED BY <1>1, <1>2

\* What every call on a map leaves of it: the map, with another counter perhaps.
LEMMA SameMap ==
    ASSUME map \in Map, NEW k, NEW b, NEW len, ~Absent',
           map' = [map EXCEPT !.entries[k] = b, !.length = len]
    PROVE  map'.compare = map.compare /\ map'.length = len
BY DEF Map

\* Hashmap_insert, also when it has made a bucket but no node.
LEMMA InsertRefines ==
    ASSUME IInv, IInv', Contract, Books, NEW x \in Mine, Insert(x)
    PROVE  Books' /\ Follows /\ Abstract!Insert(x)
<1>0. ERR = Abstract!ERR
  BY DEF ERR, Abstract!ERR
<1>1. CASE Answer(ERR)
  BY <1>0, <1>1, RefusalRefines DEF Abstract!Insert
<1>2. CASE ~Answer(ERR)
  <2>1. ~Absent /\ ~Absent' /\ x \in held /\ x \notin nodes /\ map \in Map
    BY <1>2, InsertKeeps, Present DEF Insert, Mine, IInv
  <2>2. CASE /\ map' = [map EXCEPT !.entries[Slot(x)] = Opened(x)]
             /\ ret' = ERR
             /\ UNCHANGED <<nodes, held, freed, fault>>
    <3>1. map'.compare = map.compare /\ map'.length = map.length
      BY <2>1, <2>2 DEF Map
    <3>2. Books' /\ View' = View /\ Follows
      BY <2>1, <2>2, <3>1, NothingMoves
    <3>3. Abstract!Refuse(ERR)
      BY <2>2, <3>2 DEF Abstract!Refuse, View
    <3> QED BY <1>0, <3>2, <3>3 DEF Abstract!Insert
  <2>3. ASSUME NEW c, Added(x, c)
        PROVE  Books' /\ Follows /\ Abstract!Insert(x)
    <3>1. /\ map' = [map EXCEPT !.entries[Slot(x)] = c, !.length = By(1)]
          /\ nodes' = nodes \cup {x} /\ held' = held \ {x} /\ ret' = OK
          /\ freed' = freed
      BY <2>3 DEF Added
    <3>2. map'.compare = map.compare /\ map'.length = By(1)
      BY <2>1, <3>1, SameMap
    <3>3. IsFiniteSet(nodes') /\ Cardinality(nodes') = Cardinality(nodes) + 1
      BY <2>1, <3>1, FS_AddElement DEF Books
    <3>4. Follows
      BY <2>1, <3>2, <3>3, LengthMoves DEF Books
    <3>5. Books'
      BY <2>1, <3>1, <3>3 DEF Books
    <3>6. View = [members |-> nodes, compare |-> map.compare] /\ View # Null
      BY <2>1, ViewHere
    <3>7. Members' = nodes'
      BY <2>1, MembersNext
    <3>8. View' = [members |-> nodes', compare |-> map'.compare]
      BY <2>1, <3>7 DEF View
    <3>9. View' = [View EXCEPT !.members = @ \cup {x}]
      BY <3>1, <3>2, <3>6, <3>8
    <3>10. Abstract!Insert(x)
      BY <2>1, <3>1, <3>6, <3>9 DEF Abstract!Insert, Abstract!OK, OK, View
    <3> QED BY <3>4, <3>5, <3>10
  <2> QED BY <1>2, <2>2, <2>3 DEF Insert, Contract
<1> QED BY <1>1, <1>2

\* What Hashmap_find returns is in the map and compares equal to the key, or is NULL
\* when nothing in the map does.
LEMMA FoundIsNode ==
    ASSUME IInv, ~Absent, NEW key \in Elem
    PROVE  /\ Found(key) # Null => /\ Found(key) \in nodes
                                  /\ map.compare[Found(key)] = map.compare[key]
           /\ Found(key) = Null => \A x \in nodes : map.compare[x] # map.compare[key]
<1>1. Found(key) = Null => \A x \in nodes : map.compare[x] # map.compare[key]
  BY InReach DEF Findable
<1>2. CASE Bucket(key) = Null \/ Hits(Bucket(key), key) = {}
  BY <1>1, <1>2 DEF Found
<1>3. CASE Bucket(key) # Null /\ Hits(Bucket(key), key) # {}
  <2> DEFINE b == Bucket(key)
  <2>1. PICK k \in Index : IsFirst(b, key, k)
    BY <1>3, FirstExists
  <2>2. Found(key) = b.data[k]
    BY <1>3, <2>1, FoundIsFirst
  <2>3. map \in Map /\ Housing(map, nodes)
    BY Present
  <2>4. Slot(key) \in Index /\ b = map.entries[Slot(key)]
    BY <2>3, EntryInMap DEF Slot, Entry, Bucket
  <2>5. Home(map, nodes, Slot(key), b)
    BY <1>3, <2>3, <2>4 DEF Housing
  <2>6. k \in Nat /\ k < b.length /\ b.length \in Nat
    BY <2>1, <2>5, StoredElem, OpsAssumption DEF IsFirst, Hits, Index, Home
  <2>7. b.compare[b.data[k]] = b.compare[key] /\ b.compare = map.compare
    BY <2>1, <2>5 DEF IsFirst, Hits, Home
  <2> QED BY <1>1, <2>2, <2>5, <2>6, <2>7 DEF Home
<1> QED BY <1>2, <1>3

\* What the dictionary has for a key, in terms of the map.
LEMMA EqualHere ==
    ASSUME IInv, ~Absent, NEW key \in Elem
    PROVE  /\ Abstract!Equal(key) = {x \in nodes : map.compare[x] = map.compare[key]}
           /\ Abstract!Nothing(key) <=> Found(key) = Null
           /\ Found(key) # Null => Found(key) \in Abstract!Equal(key)
<1>1. View = [members |-> nodes, compare |-> map.compare] /\ View # Null /\ key # Null
  BY ViewHere, OpsAssumption
<1>2. View.members = nodes /\ View.compare = map.compare
  BY <1>1
<1>3. Abstract!Equal(key) = {x \in nodes : map.compare[x] = map.compare[key]}
  BY <1>2 DEF Abstract!Equal, View
<1>4. Abstract!Nothing(key) <=> Abstract!Equal(key) = {}
  BY <1>1 DEF Abstract!Nothing, View
<1> QED BY <1>3, <1>4, FoundIsNode

\* Hashmap_find.
LEMMA FindRefines ==
    ASSUME IInv, IInv', Books, NEW key \in Known, Find(key)
    PROVE  Books' /\ Follows /\ Abstract!Find(key)
<1>1. CASE (Absent \/ key = Null) /\ Answer(Null)
  <2>1. Abstract!Nothing(key)
    BY <1>1, ViewHere DEF Abstract!Nothing, View
  <2> QED BY <1>1, <2>1, RefusalRefines DEF Abstract!Find
<1>2. CASE ~((Absent \/ key = Null) /\ Answer(Null))
  <2>1. ~Absent /\ key \in Elem
    BY <1>2 DEF Find, Known
  <2>2. UNCHANGED <<map, nodes, held, freed>> /\ ret' = Found(key)
    <3>1. Bucket(key) = Null => Found(key) = Null
      BY DEF Found
    <3> QED BY <1>2, <3>1 DEF Find, Answer
  <2>3. Books' /\ View' = View /\ Follows
    BY <2>2, NothingMoves
  <2>4. CASE Found(key) = Null
    <3>1. Abstract!Refuse(Null)
      BY <2>2, <2>3, <2>4 DEF Abstract!Refuse, View
    <3> QED BY <2>1, <2>3, <2>4, <3>1, EqualHere DEF Abstract!Find
  <2>5. CASE Found(key) # Null
    <3>1. ~Abstract!Nothing(key) /\ Found(key) \in Abstract!Equal(key)
      BY <2>1, <2>5, EqualHere
    <3> QED BY <2>2, <2>3, <3>1 DEF Abstract!Find, View
  <2> QED BY <2>4, <2>5
<1> QED BY <1>1, <1>2

\* Hashmap_remove.
LEMMA RemoveRefines ==
    ASSUME IInv, IInv', Books, NEW key \in Known, Remove(key)
    PROVE  Books' /\ Follows /\ Abstract!Remove(key)
<1>1. CASE /\ Absent \/ key = Null \/ (~Absent /\ key # Null /\ Found(key) = Null)
           /\ Answer(Null)
  <2>1. key \in Elem \cup {Null}
    BY DEF Known
  <2>2. Abstract!Nothing(key)
    <3>1. CASE Absent \/ key = Null
      BY <3>1, ViewHere DEF Abstract!Nothing, View
    <3>2. CASE ~Absent /\ key # Null
      BY <1>1, <2>1, <3>2, EqualHere
    <3> QED BY <3>1, <3>2
  <2> QED BY <1>1, <2>2, RefusalRefines DEF Abstract!Remove
<1>2. CASE ~( /\ Absent \/ key = Null \/ (~Absent /\ key # Null /\ Found(key) = Null)
              /\ Answer(Null) )
  <2> DEFINE x == Found(key)
  <2>1. ~Absent /\ key \in Elem /\ map \in Map /\ Bucket(key) # Null
    BY <1>2, Present DEF Remove, Known
  <2>2. /\ nodes' = nodes \ {x} /\ held' = held \cup {x} /\ ret' = x
        /\ freed' = freed
    BY <1>2 DEF Remove
  <2>first. PICK k \in Index :
           /\ IsFirst(Bucket(key), key, k)
           /\ \E p \in Backfill(Bucket(key), k) :
                map' = [map EXCEPT !.entries[Slot(key)] = p, !.length = By(-1)]
    BY <1>2 DEF Remove
  <2>3. PICK p \in Backfill(Bucket(key), k) :
           /\ map' = [map EXCEPT !.entries[Slot(key)] = p, !.length = By(-1)]
           /\ IsFirst(Bucket(key), key, k)
    BY <2>first
  <2>3a. x # Null
    <3>1. x \in Elem
      BY <2>1, <2>3, FoundIsFirst DEF IsFirst, Hits
    <3> QED BY <3>1, OpsAssumption
  <2>3b. ~Absent'
    <3>1. ~Answer(Null)
      BY <2>2, <2>3a DEF Answer
    <3> QED BY <3>1, RemoveKeeps
  <2>4. map'.compare = map.compare /\ map'.length = By(-1)
    BY <2>1, <2>3, <2>3b, SameMap
  <2>5. /\ x \in nodes /\ x \in Elem
        /\ x \in Abstract!Equal(key) /\ ~Abstract!Nothing(key)
    BY <2>1, <2>3a, FoundIsNode, EqualHere DEF IInv, TypeOK
  <2> HIDE DEF x
  <2>6. IsFiniteSet(nodes') /\ Cardinality(nodes') = Cardinality(nodes) + (-1)
    <3>1. IsFiniteSet(nodes) /\ Cardinality(nodes) \in Int
      BY FS_CardinalityType DEF Books
    <3> QED BY <2>2, <2>5, <3>1, FS_RemoveElement
  <2>7. Follows
    BY <2>1, <2>4, <2>6, LengthMoves DEF Books
  <2>8. Books'
    BY <2>2, <2>5, <2>6 DEF Books
  <2>9. View = [members |-> nodes, compare |-> map.compare] /\ View # Null
    BY <2>1, ViewHere
  <2>10. Members' = nodes'
    BY <2>3b, MembersNext
  <2>11. View' = [members |-> nodes', compare |-> map'.compare]
    BY <2>3b, <2>10 DEF View
  <2>12. View' = [View EXCEPT !.members = @ \ {x}] /\ View.members = nodes
    BY <2>2, <2>4, <2>9, <2>11
  <2>13. Abstract!Remove(key)
    BY <2>2, <2>5, <2>12 DEF Abstract!Remove, View
  <2> QED BY <2>7, <2>8, <2>13
<1> QED BY <1>1, <1>2

\* Hashmap_destroy.
LEMMA DestroyRefines ==
    ASSUME IInv, IInv', Books, Destroy
    PROVE  Books' /\ Follows /\ Abstract!Destroy
<1>1. CASE Absent /\ Answer(ERR)
  <2>1. View = Null /\ ERR = Abstract!ERR
    BY <1>1, ViewHere DEF ERR, Abstract!ERR
  <2> QED BY <1>1, <2>1, RefusalRefines DEF Abstract!Destroy, View
<1>2. CASE ~(Absent /\ Answer(ERR))
  <2>1. /\ ~Absent /\ map' = Null /\ nodes' = nodes \ Members
        /\ freed' = freed \cup Members /\ ret' = OK /\ UNCHANGED held
    BY <1>2 DEF Destroy
  <2>2. Members = nodes
    BY <2>1, MembersAreNodes
  <2>3. nodes' = {} /\ freed' = freed \cup nodes /\ Absent' /\ View' = Null
    BY <2>1, <2>2 DEF Absent, View
  <2>4. Follows /\ IsFiniteSet(nodes')
    BY <2>3, FS_EmptySet DEF Follows
  <2>5. Books'
    BY <2>1, <2>3, <2>4 DEF Books, IInv
  <2>6. View # Null /\ View.members = nodes
    BY <2>1, ViewHere
  <2>7. Abstract!Destroy
    BY <2>1, <2>3, <2>6 DEF Abstract!Destroy, Abstract!OK, OK, View
  <2> QED BY <2>4, <2>5, <2>7
<1> QED BY <1>1, <1>2

LEMMA InitBooks == Init => Books /\ Abstract!Init
BY FS_EmptySet DEF Init, Books, Absent, Abstract!Init

\* Each call has the effect and the result of the call of the dictionary with its
\* name, and the counter follows.
LEMMA CallsRefine ==
    ASSUME IInv, IInv', Contract, Books
    PROVE  /\ CallsAsPromised
           /\ Next => Books' /\ Follows /\ Abstract!Next
<1>1. ASSUME NEW c \in Compare \cup {Null}, NEW h \in Hash \cup {Null},
             NEW n \in Entries, Create(c, h, n)
      PROVE  Books' /\ Follows /\ Abstract!Create(c)
  BY <1>1, CreateRefines
<1>2. ASSUME NEW x \in Mine, Insert(x)
      PROVE  Books' /\ Follows /\ Abstract!Insert(x)
  BY <1>2, InsertRefines
<1>3. ASSUME NEW key \in Known, Find(key)
      PROVE  Books' /\ Follows /\ Abstract!Find(key)
  BY <1>3, FindRefines
<1>4. ASSUME NEW key \in Known, Remove(key)
      PROVE  Books' /\ Follows /\ Abstract!Remove(key)
  BY <1>4, RemoveRefines
<1>5. ASSUME Destroy
      PROVE  Books' /\ Follows /\ Abstract!Destroy
  BY <1>5, DestroyRefines
<1>6. CallsAsPromised
  BY <1>1, <1>2, <1>3, <1>4, <1>5 DEF CallsAsPromised
<1>7. Mine \subseteq Elem \cup {Null} /\ Known \subseteq Elem \cup {Null}
  BY DEF Mine, Known, IInv, TypeOK
<1>8. Next => Books' /\ Follows /\ Abstract!Next
  BY <1>1, <1>2, <1>3, <1>4, <1>5, <1>7 DEF Next, Abstract!Next
<1> QED BY <1>6, <1>8

LEMMA NextRefines ==
    Contract /\ IInv /\ IInv' /\ Books /\ [Next]_vars
      => /\ Books' /\ [Follows]_vars
         /\ [Abstract!Next]_(Abstract!vars) /\ [CallsAsPromised]_vars
<1> SUFFICES ASSUME Contract, IInv, IInv', Books, [Next]_vars
             PROVE  /\ Books' /\ [Follows]_vars
                    /\ [Abstract!Next]_(Abstract!vars) /\ [CallsAsPromised]_vars
  OBVIOUS
<1>1. CASE UNCHANGED vars
  <2>1. UNCHANGED <<map, nodes, held, freed, ret>>
    BY <1>1 DEF vars
  <2>2. Books' /\ View' = View
    BY <2>1, NothingMoves
  <2>3. UNCHANGED Abstract!vars
    BY <2>1, <2>2 DEF Abstract!vars, View
  <2> QED BY <1>1, <2>2, <2>3
<1>2. CASE Next
  BY <1>2, CallsRefine
<1> QED BY <1>1, <1>2

\* Every element is the client's, in exactly one slot of one bucket, or freed: no node
\* is leaked or stored twice, whatever the removals move about.
THEOREM OneOwner == Contract => (Spec => []Ownership)
<1> SUFFICES ASSUME Contract PROVE Spec => []Ownership
  OBVIOUS
<1>1. Init => IInv /\ Books
  BY InitHolds, InitBooks
<1>2. IInv /\ Books /\ [Next]_vars => (IInv /\ Books)'
  BY NextKeeps, NextRefines
<1>3. IInv /\ Books => Ownership
  BY BooksAreOwnership
<1> QED BY <1>1, <1>2, <1>3, PTL DEF Spec

\* From wherever Hashmap_create leaves it, length moves with the number of nodes in
\* the buckets, in 32 bits, whatever the calls make, find or fail to find.
THEOREM CountIsRight == Contract => (Spec => LengthFollows)
<1> SUFFICES ASSUME Contract PROVE Spec => LengthFollows
  OBVIOUS
<1>1. Init => IInv /\ Books
  BY InitHolds, InitBooks
<1>2. IInv /\ Books /\ [Next]_vars => (IInv /\ Books)' /\ [Follows]_vars
  BY NextKeeps, NextRefines
<1> QED BY <1>1, <1>2, PTL DEF Spec, LengthFollows, Follows

\* The calls of hashmap.h are those of a dictionary, call by call: what is found or
\* removed compares equal to the key, NULL is the answer only if nothing in the map
\* does, and a call that fails, even after making a bucket, changes nothing.
THEOREM Refinement == Contract => (Spec => ImplementsDictionary)
<1> SUFFICES ASSUME Contract PROVE Spec => ImplementsDictionary
  OBVIOUS
<1>1. Init => IInv /\ Books /\ Abstract!Init
  BY InitHolds, InitBooks
<1>2. IInv /\ Books /\ [Next]_vars
        => /\ (IInv /\ Books)'
           /\ [Abstract!Next]_(Abstract!vars)
           /\ [CallsAsPromised]_vars
  BY NextKeeps, NextRefines
<1> QED BY <1>1, <1>2, PTL DEF Spec, ImplementsDictionary, Abstract!Spec
=============================================================================
