------------------------------ MODULE HashMap ------------------------------
(***************************************************************************)
(* The hash map of hashmap.c and hashmap.h, and a client of one map.  A    *)
(* bucket is a d_array of nodes and every step on it is an operator of     *)
(* DArrayOps.                                                              *)
(*                                                                         *)
(* Abstractions.  A Hashmap_node is named by the element it holds, which   *)
(* never changes; nodes is the set of allocated ones.  A hash callback is  *)
(* a function on Elem.  length starts as whatever malloc left in the       *)
(* field, because Hashmap_create does not set it.                          *)
(***************************************************************************)
EXTENDS DArrayOps, FiniteSets

CONSTANTS Entries,         \* bound: the number_of_entries a client asks for
          DefaultEntries,  \* DEFAULT_NUMBER_OF_ENTRIES
          Hash,            \* the hash callbacks
          DefaultHash,     \* default_hash, used when the client passes NULL
          Garbage,         \* what malloc may leave in a field nobody sets
          Beyond           \* the situations outside the contract that may arise

\* Situations the code accepts and does not survive; see the README.
\*   push_oom  the bucket of an insertion is full and cannot grow
Situation == {"push_oom"}

ASSUME HashMapAssumption ==
    /\ Entries \subseteq U32
    /\ DefaultEntries \in 1..MaxU32
    /\ Hash \subseteq [Elem -> U32]
    /\ Null \notin Hash
    /\ DefaultHash \in Hash
    /\ Garbage \subseteq U32
    /\ Beyond \subseteq Situation

\* Keys that compare equal hash equal: what a client's two callbacks owe the map.
ASSUME HashAgrees ==
    \A hash \in Hash, compare \in Compare, x, y \in Elem :
       compare[x] = compare[y] => hash[x] = hash[y]

VARIABLES map,    \* the struct behind the client's pointer, or Null
          nodes,  \* the allocated nodes
          held,   \* elements the client owns
          freed,  \* elements given to the dealloc callback
          ret,    \* result of the last call
          fault   \* a call has left a block or read a freed node

vars == <<map, nodes, held, freed, ret, fault>>

\* struct Hashmap; entries beyond capacity do not exist and are Null.
Map == [entries  : [Index -> Array \cup {Null}],
        compare  : Compare,
        hash     : Hash,
        capacity : 1..MaxU32,
        length   : U32]

ASSUME MapAssumption ==
    /\ Null \notin Array /\ Null \notin Map
    /\ Null \notin [members : SUBSET Elem, compare : Compare]

\* The usage under which the theorems hold.
Contract == Beyond = {}

TypeOK ==
    /\ map \in Map \cup {Null}
    /\ nodes \subseteq Elem
    /\ held \subseteq Elem
    /\ freed \subseteq Elem
    /\ ret \in {OK, ERR, Null} \cup Elem
    /\ fault \in BOOLEAN

Init ==
    /\ map = Null
    /\ nodes = {}
    /\ held = Elem
    /\ freed = {}
    /\ ret = Null
    /\ fault = FALSE

-----------------------------------------------------------------------------
Absent == map = Null

\* A call that changes nothing but its result.
Answer(result) ==
    /\ ret' = result
    /\ UNCHANGED <<map, nodes, held, freed, fault>>

\* Definitions named Bug... are the operators after them with one mistake; no
\* specification uses them.  The README says which property notices which.

\* The bucket is chosen among all 32-bit values.
BugSlotWide(x) == map.hash[x] % (map.capacity + 1)

\* The entry a key belongs to, and the d_array there, which may not exist yet.
Slot(x) == map.hash[x] % map.capacity
Bucket(x) == map.entries[Slot(x)]

\* find_or_create when it creates.
Opened(x) ==
    IF Bucket(x) = Null THEN NewArray(map.compare, DefaultEntries) ELSE Bucket(x)

\* The counter moves by one more than it should.
BugBy(d) == (map.length + 2 * d) % (MaxU32 + 1)

\* length after one element more or less, in 32 bits.
By(d) == (map.length + d) % (MaxU32 + 1)

\* The last element of a bucket is never looked at.
BugHitsShort(b, key) ==
    {i \in Index : /\ i + 1 < b.length
                   /\ b.data[i] \in Elem /\ b.compare[b.data[i]] = b.compare[key]}

\* The result of the compare callback is not looked at.
BugHitsAll(b, key) == {i \in Index : i < b.length /\ b.data[i] \in Elem}

\* The searching loop: positions of the bucket whose element compares equal.
Hits(b, key) ==
    {i \in Index : /\ i < b.length
                   /\ b.data[i] \in Elem /\ b.compare[b.data[i]] = b.compare[key]}

IsFirst(b, key, i) == i \in Hits(b, key) /\ \A j \in Hits(b, key) : i <= j

\* What the loop may read: slots of the block, and in them nodes still allocated.
Readable(b) == InBlock(b, b.length) /\ Stored(b) \subseteq nodes

-----------------------------------------------------------------------------
Create(compare, hash, number) ==
    /\ ~fault /\ Absent
    /\ \/ Answer(Null)
       \/ \E left \in Garbage :
             map' = [entries  |-> [i \in Index |-> Null],
                     compare  |-> IF compare = Null THEN DefaultCompare ELSE compare,
                     hash     |-> IF hash = Null THEN DefaultHash ELSE hash,
                     capacity |-> IF number = 0 THEN DefaultEntries ELSE number,
                     length   |-> left]
          /\ ret' = OK   \* a pointer that is not NULL
          /\ UNCHANGED <<nodes, held, freed, fault>>

\* The node is made and counted, and b is what the push leaves of its bucket.
Added(x, b) ==
    /\ map' = [map EXCEPT !.entries[Slot(x)] = b, !.length = By(1)]
    /\ nodes' = nodes \cup {x}
    /\ held' = held \ {x}
    /\ ret' = OK
    /\ UNCHANGED freed

Insert(x) ==
    /\ ~fault
    /\ \/ (Absent \/ x = Null) /\ Answer(ERR)
       \/ ~Absent /\ x # Null /\ Bucket(x) = Null /\ Answer(ERR)   \* no bucket
       \/ /\ ~Absent /\ x # Null   \* no memory for the node; the bucket stays
          /\ map' = [map EXCEPT !.entries[Slot(x)] = Opened(x)]
          /\ ret' = ERR
          /\ UNCHANGED <<nodes, held, freed, fault>>
       \/ /\ ~Absent /\ x # Null
          /\ \E b \in Roomy(Opened(x)) :
                /\ Added(x, InsertSlot(b, b.length, x))
                /\ fault' = ~InBlock(b, b.length + 1)
       \/ /\ ~Absent /\ x # Null   \* the result of the push is not looked at
          /\ "push_oom" \in Beyond /\ MustGrow(Opened(x))
          /\ Added(x, Opened(x))
          /\ UNCHANGED fault

\* What Hashmap_find returns.
Found(key) ==
    IF Bucket(key) = Null \/ Hits(Bucket(key), key) = {} THEN Null
    ELSE Bucket(key).data[CHOOSE i \in Index : IsFirst(Bucket(key), key, i)]

Find(key) ==
    /\ ~fault
    /\ \/ (Absent \/ key = Null) /\ Answer(Null)
       \/ ~Absent /\ key # Null /\ Bucket(key) = Null /\ Answer(Null)
       \/ /\ ~Absent /\ key # Null /\ Bucket(key) # Null
          /\ ret' = Found(key)
          /\ fault' = ~Readable(Bucket(key))
          /\ UNCHANGED <<map, nodes, held, freed>>

\* The popped node is dropped instead of moved.
BugBackfillNone(b, i) == Trimmed(RemoveSlot(b, b.length - 1))

\* The removal at position i: the last node is popped, and unless it is the one
\* to go, takes the place of that one.
Backfill(b, i) ==
    LET last == b.length - 1
    IN  {IF i = last THEN p ELSE WriteSlot(p, i, b.data[last]) :
            p \in Trimmed(RemoveSlot(b, last))}

Remove(key) ==
    /\ ~fault
    /\ \/ (Absent \/ key = Null) /\ Answer(Null)
       \/ ~Absent /\ key # Null /\ Found(key) = Null /\ Answer(Null)
       \/ /\ ~Absent /\ key # Null /\ Bucket(key) # Null
          /\ \E i \in {j \in Index : IsFirst(Bucket(key), key, j)} :
             \E p \in Backfill(Bucket(key), i) :
                /\ map' = [map EXCEPT !.entries[Slot(key)] = p, !.length = By(-1)]
                /\ fault' = ~( /\ Readable(Bucket(key))
                               /\ i + 1 < Bucket(key).length => InBlock(p, i + 1) )
          /\ nodes' = nodes \ {Found(key)}
          /\ held' = held \cup {Found(key)}
          /\ ret' = Found(key)
          /\ UNCHANGED freed

Buckets == {map.entries[i] : i \in 0..(map.capacity - 1)} \ {Null}
Members == UNION {Stored(b) : b \in Buckets}

\* With a dealloc callback, which the code does not check.
Destroy ==
    /\ ~fault
    /\ \/ Absent /\ Answer(ERR)
       \/ /\ ~Absent
          /\ map' = Null
          /\ nodes' = nodes \ Members
          /\ freed' = freed \cup Members
          /\ ret' = OK
          /\ fault' = (\E b \in Buckets : ~Readable(b))
          /\ UNCHANGED held

-----------------------------------------------------------------------------
Known == (Elem \ freed) \cup {Null}
Mine  == held \cup {Null}

Next ==
    \/ \E c \in Compare \cup {Null}, h \in Hash \cup {Null}, n \in Entries : Create(c, h, n)
    \/ \E x \in Mine : Insert(x)
    \/ \E x \in Known : Find(x)
    \/ \E x \in Known : Remove(x)
    \/ Destroy

Spec == Init /\ [][Next]_vars

-----------------------------------------------------------------------------
(***************************************************************************)
(* Properties                                                              *)
(***************************************************************************)

\* No call leaves a bucket's block or reads a freed node, whatever has been removed
\* and however far the buckets have grown and shrunk.
MemorySafe == ~fault

\* What the calls rely on: every bucket agrees with its block, exists only below
\* capacity, and holds allocated nodes of its own hash, each once.
Sound ==
    ~Absent =>
      \A s \in Index :
        map.entries[s] # Null =>
          LET b == map.entries[s]
          IN  /\ s < map.capacity
              /\ b.compare = map.compare
              /\ BlockSound(b)
              /\ \A i \in 0..(b.length - 1) :
                    /\ b.data[i] \in nodes /\ Slot(b.data[i]) = s
                    /\ \A j \in 0..(b.length - 1) : b.data[i] = b.data[j] => i = j

\* Every element in the map can be found, through every key that compares equal to
\* it, whichever other elements of its bucket have been removed and moved.
Findable ==
    ~Absent =>
      \A x \in nodes, key \in Elem :
        map.compare[x] = map.compare[key] =>
          /\ Found(key) # Null
          /\ map.compare[Found(key)] = map.compare[key]

\* Every element has one owner: the client, the map, where exactly one slot of one
\* bucket holds its node, or a dealloc callback.  No node is leaked.
Ownership ==
    /\ nodes = IF Absent THEN {} ELSE Members
    /\ held \cap nodes = {} /\ held \cap freed = {} /\ nodes \cap freed = {}
    /\ held \cup nodes \cup freed = Elem
    /\ ~Absent =>
         LET Places == {p \in Index \X Index : /\ map.entries[p[1]] # Null
                                               /\ p[2] < map.entries[p[1]].length}
         IN  Cardinality(Places) = Cardinality(nodes)

\* What hashmap.h says of length: "number of elements each entry holds combined".
Counted == ~Absent => map.length = Cardinality(nodes)

\* length moves with the number of nodes, 2^32 being 0: a call that makes a bucket and
\* then fails, or finds nothing to remove, does not count, and no call counts a node
\* twice.  From where it starts is another matter: see Counted.
LengthFollows ==
    [][~Absent /\ ~Absent' =>
         map'.length = (map.length + Cardinality(nodes') - Cardinality(nodes))
                         % (MaxU32 + 1)]_vars

\* The calls implement a collection that is searched by key, call by call: what is
\* found or removed compares equal to the key, NULL is the answer only if nothing in
\* the map does, a removal takes exactly the element it returns, and a call refused
\* for memory changes nothing that shows.
Abstract == INSTANCE Dictionary WITH
    dict <- IF Absent THEN Null ELSE [members |-> Members, compare |-> map.compare]

CallsAsPromised ==
    /\ \A c \in Compare \cup {Null}, h \in Hash \cup {Null}, n \in Entries :
          Create(c, h, n) => Abstract!Create(c)
    /\ \A x \in Mine : Insert(x) => Abstract!Insert(x)
    /\ \A key \in Known : Find(key) => Abstract!Find(key)
    /\ \A key \in Known : Remove(key) => Abstract!Remove(key)
    /\ Destroy => Abstract!Destroy

ImplementsDictionary == Abstract!Spec /\ [][CallsAsPromised]_vars
=============================================================================
