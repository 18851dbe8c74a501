# TLA+ models of libcerberus

libcerberus is a C library of containers: a dynamic array, a binary heap and a
priority queue, a binary search tree, a hash map, singly and doubly linked
lists, a stack and a queue. It is sequential. Nothing is persisted and there are
no threads, messages or timers; what makes it hard is memory. The containers
hold `void *` pointers of the client, so every call moves ownership; blocks are
reallocated underneath indexes; the allocator may refuse any request; and a
state reached after a long mix of legal calls is the one in which an index or a
pointer is wrong.

## The system

| part | state it keeps | operations | hard part | correct when |
|---|---|---|---|---|
| dynamic array (`d_array.c`, `.h`) | compare callback, block, capacity, length, expand rate | create, push, pop, insert, remove, delete, set, get, index_of, expand, shrink, join, split, clear, destroy, traverse | three fields and a block updated in separate assignments; growth and shrinking at boundaries; refused reallocs | no access outside the block, one owner per element, calls act on a sequence |
| heap (`heap.c`, `.h`) | a d_array | insert, pop, replace, delete, find, is_empty, heapify, merge, meld | loops that break and restore the heap order; 32-bit index arithmetic | ordered after every call, loops end, nothing lost |
| priority queue (`priority_queue.h`) | a heap | renames of heap calls | none of its own | as the heap |
| search tree (`binary_search_tree.c`, `.h`) | root, length, nodes with three pointers | create, insert, search, delete, traverse, destroy | rewiring aliased pointers in a deletion; `while (1)` searches | ordered at every depth, parent inverse of children, length is what is reachable |
| hash map (`hashmap.c`, `.h`) | an array of d_arrays of nodes, compare and hash callbacks, capacity, length | create, insert, find, remove, destroy | swap-with-last removal while the bucket's block shrinks; ignored results; a field nobody sets | each element in the bucket of its hash and found there by every equal key, one owner per element |
| singly linked list (`singly_linked.c`, `.h`) | first, compare callback, count, nodes with next | create, push, unshift, insert, pop, shift, remove (of, after, before an entry), join, split, search, reverse, destroy | removal needs the predecessor; counts computed in three ways; reversal in place | acyclic, count right, no node lost or shared |
| doubly linked list (`doubly_linked.c`, `.h`) | the same, last, and nodes with prev | the same but search and reverse | two links to store for every neighbour; ends of the list, one-element lists | the same, and prev the inverse of next |
| stack, queue (`stack.h`, `queue.h`) | a doubly linked list | renames of its create, push, pop, shift, destroy | none of their own | as that list |
| `dbg.h`, tests, Makefile | none | logging, `check` | - | not modelled; `check` is the refusing disjunct of each action |

Calls go one way: priority queue to heap to d_array; hash map to d_array; stack
and queue to doubly linked list; the tree uses a queue inside the level-order
traversal. The client interacts through callbacks (compare, dealloc, traverse),
which are data in the models: compare is a rank function, dealloc is the set
`freed`, traverse is the set of elements at which it stops.

## Modules

| module | what it is |
|---|---|
| `DArrayOps` | `struct d_array` and the steps its functions are made of, as operators on a record. A ghost field `slots` is the number of pointers the allocator granted, so `capacity` can be wrong and a test against `slots` shows it. A slot at or beyond `length` is `Junk`. |
| `DArray` | one action per function of d_array, a client with several arrays. |
| `ArrayADT` | what d_array.h promises: sequences, one action per call with its arguments, its result and the reasons it may be refused for. `DArray` implements it call by call (`ImplementsSequences`: each action is a step of the action of `ArrayADT` for that call). |
| `Heap` | the heap's calls on one d_array; `emerge` and `sink` take one iteration a step, `pc` says which loop runs and `pos` is its `node_position`. `DeleteMax` and `DeleteMaxAgain` are the two pops of `heap_delete_max_index`. |
| `PriorityQueue` | a set from which the highest is taken, in the same manner; `Heap` implements it call by call, its loops being stutters. |
| `HeapMerge` | `heapify`, `heap_merge`, `heap_meld`: extends `Heap` and runs its `EmergeStep` and `SinkStep` inside the loops of `heapify`. |
| `BSTree` | the search tree. A node is named by the element it holds; `link` holds the three pointers. Search, insertion and deletion descend one comparison a step (`cur` is `cur_node`, `rep` the replacement); `Replace` is `BS_tree_replace` assignment for assignment; the traversals are recursive functions of the tree. |
| `OrderedSet` | a set without equal elements, whose operations take many steps of `BSTree`; `BSTree` implements it. It names no keys and lets any call be refused: that a search ends at the element of its key, or with NULL only when there is none, is `SearchOrder` with `LoopsAim`. |
| `HashMap` | the hash map: `entries` holds for each index a d_array of `DArrayOps` or nothing, and every step on a bucket is an operator of that module. A node is named by its element. `Slot` is the entry of a key, `Hits` the searching loop, `Backfill` the pop and the store that follow it. |
| `Dictionary` | a collection in which an element is found and from which it is taken by a key that compares equal, one action per call with its key; `HashMap` implements it call by call. |
| `ListNodes` | what the two lists share: structs, nodes, `next`, the loops along them (`Walk`, `Match`) and the rule that every dereferenced node must be allocated (`Derefs`). |
| `DoublyLinked`, `SinglyLinked` | one action per function. `Place` and `Cut` are the stores by which a node enters between two neighbours and leaves. In `SinglyLinked` the macro `singly_linked_reverse` is three actions, one iteration of its loop a step, with its variables in `rev`. |
| `Lists` | a client of one of the two libraries (`kind`), with two lists; it composes the two modules and states the properties they have in common. |
| `ListADT` | sequences that are inserted into, joined, split and reversed; `Lists` implements it. Where an entry stands is not in it: an element may come and go at every position. |
| `MCDArray`, `MCHeap`, `MCHeapMerge`, `MCBSTree`, `MCHashMap`, `MCLists` | the finite values of the constants for TLC. |
| `DArrayOpsProofs`, `DArrayProofs`, `HeapProofs`, `HeapRefinement`, `HashMapProofs`, `BSTreeProofs`, `ListNodesProofs`, `ListsProofs` | the proofs: of the operators on a `struct d_array`; of the calls of `DArray`, its owners and its refinement; of `Heap`'s order and loops; of its owners and refinement and of `HeapMerge`; of `HashMap`; of `BSTree`; of chains of nodes and the stores that rewire them; of the calls of the two lists, their owners and their refinement. |

In all of them `held` is the set of elements the client owns, `freed` those given
to a dealloc callback, `ret` the result of the last call, and `fault` becomes TRUE when
a call touches memory it must not (a block overrun, a NULL dereference), after
which the model stops. A call that fails its checks, or is refused memory, is a
disjunct that sets `ret` only. Definitions named `Bug...` are copies of a
definition with one plausible mistake; no specification uses them. They show
that each property notices something (PROJECT.json lists which notices which).

## The contract and what is beyond it

The code accepts some calls it does not handle. Each is a named situation, and
the constant `Beyond` says which of them may arise. A module's `Contract` is the usage under
which its theorems hold; its passing runs stay within it.

| situation | what happens | shown by |
|---|---|---|
| `delete_equal` (DArray) | `d_array_delete` frees the pointer it was called with and drops the stored one that compared equal, though `d_array.h:134` says it deletes the first match and "deallocates it too" | `Ownership`, with `Beyond = {"delete_equal"}` in darray.cfg |
| `split_whole` | splitting off every element resizes to 0, which zeroes `length`, and then subtracts from it | `Sound`, likewise |
| `split_oom` | the loop that gives elements back after a refused realloc reads slots it has overwritten | run `darray_split` |
| `join_oom` | the result of `d_array_expand` is ignored and the copy leaves the block | `MemorySafe`, likewise |
| `delete_max` (Heap) | `heap_delete_max_index` pops twice and frees the second only, though `heap.h:72` says that it and pop do "the same thing, only this function deallocates popped data too" | `Ownership`, with `Beyond = {"delete_max"}` in heap.cfg; the order survives, run `heap_delete` |
| `replace_empty` | `heap_replace` uses slot 0 of an empty heap | `MemorySafe`, with that `Beyond` in heap.cfg |
| `wide` | beyond half of the index range the child index wraps before it is widened to 64 bits: `sink` climbs and may loop forever | `LoopsAdvance`, with that `Beyond` and MaxU32 = 7 |
| `int_size` | `heap_is_empty` returns the 32-bit length as an `int`: beyond INT_MAX it comes out negative, and UINT32_MAX as the -1 of a NULL heap | `ImplementsPriorityQueue`, with that `Beyond` and MaxU32 = 7 |
| `deep_child` (BSTree) | the replacement of a deleted node has a child and is not a child of that node: the child is dropped, `length` still counts it, and later a NULL root is dereferenced | run `bstree_length` |
| `stop_late` | in-order and post-order traversals go on after CERB_ERR | run `bstree_stop` |
| `merge_oom` (HeapMerge) | the `d_array_join` inside `heap_merge` ignores the refusal of its `d_array_expand`: the copy leaves the block (`join_oom` again) | `MemorySafe`, with that `Beyond` in heapmerge.cfg |
| `meld_oom` | `heap_meld` copies to NULL when it gets no array | `MemorySafe`, with that `Beyond` in heapmerge.cfg |
| `push_oom` (HashMap) | the push of `Hashmap_insert` is refused, the call succeeds: the node is leaked and counted | `Ownership`, with that `Beyond` in hashmap.cfg |
| `short` (DoublyLinked) | a call by entry dereferences `first` or `last` of an empty list, or the neighbour of an only node | `MemorySafe`, with that `Beyond` in lists.cfg |
| `remove_after` | `doubly_linked_remove_after` gives the compare callback the node before the last instead of its data. If the bytes there look equal, the last element is removed, whatever the entry; if not and the entry is that node's, the successor of the last node is dereferenced | `MemorySafe` and `Linked`, likewise |
| `to_last` | `doubly_linked_split` from a middle node up to the last dereferences the last one's successor | `MemorySafe` and `Linked`, likewise |
| `wide` (both lists) | `count <= UINT32_MAX` and the sum of two counts never fail in 32 bits: pushing on a full singly linked list, or joining beyond the limit, wraps `count`, although the message says "Can't expand past max available size" | `Linked`, likewise |

`heapify` needs no unusual usage to fail: with eight elements one top-down pass is
not enough (run `heapify_eight`); with up to seven it is (run `heapmerge`).
Nor does the length of a hash map: `hashmap.h:38` calls it the number of
elements (`Counted`), but `Hashmap_create` never sets it, and a map starts with any
value of `Garbage` (run `hashmap_length`). What holds is `LengthFollows`: every call moves
length by the number of nodes that come or go.

Besides, the clients of the models keep what the headers ask or C requires: an
element is put into one container once; `compare` and `hash` of a map agree
(`HashAgrees`; the two defaults do not, `default_hash` reads a string and
`Hashmap_default_compare` an int); destroy gets a callback; the nodes given to split
are in the list's order; a list is not joined to itself.

## Runs

| run | instance | shows |
|---|---|---|
| `darray` | 2 arrays and 4 elements, three of them equal, symmetric in both, MaxU32 = 3, expand rate 1 | types, block soundness, memory safety, ownership over every sequence of calls and every refusal; every call, with each of its arguments, does what `ArrayADT` says of it |
| `heap` | 6 elements, ranks with ties, MaxU32 = 11 | order inside the loops and, as its special case, at rest, ownership, loop progress, termination, refinement of a priority queue call by call |
| `heap_delete` | 5 elements, `delete_max` allowed | the order at rest survives it |
| `heapmerge` | up to 7 elements, all rank functions to 0..2, all splits into two operands, the first with no free slot or one | the calls stay in their blocks; the result is a heap of the same elements, and comes |
| `bstree` | 6 elements, two of them equal, at most 5 nodes | links, order, count, loop aim and progress, traversals, termination, refinement of a set |
| `hashmap` | 5 elements, two of them equal, maps of 2 and 3 entries, buckets that start with 2 slots, MaxU32 = 5 | memory safety of the buckets, findability, ownership, a length that moves with the elements, refinement of `Dictionary` call by call |
| `lists` | 2 lists of either kind, 5 elements, 2 compare callbacks (two elements equal, all equal), MaxU32 = 4, symmetric in the elements and lists | no NULL or freed node is used; chains, counts and back links; ownership; refinement of sequences |
| `darray_split`, `heapify_eight`, `bstree_length`, `bstree_stop`, `hashmap_length` | as above or smaller, one situation enabled where it takes one | a documented claim the code does not meet; see "findings" in PROJECT.json |

Why the bounds are enough. `darray`: arrays of at most MaxU32 = 3 slots and four
elements reach growth, growth refused at the 32-bit limit (a full array of three and a
fourth element), shrinking to a smaller block and to none, and joins that fit (one and
two elements) and do not (two and two). Three elements in one array tell shifting up, down
and swapping, and the first match from another, apart. Slack of more than the rate comes from
`Capacities`, by create and by expand. `heap`: six elements are three levels with a node that
has one child; MaxU32 = 11 is the smallest width in which no index of such a heap
wraps. `heapmerge`: seven elements fill three levels; with one free slot a second operand of one
element fits, one of two does not; every assignment of three ranks to
them is tried, and `SmallResult` is proved for all others. `bstree`: a replacement that
drops a child needs four nodes. `hashmap`: four elements collide in a map of two
entries, so that a bucket of two slots grows, shrinks and is emptied, and an
equal element is behind the one a key finds. `lists`: a list of four is split in
its middle with nodes on both sides, reversed with three iterations of the
loop, and full by `count`. CHECK_DEADLOCK is off for HeapMerge only:
a construction that has returned is the end there.

Fairness: `WF` of the step of the loop that is running (`Running`, `Heapifying`),
since a C call that has started goes on. The client is never obliged to call.

## What is proved

TLAPS proves the following for any set of elements, compare callbacks, capacities and
UINT32_MAX, from the named assumptions on the constants (`OpsAssumption`,
`DArrayAssumption`, `HeapAssumption`, `HashMapAssumption`, `MapAssumption`,
`BSTreeAssumption`, `ListAssumption`: NULL, the junk pointer and CERB_ERR are not elements, NULL is not a
struct, rates and capacities are in range, the elements of trees and lists, which are
addresses, are finitely many;
and `HashAgrees`, that keys which compare equal hash equal). "Within the contract"
means under the module's `Contract`, which excludes the situations of the table above
that break the property.

* `DArrayProofs!Safety`: within the contract, `TypeOK`, `Sound` and `MemorySafe` of
  `DArray`. The invariant is their conjunction. `MemorySafe` alone is not
  inductive: that a call stays in its block follows from `BlockSound` before
  it. Each operator of `DArrayOps` has a lemma saying it keeps `BlockSound`
  and what it does to the data; each action is a composition of them.
* `HeapProofs!Safety`: within the contract, `TypeOK`, `Sound`, `MemorySafe` and
  `OrderedAtRest`. `OrderedAtRest` says nothing in the middle of a loop, so
  the invariant adds `ButAt` (while `emerge` is at `p`, only `p` may rank above its
  parent) and `ButBelow` (while `sink` is at `p`, only the children of `p` may),
  each with the clause that the children of `p` do not rank above the parent
  of `p`. Four lemmas are the argument: an iteration of either loop moves the broken
  place, and leaving the loop means there is none. `Narrow` keeps the index
  arithmetic from wrapping.
* `HeapProofs!LoopOrder`: `OrderedButForLoop`, the same fact as the run checks it.
* `HeapProofs!LoopsEnd`: `LoopsAdvance`, the measure that bounds both loops.

* `DArrayProofs!OneOwner`, `!Refinement`: within the contract, `Ownership` and
  `ImplementsSequences` of `DArray`. `Ownership` is proved through
  books: an element has at most one slot in all arrays together, and is held, stored or
  freed. Each call is one of a few moves on the sequences of the arrays (one
  element enters at an index, one leaves, a sequence is appended to another, a part moves to
  another array), and each move keeps the books. The refinement maps every action,
  refused calls included, to the action of `ArrayADT` for that call with the same arguments, from what the lemmas of
  `DArrayOpsProofs` say about the data.
* `HeapRefinement!OneOwner`, `!Refinement`: when `Beyond` is empty, `Ownership` of
  `Heap`, and that it implements `PriorityQueue` call by call, with the answer of `heap_is_empty` the
  number of elements (which `int_size` being outside makes an int). The steps of the loops swap two slots
  and map to stutters; that the element taken from slot 0 is the highest is
  `OrderedAtRest` climbed from any slot to the root.
* `HeapRefinement!MergeSafe`, `!MergeKeepsElements`: within `MergeContract` (merge and meld get
  the memory they ask for), `MergeTypeOK`, `MemorySafe` and `ElementsKept` of
  `HeapMerge`, for operands of any length and whatever the loops of `heapify` do. An operand is a block
  its elements fit in; the invariant says so of the array being heapified, too.
* `HeapRefinement!SmallResult`: within `MergeContract`, `ResultIsHeap` of `HeapMerge`, when there are at most seven
  elements and no index wraps (`Few`), for any ranks. The result is ordered because of how the one
  pass interleaves its loops, so the invariant (`Stage`, which TLC checked on the
  instance of `heapmerge` before it was proved) follows the pass: a leaf that has emerged does not rank above both its
  parent and the root (`LeavesCovered`), so that when the root has sunk it is the highest (`RootHighest`); from
  then on an inner node below it is the root of at most three elements, and one sinking orders
  them (`Settled`). Eight elements have an inner node with a grandchild, and the statement is false
  for them (run `heapify_eight`): seven is the best possible bound.
* `HashMapProofs!Safety`: within the contract, `TypeOK`, `Sound` and `MemorySafe` of
  `HashMap`; `HashMapProofs!AlwaysFindable`: `Findable`. `Sound` says that what is in a
  bucket is allocated and belongs there; that is not inductive. The invariant
  also needs the converse, that every allocated node is in the bucket of its hash
  (`Housed`), or a destroy could leave nodes behind for the next map, and that the
  client holds no element that has a node, or an insertion could store one twice
  and removing one copy would leave the other dangling. Two lemmas say that a
  push and a removal with its backfill keep a bucket in order
  (`PushedHome`, `BackfilledHome`), one that a map is in order when the
  bucket that changed is (`HousingKept`).

* `HashMapProofs!OneOwner`, `!CountIsRight`, `!Refinement`: within the contract, `Ownership` and
  `LengthFollows` of `HashMap`, and that it implements `Dictionary` call by call. `LengthFollows` compares the change of
  `length` with that of a cardinality: the lemmas say which node comes or goes in each call. The refinement
  rests on `Findable`: what the loop of a bucket finds is what the whole map has for the key.
* `BSTreeProofs!Safety` (`TypeOK`, `MemorySafe`), `!Structure` (`Counted`, `Linked`),
  `!SearchTree` (`SearchOrder`, `LoopsAim`) and `!Refinement` (`BSTree` implements
  `OrderedSet`), all within the contract, for trees of every size and shape. The order of a search tree speaks of
  whole subtrees, which the model computes by recursion (`Below`). The argument does not need
  an induction over trees: `Subtrees` proves that the equation of `Below` has one
  solution on a tree whose nodes can be ranked, and the lemmas on insertion and
  deletion then exhibit the new solution: the set below every node on the path gains or loses
  one element, all others are as before. `BS_tree_replace` is taken apart into two moves for which this is
  easy to see: the replacement is cut off (`Prunes`), then takes the
  name and place of the deleted node (`Renames`); `Replaces` is their composition.
  In the middle of a call the invariant adds `OnPath`: what is searched or inserted
  belongs below `cur`, and the replacement is the extreme node of the subtree
  it was looked for in.
* `BSTreeProofs!Traversal` (`WalksEverything`) and `!Stopping` (`StopsWhenTold`, while `stop_late` is
  not allowed): what the traversals return in every tree. A recursion over a tree has
  one solution (`SolutionExists`, `SolutionIsUnique`), and so has a loop over its iterations
  (`LoopExists`); that the solution is right is shown at a deepest node, or a least
  iteration, where it would not be. The recursion is a function from walks to walks: at every
  node it appends the elements below it, each once (`ShowsEverything`), or those up to the one the callback
  refuses (`TellsUntilTold`). The loop of the level order keeps an invariant (`Layer`): what
  has been seen, and the subtrees at the nodes of the queue, are the parts of the tree. Every
  iteration shows one more element, so `Cardinality(Elem) + 1` of them, which
  `LevelOrder` takes, empty the queue.
* `BSTreeProofs!LoopsNarrow`: `LoopsDescend`, the measure that ends the `while (1)` loops: every iteration of a search, or
  of the search for a replacement, leaves strictly fewer nodes below the one it stands
  at, because no node is below itself (`Smaller`).
* `ListsProofs!Safety` (`TypeOK`, `MemorySafe`), `!WellLinked` (`Linked`), `!OneOwner` (`Ownership`) and
  `!Refinement` (`Lists` implements `ListADT`), for both libraries, lists of every length and any
  number of lists, when `Beyond` is empty. `Linked` alone is not inductive: it says what walks return, not where each field leads.
  The invariant (`Inv`) says that there are sequences, no element twice in all
  of them, such that `next` leads from each element to the following one and `prev` back,
  `first`, `last` and `count` are those of the sequence, and `nodes` is what they hold. During a
  reversal one of them has its beginning turned round (`Turning`): `first` is the end of
  the turned part and `second` the start of the rest. `Walk` is recursive;
  its equation has one solution where `next` leads along the sequences (`StepsUnique`), so loops end and see
  the sequence (`WalkIs`). A call is one of a few moves: a node enters
  (`EnterMove`), leaves (`LeaveMove`), two lists become one (`JoinMove`), one
  becomes two (`TearMove`), one is created, destroyed or turned round. Each is proved
  once, for all calls that use it: what the stores do to the fields in `ListNodesProofs`, what the move is
  of `ListADT` in `ListsProofs`. A call's own lemma then says which position it finds and which nodes it reads.

Only model-checked:

* liveness, which TLAPS cannot treat (it has no fairness): `CallsReturn` and `HeapifyReturns`. For the heap
  and the tree the measures that make the loops end are proved (`LoopsEnd`, `LoopsNarrow`);
* the violations: that `Beyond` situations, and `heapify` of eight elements, break a property is shown by
  TLC's counterexamples.

## Not modelled, and limits

* Functions the list headers do not declare ("taken out on purpose": clear,
  clear_destroy, free_complex_data, free_list, sorted_insert of both lists). They
  are still compiled, but a client that includes the headers cannot name them.
  free_list reads a node after freeing it, and sorted_insert passes a node where
  an entry is expected.
* `Hashmap_rehash`, whose body is empty.
* `doubly_linked_search`, and with it `Stack_search` and `Queue_search`, names a
  type the library does not define and does not compile.
* Printing macros, logging, `dbg.h`, tests.
* compare is taken to be a total preorder that answers -1, 0 or 1 as the headers
  define; a callback that answers other values makes the tree's switch fall to
  its default and leak the new node.
* `d_array_set_expand_rate` takes rates in the range its comment states.
* The level-order traversal's queue is a sequence, and it may run out of memory.
* No call passes the same array twice to join, as its `restrict` demands.

## State of the proofs

Every safety property, action property and refinement that a passing run checks is proved for every
value of the constants within the contract (`ResultIsHeap`: for up to seven elements, as far as it holds).
What could be added: a measure for
`heapify` as a whole, in the manner of `LoopsEnd`, and the operations listed under "Not modelled".
