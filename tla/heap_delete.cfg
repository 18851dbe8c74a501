\* The calls of heap.h with heap_delete_max_index among them: the order survives it.
SPECIFICATION FairSpec
CONSTANTS
  e1 = e1
  e2 = e2
  e3 = e3
  e4 = e4
  e5 = e5
  e6 = e6
  Elem = {e1, e2, e3, e4, e5}
  Null = Null
  Junk = Junk
  MaxU32 = 9
  DefaultRate = 2
  Compare <- OnlyRank3
  DefaultCompare <- Rank3
  Capacities = {0}
  Beyond = {"delete_max"}
INVARIANT OrderedAtRest
