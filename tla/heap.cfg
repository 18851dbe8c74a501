\* The calls of heap.h within the contract, six elements of three ranks.
SPECIFICATION FairSpec
CONSTANTS
  e1 = e1
  e2 = e2
  e3 = e3
  e4 = e4
  e5 = e5
  e6 = e6
  Elem = {e1, e2, e3, e4, e5, e6}
  Null = Null
  Junk = Junk
  MaxU32 = 11
  DefaultRate = 2
  Compare <- MCCompare
  DefaultCompare <- Rank3
  Capacities = {0, 1}
  Beyond = {}
INVARIANTS
  TypeOK
  MemorySafe
  OrderedButForLoop
  Ownership
PROPERTIES
  LoopsAdvance
  CallsReturn
  ImplementsPriorityQueue
