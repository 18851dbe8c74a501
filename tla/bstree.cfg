\* The calls of binary_search_tree.h within the contract, six elements of five ranks.
SPECIFICATION FairSpec
CONSTANTS
  e1 = e1
  e2 = e2
  e3 = e3
  e4 = e4
  e5 = e5
  e6 = e6
  Elem = {e1, e2, e3, e4, e5, e6}
  Null = Null
  MaxU32 = 5
  Compare <- MCCompare
  DefaultCompare <- FiveRanks
  Beyond = {}
INVARIANTS
  TypeOK
  MemorySafe
  Counted
  Linked
  SearchOrder
  LoopsAim
  WalksEverything
  StopsWhenTold
PROPERTIES
  LoopsDescend
  CallsReturn
  ImplementsOrderedSet
