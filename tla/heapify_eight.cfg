\* heapify of eight elements of two ranks, in every order.
SPECIFICATION MergeSpec
CONSTANTS
  e1 = e1
  e2 = e2
  e3 = e3
  e4 = e4
  e5 = e5
  e6 = e6
  e7 = e7
  e8 = e8
  Elem = {e1, e2, e3, e4, e5, e6, e7, e8}
  Null = Null
  Junk = Junk
  MaxU32 = 15
  DefaultRate = 2
  Compare <- TwoRanks
  DefaultCompare <- AllEqual
  Capacities = {0}
  Beyond = {}
  Deal <- Eight
  Lengths = {0, 8}
  Spares = {0}
CHECK_DEADLOCK FALSE
INVARIANT ResultIsHeap
