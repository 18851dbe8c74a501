\* heapify, merge and meld of at most seven elements, in every order and with
\* every tie.  A call that has returned its result is the end of the run.
SPECIFICATION MergeSpec
CONSTANTS
  e1 = e1
  e2 = e2
  e3 = e3
  e4 = e4
  e5 = e5
  e6 = e6
  e7 = e7
  e8 = e8
  Elem = {e1, e2, e3, e4, e5, e6, e7}
  Null = Null
  Junk = Junk
  MaxU32 = 13
  DefaultRate = 2
  Compare <- ThreeRanks
  DefaultCompare <- AllEqual
  Capacities = {0}
  Beyond = {}
  Deal <- Seven
  Lengths = {0, 1, 2, 3, 4, 5, 6, 7}
  Spares = {0, 1}
CHECK_DEADLOCK FALSE
INVARIANTS
  MergeTypeOK
  MemorySafe
  ResultIsHeap
PROPERTIES
  ElementsKept
  HeapifyReturns
