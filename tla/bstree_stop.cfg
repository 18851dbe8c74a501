\* Callbacks that stop an in-order or post-order traversal.
SPECIFICATION Spec
CONSTANTS
  e1 = e1
  e2 = e2
  e3 = e3
  e4 = e4
  e5 = e5
  e6 = e6
  Elem = {e1, e2, e3, e4, e5, e6}
  Null = Null
  MaxU32 = 5
  Compare <- MCCompare
  DefaultCompare <- FiveRanks
  Beyond = {"stop_late"}
INVARIANT StopsWhenTold
