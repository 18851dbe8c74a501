\* Every call of both list libraries within the contract, on two lists of five
\* elements, as many as count can hold.
SPECIFICATION Spec
CONSTANTS
  e1 = e1
  e2 = e2
  e3 = e3
  e4 = e4
  l1 = l1
  l2 = l2
  e5 = e5
  Elem = {e1, e2, e3, e4, e5}
  List = {l1, l2}
  Null = Null
  MaxU32 = 4
  Compare <- MCCompare
  DefaultCompare <- Tied
  Beyond = {}
SYMMETRY Symmetry
INVARIANTS
  TypeOK
  MemorySafe
  Linked
  Ownership
PROPERTIES
  ImplementsLists
