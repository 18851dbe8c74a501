\* The whole interface within the contract, every call against the call of that name
\* of ArrayADT.  Four elements, three of them equal, and two arrays of at most three
\* slots that grow by one: growth is refused at the limit, and two and two elements
\* do not join.
SPECIFICATION Spec
CONSTANTS
  e1 = e1
  e2 = e2
  e3 = e3
  e4 = e4
  Elem = {e1, e2, e3, e4}
  h1 = h1
  h2 = h2
  Handle = {h1, h2}
  Null = Null
  Junk = Junk
  MaxU32 = 3
  DefaultRate = 1
  Compare <- MCCompare
  DefaultCompare <- TiedRank
  Capacities = {0, 2}
  Rates = {0}
  Beyond = {}
SYMMETRY MCSymmetry
INVARIANTS
  TypeOK
  Sound
  MemorySafe
  Ownership
PROPERTIES
  ImplementsSequences
