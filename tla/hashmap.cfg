\* The calls of hashmap.h within the contract: five elements, two of them equal, in
\* maps of two and three entries whose buckets start with room for two.
SPECIFICATION Spec
CONSTANTS
  e1 = e1
  e2 = e2
  e3 = e3
  e4 = e4
  e5 = e5
  Elem = {e1, e2, e3, e4, e5}
  Null = Null
  Junk = Junk
  MaxU32 = 5
  DefaultRate = 1
  Compare <- MCCompare
  DefaultCompare <- TwoEqual
  Entries = {0, 3}
  DefaultEntries = 2
  Hash <- MCHash
  DefaultHash <- Parity
  Garbage = {0, 5}
  Beyond = {}
INVARIANTS
  TypeOK
  MemorySafe
  Findable
  Ownership
PROPERTIES
  LengthFollows
  ImplementsDictionary
