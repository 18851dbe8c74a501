\* d_array_split whose realloc is refused after the first part was copied out.
SPECIFICATION Spec
CONSTANTS
  e1 = e1
  e2 = e2
  e3 = e3
  e4 = e4
  Elem = {e1, e2, e3}
  h1 = h1
  h2 = h2
  Handle = {h1, h2}
  Null = Null
  Junk = Junk
  MaxU32 = 3
  DefaultRate = 2
  Compare <- MCCompare
  DefaultCompare <- TiedRank
  Capacities = {0, 3}
  Rates = {0}
  Beyond = {"split_oom"}
SYMMETRY MCSymmetry
PROPERTY RefusalsChangeNothing
