------------------------------ MODULE MCDArray ------------------------------
\* Small instances of DArray for TLC.
EXTENDS DArray, TLC

CONSTANTS e1, e2, e3, e4,   \* the elements
          h1, h2            \* the pointers

\* All elements compare equal but e2, which is greater.
TiedRank == [x \in Elem |-> IF x = e2 THEN 2 ELSE 1]
MCCompare == {TiedRank}

\* The pointers are alike, and so are the elements that compare equal.
MCSymmetry == Permutations(Handle) \cup {p \in Permutations(Elem) : p[e2] = e2}
=============================================================================
