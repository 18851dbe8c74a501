------------------------------ MODULE MCLists ------------------------------
\* Small instances of Lists for TLC.
EXTENDS Lists, TLC

CONSTANTS e1, e2, e3, e4, e5,   \* elements
          l1, l2                \* the pointers

\* e1 and e2 compare equal, the others differ.
Tied == [x \in Elem |-> IF x \in {e1, e2} THEN {e1, e2} ELSE {x}]
\* All are equal: the ends are found first.
AllEqual == [x \in Elem |-> Elem]
MCCompare == {Tied, AllEqual}

Symmetry == {a @@ b @@ c : a \in Permutations({e1, e2}),
                           b \in Permutations({e3, e4, e5}),
                           c \in Permutations(List)}
=============================================================================
