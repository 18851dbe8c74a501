------------------------------ MODULE MCBSTree ------------------------------
\* Small instances of BSTree for TLC.
EXTENDS BSTree

CONSTANTS e1, e2, e3, e4, e5, e6   \* elements

\* Five ranks; e6 compares equal to e3.
FiveRanks == [x \in Elem |-> CASE x = e1 -> 1 [] x = e2 -> 2 [] x = e4 -> 4
                               [] x = e5 -> 5 [] OTHER -> 3]
MCCompare == {FiveRanks}
=============================================================================
