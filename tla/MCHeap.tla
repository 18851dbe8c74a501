------------------------------- MODULE MCHeap -------------------------------
\* Small instances of Heap for TLC.
EXTENDS Heap, TLC

CONSTANTS e1, e2, e3, e4, e5, e6   \* elements

\* Two ranks with a tie each, and a highest one.
Rank3 == [x \in Elem |-> CASE x \in {e1, e2} -> 1 [] x \in {e3, e4} -> 2 [] OTHER -> 3]
\* Everything ties but one.
Rank2 == [x \in Elem |-> IF x = e1 THEN 2 ELSE 1]

MCCompare == {Rank3, Rank2}
OnlyRank3 == {Rank3}
=============================================================================
