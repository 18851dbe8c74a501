---------------------------- MODULE MCHeapMerge ----------------------------
\* Small instances of HeapMerge for TLC: every way the elements can compare.
EXTENDS HeapMerge

CONSTANTS e1, e2, e3, e4, e5, e6, e7, e8   \* elements

Seven == <<e1, e2, e3, e4, e5, e6, e7>>
Eight == <<e1, e2, e3, e4, e5, e6, e7, e8>>

TwoRanks == [Elem -> 0..1]
ThreeRanks == [Elem -> 0..2]
AllEqual == [x \in Elem |-> 0]
=============================================================================
