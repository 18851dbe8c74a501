----------------------------- MODULE MCHashMap -----------------------------
\* Small instances of HashMap for TLC.
EXTENDS HashMap

CONSTANTS e1, e2, e3, e4, e5   \* elements

\* e1 and e2 compare equal; the others differ.
TwoEqual == [x \in Elem |-> CASE x = e3 -> 3 [] x = e4 -> 4 [] x = e5 -> 5 [] OTHER -> 1]
MCCompare == {TwoEqual}

\* Four elements collide in a map of two entries, none in a map of three.
Parity == [x \in Elem |-> CASE x = e3 -> 2 [] x = e4 -> 4 [] x = e5 -> 1 [] OTHER -> 0]
MCHash == {Parity}
=============================================================================
