-------------------------- MODULE ListNodesProofs --------------------------
(***************************************************************************)
(* Lemmas about chains of nodes, for any elements and any finite number of *)
(* them.                                                                   *)
(*                                                                         *)
(* Lists are a family of sequences S[l] in which no element occurs twice.  *)
(* A field leads Onward or Back along them.  Walk is a recursive function; *)
(* no induction is needed to reason about it: the sequence in front of     *)
(* every pointer, cut to n elements, solves its equation, and a            *)
(* least-counterexample argument shows that the equation has one solution  *)
(* (StepsUnique).  So a loop ends, and sees the sequence (WalkIs).         *)
(*                                                                         *)
(* Then, for every change of the sequences that a call makes, the lemma    *)
(* that the stores of the call make the fields lead along the new ones.    *)
(***************************************************************************)
EXTENDS ListNodes, SequencesExt, FiniteSetTheorems, SequenceTheorems, WellFoundedInduction, TLAPS
-----------------------------------------------------------------------------
\* Families of sequences: what the lists I hold.
Distinct(I, S) ==
    \A l, m \in I : \A i \in 1..Len(S[l]), j \in 1..Len(S[m]) :
        S[l][i] = S[m][j] => l = m /\ i = j

Family(I, S) == S \in [I -> Seq(Elem)] /\ Distinct(I, S)

\* No element is in two places.
LEMMA SameSpot ==
    ASSUME NEW I, NEW S, Distinct(I, S), NEW l \in I, NEW m \in I,
           NEW i \in 1..Len(S[l]), NEW j \in 1..Len(S[m]), S[l][i] = S[m][j]
    PROVE  l = m /\ i = j
BY DEF Distinct

In(I, S, p) == \E l \in I : \E i \in 1..Len(S[l]) : p = S[l][i]

\* Field f leads from every element to the next one.
Onward(f, I, S) ==
    /\ f \in [Ptr -> Ptr]
    /\ \A l \in I : \A i \in 1..Len(S[l]) :
         f[S[l][i]] = IF i < Len(S[l]) THEN S[l][i + 1] ELSE Null
    /\ \A p \in Ptr : ~In(I, S, p) => f[p] = Null

\* The longest family has no more elements than there are.
LEMMA Short ==
    ASSUME NEW I, NEW S, Family(I, S), NEW l \in I
    PROVE  Len(S[l]) \in Nat /\ Cardinality(Elem) \in Nat /\ Len(S[l]) <= Cardinality(Elem)
<1> DEFINE n == Len(S[l])
           g == [i \in 1..n |-> S[l][i]]
<1>1. n \in Nat /\ \A i \in 1..n : S[l][i] \in Elem
  BY DEF Family
<1>2. g \in [1..n -> Elem] /\ \A i, j \in 1..n : g[i] = g[j] => i = j
  BY <1>1 DEF Family, Distinct
<1>3. g \in Injection(1..n, Elem)
  BY <1>2 DEF Injection, IsInjective
<1>4. IsFiniteSet(1..n) /\ Cardinality(1..n) = n
  BY <1>1, FS_Interval
<1>5. IsFiniteSet(Elem) /\ Cardinality(Elem) \in Nat
  BY ListAssumption, FS_CardinalityType
<1> QED BY <1>1, <1>3, <1>4, <1>5, FS_Injection

\* Induction, as the least counterexample.
LEMMA Least ==
    ASSUME NEW K \in SUBSET Nat, K # {}
    PROVE  \E k \in K : \A j \in K : k <= j
<1>1. PICK k \in K : \A j \in K : ~(<<j, k>> \in OpToRel(<, Nat))
  BY WFMin, NatLessThanWellFounded
<1>2. ASSUME NEW j \in K, j < k
      PROVE  FALSE
  <2> DEFINE e == <<j, k>>
  <2>1. e \in Nat \X Nat /\ e[1] < e[2]
    BY <1>2
  <2>2. e \in OpToRel(<, Nat)
    BY <2>1 DEF OpToRel
  <2> QED BY <1>1, <2>2
<1> QED BY <1>2

\* The equation of the recursion of Walk.
Steps(f, W) ==
    W = [n \in Nat |-> [q \in Ptr |-> IF q = Null \/ n = 0 THEN <<>>
                                      ELSE <<q>> \o W[n - 1][f[q]]]]

\* A solution of it, from the sequence F[q] in front of every pointer q.
Cut(s, n) == [i \in 1..(IF n < Len(s) THEN n ELSE Len(s)) |-> s[i]]
Ahead(f, F) ==
    /\ F \in [Ptr -> Seq(Elem)]
    /\ F[Null] = <<>>
    /\ \A q \in Elem : /\ Len(F[q]) = Len(F[f[q]]) + 1
                       /\ F[q][1] = q
                       /\ \A i \in 1..Len(F[f[q]]) : F[q][i + 1] = F[f[q]][i]

\* The sequences in front of the pointers, cut to length n, solve the equation.
LEMMA CutSteps ==
    ASSUME NEW f \in [Ptr -> Ptr], NEW F, Ahead(f, F)
    PROVE  Steps(f, [n \in Nat |-> [q \in Ptr |-> Cut(F[q], n)]])
<1> DEFINE W == [n \in Nat |-> [q \in Ptr |-> Cut(F[q], n)]]
<1>1. ASSUME NEW n \in Nat, NEW q \in Ptr, q = Null \/ n = 0
      PROVE  Cut(F[q], n) = <<>>
  <2>1. Len(F[q]) \in Nat
    BY DEF Ahead
  <2>2. (IF n < Len(F[q]) THEN n ELSE Len(F[q])) = 0
    BY <1>1, <2>1 DEF Ahead
  <2> QED BY <2>2 DEF Cut
<1>2. ASSUME NEW n \in Nat, NEW q \in Ptr, q # Null, n # 0
      PROVE  Cut(F[q], n) = <<q>> \o Cut(F[f[q]], n - 1)
  <2> DEFINE s == F[q]
             t == F[f[q]]
             c == Cut(t, n - 1)
             d == <<q>> \o c
  <2>1. q \in Elem /\ f[q] \in Ptr /\ s \in Seq(Elem) /\ t \in Seq(Elem) /\ n - 1 \in Nat
    BY <1>2 DEF Ahead, Ptr
  <2>2. /\ Len(s) = Len(t) + 1 /\ s[1] = q /\ \A i \in 1..Len(t) : s[i + 1] = t[i]
    BY <2>1 DEF Ahead
  <2> HIDE DEF s, t
  <2> DEFINE k == IF n - 1 < Len(t) THEN n - 1 ELSE Len(t)
  <2>3. c \in Seq(Elem) /\ Len(c) = k /\ \A i \in 1..k : c[i] = t[i]
    <3>1. k \in Nat /\ \A i \in 1..k : t[i] \in Elem
      BY <2>1
    <3>2. c = [i \in 1..k |-> t[i]]
      BY DEF Cut
    <3> QED BY <3>1, <3>2
  <2> HIDE DEF c
  <2>4. d \in Seq(Elem) /\ Len(d) = k + 1 /\ d[1] = q /\ \A i \in 1..k : d[i + 1] = c[i]
    BY <2>1, <2>3
  <2>5. (IF n < Len(s) THEN n ELSE Len(s)) = k + 1
    BY <2>1, <2>2
  <2> HIDE DEF d, k
  <2>6. Cut(s, n) = [i \in 1..(k + 1) |-> s[i]]
    BY <2>5 DEF Cut
  <2>7. d = [i \in 1..(k + 1) |-> d[i]]
    BY <2>4
  <2>8. k \in Nat /\ k <= Len(t)
    BY <2>1 DEF k
  <2>9. \A i \in 1..(k + 1) : s[i] = d[i]
    <3> TAKE i \in 1..(k + 1)
    <3>1. CASE i = 1
      BY <3>1, <2>2, <2>4
    <3>2. CASE i # 1
      <4>1. i - 1 \in 1..k /\ i - 1 \in 1..Len(t) /\ (i - 1) + 1 = i
        BY <3>2, <2>1, <2>8
      <4> QED BY <4>1, <2>2, <2>3, <2>4
    <3> QED BY <3>1, <3>2
  <2> QED BY <2>6, <2>7, <2>9 DEF s, d, c, t
<1>3. \A n \in Nat, q \in Ptr : W[n][q] = IF q = Null \/ n = 0 THEN <<>>
                                          ELSE <<q>> \o W[n - 1][f[q]]
  <2> TAKE n \in Nat, q \in Ptr
  <2>1. W[n][q] = Cut(F[q], n)
    OBVIOUS
  <2>2. n # 0 => W[n - 1][f[q]] = Cut(F[f[q]], n - 1)
    OBVIOUS
  <2> HIDE DEF W
  <2> QED BY <2>1, <2>2, <1>1, <1>2
<1>4. W = [n \in Nat |-> [q \in Ptr |-> W[n][q]]]
  OBVIOUS
<1> HIDE DEF W
<1> QED BY <1>3, <1>4 DEF Steps, W

\* Two solutions agree.
LEMMA StepsUnique ==
    ASSUME NEW f \in [Ptr -> Ptr], NEW V, NEW W, Steps(f, V), Steps(f, W)
    PROVE  V = W
<1> DEFINE K == {n \in Nat : V[n] # W[n]}
<1>1. ASSUME K # {}
      PROVE  FALSE
  <2>1. PICK n \in K : \A j \in K : n <= j
    BY <1>1, Least
  <2>2. CASE n = 0
    <3>1. V[0] = [q \in Ptr |-> <<>>]
      BY Zenon DEF Steps
    <3>2. W[0] = [q \in Ptr |-> <<>>]
      BY Zenon DEF Steps
    <3> QED BY <2>1, <2>2, <3>1, <3>2
  <2>3. CASE n # 0
    <3>1. n - 1 \in Nat /\ n - 1 \notin K
      BY <2>1, <2>3
    <3>2. V[n - 1] = W[n - 1] /\ n \in Nat
      BY <3>1
    <3>3. V[n] = [q \in Ptr |-> IF q = Null \/ n = 0 THEN <<>> ELSE <<q>> \o V[n - 1][f[q]]]
      BY <3>2, Zenon DEF Steps
    <3>4. W[n] = [q \in Ptr |-> IF q = Null \/ n = 0 THEN <<>> ELSE <<q>> \o W[n - 1][f[q]]]
      BY <3>2, Zenon DEF Steps
    <3> QED BY <2>1, <3>2, <3>3, <3>4
  <2> QED BY <2>2, <2>3
<1>2. V = [n \in Nat |-> V[n]] /\ W = [n \in Nat |-> W[n]]
  BY DEF Steps
<1>3. \A n \in Nat : V[n] = W[n]
  BY <1>1
<1> QED BY <1>2, <1>3

\* So Walk finds the sequence in front of a pointer, if it is not too long.
LEMMA WalkAhead ==
    ASSUME NEW f \in [Ptr -> Ptr], NEW F, Ahead(f, F), NEW p \in Ptr,
           Len(F[p]) <= Cardinality(Elem)
    PROVE  Walk(f, p) = F[p]
<1> DEFINE P(W) == W = [n \in Nat |-> [q \in Ptr |-> IF q = Null \/ n = 0 THEN <<>>
                                                    ELSE <<q>> \o W[n - 1][f[q]]]]
           G == [n \in Nat |-> [q \in Ptr |-> Cut(F[q], n)]]
           V == CHOOSE W : P(W)
           c == Cardinality(Elem)
<1>1. Walk(f, p) = V[c + 1][p]
  BY Zenon DEF Walk
<1>2. P(G)
  BY CutSteps, Zenon DEF Steps
<1>3. P(V)
  BY <1>2, Zenon
<1>4. V = G
  <2>1. Steps(f, V) /\ Steps(f, G)
    BY <1>2, <1>3, Zenon DEF Steps
  <2> HIDE DEF V, G
  <2> QED BY <2>1, StepsUnique
<1> HIDE DEF V
<1>5. c + 1 \in Nat /\ Len(F[p]) < c + 1 /\ F[p] \in Seq(Elem)
  BY ListAssumption, FS_CardinalityType DEF Ahead
<1> HIDE DEF c
<1>6. V[c + 1][p] = Cut(F[p], c + 1)
  BY <1>4, <1>5
<1>7. Cut(F[p], c + 1) = [i \in 1..Len(F[p]) |-> F[p][i]]
  BY <1>5 DEF Cut
<1> QED BY <1>1, <1>5, <1>6, <1>7

\* The end of a sequence, from position i on.
Suffix(s, i) == [j \in 1..(Len(s) - i + 1) |-> s[i + j - 1]]
First(s) == IF Len(s) = 0 THEN Null ELSE s[1]

\* What a suffix holds.
LEMMA SuffixIs ==
    ASSUME NEW s \in Seq(Elem), NEW i \in 1..Len(s)
    PROVE  /\ Suffix(s, i) \in Seq(Elem)
           /\ Len(Suffix(s, i)) = Len(s) - i + 1
           /\ \A j \in 1..(Len(s) - i + 1) : Suffix(s, i)[j] = s[i + j - 1]
           /\ Suffix(s, 1) = s
<1>1. Len(s) - i + 1 \in Nat /\ \A j \in 1..(Len(s) - i + 1) : s[i + j - 1] \in Elem
  OBVIOUS
<1>2. Suffix(s, 1) = s
  <2>1. Len(s) - 1 + 1 = Len(s) /\ \A j \in 1..Len(s) : 1 + j - 1 = j
    OBVIOUS
  <2>2. s = [j \in 1..Len(s) |-> s[j]]
    OBVIOUS
  <2> QED BY <2>1, <2>2 DEF Suffix
<1> QED BY <1>1, <1>2 DEF Suffix

\* A loop along a field that leads onward visits a list from its first node on: the
\* loops end, and see the sequence.
LEMMA WalkIs ==
    ASSUME NEW I, NEW S, NEW f, Family(I, S), Onward(f, I, S), NEW l \in I
    PROVE  Walk(f, First(S[l])) = S[l]
<1> DEFINE Own(q) == CHOOSE m \in I : \E i \in 1..Len(S[m]) : q = S[m][i]
           Pos(q) == CHOOSE i \in 1..Len(S[Own(q)]) : q = S[Own(q)][i]
           F == [q \in Ptr |-> IF In(I, S, q) THEN Suffix(S[Own(q)], Pos(q))
                               ELSE IF q = Null THEN <<>> ELSE <<q>>]
<1>1. ASSUME NEW m \in I, NEW i \in 1..Len(S[m])
      PROVE  /\ In(I, S, S[m][i]) /\ S[m][i] \in Elem /\ S[m] \in Seq(Elem)
             /\ F[S[m][i]] = Suffix(S[m], i)
  <2> DEFINE q == S[m][i]
  <2>1. q \in Elem /\ S[m] \in Seq(Elem) /\ In(I, S, q)
    BY DEF Family, In
  <2>2. Own(q) = m
    BY DEF Family, Distinct
  <2>3. Pos(q) = i
    BY <2>2 DEF Family, Distinct
  <2> HIDE DEF Own, Pos, q
  <2>4. F[q] = Suffix(S[m], i)
    BY <2>1, <2>2, <2>3 DEF Ptr
  <2> QED BY <2>1, <2>4 DEF q
<1>2. Null \notin Elem /\ f \in [Ptr -> Ptr]
  BY ListAssumption DEF Onward
<1>3. ASSUME NEW q \in Ptr, ~In(I, S, q)
      PROVE  F[q] = IF q = Null THEN <<>> ELSE <<q>>
  BY <1>3
<1>4. \A q \in Ptr : In(I, S, q) => \E m \in I : \E i \in 1..Len(S[m]) : q = S[m][i]
  BY DEF In
<1>5. ~In(I, S, Null)
  BY <1>1, <1>2 DEF In
<1>f. F = [q \in Ptr |-> F[q]]
  OBVIOUS
<1> HIDE DEF F
<1>6. F[Null] = <<>>
  BY <1>3, <1>5 DEF Ptr
<1>7. ASSUME NEW q \in Ptr
      PROVE  F[q] \in Seq(Elem)
  <2>1. CASE In(I, S, q)
    <3>1. PICK m \in I : \E i \in 1..Len(S[m]) : q = S[m][i]
      BY <1>4, <2>1
    <3>2. PICK i \in 1..Len(S[m]) : q = S[m][i]
      BY <3>1
    <3> QED BY <3>2, <1>1, SuffixIs
  <2>2. CASE ~In(I, S, q)
    <3>1. <<>> \in Seq(Elem) /\ (q # Null => <<q>> \in Seq(Elem))
      BY DEF Ptr
    <3> QED BY <2>2, <1>3, <3>1
  <2> QED BY <2>1, <2>2
<1>8. ASSUME NEW q \in Elem
      PROVE  /\ Len(F[q]) = Len(F[f[q]]) + 1
             /\ F[q][1] = q
             /\ \A i \in 1..Len(F[f[q]]) : F[q][i + 1] = F[f[q]][i]
  <2>1. CASE In(I, S, q)
    <3>1. PICK m \in I : \E i \in 1..Len(S[m]) : q = S[m][i]
      BY <1>4, <2>1 DEF Ptr
    <3>2. PICK i \in 1..Len(S[m]) : q = S[m][i]
      BY <3>1
    <3> DEFINE s == S[m]
    <3>3. s \in Seq(Elem) /\ F[q] = Suffix(s, i) /\ i \in 1..Len(s) /\ q = s[i]
      BY <3>2, <1>1
    <3>4. f[q] = IF i < Len(s) THEN s[i + 1] ELSE Null
      BY <3>2 DEF Onward
    <3>5. i < Len(s) => F[f[q]] = Suffix(s, i + 1)
      <4>1. SUFFICES ASSUME i < Len(s) PROVE F[f[q]] = Suffix(s, i + 1)
        OBVIOUS
      <4>2. i + 1 \in 1..Len(S[m])
        BY <4>1, <3>3
      <4>3. f[q] = S[m][i + 1]
        BY <3>4, <4>1
      <4> QED BY <4>2, <4>3, <1>1
    <3> HIDE DEF s
    <3>6. CASE i < Len(s)
      <4>1. i + 1 \in 1..Len(s)
        BY <3>3, <3>6
      <4>2. /\ Len(Suffix(s, i)) = Len(s) - i + 1
            /\ \A j \in 1..(Len(s) - i + 1) : Suffix(s, i)[j] = s[i + j - 1]
            /\ Len(Suffix(s, i + 1)) = Len(s) - (i + 1) + 1
            /\ \A j \in 1..(Len(s) - (i + 1) + 1) : Suffix(s, i + 1)[j] = s[(i + 1) + j - 1]
        BY <3>3, <4>1, SuffixIs
      <4>3. ASSUME NEW j \in 1..(Len(s) - (i + 1) + 1)
            PROVE  Suffix(s, i)[j + 1] = Suffix(s, i + 1)[j]
        <5>1. j + 1 \in 1..(Len(s) - i + 1) /\ i + (j + 1) - 1 = (i + 1) + j - 1
          BY <3>3
        <5> QED BY <4>2, <5>1
      <4>4. Suffix(s, i)[1] = s[i]
        <5>1. 1 \in 1..(Len(s) - i + 1) /\ i + 1 - 1 = i
          BY <3>3
        <5> QED BY <4>2, <5>1
      <4>5. Len(s) - i + 1 = (Len(s) - (i + 1) + 1) + 1
        BY <3>3
      <4> QED BY <3>3, <3>5, <3>6, <4>2, <4>3, <4>4, <4>5
    <3>7. CASE ~(i < Len(s))
      <4>1. i = Len(s) /\ Len(s) - i + 1 = 1 /\ i + 1 - 1 = i
        BY <3>3, <3>7
      <4>2. Len(Suffix(s, i)) = 1 /\ Suffix(s, i)[1] = s[i]
        <5>1. /\ Len(Suffix(s, i)) = Len(s) - i + 1
              /\ \A j \in 1..(Len(s) - i + 1) : Suffix(s, i)[j] = s[i + j - 1]
          BY <3>3, SuffixIs
        <5>2. 1 \in 1..(Len(s) - i + 1)
          BY <4>1
        <5> QED BY <5>1, <5>2, <4>1
      <4> QED BY <3>3, <3>4, <3>7, <4>2, <1>6
    <3> QED BY <3>6, <3>7
  <2>2. CASE ~In(I, S, q)
    <3>1. F[q] = <<q>> /\ f[q] = Null
      BY <2>2, <1>2, <1>3 DEF Ptr, Onward
    <3> QED BY <3>1, <1>6
  <2> QED BY <2>1, <2>2
<1>9. Ahead(f, F)
  BY <1>6, <1>7, <1>8, <1>f DEF Ahead
<1>10. First(S[l]) \in Ptr /\ F[First(S[l])] = S[l]
  <2>1. S[l] \in Seq(Elem)
    BY DEF Family
  <2>2. CASE Len(S[l]) = 0
    BY <2>1, <2>2, <1>6 DEF First, Ptr
  <2>3. CASE Len(S[l]) # 0
    <3>1. 1 \in 1..Len(S[l])
      BY <2>1, <2>3
    <3> QED BY <2>1, <2>3, <3>1, <1>1, SuffixIs DEF First, Ptr
  <2> QED BY <2>2, <2>3
<1> QED BY <1>2, <1>9, <1>10, Short, WalkAhead

-----------------------------------------------------------------------------
\* Parts of sequences, and sequences put together.
LEMMA PartIs ==
    ASSUME NEW s \in Seq(Elem), NEW a \in 1..(Len(s) + 1), NEW b \in (a - 1)..Len(s)
    PROVE  /\ SubSeq(s, a, b) \in Seq(Elem) /\ Len(SubSeq(s, a, b)) = b - a + 1
           /\ \A i \in 1..(b - a + 1) : SubSeq(s, a, b)[i] = s[a + i - 1]
<1>1. a \in Int /\ b \in Int /\ Len(s) \in Nat /\ \A i \in a..b : s[i] \in Elem
  OBVIOUS
<1>2. /\ SubSeq(s, a, b) \in Seq(Elem)
      /\ Len(SubSeq(s, a, b)) = IF a <= b THEN b - a + 1 ELSE 0
      /\ \A i \in 1..(b - a + 1) : SubSeq(s, a, b)[i] = s[a + i - 1]
  BY <1>1, SubSeqProperties
<1> QED BY <1>1, <1>2

\* What s and t, one behind the other, hold.
LEMMA GlueIs ==
    ASSUME NEW s \in Seq(Elem), NEW t \in Seq(Elem)
    PROVE  /\ s \o t \in Seq(Elem) /\ Len(s \o t) = Len(s) + Len(t)
           /\ \A i \in 1..(Len(s) + Len(t)) :
                (s \o t)[i] = IF i <= Len(s) THEN s[i] ELSE t[i - Len(s)]
BY ConcatProperties

\* s without its elements from position a to position b.
Without(s, a, b) == SubSeq(s, 1, a - 1) \o SubSeq(s, b + 1, Len(s))

\* What is left of s without a part.
LEMMA WithoutIs ==
    ASSUME NEW s \in Seq(Elem), NEW a \in 1..Len(s), NEW b \in a..Len(s)
    PROVE  /\ Without(s, a, b) \in Seq(Elem)
           /\ Len(Without(s, a, b)) = Len(s) - (b - a + 1)
           /\ \A i \in 1..(Len(s) - (b - a + 1)) :
                Without(s, a, b)[i] = IF i < a THEN s[i] ELSE s[i + (b - a + 1)]
<1> DEFINE u == SubSeq(s, 1, a - 1)
           v == SubSeq(s, b + 1, Len(s))
<1>0. a \in Nat /\ b \in Nat /\ Len(s) \in Nat /\ 1 <= a /\ a <= b /\ b <= Len(s)
  OBVIOUS
<1>1. u \in Seq(Elem) /\ Len(u) = a - 1 /\ \A i \in 1..(a - 1) : u[i] = s[i]
  <2>1. 1 \in 1..(Len(s) + 1) /\ a - 1 \in (1 - 1)..Len(s)
    BY <1>0
  <2>2. /\ u \in Seq(Elem) /\ Len(u) = (a - 1) - 1 + 1
        /\ \A i \in 1..((a - 1) - 1 + 1) : u[i] = s[1 + i - 1]
    BY <2>1, PartIs
  <2> QED BY <2>2, <1>0
<1>2. v \in Seq(Elem) /\ Len(v) = Len(s) - b /\ \A i \in 1..(Len(s) - b) : v[i] = s[b + i]
  <2>1. b + 1 \in 1..(Len(s) + 1) /\ Len(s) \in ((b + 1) - 1)..Len(s)
    BY <1>0
  <2>2. /\ v \in Seq(Elem) /\ Len(v) = Len(s) - (b + 1) + 1
        /\ \A i \in 1..(Len(s) - (b + 1) + 1) : v[i] = s[(b + 1) + i - 1]
    BY <2>1, PartIs
  <2> QED BY <2>2, <1>0
<1>3. Without(s, a, b) = u \o v
  BY DEF Without
<1> HIDE DEF u, v
<1>4. /\ u \o v \in Seq(Elem) /\ Len(u \o v) = Len(u) + Len(v)
      /\ \A i \in 1..(Len(u) + Len(v)) : (u \o v)[i] = IF i <= Len(u) THEN u[i] ELSE v[i - Len(u)]
  BY <1>1, <1>2, GlueIs
<1>5. Len(u) + Len(v) = Len(s) - (b - a + 1)
  BY <1>0, <1>1, <1>2
<1>6. ASSUME NEW i \in 1..(Len(s) - (b - a + 1))
      PROVE  (u \o v)[i] = IF i < a THEN s[i] ELSE s[i + (b - a + 1)]
  <2>1. CASE i < a
    <3>1. i <= a - 1 /\ i \in 1..(a - 1)
      BY <2>1, <1>0
    <3> QED BY <2>1, <3>1, <1>1, <1>4, <1>5
  <2>2. CASE ~(i < a)
    <3>1. /\ ~(i <= a - 1) /\ i - (a - 1) \in 1..(Len(s) - b)
          /\ b + (i - (a - 1)) = i + (b - a + 1)
      BY <2>2, <1>0
    <3> QED BY <2>2, <3>1, <1>1, <1>2, <1>4, <1>5
  <2> QED BY <2>1, <2>2
<1> QED BY <1>3, <1>4, <1>5, <1>6

\* What RemoveAt returns.
LEMMA RemoveAtIs ==
    ASSUME NEW s \in Seq(Elem), NEW k \in 1..Len(s)
    PROVE  /\ RemoveAt(s, k) \in Seq(Elem) /\ Len(RemoveAt(s, k)) = Len(s) - 1
           /\ \A i \in 1..(Len(s) - 1) : RemoveAt(s, k)[i] = IF i < k THEN s[i] ELSE s[i + 1]
<1>1. k \in k..Len(s) /\ k - k + 1 = 1
  OBVIOUS
<1>2. RemoveAt(s, k) = Without(s, k, k)
  BY DEF RemoveAt, Without
<1>3. /\ Without(s, k, k) \in Seq(Elem)
      /\ Len(Without(s, k, k)) = Len(s) - (k - k + 1)
      /\ \A i \in 1..(Len(s) - (k - k + 1)) :
           Without(s, k, k)[i] = IF i < k THEN s[i] ELSE s[i + (k - k + 1)]
  BY <1>1, WithoutIs
<1> QED BY <1>1, <1>2, <1>3

\* What InsertAt returns.
LEMMA InsertAtIs ==
    ASSUME NEW s \in Seq(Elem), NEW k \in 1..(Len(s) + 1), NEW x \in Elem
    PROVE  /\ InsertAt(s, k, x) \in Seq(Elem) /\ Len(InsertAt(s, k, x)) = Len(s) + 1
           /\ \A i \in 1..(Len(s) + 1) :
                InsertAt(s, k, x)[i] = IF i < k THEN s[i] ELSE IF i = k THEN x ELSE s[i - 1]
<1> DEFINE u == SubSeq(s, 1, k - 1)
           v == SubSeq(s, k, Len(s))
           w == <<x>>
<1>0. k \in Nat /\ Len(s) \in Nat /\ 1 <= k /\ k <= Len(s) + 1
  OBVIOUS
<1>1. u \in Seq(Elem) /\ Len(u) = k - 1 /\ \A i \in 1..(k - 1) : u[i] = s[i]
  <2>1. 1 \in 1..(Len(s) + 1) /\ k - 1 \in (1 - 1)..Len(s)
    BY <1>0
  <2>2. /\ u \in Seq(Elem) /\ Len(u) = (k - 1) - 1 + 1
        /\ \A i \in 1..((k - 1) - 1 + 1) : u[i] = s[1 + i - 1]
    BY <2>1, PartIs
  <2> QED BY <2>2, <1>0
<1>2. v \in Seq(Elem) /\ Len(v) = Len(s) - k + 1 /\ \A i \in 1..(Len(s) - k + 1) : v[i] = s[k + i - 1]
  <2>1. Len(s) \in (k - 1)..Len(s)
    BY <1>0
  <2> QED BY <2>1, PartIs
<1>3. w \in Seq(Elem) /\ Len(w) = 1 /\ w[1] = x
  OBVIOUS
<1>4. InsertAt(s, k, x) = (u \o w) \o v
  BY DEF InsertAt
<1> HIDE DEF u, v, w
<1>5. /\ u \o w \in Seq(Elem) /\ Len(u \o w) = k
      /\ \A i \in 1..k : (u \o w)[i] = IF i < k THEN s[i] ELSE x
  <2>1. /\ u \o w \in Seq(Elem) /\ Len(u \o w) = Len(u) + Len(w)
        /\ \A i \in 1..(Len(u) + Len(w)) :
             (u \o w)[i] = IF i <= Len(u) THEN u[i] ELSE w[i - Len(u)]
    BY <1>1, <1>3, GlueIs
  <2>2. Len(u) + Len(w) = k
    BY <1>0, <1>1, <1>3
  <2>3. ASSUME NEW i \in 1..k
        PROVE  (u \o w)[i] = IF i < k THEN s[i] ELSE x
    <3>1. i < k => i <= k - 1 /\ i \in 1..(k - 1)
      BY <1>0
    <3>2. ~(i < k) => i - (k - 1) = 1 /\ ~(i <= k - 1)
      BY <1>0
    <3> QED BY <2>1, <2>2, <3>1, <3>2, <1>1, <1>3
  <2> QED BY <2>1, <2>2, <2>3
<1> DEFINE t == u \o w
<1> HIDE DEF t
<1>6. t \in Seq(Elem) /\ Len(t) = k /\ \A i \in 1..k : t[i] = IF i < k THEN s[i] ELSE x
  BY <1>5 DEF t
<1>7. /\ t \o v \in Seq(Elem) /\ Len(t \o v) = Len(t) + Len(v)
      /\ \A i \in 1..(Len(t) + Len(v)) :
           (t \o v)[i] = IF i <= Len(t) THEN t[i] ELSE v[i - Len(t)]
  BY <1>2, <1>6, GlueIs
<1>8. Len(t) + Len(v) = Len(s) + 1
  BY <1>0, <1>2, <1>6
<1>9. ASSUME NEW i \in 1..(Len(s) + 1)
      PROVE  (t \o v)[i] = IF i < k THEN s[i] ELSE IF i = k THEN x ELSE s[i - 1]
  <2>1. CASE i <= k
    <3>1. i \in 1..k
      BY <2>1, <1>0
    <3> QED BY <2>1, <3>1, <1>0, <1>6, <1>7, <1>8
  <2>2. CASE ~(i <= k)
    <3>1. i - k \in 1..(Len(s) - k + 1) /\ k + (i - k) - 1 = i - 1 /\ ~(i < k) /\ i # k
      BY <2>2, <1>0
    <3> QED BY <2>2, <3>1, <1>2, <1>6, <1>7, <1>8
  <2> QED BY <2>1, <2>2
<1> QED BY <1>4, <1>7, <1>8, <1>9 DEF t

-----------------------------------------------------------------------------
\* Field f leads from every element to the one before.
Back(f, I, S) ==
    /\ f \in [Ptr -> Ptr]
    /\ \A l \in I : \A i \in 1..Len(S[l]) :
         f[S[l][i]] = IF 1 < i THEN S[l][i - 1] ELSE Null
    /\ \A p \in Ptr : ~In(I, S, p) => f[p] = Null

\* The neighbours of position k.
Before(s, k) == IF 1 < k THEN s[k - 1] ELSE Null
After(s, k) == IF k < Len(s) THEN s[k + 1] ELSE Null
At(s, k) == IF k <= Len(s) THEN s[k] ELSE Null

\* x comes in at position k of sequence l.
Entered(I, S, T, l, k, x) ==
    /\ T \in [I -> Seq(Elem)]
    /\ \A m \in I : m # l => T[m] = S[m]
    /\ Len(T[l]) = Len(S[l]) + 1
    /\ \A i \in 1..(Len(S[l]) + 1) :
         T[l][i] = IF i < k THEN S[l][i] ELSE IF i = k THEN x ELSE S[l][i - 1]

\* With a new element the sequences stay distinct.
LEMMA Enters ==
    ASSUME NEW I, NEW S, NEW T, NEW l \in I, NEW k \in 1..(Len(S[l]) + 1), NEW x \in Elem,
           Family(I, S), ~In(I, S, x), Entered(I, S, T, l, k, x)
    PROVE  /\ Family(I, T)
           /\ \A p : In(I, T, p) <=> In(I, S, p) \/ p = x
<1> DEFINE n == Len(S[l])
           old(m, i) == IF m = l /\ k < i THEN i - 1 ELSE i
           new(m, i) == IF m = l /\ k <= i THEN i + 1 ELSE i
<1>1. n \in Nat /\ k \in Nat /\ 1 <= k /\ k <= n + 1 /\ S \in [I -> Seq(Elem)] /\ T \in [I -> Seq(Elem)]
  BY DEF Family, Entered
<1>2. ASSUME NEW m \in I, NEW i \in 1..Len(T[m]), ~(m = l /\ i = k)
      PROVE  old(m, i) \in 1..Len(S[m]) /\ T[m][i] = S[m][old(m, i)]
  BY <1>1, <1>2 DEF Entered
<1>3. ASSUME NEW m \in I, NEW i \in 1..Len(S[m])
      PROVE  new(m, i) \in 1..Len(T[m]) /\ T[m][new(m, i)] = S[m][i]
  <2>1. CASE m = l
    <3>1. i \in Nat /\ 1 <= i /\ i <= n
      BY <2>1, <1>1
    <3>2. new(m, i) \in 1..(n + 1)
      BY <3>1, <1>1
    <3>3. CASE k <= i
      <4>1. i + 1 \in 1..(n + 1) /\ ~(i + 1 < k) /\ i + 1 # k /\ (i + 1) - 1 = i /\ new(m, i) = i + 1
        BY <3>1, <3>3, <1>1, <2>1
      <4> QED BY <2>1, <3>2, <4>1 DEF Entered
    <3>4. CASE ~(k <= i)
      <4>1. i \in 1..(n + 1) /\ i < k /\ new(m, i) = i
        BY <3>1, <3>4, <1>1
      <4> QED BY <2>1, <3>2, <4>1 DEF Entered
    <3> QED BY <3>3, <3>4
  <2>2. CASE m # l
    BY <2>2 DEF Entered
  <2> QED BY <2>1, <2>2
<1>4. k \in 1..Len(T[l]) /\ T[l][k] = x
  BY <1>1 DEF Entered
<1>5. \A m \in I : \A i \in 1..Len(S[m]) : S[m][i] # x
  BY DEF In
<1>6. ASSUME NEW m \in I, NEW o \in I, NEW i \in 1..Len(T[m]), NEW j \in 1..Len(T[o]),
             T[m][i] = T[o][j]
      PROVE  m = o /\ i = j
  <2>1. CASE m = l /\ i = k
    <3>1. ~(o = l /\ j = k) => FALSE
      BY <1>2, <1>4, <1>5, <1>6, <2>1
    <3> QED BY <2>1, <3>1
  <2>2. CASE o = l /\ j = k
    <3>1. ~(m = l /\ i = k) => FALSE
      BY <1>2, <1>4, <1>5, <1>6, <2>2
    <3> QED BY <2>2, <3>1
  <2>3. CASE ~(m = l /\ i = k) /\ ~(o = l /\ j = k)
    <3>1. old(m, i) \in 1..Len(S[m]) /\ T[m][i] = S[m][old(m, i)]
      BY <1>2, <2>3
    <3>2. old(o, j) \in 1..Len(S[o]) /\ T[o][j] = S[o][old(o, j)]
      BY <1>2, <2>3
    <3>3. m = o /\ old(m, i) = old(o, j)
      <4>1. S[m][old(m, i)] = S[o][old(o, j)]
        BY <1>6, <3>1, <3>2
      <4> HIDE DEF old
      <4> QED BY <4>1, <3>1, <3>2 DEF Family, Distinct
    <3> QED BY <1>1, <2>3, <3>3
  <2> QED BY <2>1, <2>2, <2>3
<1>7. Family(I, T)
  BY <1>1, <1>6 DEF Family, Distinct
<1> HIDE DEF old, new
<1>8. ASSUME NEW p
      PROVE  In(I, T, p) <=> In(I, S, p) \/ p = x
  <2>1. In(I, T, p) => In(I, S, p) \/ p = x
    BY <1>2, <1>4 DEF In
  <2>2. In(I, S, p) => In(I, T, p)
    BY <1>3 DEF In
  <2> QED BY <2>1, <2>2, <1>4 DEF In
<1> QED BY <1>7, <1>8

\* And a field that leads onward still does, if it leads to x and from x on, ...
LEMMA EntersOnward ==
    ASSUME NEW I, NEW S, NEW T, NEW l \in I, NEW k \in 1..(Len(S[l]) + 1), NEW x \in Elem,
           Family(I, S), ~In(I, S, x), Entered(I, S, T, l, k, x),
           NEW f, Onward(f, I, S), NEW g \in [Ptr -> Ptr], g[Null] = Null,
           \A y \in Elem : g[y] = IF y = x THEN At(S[l], k)
                                  ELSE IF y = Before(S[l], k) THEN x ELSE f[y]
    PROVE  Onward(g, I, T)
<1> DEFINE n == Len(S[l])
<1>1. n \in Nat /\ k \in Nat /\ 1 <= k /\ k <= n + 1 /\ S \in [I -> Seq(Elem)] /\ T \in [I -> Seq(Elem)]
      /\ Null \notin Elem
  BY ListAssumption DEF Family, Entered
<1>2. Family(I, T) /\ \A p : In(I, T, p) <=> In(I, S, p) \/ p = x
  BY Enters
<1>3. \A m \in I : \A i \in 1..Len(S[m]) : S[m][i] \in Elem /\ S[m][i] # x
  BY <1>1 DEF In
<1>4. ASSUME NEW m \in I, NEW i \in 1..Len(T[m]), m # l
      PROVE  g[T[m][i]] = IF i < Len(T[m]) THEN T[m][i + 1] ELSE Null
  <2>1. T[m] = S[m]
    BY <1>4 DEF Entered
  <2>2. S[m][i] # Before(S[l], k)
    <3>1. 1 < k => k - 1 \in 1..n
      BY <1>1
    <3> QED BY <3>1, <1>1, <1>3, <1>4, <2>1 DEF Family, Distinct, Before
  <2> QED BY <2>1, <2>2, <1>3 DEF Onward
<1>5. ASSUME NEW i \in 1..Len(T[l])
      PROVE  g[T[l][i]] = IF i < Len(T[l]) THEN T[l][i + 1] ELSE Null
  <2>0. Len(T[l]) = n + 1 /\ i \in Nat /\ 1 <= i /\ i <= n + 1 /\ i \in 1..(n + 1)
        /\ \A j \in 1..(n + 1) : T[l][j] = IF j < k THEN S[l][j] ELSE IF j = k THEN x ELSE S[l][j - 1]
    BY <1>1 DEF Entered
  <2>1. CASE i = k
    <3>1. T[l][i] = x /\ g[x] = At(S[l], k)
      BY <2>0, <2>1
    <3>2. k <= n => k + 1 \in 1..(n + 1) /\ ~(k + 1 < k) /\ k + 1 # k /\ (k + 1) - 1 = k
      BY <1>1
    <3>3. k <= n => T[l][k + 1] = S[l][k]
      BY <2>0, <3>2
    <3> QED BY <2>0, <2>1, <3>1, <3>3, <1>1 DEF At
  <2>2. CASE i + 1 = k
    <3>1. T[l][i] = S[l][i] /\ Before(S[l], k) = S[l][i] /\ i \in 1..n
      <4>1. 1 < k /\ k - 1 = i /\ i < k /\ i \in 1..n
        BY <1>1, <2>0, <2>2
      <4> QED BY <2>0, <4>1 DEF Before
    <3>2. g[S[l][i]] = x
      BY <3>1, <1>3
    <3>3. i < n + 1 /\ i + 1 \in 1..(n + 1)
      BY <1>1, <2>0, <2>2
    <3> QED BY <2>0, <2>2, <3>1, <3>2, <3>3
  <2>3. CASE i # k /\ i + 1 # k
    <3> DEFINE j == IF i < k THEN i ELSE i - 1
    <3>1. j \in 1..n /\ T[l][i] = S[l][j] /\ j # k - 1
      <4>1. T[l][i] = S[l][j]
        BY <2>0, <2>3
      <4>2. j \in 1..n /\ j # k - 1
        BY <1>1, <2>0, <2>3
      <4> QED BY <4>1, <4>2
    <3>2. S[l][j] # Before(S[l], k)
      <4>1. 1 < k => k - 1 \in 1..n
        BY <1>1
      <4> QED BY <4>1, <1>1, <1>3, <3>1 DEF Family, Distinct, Before
    <3>3. g[S[l][j]] = IF j < n THEN S[l][j + 1] ELSE Null
      BY <3>1, <3>2, <1>3 DEF Onward
    <3>4. (j < n <=> i < n + 1) /\ (j < n => i + 1 \in 1..(n + 1) /\ j + 1 = IF i + 1 < k THEN i + 1 ELSE (i + 1) - 1)
      <4>1. CASE i < k
        <5>1. j = i /\ i + 1 < k
          BY <4>1, <1>1, <2>0, <2>3
        <5> HIDE DEF j
        <5> QED BY <5>1, <1>1, <2>0
      <4>2. CASE ~(i < k)
        <5>1. j = i - 1 /\ ~(i + 1 < k)
          BY <4>2, <1>1, <2>0, <2>3
        <5> HIDE DEF j
        <5> QED BY <5>1, <1>1, <2>0
      <4> QED BY <4>1, <4>2
    <3>5. j < n => T[l][i + 1] = S[l][j + 1]
      BY <2>0, <2>3, <3>4
    <3> HIDE DEF j
    <3> QED BY <2>0, <3>1, <3>3, <3>4, <3>5
  <2> QED BY <2>1, <2>2, <2>3
<1>6. ASSUME NEW p \in Ptr, ~In(I, T, p)
      PROVE  g[p] = Null
  <2>1. ~In(I, S, p) /\ p # x
    BY <1>2, <1>6
  <2>2. CASE p = Null
    BY <2>2
  <2>3. CASE p # Null
    <3>1. p \in Elem /\ f[p] = Null
      BY <2>1, <2>3 DEF Ptr, Onward
    <3>2. p # Before(S[l], k)
      <4>1. 1 < k => k - 1 \in 1..n
        BY <1>1
      <4> QED BY <4>1, <2>1, <2>3 DEF In, Before
    <3> QED BY <2>1, <3>1, <3>2
  <2> QED BY <2>2, <2>3
<1> QED BY <1>4, <1>5, <1>6 DEF Onward

\* ... and one that leads back, if it does the same the other way round.
LEMMA EntersBack ==
    ASSUME NEW I, NEW S, NEW T, NEW l \in I, NEW k \in 1..(Len(S[l]) + 1), NEW x \in Elem,
           Family(I, S), ~In(I, S, x), Entered(I, S, T, l, k, x),
           NEW f, Back(f, I, S), NEW g \in [Ptr -> Ptr], g[Null] = Null,
           \A y \in Elem : g[y] = IF y = x THEN Before(S[l], k)
                                  ELSE IF y = At(S[l], k) THEN x ELSE f[y]
    PROVE  Back(g, I, T)
<1> DEFINE n == Len(S[l])
<1>1. n \in Nat /\ k \in Nat /\ 1 <= k /\ k <= n + 1 /\ S \in [I -> Seq(Elem)] /\ T \in [I -> Seq(Elem)]
      /\ Null \notin Elem
  BY ListAssumption DEF Family, Entered
<1>2. Family(I, T) /\ \A p : In(I, T, p) <=> In(I, S, p) \/ p = x
  BY Enters
<1>3. \A m \in I : \A i \in 1..Len(S[m]) : S[m][i] \in Elem /\ S[m][i] # x
  BY <1>1 DEF In
<1>a. k <= n => k \in 1..n
  BY <1>1
<1>4. ASSUME NEW m \in I, NEW i \in 1..Len(T[m]), m # l
      PROVE  g[T[m][i]] = IF 1 < i THEN T[m][i - 1] ELSE Null
  <2>1. T[m] = S[m]
    BY <1>4 DEF Entered
  <2>2. S[m][i] # At(S[l], k)
    BY <1>a, <1>1, <1>3, <1>4, <2>1 DEF Family, Distinct, At
  <2> QED BY <2>1, <2>2, <1>3 DEF Back
<1>5. ASSUME NEW i \in 1..Len(T[l])
      PROVE  g[T[l][i]] = IF 1 < i THEN T[l][i - 1] ELSE Null
  <2>0. Len(T[l]) = n + 1 /\ i \in Nat /\ 1 <= i /\ i <= n + 1 /\ i \in 1..(n + 1)
        /\ \A j \in 1..(n + 1) : T[l][j] = IF j < k THEN S[l][j] ELSE IF j = k THEN x ELSE S[l][j - 1]
    BY <1>1 DEF Entered
  <2>1. CASE i = k
    <3>1. T[l][i] = x /\ g[x] = Before(S[l], k)
      BY <2>0, <2>1
    <3>2. 1 < k => k - 1 \in 1..(n + 1) /\ k - 1 < k
      BY <1>1
    <3>3. 1 < k => T[l][k - 1] = S[l][k - 1]
      BY <2>0, <3>2
    <3> QED BY <2>0, <2>1, <3>1, <3>3, <1>1 DEF Before
  <2>2. CASE i = k + 1
    <3>1. i - 1 = k /\ k \in 1..n /\ ~(i < k) /\ i # k /\ k <= n /\ 1 < i /\ k \in 1..(n + 1)
      BY <1>1, <2>0, <2>2
    <3>2. T[l][i] = S[l][k] /\ At(S[l], k) = S[l][k] /\ T[l][k] = x
      BY <2>0, <3>1 DEF At
    <3>3. g[S[l][k]] = x
      BY <3>1, <3>2, <1>3
    <3> QED BY <3>1, <3>2, <3>3
  <2>3. CASE i # k /\ i # k + 1
    <3> DEFINE j == IF i < k THEN i ELSE i - 1
    <3>1. j \in 1..n /\ T[l][i] = S[l][j] /\ j # k
      BY <1>1, <2>0, <2>3
    <3>2. S[l][j] # At(S[l], k)
      BY <1>a, <1>1, <1>3, <3>1 DEF Family, Distinct, At
    <3>3. g[S[l][j]] = IF 1 < j THEN S[l][j - 1] ELSE Null
      BY <3>1, <3>2, <1>3 DEF Back
    <3>4. (1 < j <=> 1 < i) /\ (1 < i => i - 1 \in 1..(n + 1) /\ i - 1 # k /\ j - 1 = IF i - 1 < k THEN i - 1 ELSE (i - 1) - 1)
      BY <1>1, <2>0, <2>3
    <3>5. 1 < i => T[l][i - 1] = S[l][j - 1]
      BY <2>0, <2>3, <3>4
    <3> HIDE DEF j
    <3> QED BY <2>0, <3>1, <3>3, <3>4, <3>5
  <2> QED BY <2>1, <2>2, <2>3
<1>6. ASSUME NEW p \in Ptr, ~In(I, T, p)
      PROVE  g[p] = Null
  <2>1. ~In(I, S, p) /\ p # x
    BY <1>2, <1>6
  <2>2. CASE p = Null
    BY <2>2
  <2>3. CASE p # Null
    <3>1. p \in Elem /\ f[p] = Null
      BY <2>1, <2>3 DEF Ptr, Back
    <3>2. p # At(S[l], k)
      BY <1>a, <2>1, <2>3 DEF In, At
    <3> QED BY <2>1, <3>1, <3>2
  <2> QED BY <2>2, <2>3
<1> QED BY <1>4, <1>5, <1>6 DEF Back

-----------------------------------------------------------------------------
\* Onward and Back, on the elements alone.
Leads(f, I, S) ==
    \A l \in I : \A i \in 1..Len(S[l]) :
        f[S[l][i]] = IF i < Len(S[l]) THEN S[l][i + 1] ELSE Null
Returns(f, I, S) ==
    \A l \in I : \A i \in 1..Len(S[l]) :
        f[S[l][i]] = IF 1 < i THEN S[l][i - 1] ELSE Null

\* Positions a to b of sequence l go.
Parted(I, S, T, l, a, b) ==
    /\ T \in [I -> Seq(Elem)]
    /\ \A m \in I : m # l => T[m] = S[m]
    /\ Len(T[l]) = Len(S[l]) - (b - a + 1)
    /\ \A i \in 1..(Len(S[l]) - (b - a + 1)) :
         T[l][i] = IF i < a THEN S[l][i] ELSE S[l][i + (b - a + 1)]

\* On the elements of T, field g is field f, except that p leads to v.
Past(g, f, I, T, p, v) ==
    \A y \in Elem : In(I, T, y) => g[y] = IF y = p THEN v ELSE f[y]

Part(s, a, b) == {s[i] : i \in a..b}

\* Without a part the sequences stay distinct.
LEMMA Parts ==
    ASSUME NEW I, NEW S, NEW T, NEW l \in I, NEW a \in 1..Len(S[l]), NEW b \in a..Len(S[l]),
           Family(I, S), Parted(I, S, T, l, a, b)
    PROVE  /\ Family(I, T)
           /\ \A p : In(I, T, p) <=> In(I, S, p) /\ p \notin Part(S[l], a, b)
<1> DEFINE n == Len(S[l])
           d == b - a + 1
           old(m, i) == IF m = l /\ a <= i THEN i + d ELSE i
           new(m, i) == IF m = l /\ b < i THEN i - d ELSE i
<1>1. n \in Nat /\ a \in Nat /\ b \in Nat /\ 1 <= a /\ a <= b /\ b <= n /\ d \in Nat
      /\ S \in [I -> Seq(Elem)] /\ T \in [I -> Seq(Elem)]
  BY DEF Family, Parted
<1>2. ASSUME NEW m \in I, NEW i \in 1..Len(T[m])
      PROVE  /\ old(m, i) \in 1..Len(S[m]) /\ T[m][i] = S[m][old(m, i)]
             /\ ~(m = l /\ old(m, i) \in a..b)
  <2>1. CASE m = l
    <3>1. Len(T[l]) = n - d /\ i \in 1..(n - d) /\ i \in Nat /\ 1 <= i /\ i <= n - d
      BY <1>1, <2>1 DEF Parted
    <3>2. T[l][i] = IF i < a THEN S[l][i] ELSE S[l][i + d]
      BY <3>1 DEF Parted
    <3>3. CASE a <= i
      <4>1. old(m, i) = i + d /\ ~(i < a)
        BY <2>1, <3>3, <3>1, <1>1
      <4>2. i + d \in 1..n /\ i + d \notin a..b
        BY <3>1, <3>3, <1>1
      <4> QED BY <2>1, <3>2, <4>1, <4>2
    <3>4. CASE ~(a <= i)
      <4>1. old(m, i) = i /\ i < a /\ i \in 1..n /\ i \notin a..b
        BY <2>1, <3>4, <3>1, <1>1
      <4> QED BY <2>1, <3>2, <4>1
    <3> QED BY <3>3, <3>4
  <2>2. CASE m # l
    BY <2>2 DEF Parted
  <2> QED BY <2>1, <2>2
<1>3. ASSUME NEW m \in I, NEW i \in 1..Len(S[m]), ~(m = l /\ i \in a..b)
      PROVE  new(m, i) \in 1..Len(T[m]) /\ T[m][new(m, i)] = S[m][i]
  <2>1. CASE m = l
    <3>1. i \in Nat /\ 1 <= i /\ i <= n /\ (i < a \/ b < i)
      BY <1>1, <1>3, <2>1
    <3>2. Len(T[l]) = n - d /\ \A j \in 1..(n - d) : T[l][j] = IF j < a THEN S[l][j] ELSE S[l][j + d]
      BY DEF Parted
    <3>3. CASE b < i
      <4>1. new(m, i) = i - d /\ i - d \in 1..(n - d) /\ ~(i - d < a) /\ (i - d) + d = i
        BY <3>1, <3>3, <1>1, <2>1
      <4>2. T[l][i - d] = S[l][(i - d) + d]
        BY <3>2, <4>1
      <4> QED BY <2>1, <3>2, <4>1, <4>2
    <3>4. CASE ~(b < i)
      <4>1. new(m, i) = i /\ i \in 1..(n - d) /\ i < a
        BY <3>1, <3>4, <1>1, <2>1
      <4> QED BY <2>1, <3>2, <4>1
    <3> QED BY <3>3, <3>4
  <2>2. CASE m # l
    BY <2>2 DEF Parted
  <2> QED BY <2>1, <2>2
<1>4. ASSUME NEW m \in I, NEW o \in I, NEW i \in 1..Len(T[m]), NEW j \in 1..Len(T[o]),
             T[m][i] = T[o][j]
      PROVE  m = o /\ i = j
  <2>1. /\ old(m, i) \in 1..Len(S[m]) /\ T[m][i] = S[m][old(m, i)] /\ ~(m = l /\ old(m, i) \in a..b)
        /\ old(o, j) \in 1..Len(S[o]) /\ T[o][j] = S[o][old(o, j)]
    BY <1>2
  <2>2. m = o /\ old(m, i) = old(o, j)
    <3>1. S[m][old(m, i)] = S[o][old(o, j)]
      BY <1>4, <2>1
    <3> HIDE DEF old
    <3> QED BY <3>1, <2>1 DEF Family, Distinct
  <2>3. i \in Int /\ j \in Int
    OBVIOUS
  <2> QED BY <1>1, <2>2, <2>3
<1>5. Family(I, T)
  BY <1>1, <1>4 DEF Family, Distinct
<1> HIDE DEF old, new
<1>6. ASSUME NEW p
      PROVE  In(I, T, p) <=> In(I, S, p) /\ p \notin Part(S[l], a, b)
  <2>1. ASSUME NEW i \in a..b
        PROVE  i \in 1..n
    BY <1>1
  <2>2. ASSUME In(I, T, p)
        PROVE  In(I, S, p) /\ p \notin Part(S[l], a, b)
    <3>1. PICK m \in I : \E i \in 1..Len(T[m]) : p = T[m][i]
      BY <2>2 DEF In
    <3>2. PICK i \in 1..Len(T[m]) : p = T[m][i]
      BY <3>1
    <3>3. /\ old(m, i) \in 1..Len(S[m]) /\ p = S[m][old(m, i)] /\ ~(m = l /\ old(m, i) \in a..b)
      BY <1>2, <3>2
    <3>4. p \notin Part(S[l], a, b)
      BY <2>1, <3>3 DEF Part, Family, Distinct
    <3> QED BY <3>3, <3>4 DEF In
  <2>3. ASSUME In(I, S, p), p \notin Part(S[l], a, b)
        PROVE  In(I, T, p)
    <3>1. PICK m \in I : \E i \in 1..Len(S[m]) : p = S[m][i]
      BY <2>3 DEF In
    <3>2. PICK i \in 1..Len(S[m]) : p = S[m][i]
      BY <3>1
    <3>3. ~(m = l /\ i \in a..b)
      BY <2>3, <3>2 DEF Part
    <3> QED BY <1>3, <3>2, <3>3 DEF In
  <2> QED BY <2>2, <2>3
<1> QED BY <1>5, <1>6

\* A field that skips the part still leads onward, ...
LEMMA PartsOnward ==
    ASSUME NEW I, NEW S, NEW T, NEW l \in I, NEW a \in 1..Len(S[l]), NEW b \in a..Len(S[l]),
           Family(I, S), Parted(I, S, T, l, a, b),
           NEW f, Leads(f, I, S), NEW g,
           Past(g, f, I, T, Before(S[l], a), After(S[l], b))
    PROVE  Leads(g, I, T)
<1> DEFINE n == Len(S[l])
           d == b - a + 1
<1>1. n \in Nat /\ a \in Nat /\ b \in Nat /\ 1 <= a /\ a <= b /\ b <= n /\ d \in Nat /\ 1 <= d
      /\ S \in [I -> Seq(Elem)] /\ T \in [I -> Seq(Elem)] /\ Null \notin Elem
  BY ListAssumption DEF Family, Parted
<1>2. ASSUME NEW m \in I, NEW i \in 1..Len(T[m])
      PROVE  /\ T[m][i] \in Elem
             /\ g[T[m][i]] = IF T[m][i] = Before(S[l], a) THEN After(S[l], b) ELSE f[T[m][i]]
  <2>1. T[m] \in Seq(Elem) /\ T[m][i] \in Elem
    BY <1>1
  <2>2. In(I, T, T[m][i])
    BY DEF In
  <2> QED BY <2>1, <2>2 DEF Past
<1>3. 1 < a => a - 1 \in 1..n /\ Before(S[l], a) = S[l][a - 1]
  BY <1>1 DEF Before
<1>4. ~(1 < a) => Before(S[l], a) = Null
  BY DEF Before
<1>5. ASSUME NEW m \in I, NEW i \in 1..Len(T[m]), m # l
      PROVE  g[T[m][i]] = IF i < Len(T[m]) THEN T[m][i + 1] ELSE Null
  <2>1. T[m] = S[m]
    BY <1>5 DEF Parted
  <2>2. S[m][i] # Before(S[l], a)
    BY <1>1, <1>2, <1>3, <1>4, <1>5, <2>1 DEF Family, Distinct
  <2> QED BY <2>1, <2>2, <1>2 DEF Leads
<1>6. ASSUME NEW i \in 1..Len(T[l])
      PROVE  g[T[l][i]] = IF i < Len(T[l]) THEN T[l][i + 1] ELSE Null
  <2>0. Len(T[l]) = n - d /\ i \in Nat /\ 1 <= i /\ i <= n - d /\ i \in 1..(n - d)
        /\ \A j \in 1..(n - d) : T[l][j] = IF j < a THEN S[l][j] ELSE S[l][j + d]
    BY <1>1 DEF Parted
  <2>1. CASE i + 1 = a
    <3>0. i \in Nat /\ a \in Nat /\ 1 <= i
      BY <2>0, <1>1
    <3>1. 1 < a /\ i = a - 1 /\ i < a
      BY <3>0, <2>1
    <3>2. T[l][i] = Before(S[l], a)
      BY <2>0, <3>1, <1>3
    <3>3. g[T[l][i]] = After(S[l], b)
      BY <1>2, <3>2
    <3>4. (i < n - d <=> b < n) /\ i + 1 + d = b + 1 /\ ~(i + 1 < a) /\ (i < n - d => i + 1 \in 1..(n - d))
      BY <1>1, <2>0, <2>1
    <3>5. i < n - d => T[l][i + 1] = S[l][b + 1]
      BY <2>0, <3>4
    <3> QED BY <2>0, <3>3, <3>4, <3>5 DEF After
  <2>2. CASE i + 1 # a
    <3> DEFINE j == IF i < a THEN i ELSE i + d
    <3>1. T[l][i] = S[l][j]
      BY <2>0
    <3>2. j \in 1..n /\ j # a - 1
      BY <1>1, <2>0, <2>2
    <3>3. S[l][j] # Before(S[l], a)
      <4>1. T[l][i] # Null
        BY <1>1, <1>2
      <4> HIDE DEF j
      <4> QED BY <4>1, <1>3, <1>4, <3>1, <3>2 DEF Family, Distinct
    <3>4. g[T[l][i]] = IF j < n THEN S[l][j + 1] ELSE Null
      BY <1>2, <3>1, <3>2, <3>3 DEF Leads
    <3>5. (j < n <=> i < n - d) /\ (j < n => i + 1 \in 1..(n - d) /\ j + 1 = IF i + 1 < a THEN i + 1 ELSE (i + 1) + d)
      <4>1. CASE i < a
        <5>1. j = i /\ i + 1 < a
          BY <4>1, <1>1, <2>0, <2>2
        <5> HIDE DEF j
        <5> QED BY <5>1, <1>1, <2>0
      <4>2. CASE ~(i < a)
        <5>1. j = i + d /\ ~(i + 1 < a)
          BY <4>2, <1>1, <2>0, <2>2
        <5> HIDE DEF j
        <5> QED BY <5>1, <1>1, <2>0
      <4> QED BY <4>1, <4>2
    <3> HIDE DEF j
    <3>6. j < n => T[l][i + 1] = S[l][j + 1]
      <4>1. j < n => T[l][i + 1] = S[l][IF i + 1 < a THEN i + 1 ELSE (i + 1) + d]
        BY <2>0, <3>5
      <4> QED BY <4>1, <3>5
    <3> QED BY <2>0, <3>4, <3>5, <3>6
  <2> QED BY <2>1, <2>2
<1> QED BY <1>5, <1>6 DEF Leads

\* ... or back.
LEMMA PartsBack ==
    ASSUME NEW I, NEW S, NEW T, NEW l \in I, NEW a \in 1..Len(S[l]), NEW b \in a..Len(S[l]),
           Family(I, S), Parted(I, S, T, l, a, b),
           NEW f, Returns(f, I, S), NEW g,
           Past(g, f, I, T, After(S[l], b), Before(S[l], a))
    PROVE  Returns(g, I, T)
<1> DEFINE n == Len(S[l])
           d == b - a + 1
<1>1. n \in Nat /\ a \in Nat /\ b \in Nat /\ 1 <= a /\ a <= b /\ b <= n /\ d \in Nat /\ 1 <= d
      /\ S \in [I -> Seq(Elem)] /\ T \in [I -> Seq(Elem)] /\ Null \notin Elem
  BY ListAssumption DEF Family, Parted
<1>2. ASSUME NEW m \in I, NEW i \in 1..Len(T[m])
      PROVE  /\ T[m][i] \in Elem
             /\ g[T[m][i]] = IF T[m][i] = After(S[l], b) THEN Before(S[l], a) ELSE f[T[m][i]]
  <2>1. T[m] \in Seq(Elem) /\ T[m][i] \in Elem
    BY <1>1
  <2>2. In(I, T, T[m][i])
    BY DEF In
  <2> QED BY <2>1, <2>2 DEF Past
<1>3. b < n => b + 1 \in 1..n /\ After(S[l], b) = S[l][b + 1]
  BY <1>1 DEF After
<1>4. ~(b < n) => After(S[l], b) = Null
  BY DEF After
<1>5. ASSUME NEW m \in I, NEW i \in 1..Len(T[m]), m # l
      PROVE  g[T[m][i]] = IF 1 < i THEN T[m][i - 1] ELSE Null
  <2>1. T[m] = S[m]
    BY <1>5 DEF Parted
  <2>2. S[m][i] # After(S[l], b)
    BY <1>1, <1>2, <1>3, <1>4, <1>5, <2>1 DEF Family, Distinct
  <2> QED BY <2>1, <2>2, <1>2 DEF Returns
<1>6. ASSUME NEW i \in 1..Len(T[l])
      PROVE  g[T[l][i]] = IF 1 < i THEN T[l][i - 1] ELSE Null
  <2>0. Len(T[l]) = n - d /\ i \in Nat /\ 1 <= i /\ i <= n - d /\ i \in 1..(n - d)
        /\ \A j \in 1..(n - d) : T[l][j] = IF j < a THEN S[l][j] ELSE S[l][j + d]
    BY <1>1 DEF Parted
  <2>1. CASE i = a
    <3>1. b < n /\ i + d = b + 1 /\ ~(i < a)
      BY <2>0, <2>1, <1>1
    <3>2. T[l][i] = After(S[l], b)
      BY <2>0, <3>1, <1>3
    <3>3. g[T[l][i]] = Before(S[l], a)
      BY <1>2, <3>2
    <3>4. 1 < i => i - 1 \in 1..(n - d) /\ i - 1 < a
      BY <1>1, <2>0, <2>1
    <3>5. 1 < i => T[l][i - 1] = S[l][i - 1]
      BY <2>0, <3>4
    <3> QED BY <2>1, <3>3, <3>5 DEF Before
  <2>2. CASE i # a
    <3> DEFINE j == IF i < a THEN i ELSE i + d
    <3>1. T[l][i] = S[l][j]
      BY <2>0
    <3>2. j \in 1..n /\ j # b + 1
      BY <1>1, <2>0, <2>2
    <3>3. S[l][j] # After(S[l], b)
      <4>1. T[l][i] # Null
        BY <1>1, <1>2
      <4> HIDE DEF j
      <4> QED BY <4>1, <1>3, <1>4, <3>1, <3>2 DEF Family, Distinct
    <3>4. g[T[l][i]] = IF 1 < j THEN S[l][j - 1] ELSE Null
      <4>1. g[T[l][i]] = f[T[l][i]]
        BY <1>2, <3>1, <3>3
      <4> HIDE DEF j
      <4>2. f[S[l][j]] = IF 1 < j THEN S[l][j - 1] ELSE Null
        BY <3>2 DEF Returns
      <4> QED BY <4>1, <4>2, <3>1
    <3>5. (1 < j <=> 1 < i) /\ (1 < i => i - 1 \in 1..(n - d) /\ j - 1 = IF i - 1 < a THEN i - 1 ELSE (i - 1) + d)
      <4>1. CASE i < a
        <5>1. j = i /\ i - 1 < a
          BY <4>1, <1>1, <2>0, <2>2
        <5> HIDE DEF j
        <5> QED BY <5>1, <1>1, <2>0
      <4>2. CASE ~(i < a)
        <5>1. j = i + d /\ ~(i - 1 < a)
          BY <4>2, <1>1, <2>0, <2>2
        <5> HIDE DEF j
        <5> QED BY <5>1, <4>2, <1>1, <2>0, <2>2
      <4> QED BY <4>1, <4>2
    <3> HIDE DEF j
    <3>6. 1 < i => T[l][i - 1] = S[l][j - 1]
      BY <2>0, <3>5
    <3> QED BY <2>0, <3>4, <3>5, <3>6
  <2> QED BY <2>1, <2>2
<1> QED BY <1>5, <1>6 DEF Returns

-----------------------------------------------------------------------------
\* The elements of sequence m come behind those of l.
Joined(I, S, T, l, m) ==
    /\ T \in [I -> Seq(Elem)]
    /\ \A o \in I : o # l /\ o # m => T[o] = S[o]
    /\ T[m] = <<>>
    /\ Len(T[l]) = Len(S[l]) + Len(S[m])
    /\ \A i \in 1..(Len(S[l]) + Len(S[m])) :
         T[l][i] = IF i <= Len(S[l]) THEN S[l][i] ELSE S[m][i - Len(S[l])]

\* One behind the other, two sequences stay distinct.
LEMMA Joins ==
    ASSUME NEW I, NEW S, NEW T, NEW l \in I, NEW m \in I, l # m,
           Family(I, S), Joined(I, S, T, l, m)
    PROVE  /\ Family(I, T)
           /\ \A p : In(I, T, p) <=> In(I, S, p)
<1> DEFINE n == Len(S[l])
           from(o, i) == IF o = l /\ n < i THEN m ELSE o
           old(o, i) == IF o = l /\ n < i THEN i - n ELSE i
           to(o) == IF o = m THEN l ELSE o
           new(o, i) == IF o = m THEN i + n ELSE i
<1>1. n \in Nat /\ Len(S[m]) \in Nat /\ S \in [I -> Seq(Elem)] /\ T \in [I -> Seq(Elem)]
      /\ Len(T[m]) = 0 /\ Len(T[l]) = n + Len(S[m])
  BY DEF Family, Joined
<1>2. ASSUME NEW o \in I, NEW i \in 1..Len(T[o])
      PROVE  /\ o # m /\ from(o, i) \in I
             /\ old(o, i) \in 1..Len(S[from(o, i)]) /\ T[o][i] = S[from(o, i)][old(o, i)]
  <2>1. o # m
    BY <1>1
  <2>2. CASE o = l
    <3>1. i \in Nat /\ 1 <= i /\ i <= n + Len(S[m]) /\ i \in 1..(n + Len(S[m]))
      BY <1>1, <2>2
    <3>2. T[l][i] = IF i <= n THEN S[l][i] ELSE S[m][i - n]
      BY <3>1 DEF Joined
    <3>3. CASE n < i
      <4>1. from(o, i) = m /\ old(o, i) = i - n /\ i - n \in 1..Len(S[m]) /\ ~(i <= n)
        BY <3>1, <3>3, <2>2, <1>1
      <4> QED BY <4>1, <3>2, <2>1, <2>2
    <3>4. CASE ~(n < i)
      <4>1. from(o, i) = l /\ old(o, i) = i /\ i \in 1..n /\ i <= n
        BY <3>1, <3>4, <2>2, <1>1
      <4> QED BY <4>1, <3>2, <2>1, <2>2
    <3> QED BY <3>3, <3>4
  <2>3. CASE o # l
    BY <2>1, <2>3 DEF Joined
  <2> QED BY <2>2, <2>3
<1>3. ASSUME NEW o \in I, NEW i \in 1..Len(S[o])
      PROVE  to(o) \in I /\ new(o, i) \in 1..Len(T[to(o)]) /\ T[to(o)][new(o, i)] = S[o][i]
  <2>0. \A j \in 1..(n + Len(S[m])) : T[l][j] = IF j <= n THEN S[l][j] ELSE S[m][j - n]
    BY DEF Joined
  <2>1. CASE o = m
    <3>1. i \in Nat /\ 1 <= i /\ i <= Len(S[m])
      BY <2>1, <1>1
    <3>2. i + n \in 1..(n + Len(S[m])) /\ ~(i + n <= n) /\ (i + n) - n = i
      BY <3>1, <1>1
    <3>3. T[l][i + n] = S[m][i]
      BY <2>0, <3>2
    <3> QED BY <2>1, <3>2, <3>3, <1>1
  <2>2. CASE o = l
    <3>1. i \in 1..(n + Len(S[m])) /\ i <= n
      BY <2>2, <1>1
    <3> QED BY <2>0, <2>2, <3>1, <1>1
  <2>3. CASE o # l /\ o # m
    BY <2>3 DEF Joined
  <2> QED BY <2>1, <2>2, <2>3
<1>4. ASSUME NEW o \in I, NEW q \in I, NEW i \in 1..Len(T[o]), NEW j \in 1..Len(T[q]),
             T[o][i] = T[q][j]
      PROVE  o = q /\ i = j
  <2>1. o # m /\ q # m /\ i \in Int /\ j \in Int
    BY <1>2
  <2>2. from(o, i) = from(q, j) /\ old(o, i) = old(q, j)
    <3>1. /\ from(o, i) \in I /\ old(o, i) \in 1..Len(S[from(o, i)]) /\ T[o][i] = S[from(o, i)][old(o, i)]
          /\ from(q, j) \in I /\ old(q, j) \in 1..Len(S[from(q, j)]) /\ T[q][j] = S[from(q, j)][old(q, j)]
      BY <1>2
    <3> HIDE DEF from, old
    <3>2. Distinct(I, S)
      BY DEF Family
    <3>3. S[from(o, i)][old(o, i)] = S[from(q, j)][old(q, j)]
      BY <3>1, <1>4
    <3> QED BY <3>1, <3>2, <3>3, SameSpot
  <2> QED BY <1>1, <2>1, <2>2
<1>5. Family(I, T)
  BY <1>1, <1>4 DEF Family, Distinct
<1> HIDE DEF from, old, to, new
<1>6. ASSUME NEW p
      PROVE  In(I, T, p) <=> In(I, S, p)
  <2>1. In(I, T, p) => In(I, S, p)
    BY <1>2 DEF In
  <2>2. In(I, S, p) => In(I, T, p)
    BY <1>3 DEF In
  <2> QED BY <2>1, <2>2
<1> QED BY <1>5, <1>6

\* A field that leads from the one to the other leads onward, ...
LEMMA JoinsOnward ==
    ASSUME NEW I, NEW S, NEW T, NEW l \in I, NEW m \in I, l # m,
           Family(I, S), Joined(I, S, T, l, m), Len(S[l]) # 0, Len(S[m]) # 0,
           NEW f, Leads(f, I, S), NEW g,
           \A y \in Elem : g[y] = IF y = S[l][Len(S[l])] THEN S[m][1] ELSE f[y]
    PROVE  Leads(g, I, T)
<1> DEFINE n == Len(S[l])
           k == Len(S[m])
<1>1. n \in Nat /\ k \in Nat /\ 1 <= n /\ 1 <= k /\ S \in [I -> Seq(Elem)]
      /\ T \in [I -> Seq(Elem)] /\ n \in 1..n /\ 1 \in 1..k
  BY DEF Family, Joined
<1>2. \A o \in I : \A i \in 1..Len(S[o]) : S[o][i] \in Elem
  BY <1>1
<1>3. ASSUME NEW o \in I, NEW i \in 1..Len(S[o]), ~(o = l /\ i = n)
      PROVE  g[S[o][i]] = IF i < Len(S[o]) THEN S[o][i + 1] ELSE Null
  <2>1. S[o][i] # S[l][n]
    BY <1>1, <1>3 DEF Family, Distinct
  <2> QED BY <1>2, <2>1 DEF Leads
<1>4. ASSUME NEW o \in I, NEW i \in 1..Len(T[o])
      PROVE  g[T[o][i]] = IF i < Len(T[o]) THEN T[o][i + 1] ELSE Null
  <2>1. CASE o = l
    <3>0. /\ Len(T[l]) = n + k
          /\ \A j \in 1..(n + k) : T[l][j] = IF j <= n THEN S[l][j] ELSE S[m][j - n]
      BY DEF Joined
    <3>1. i \in Nat /\ 1 <= i /\ i <= n + k /\ i \in 1..(n + k)
      BY <2>1, <3>0, <1>1
    <3>2. CASE i < n
      <4>1. i \in 1..n /\ i <= n /\ i + 1 <= n /\ i + 1 \in 1..(n + k) /\ i < n + k /\ i # n
        BY <3>1, <3>2, <1>1
      <4>2. T[l][i] = S[l][i] /\ T[l][i + 1] = S[l][i + 1]
        BY <3>0, <3>1, <4>1
      <4>3. g[S[l][i]] = S[l][i + 1]
        BY <1>3, <4>1, <3>2
      <4> QED BY <2>1, <3>0, <4>1, <4>2, <4>3
    <3>3. CASE i = n
      <4>1. i <= n /\ ~(i + 1 <= n) /\ (i + 1) - n = 1 /\ i + 1 \in 1..(n + k) /\ i < n + k
        BY <3>1, <3>3, <1>1
      <4>2. T[l][i] = S[l][n] /\ T[l][i + 1] = S[m][1]
        BY <3>0, <3>1, <3>3, <4>1
      <4>3. g[S[l][n]] = S[m][1]
        BY <1>1, <1>2
      <4> QED BY <2>1, <3>0, <4>1, <4>2, <4>3
    <3>4. CASE n < i
      <4>1. ~(i <= n) /\ ~(i + 1 <= n) /\ (i + 1) - n = (i - n) + 1 /\ i - n \in 1..k
            /\ (i < n + k <=> i - n < k) /\ (i < n + k => i + 1 \in 1..(n + k))
        BY <3>1, <3>4, <1>1
      <4>2. T[l][i] = S[m][i - n] /\ (i < n + k => T[l][i + 1] = S[m][(i - n) + 1])
        BY <3>0, <3>1, <4>1
      <4>3. g[S[m][i - n]] = IF i - n < k THEN S[m][(i - n) + 1] ELSE Null
        BY <1>3, <4>1
      <4> QED BY <2>1, <3>0, <4>1, <4>2, <4>3
    <3> QED BY <3>1, <3>2, <3>3, <3>4, <1>1
  <2>2. CASE o = m
    BY <2>2 DEF Joined
  <2>3. CASE o # l /\ o # m
    BY <2>3, <1>3 DEF Joined
  <2> QED BY <2>1, <2>2, <2>3
<1> QED BY <1>4 DEF Leads

\* ... or back.
LEMMA JoinsBack ==
    ASSUME NEW I, NEW S, NEW T, NEW l \in I, NEW m \in I, l # m,
           Family(I, S), Joined(I, S, T, l, m), Len(S[l]) # 0, Len(S[m]) # 0,
           NEW f, Returns(f, I, S), NEW g,
           \A y \in Elem : g[y] = IF y = S[m][1] THEN S[l][Len(S[l])] ELSE f[y]
    PROVE  Returns(g, I, T)
<1> DEFINE n == Len(S[l])
           k == Len(S[m])
<1>1. n \in Nat /\ k \in Nat /\ 1 <= n /\ 1 <= k /\ S \in [I -> Seq(Elem)]
      /\ T \in [I -> Seq(Elem)] /\ n \in 1..n /\ 1 \in 1..k
  BY DEF Family, Joined
<1>2. \A o \in I : \A i \in 1..Len(S[o]) : S[o][i] \in Elem
  BY <1>1
<1>3. ASSUME NEW o \in I, NEW i \in 1..Len(S[o]), ~(o = m /\ i = 1)
      PROVE  g[S[o][i]] = IF 1 < i THEN S[o][i - 1] ELSE Null
  <2>1. S[o][i] # S[m][1]
    BY <1>1, <1>3 DEF Family, Distinct
  <2> QED BY <1>2, <2>1 DEF Returns
<1>4. ASSUME NEW o \in I, NEW i \in 1..Len(T[o])
      PROVE  g[T[o][i]] = IF 1 < i THEN T[o][i - 1] ELSE Null
  <2>1. CASE o = l
    <3>0. /\ Len(T[l]) = n + k
          /\ \A j \in 1..(n + k) : T[l][j] = IF j <= n THEN S[l][j] ELSE S[m][j - n]
      BY DEF Joined
    <3>1. i \in Nat /\ 1 <= i /\ i <= n + k /\ i \in 1..(n + k)
      BY <2>1, <3>0, <1>1
    <3>2. CASE i <= n
      <4>1. i \in 1..n /\ (1 < i => i - 1 <= n /\ i - 1 \in 1..(n + k))
        BY <3>1, <3>2, <1>1
      <4>2. T[l][i] = S[l][i] /\ (1 < i => T[l][i - 1] = S[l][i - 1])
        BY <3>0, <3>1, <3>2, <4>1
      <4>3. g[S[l][i]] = IF 1 < i THEN S[l][i - 1] ELSE Null
        BY <1>3, <4>1
      <4> QED BY <2>1, <4>2, <4>3
    <3>3. CASE i = n + 1
      <4>1. ~(i <= n) /\ i - 1 <= n /\ i - 1 = n /\ i - n = 1 /\ i - 1 \in 1..(n + k) /\ 1 < i
        BY <3>1, <3>3, <1>1
      <4>2. T[l][i] = S[m][1] /\ T[l][i - 1] = S[l][n]
        BY <3>0, <3>1, <4>1
      <4>3. g[S[m][1]] = S[l][n]
        BY <1>1, <1>2
      <4> QED BY <2>1, <4>1, <4>2, <4>3
    <3>4. CASE n + 1 < i
      <4>1. ~(i <= n) /\ ~(i - 1 <= n) /\ (i - 1) - n = (i - n) - 1 /\ i - n \in 1..k
            /\ i - n # 1 /\ 1 < i - n /\ 1 < i /\ i - 1 \in 1..(n + k)
        BY <3>1, <3>4, <1>1
      <4>2. T[l][i] = S[m][i - n] /\ T[l][i - 1] = S[m][(i - n) - 1]
        BY <3>0, <3>1, <4>1
      <4>3. g[S[m][i - n]] = S[m][(i - n) - 1]
        BY <1>3, <4>1
      <4> QED BY <2>1, <4>1, <4>2, <4>3
    <3> QED BY <3>1, <3>2, <3>3, <3>4, <1>1
  <2>2. CASE o = m
    BY <2>2 DEF Joined
  <2>3. CASE o # l /\ o # m
    BY <2>3, <1>3 DEF Joined
  <2> QED BY <2>1, <2>2, <2>3
<1> QED BY <1>4 DEF Returns

-----------------------------------------------------------------------------
\* Positions a to b of sequence l become the sequence new, which was empty.
Torn(I, S, T, l, a, b, new) ==
    /\ T \in [I -> Seq(Elem)]
    /\ \A o \in I : o # l /\ o # new => T[o] = S[o]
    /\ Len(T[l]) = Len(S[l]) - (b - a + 1)
    /\ \A i \in 1..(Len(S[l]) - (b - a + 1)) :
         T[l][i] = IF i < a THEN S[l][i] ELSE S[l][i + (b - a + 1)]
    /\ Len(T[new]) = b - a + 1
    /\ \A i \in 1..(b - a + 1) : T[new][i] = S[l][a + i - 1]

\* Before the part is put there.
BeforeTorn(T, new) == [T EXCEPT ![new] = <<>>]

\* Before the part is put in its own sequence, it has only gone.
LEMMA TearsParts ==
    ASSUME NEW I, NEW S, NEW T, NEW l \in I, NEW new \in I, l # new,
           NEW a \in 1..Len(S[l]), NEW b \in a..Len(S[l]),
           Family(I, S), S[new] = <<>>, Torn(I, S, T, l, a, b, new)
    PROVE  Parted(I, S, BeforeTorn(T, new), l, a, b)
<1> DEFINE U == BeforeTorn(T, new)
<1>1. U \in [I -> Seq(Elem)] /\ U[new] = <<>> /\ \A o \in I : o # new => U[o] = T[o]
  <2>1. T \in [I -> Seq(Elem)] /\ <<>> \in Seq(Elem)
    BY DEF Torn
  <2> QED BY <2>1 DEF BeforeTorn
<1> HIDE DEF U
<1>2. U[l] = T[l]
  BY <1>1
<1>3. \A o \in I : o # l => U[o] = S[o]
  BY <1>1 DEF Torn
<1>4. Parted(I, S, U, l, a, b)
  BY <1>1, <1>2, <1>3 DEF Torn, Parted
<1> QED BY <1>4 DEF U

\* With a part in its own sequence they stay distinct.
LEMMA Tears ==
    ASSUME NEW I, NEW S, NEW T, NEW l \in I, NEW new \in I, l # new,
           NEW a \in 1..Len(S[l]), NEW b \in a..Len(S[l]),
           Family(I, S), S[new] = <<>>, Torn(I, S, T, l, a, b, new)
    PROVE  /\ Family(I, T)
           /\ \A p : In(I, T, p) <=> In(I, S, p)
<1> DEFINE U == BeforeTorn(T, new)
<1>1. T \in [I -> Seq(Elem)] /\ S \in [I -> Seq(Elem)]
      /\ U \in [I -> Seq(Elem)] /\ U[new] = <<>> /\ \A o \in I : o # new => U[o] = T[o]
  <2>1. T \in [I -> Seq(Elem)] /\ <<>> \in Seq(Elem)
    BY DEF Torn
  <2> QED BY <2>1 DEF BeforeTorn, Family
<1>2. Parted(I, S, U, l, a, b)
  BY TearsParts
<1> HIDE DEF U
<1>3. Family(I, U) /\ \A p : In(I, U, p) <=> In(I, S, p) /\ p \notin Part(S[l], a, b)
  BY <1>2, Parts
<1>4. a \in Nat /\ b \in Nat /\ 1 <= a /\ a <= b /\ b <= Len(S[l]) /\ Len(S[l]) \in Nat
      /\ Len(T[new]) = b - a + 1 /\ \A i \in 1..(b - a + 1) : T[new][i] = S[l][a + i - 1]
  BY <1>1 DEF Torn
<1>5. ASSUME NEW i \in 1..Len(T[new])
      PROVE  a + i - 1 \in a..b /\ a + i - 1 \in 1..Len(S[l]) /\ T[new][i] = S[l][a + i - 1]
  <2>1. i \in 1..(b - a + 1)
    BY <1>4
  <2>2. a + i - 1 \in a..b /\ a + i - 1 \in 1..Len(S[l])
    BY <1>4, <2>1
  <2> QED BY <2>1, <2>2, <1>4
<1>6. ASSUME NEW i \in 1..Len(T[new])
      PROVE  T[new][i] \in Part(S[l], a, b)
  BY <1>5 DEF Part
<1>7. ASSUME NEW o \in I, o # new, NEW i \in 1..Len(T[o])
      PROVE  T[o][i] = U[o][i] /\ i \in 1..Len(U[o]) /\ T[o][i] \notin Part(S[l], a, b)
  <2>1. T[o][i] = U[o][i] /\ i \in 1..Len(U[o])
    BY <1>1, <1>7
  <2>2. In(I, U, T[o][i])
    BY <2>1 DEF In
  <2> QED BY <2>1, <2>2, <1>3
<1>8. ASSUME NEW o \in I, NEW q \in I, NEW i \in 1..Len(T[o]), NEW j \in 1..Len(T[q]),
             T[o][i] = T[q][j]
      PROVE  o = q /\ i = j
  <2>1. CASE o = new /\ q = new
    <3>1. S[l][a + i - 1] = S[l][a + j - 1]
      BY <1>5, <1>8, <2>1
    <3>2. a + i - 1 \in 1..Len(S[l]) /\ a + j - 1 \in 1..Len(S[l]) /\ Distinct(I, S)
      BY <1>5, <2>1 DEF Family
    <3>3. a + i - 1 = a + j - 1
      BY <3>1, <3>2, SameSpot
    <3> QED BY <3>3, <2>1, <1>4
  <2>2. CASE o = new /\ q # new
    BY <1>6, <1>7, <1>8, <2>2
  <2>3. CASE o # new /\ q = new
    BY <1>6, <1>7, <1>8, <2>3
  <2>4. CASE o # new /\ q # new
    <3>1. U[o][i] = U[q][j] /\ i \in 1..Len(U[o]) /\ j \in 1..Len(U[q]) /\ Distinct(I, U)
      BY <1>3, <1>7, <1>8, <2>4 DEF Family
    <3> QED BY <3>1, SameSpot
  <2> QED BY <2>1, <2>2, <2>3, <2>4
<1>9. Family(I, T)
  BY <1>1, <1>8 DEF Family, Distinct
<1>10. ASSUME NEW p
       PROVE  In(I, T, p) <=> In(I, S, p)
  <2>1. ASSUME In(I, T, p)
        PROVE  In(I, S, p)
    <3>1. PICK o \in I : \E i \in 1..Len(T[o]) : p = T[o][i]
      BY <2>1 DEF In
    <3>2. PICK i \in 1..Len(T[o]) : p = T[o][i]
      BY <3>1
    <3>3. CASE o = new
      BY <3>2, <3>3, <1>5 DEF In
    <3>4. CASE o # new
      <4>1. In(I, U, p)
        BY <3>2, <3>4, <1>7 DEF In
      <4> QED BY <4>1, <1>3
    <3> QED BY <3>3, <3>4
  <2>2. ASSUME In(I, S, p)
        PROVE  In(I, T, p)
    <3>1. CASE p \in Part(S[l], a, b)
      <4>1. PICK i \in a..b : p = S[l][i]
        BY <3>1 DEF Part
      <4>2. i - a + 1 \in 1..(b - a + 1) /\ a + (i - a + 1) - 1 = i
        BY <1>4
      <4>3. i - a + 1 \in 1..Len(T[new]) /\ p = T[new][i - a + 1]
        BY <4>1, <4>2, <1>4
      <4> QED BY <4>3 DEF In
    <3>2. CASE p \notin Part(S[l], a, b)
      <4>1. In(I, U, p)
        BY <2>2, <3>2, <1>3
      <4>2. PICK o \in I : \E i \in 1..Len(U[o]) : p = U[o][i]
        BY <4>1 DEF In
      <4>3. PICK i \in 1..Len(U[o]) : p = U[o][i]
        BY <4>2
      <4>4. o # new
        BY <4>3, <1>1
      <4> QED BY <4>3, <4>4, <1>1 DEF In
    <3> QED BY <3>1, <3>2
  <2> QED BY <2>1, <2>2
<1> QED BY <1>9, <1>10

\* A field that skips the part and ends with it leads onward, ...
LEMMA TearsOnward ==
    ASSUME NEW I, NEW S, NEW T, NEW l \in I, NEW new \in I, l # new,
           NEW a \in 1..Len(S[l]), NEW b \in a..Len(S[l]),
           Family(I, S), S[new] = <<>>, Torn(I, S, T, l, a, b, new),
           NEW f, Leads(f, I, S), NEW g,
           \A y \in Elem : g[y] = IF y = Before(S[l], a) THEN After(S[l], b)
                                  ELSE IF y = S[l][b] THEN Null ELSE f[y]
    PROVE  Leads(g, I, T)
<1> DEFINE U == BeforeTorn(T, new)
<1>1. T \in [I -> Seq(Elem)] /\ S \in [I -> Seq(Elem)]
      /\ U \in [I -> Seq(Elem)] /\ U[new] = <<>> /\ \A o \in I : o # new => U[o] = T[o]
  <2>1. T \in [I -> Seq(Elem)] /\ <<>> \in Seq(Elem)
    BY DEF Torn
  <2> QED BY <2>1 DEF BeforeTorn, Family
<1>2. Parted(I, S, U, l, a, b)
  BY TearsParts
<1> HIDE DEF U
<1>3. Family(I, U) /\ \A p : In(I, U, p) <=> In(I, S, p) /\ p \notin Part(S[l], a, b)
  BY <1>2, Parts
<1>4. a \in Nat /\ b \in Nat /\ 1 <= a /\ a <= b /\ b <= Len(S[l]) /\ Len(S[l]) \in Nat
      /\ Len(T[new]) = b - a + 1 /\ \A i \in 1..(b - a + 1) : T[new][i] = S[l][a + i - 1]
  BY <1>1 DEF Torn
<1>5. S[l][b] \in Part(S[l], a, b)
  BY <1>4 DEF Part
<1>6. Leads(g, I, U)
  <2>1. Past(g, f, I, U, Before(S[l], a), After(S[l], b))
    BY <1>3, <1>5 DEF Past
  <2> QED BY <1>2, <2>1, PartsOnward
<1>7. ASSUME NEW i \in 1..Len(T[new])
      PROVE  g[T[new][i]] = IF i < Len(T[new]) THEN T[new][i + 1] ELSE Null
  <2> DEFINE j == a + i - 1
  <2>1. i \in 1..(b - a + 1) /\ i \in Nat /\ 1 <= i /\ i <= b - a + 1
    BY <1>4
  <2>2. j \in 1..Len(S[l]) /\ a <= j /\ j <= b /\ (i < b - a + 1 <=> j < b)
        /\ (j < b => a + (i + 1) - 1 = j + 1 /\ i + 1 \in 1..(b - a + 1) /\ j < Len(S[l]))
        /\ b \in 1..Len(S[l])
    BY <1>4, <2>1
  <2>3. T[new][i] = S[l][j] /\ (j < b => T[new][i + 1] = S[l][j + 1])
    BY <1>4, <2>1, <2>2
  <2> HIDE DEF j
  <2>4. S[l][j] \in Elem /\ S[l][j] # Before(S[l], a)
    <3>1. S[l][j] \in Elem /\ Null \notin Elem
      BY <1>1, <2>2, ListAssumption
    <3>2. 1 < a => a - 1 \in 1..Len(S[l]) /\ a - 1 # j
      BY <1>4, <2>2
    <3> QED BY <3>1, <3>2, <2>2 DEF Before, Family, Distinct
  <2>5. CASE j < b
    <3>1. S[l][j] # S[l][b]
      BY <2>2, <2>5 DEF Family, Distinct
    <3>2. g[S[l][j]] = S[l][j + 1]
      <4>1. g[S[l][j]] = f[S[l][j]]
        BY <2>4, <3>1
      <4>2. f[S[l][j]] = S[l][j + 1]
        BY <2>2, <2>5 DEF Leads
      <4> QED BY <4>1, <4>2
    <3> QED BY <3>2, <2>2, <2>3, <2>5, <1>4
  <2>6. CASE ~(j < b)
    <3>1. j = b
      BY <2>2, <2>6, <1>4
    <3>2. g[S[l][j]] = Null
      BY <2>4, <3>1
    <3> QED BY <3>2, <2>2, <2>3, <2>6, <1>4
  <2> QED BY <2>5, <2>6
<1>8. ASSUME NEW o \in I, o # new, NEW i \in 1..Len(T[o])
      PROVE  g[T[o][i]] = IF i < Len(T[o]) THEN T[o][i + 1] ELSE Null
  BY <1>1, <1>6, <1>8 DEF Leads
<1> QED BY <1>7, <1>8 DEF Leads

\* ... or back.
LEMMA TearsBack ==
    ASSUME NEW I, NEW S, NEW T, NEW l \in I, NEW new \in I, l # new,
           NEW a \in 1..Len(S[l]), NEW b \in a..Len(S[l]),
           Family(I, S), S[new] = <<>>, Torn(I, S, T, l, a, b, new),
           NEW f, Returns(f, I, S), NEW g,
           \A y \in Elem : g[y] = IF y = After(S[l], b) THEN Before(S[l], a)
                                  ELSE IF y = S[l][a] THEN Null ELSE f[y]
    PROVE  Returns(g, I, T)
<1> DEFINE U == BeforeTorn(T, new)
<1>1. T \in [I -> Seq(Elem)] /\ S \in [I -> Seq(Elem)]
      /\ U \in [I -> Seq(Elem)] /\ U[new] = <<>> /\ \A o \in I : o # new => U[o] = T[o]
  <2>1. T \in [I -> Seq(Elem)] /\ <<>> \in Seq(Elem)
    BY DEF Torn
  <2> QED BY <2>1 DEF BeforeTorn, Family
<1>2. Parted(I, S, U, l, a, b)
  BY TearsParts
<1> HIDE DEF U
<1>3. Family(I, U) /\ \A p : In(I, U, p) <=> In(I, S, p) /\ p \notin Part(S[l], a, b)
  BY <1>2, Parts
<1>4. a \in Nat /\ b \in Nat /\ 1 <= a /\ a <= b /\ b <= Len(S[l]) /\ Len(S[l]) \in Nat
      /\ Len(T[new]) = b - a + 1 /\ \A i \in 1..(b - a + 1) : T[new][i] = S[l][a + i - 1]
  BY <1>1 DEF Torn
<1>5. S[l][a] \in Part(S[l], a, b)
  BY <1>4 DEF Part
<1>6. Returns(g, I, U)
  <2>1. Past(g, f, I, U, After(S[l], b), Before(S[l], a))
    BY <1>3, <1>5 DEF Past
  <2> QED BY <1>2, <2>1, PartsBack
<1>7. ASSUME NEW i \in 1..Len(T[new])
      PROVE  g[T[new][i]] = IF 1 < i THEN T[new][i - 1] ELSE Null
  <2> DEFINE j == a + i - 1
  <2>1. i \in 1..(b - a + 1) /\ i \in Nat /\ 1 <= i /\ i <= b - a + 1
    BY <1>4
  <2>2. j \in 1..Len(S[l]) /\ a <= j /\ j <= b /\ (1 < i <=> a < j)
        /\ (a < j => a + (i - 1) - 1 = j - 1 /\ i - 1 \in 1..(b - a + 1) /\ 1 < j)
        /\ a \in 1..Len(S[l])
    BY <1>4, <2>1
  <2>3. T[new][i] = S[l][j] /\ (a < j => T[new][i - 1] = S[l][j - 1])
    BY <1>4, <2>1, <2>2
  <2> HIDE DEF j
  <2>4. S[l][j] \in Elem /\ S[l][j] # After(S[l], b)
    <3>1. S[l][j] \in Elem /\ Null \notin Elem
      BY <1>1, <2>2, ListAssumption
    <3>2. b < Len(S[l]) => b + 1 \in 1..Len(S[l]) /\ b + 1 # j
      BY <1>4, <2>2
    <3> QED BY <3>1, <3>2, <2>2 DEF After, Family, Distinct
  <2>5. CASE a < j
    <3>1. S[l][j] # S[l][a]
      BY <2>2, <2>5 DEF Family, Distinct
    <3>2. g[S[l][j]] = S[l][j - 1]
      <4>1. g[S[l][j]] = f[S[l][j]]
        BY <2>4, <3>1
      <4>2. f[S[l][j]] = S[l][j - 1]
        BY <2>2, <2>5 DEF Returns
      <4> QED BY <4>1, <4>2
    <3> QED BY <3>2, <2>2, <2>3, <2>5, <1>4
  <2>6. CASE ~(a < j)
    <3>1. j = a
      BY <2>2, <2>6, <1>4
    <3>2. g[S[l][j]] = Null
      BY <2>4, <3>1
    <3> QED BY <3>2, <2>2, <2>3, <2>6, <1>4
  <2> QED BY <2>5, <2>6
<1>8. ASSUME NEW o \in I, o # new, NEW i \in 1..Len(T[o])
      PROVE  g[T[o][i]] = IF 1 < i THEN T[o][i - 1] ELSE Null
  BY <1>1, <1>6, <1>8 DEF Returns
<1> QED BY <1>7, <1>8 DEF Returns

-----------------------------------------------------------------------------
\* The stores of the code, on fields that lead onward or back.
LEMMA PutIs ==
    ASSUME NEW f \in [Ptr -> Ptr], NEW p \in Ptr, NEW v \in Ptr
    PROVE  /\ Put(f, p, v) \in [Ptr -> Ptr]
           /\ \A q \in Ptr : Put(f, p, v)[q] = IF q = p /\ p # Null THEN v ELSE f[q]
<1>1. CASE p = Null
  BY <1>1 DEF Put
<1>2. CASE p # Null
  BY <1>2 DEF Put
<1> QED BY <1>1, <1>2

\* What the field of freed nodes is.
LEMMA ForgetIs ==
    ASSUME NEW f \in [Ptr -> Ptr], NEW M
    PROVE  /\ Forget(f, M) \in [Ptr -> Ptr]
           /\ \A q \in Ptr : Forget(f, M)[q] = IF q \in M THEN Null ELSE f[q]
BY DEF Forget, Ptr

\* The neighbours of a position are pointers.
LEMMA Neighbours ==
    ASSUME NEW s \in Seq(Elem), NEW k \in 1..(Len(s) + 1)
    PROVE  /\ Before(s, k) \in Ptr /\ At(s, k) \in Ptr /\ After(s, k) \in Ptr
           /\ Before(s, k) # Null => k - 1 \in 1..Len(s) /\ Before(s, k) = s[k - 1]
           /\ At(s, k) # Null => k \in 1..Len(s) /\ At(s, k) = s[k]
           /\ After(s, k) # Null => k + 1 \in 1..Len(s) /\ After(s, k) = s[k + 1]
<1>1. Len(s) \in Nat /\ k \in Nat /\ 1 <= k /\ k <= Len(s) + 1 /\ \A i \in 1..Len(s) : s[i] \in Ptr
  BY DEF Ptr
<1>2. /\ 1 < k => k - 1 \in 1..Len(s)
      /\ k <= Len(s) => k \in 1..Len(s)
      /\ k < Len(s) => k + 1 \in 1..Len(s)
  BY <1>1
<1> QED BY <1>1, <1>2 DEF Before, At, After, Ptr

\* NULL is a pointer to no element.
LEMMA Pointers ==
    Null \in Ptr /\ Null \notin Elem /\ \A x \in Elem : x \in Ptr /\ x # Null
BY ListAssumption DEF Ptr

\* The stores that place x, in either order, ...
LEMMA PlaceNext ==
    ASSUME NEW I, NEW S, NEW T, NEW l \in I, NEW k \in 1..(Len(S[l]) + 1), NEW x \in Elem,
           Family(I, S), ~In(I, S, x), Entered(I, S, T, l, k, x), NEW f, Onward(f, I, S),
           NEW g, \/ g = Put(Put(f, Before(S[l], k), x), x, At(S[l], k))
                  \/ g = Put(Put(f, x, At(S[l], k)), Before(S[l], k), x)
    PROVE  Onward(g, I, T)
<1> DEFINE p == Before(S[l], k)
           n == At(S[l], k)
<1>1. S[l] \in Seq(Elem) /\ f \in [Ptr -> Ptr]
  BY DEF Family, Onward
<1>2. p \in Ptr /\ n \in Ptr /\ x \in Ptr /\ x # Null /\ Null \in Ptr
  BY <1>1, Neighbours, Pointers
<1>3. p # x
  BY <1>1, <1>2, Neighbours DEF In
<1>4. ~In(I, S, Null)
  BY Pointers DEF In, Family
<1>5. f[Null] = Null
  BY <1>2, <1>4 DEF Onward
<1> HIDE DEF p, n
<1>6. /\ g \in [Ptr -> Ptr]
      /\ \A q \in Ptr : g[q] = IF q = x THEN n ELSE IF q = p /\ p # Null THEN x ELSE f[q]
  <2>1. CASE g = Put(Put(f, p, x), x, n)
    <3> DEFINE h == Put(f, p, x)
    <3>1. h \in [Ptr -> Ptr] /\ \A q \in Ptr : h[q] = IF q = p /\ p # Null THEN x ELSE f[q]
      BY <1>1, <1>2, PutIs
    <3> HIDE DEF h
    <3>2. /\ Put(h, x, n) \in [Ptr -> Ptr]
          /\ \A q \in Ptr : Put(h, x, n)[q] = IF q = x /\ x # Null THEN n ELSE h[q]
      BY <1>2, <3>1, PutIs
    <3> QED BY <2>1, <3>1, <3>2, <1>2 DEF h
  <2>2. CASE g = Put(Put(f, x, n), p, x)
    <3> DEFINE h == Put(f, x, n)
    <3>1. h \in [Ptr -> Ptr] /\ \A q \in Ptr : h[q] = IF q = x /\ x # Null THEN n ELSE f[q]
      BY <1>1, <1>2, PutIs
    <3> HIDE DEF h
    <3>2. /\ Put(h, p, x) \in [Ptr -> Ptr]
          /\ \A q \in Ptr : Put(h, p, x)[q] = IF q = p /\ p # Null THEN x ELSE h[q]
      BY <1>2, <3>1, PutIs
    <3> QED BY <2>2, <3>1, <3>2, <1>2, <1>3 DEF h
  <2> QED BY <2>1, <2>2 DEF p, n
<1>7. g[Null] = Null
  BY <1>2, <1>5, <1>6
<1>8. \A y \in Elem : g[y] = IF y = x THEN n ELSE IF y = p THEN x ELSE f[y]
  BY <1>6, Pointers
<1> QED BY <1>6, <1>7, <1>8, EntersOnward DEF p, n

\* ... and those to the other field.
LEMMA PlacePrev ==
    ASSUME NEW I, NEW S, NEW T, NEW l \in I, NEW k \in 1..(Len(S[l]) + 1), NEW x \in Elem,
           Family(I, S), ~In(I, S, x), Entered(I, S, T, l, k, x), NEW f, Back(f, I, S),
           NEW g, g = Put(Put(f, At(S[l], k), x), x, Before(S[l], k))
    PROVE  Back(g, I, T)
<1> DEFINE p == Before(S[l], k)
           n == At(S[l], k)
           h == Put(f, n, x)
<1>1. S[l] \in Seq(Elem) /\ f \in [Ptr -> Ptr]
  BY DEF Family, Back
<1>2. p \in Ptr /\ n \in Ptr /\ x \in Ptr /\ x # Null /\ Null \in Ptr
  BY <1>1, Neighbours, Pointers
<1>4. ~In(I, S, Null)
  BY Pointers DEF In, Family
<1>5. f[Null] = Null
  BY <1>2, <1>4 DEF Back
<1>6. g = Put(h, x, p)
  OBVIOUS
<1> HIDE DEF p, n
<1>7. h \in [Ptr -> Ptr] /\ \A q \in Ptr : h[q] = IF q = n /\ n # Null THEN x ELSE f[q]
  BY <1>1, <1>2, PutIs
<1> HIDE DEF h
<1>8. g \in [Ptr -> Ptr] /\ \A q \in Ptr : g[q] = IF q = x /\ x # Null THEN p ELSE h[q]
  <2>1. h \in [Ptr -> Ptr]
    BY <1>7
  <2>2. g = Put(h, x, p)
    BY <1>6
  <2>3. /\ Put(h, x, p) \in [Ptr -> Ptr]
        /\ \A q \in Ptr : Put(h, x, p)[q] = IF q = x /\ x # Null THEN p ELSE h[q]
    BY <2>1, <1>2, PutIs
  <2> QED BY <2>2, <2>3
<1>9. g[Null] = Null
  BY <1>2, <1>5, <1>7, <1>8
<1>10. \A y \in Elem : g[y] = IF y = x THEN p ELSE IF y = n THEN x ELSE f[y]
  BY <1>7, <1>8, Pointers
<1> QED BY <1>8, <1>9, <1>10, EntersBack DEF p, n

\* Onward by its parts.
LEMMA OnwardIs ==
    ASSUME NEW f, NEW I, NEW S
    PROVE  Onward(f, I, S) <=> /\ f \in [Ptr -> Ptr]
                               /\ Leads(f, I, S)
                               /\ \A p \in Ptr : ~In(I, S, p) => f[p] = Null
BY DEF Onward, Leads

\* Back by its parts.
LEMMA BackIs ==
    ASSUME NEW f, NEW I, NEW S
    PROVE  Back(f, I, S) <=> /\ f \in [Ptr -> Ptr]
                             /\ Returns(f, I, S)
                             /\ \A p \in Ptr : ~In(I, S, p) => f[p] = Null
BY DEF Back, Returns

\* The stores that unlink a node, ...
LEMMA CutNext ==
    ASSUME NEW I, NEW S, NEW T, NEW l \in I, NEW k \in 1..Len(S[l]),
           Family(I, S), Parted(I, S, T, l, k, k), NEW f, Onward(f, I, S),
           NEW g, g = Forget(Put(f, Before(S[l], k), After(S[l], k)), {S[l][k]})
    PROVE  Onward(g, I, T)
<1> DEFINE p == Before(S[l], k)
           n == After(S[l], k)
           h == Put(f, p, n)
           x == S[l][k]
<1>0. Len(S[l]) \in Nat /\ k \in 1..(Len(S[l]) + 1) /\ k \in k..Len(S[l]) /\ k - k + 1 = 1
  BY DEF Family
<1>1. S[l] \in Seq(Elem) /\ f \in [Ptr -> Ptr] /\ Leads(f, I, S)
      /\ \A q \in Ptr : ~In(I, S, q) => f[q] = Null
  BY OnwardIs DEF Family
<1>2. p \in Ptr /\ n \in Ptr /\ (p # Null => In(I, S, p))
  BY <1>0, <1>1, Neighbours DEF In
<1>3. Family(I, T) /\ \A q : In(I, T, q) <=> In(I, S, q) /\ q \notin Part(S[l], k, k)
  BY <1>0, Parts
<1>4. Part(S[l], k, k) = {x}
  <2>1. \A i \in k..k : i = k
    BY <1>0
  <2> QED BY <2>1, <1>0 DEF Part
<1>5. g = Forget(h, {x})
  BY DEF h, p, n, x
<1>6. p # x
  <2>1. p # Null => k - 1 \in 1..Len(S[l]) /\ p = S[l][k - 1] /\ k - 1 # k
    BY <1>0, <1>1, Neighbours
  <2>2. x # Null
    BY <1>1, Pointers
  <2> QED BY <2>1, <2>2 DEF Family, Distinct
<1> HIDE DEF p, n, x
<1>7. h \in [Ptr -> Ptr] /\ \A q \in Ptr : h[q] = IF q = p /\ p # Null THEN n ELSE f[q]
  <2>1. f \in [Ptr -> Ptr] /\ p \in Ptr /\ n \in Ptr
    BY <1>1, <1>2
  <2> QED BY <2>1, PutIs
<1> HIDE DEF h
<1>8. g \in [Ptr -> Ptr] /\ \A q \in Ptr : g[q] = IF q \in {x} THEN Null ELSE h[q]
  <2>1. h \in [Ptr -> Ptr]
    BY <1>7
  <2> DEFINE M == {x}
  <2>2. g = Forget(h, M)
    BY <1>5
  <2>3. /\ Forget(h, M) \in [Ptr -> Ptr]
        /\ \A q \in Ptr : Forget(h, M)[q] = IF q \in M THEN Null ELSE h[q]
    BY <2>1, ForgetIs
  <2> QED BY <2>2, <2>3
<1>9. Leads(g, I, T)
  <2>1. \A y \in Elem : In(I, T, y) => g[y] = IF y = p THEN n ELSE f[y]
    BY <1>3, <1>4, <1>7, <1>8, Pointers
  <2>2. Past(g, f, I, T, Before(S[l], k), After(S[l], k))
    BY <2>1 DEF p, n, Past
  <2>3. Leads(f, I, S) /\ k \in k..Len(S[l])
    BY <1>0, <1>1
  <2> QED BY <2>2, <2>3, PartsOnward
<1>10. ASSUME NEW q \in Ptr, ~In(I, T, q)
       PROVE  g[q] = Null
  <2>1. CASE q = x
    BY <2>1, <1>8
  <2>2. CASE q # x
    <3>1. ~In(I, S, q)
      BY <2>2, <1>3, <1>4, <1>10
    <3> QED BY <2>2, <3>1, <1>1, <1>2, <1>7, <1>8
  <2> QED BY <2>1, <2>2
<1> QED BY <1>8, <1>9, <1>10, OnwardIs

\* ... and those to the other field.
LEMMA CutPrev ==
    ASSUME NEW I, NEW S, NEW T, NEW l \in I, NEW k \in 1..Len(S[l]),
           Family(I, S), Parted(I, S, T, l, k, k), NEW f, Back(f, I, S),
           NEW g, g = Forget(Put(f, After(S[l], k), Before(S[l], k)), {S[l][k]})
    PROVE  Back(g, I, T)
<1> DEFINE p == Before(S[l], k)
           n == After(S[l], k)
           h == Put(f, n, p)
           x == S[l][k]
<1>0. Len(S[l]) \in Nat /\ k \in 1..(Len(S[l]) + 1) /\ k \in k..Len(S[l]) /\ k - k + 1 = 1
  BY DEF Family
<1>1. S[l] \in Seq(Elem) /\ f \in [Ptr -> Ptr] /\ Returns(f, I, S)
      /\ \A q \in Ptr : ~In(I, S, q) => f[q] = Null
  BY BackIs DEF Family
<1>2. p \in Ptr /\ n \in Ptr /\ (n # Null => In(I, S, n))
  BY <1>0, <1>1, Neighbours DEF In
<1>3. Family(I, T) /\ \A q : In(I, T, q) <=> In(I, S, q) /\ q \notin Part(S[l], k, k)
  BY <1>0, Parts
<1>4. Part(S[l], k, k) = {x}
  <2>1. \A i \in k..k : i = k
    BY <1>0
  <2> QED BY <2>1, <1>0 DEF Part
<1>5. g = Forget(h, {x})
  OBVIOUS
<1> HIDE DEF p, n, x
<1>7. h \in [Ptr -> Ptr] /\ \A q \in Ptr : h[q] = IF q = n /\ n # Null THEN p ELSE f[q]
  <2>1. f \in [Ptr -> Ptr] /\ p \in Ptr /\ n \in Ptr
    BY <1>1, <1>2
  <2> QED BY <2>1, PutIs
<1> HIDE DEF h
<1>8. g \in [Ptr -> Ptr] /\ \A q \in Ptr : g[q] = IF q \in {x} THEN Null ELSE h[q]
  <2>1. h \in [Ptr -> Ptr]
    BY <1>7
  <2> DEFINE M == {x}
  <2>2. g = Forget(h, M)
    BY <1>5
  <2>3. /\ Forget(h, M) \in [Ptr -> Ptr]
        /\ \A q \in Ptr : Forget(h, M)[q] = IF q \in M THEN Null ELSE h[q]
    BY <2>1, ForgetIs
  <2> QED BY <2>2, <2>3
<1>9. Returns(g, I, T)
  <2>1. \A y \in Elem : In(I, T, y) => g[y] = IF y = n THEN p ELSE f[y]
    BY <1>3, <1>4, <1>7, <1>8, Pointers
  <2>2. Past(g, f, I, T, After(S[l], k), Before(S[l], k))
    BY <2>1 DEF p, n, Past
  <2>3. Returns(f, I, S) /\ k \in k..Len(S[l])
    BY <1>0, <1>1
  <2> QED BY <2>2, <2>3, PartsBack
<1>10. ASSUME NEW q \in Ptr, ~In(I, T, q)
       PROVE  g[q] = Null
  <2>1. CASE q = x
    BY <2>1, <1>8
  <2>2. CASE q # x
    <3>1. ~In(I, S, q)
      BY <2>2, <1>3, <1>4, <1>10
    <3> QED BY <2>2, <3>1, <1>1, <1>2, <1>7, <1>8
  <2> QED BY <2>1, <2>2
<1> QED BY <1>8, <1>9, <1>10, BackIs

\* The store that links two lists, ...
LEMMA JoinNext ==
    ASSUME NEW I, NEW S, NEW T, NEW l \in I, NEW m \in I, l # m,
           Family(I, S), Joined(I, S, T, l, m), Len(S[l]) # 0, Len(S[m]) # 0,
           NEW f, Onward(f, I, S), NEW g, g = Put(f, S[l][Len(S[l])], S[m][1])
    PROVE  Onward(g, I, T)
<1> DEFINE p == S[l][Len(S[l])]
           n == S[m][1]
<1>1. /\ f \in [Ptr -> Ptr] /\ Leads(f, I, S)
      /\ \A q \in Ptr : ~In(I, S, q) => f[q] = Null
  BY OnwardIs
<1>2. Family(I, T) /\ \A q : In(I, T, q) <=> In(I, S, q)
  BY Joins
<1>3. Len(S[l]) \in 1..Len(S[l]) /\ 1 \in 1..Len(S[m]) /\ S \in [I -> Seq(Elem)]
  BY DEF Family
<1>4. p \in Elem /\ n \in Elem /\ In(I, S, p)
  BY <1>3 DEF In
<1>5. p \in Ptr /\ n \in Ptr /\ p # Null
  BY <1>4, Pointers
<1>6. g = Put(f, p, n)
  OBVIOUS
<1> HIDE DEF p, n
<1>7. g \in [Ptr -> Ptr] /\ \A q \in Ptr : g[q] = IF q = p THEN n ELSE f[q]
  <2>1. f \in [Ptr -> Ptr]
    BY <1>1
  <2>2. /\ Put(f, p, n) \in [Ptr -> Ptr]
        /\ \A q \in Ptr : Put(f, p, n)[q] = IF q = p /\ p # Null THEN n ELSE f[q]
    BY <2>1, <1>5, PutIs
  <2> QED BY <2>2, <1>5, <1>6
<1>8. Leads(g, I, T)
  <2>1. \A y \in Elem : g[y] = IF y = S[l][Len(S[l])] THEN S[m][1] ELSE f[y]
    BY <1>7, Pointers DEF p, n
  <2>2. Leads(f, I, S)
    BY <1>1
  <2> QED BY <2>1, <2>2, JoinsOnward
<1>9. \A q \in Ptr : ~In(I, T, q) => g[q] = Null
  BY <1>1, <1>2, <1>4, <1>7
<1> QED BY <1>7, <1>8, <1>9, OnwardIs

\* ... and the one to the other field.
LEMMA JoinPrev ==
    ASSUME NEW I, NEW S, NEW T, NEW l \in I, NEW m \in I, l # m,
           Family(I, S), Joined(I, S, T, l, m), Len(S[l]) # 0, Len(S[m]) # 0,
           NEW f, Back(f, I, S), NEW g, g = Put(f, S[m][1], S[l][Len(S[l])])
    PROVE  Back(g, I, T)
<1> DEFINE p == S[l][Len(S[l])]
           n == S[m][1]
<1>1. /\ f \in [Ptr -> Ptr] /\ Returns(f, I, S)
      /\ \A q \in Ptr : ~In(I, S, q) => f[q] = Null
  BY BackIs
<1>2. Family(I, T) /\ \A q : In(I, T, q) <=> In(I, S, q)
  BY Joins
<1>3. Len(S[l]) \in 1..Len(S[l]) /\ 1 \in 1..Len(S[m]) /\ S \in [I -> Seq(Elem)]
  BY DEF Family
<1>4. p \in Elem /\ n \in Elem /\ In(I, S, n)
  BY <1>3 DEF In
<1>5. p \in Ptr /\ n \in Ptr /\ n # Null
  BY <1>4, Pointers
<1>6. g = Put(f, n, p)
  OBVIOUS
<1> HIDE DEF p, n
<1>7. g \in [Ptr -> Ptr] /\ \A q \in Ptr : g[q] = IF q = n THEN p ELSE f[q]
  <2>1. f \in [Ptr -> Ptr]
    BY <1>1
  <2>2. /\ Put(f, n, p) \in [Ptr -> Ptr]
        /\ \A q \in Ptr : Put(f, n, p)[q] = IF q = n /\ n # Null THEN p ELSE f[q]
    BY <2>1, <1>5, PutIs
  <2> QED BY <2>2, <1>5, <1>6
<1>8. Returns(g, I, T)
  <2>1. \A y \in Elem : g[y] = IF y = S[m][1] THEN S[l][Len(S[l])] ELSE f[y]
    BY <1>7, Pointers DEF p, n
  <2>2. Returns(f, I, S)
    BY <1>1
  <2> QED BY <2>1, <2>2, JoinsBack
<1>9. \A q \in Ptr : ~In(I, T, q) => g[q] = Null
  BY <1>1, <1>2, <1>4, <1>7
<1> QED BY <1>7, <1>8, <1>9, BackIs

\* The stores that cut a part off, ...
LEMMA TearNext ==
    ASSUME NEW I, NEW S, NEW T, NEW l \in I, NEW new \in I, l # new,
           NEW a \in 1..Len(S[l]), NEW b \in a..Len(S[l]),
           Family(I, S), S[new] = <<>>, Torn(I, S, T, l, a, b, new), NEW f, Onward(f, I, S),
           NEW g, g = Put(Put(f, S[l][b], Null), Before(S[l], a), After(S[l], b))
    PROVE  Onward(g, I, T)
<1> DEFINE p == Before(S[l], a)
           n == After(S[l], b)
           t == S[l][b]
           h == Put(f, t, Null)
<1>1. /\ f \in [Ptr -> Ptr] /\ Leads(f, I, S)
      /\ \A q \in Ptr : ~In(I, S, q) => f[q] = Null
  BY OnwardIs
<1>2. Family(I, T) /\ \A q : In(I, T, q) <=> In(I, S, q)
  BY Tears
<1>3. S[l] \in Seq(Elem) /\ a \in 1..(Len(S[l]) + 1) /\ b \in 1..(Len(S[l]) + 1) /\ b \in 1..Len(S[l])
      /\ a <= b /\ a \in Nat /\ b \in Nat
  BY DEF Family
<1>4. p \in Ptr /\ n \in Ptr /\ t \in Ptr /\ t # Null /\ Null \in Ptr
      /\ (p # Null => In(I, S, p)) /\ In(I, S, t) /\ p # t
  <2>1. p \in Ptr /\ n \in Ptr /\ t \in Ptr /\ t # Null /\ Null \in Ptr
    BY <1>3, Neighbours, Pointers
  <2>2. p # Null => a - 1 \in 1..Len(S[l]) /\ p = S[l][a - 1] /\ a - 1 # b
    BY <1>3, Neighbours
  <2>3. p # Null => In(I, S, p)
    BY <2>2 DEF In
  <2>4. p # t
    BY <2>1, <2>2, <1>3 DEF Family, Distinct
  <2> QED BY <2>1, <2>3, <2>4, <1>3 DEF In
<1>5. g = Put(h, p, n)
  OBVIOUS
<1> HIDE DEF p, n, t
<1>6. h \in [Ptr -> Ptr] /\ \A q \in Ptr : h[q] = IF q = t THEN Null ELSE f[q]
  <2>1. f \in [Ptr -> Ptr] /\ t \in Ptr /\ Null \in Ptr
    BY <1>1, <1>4
  <2>2. /\ h \in [Ptr -> Ptr]
        /\ \A q \in Ptr : h[q] = IF q = t /\ t # Null THEN Null ELSE f[q]
    BY <2>1, PutIs
  <2> HIDE DEF h
  <2> QED BY <2>2, <1>4
<1> HIDE DEF h
<1>7. g \in [Ptr -> Ptr] /\ \A q \in Ptr : g[q] = IF q = p /\ p # Null THEN n ELSE h[q]
  <2>1. h \in [Ptr -> Ptr] /\ p \in Ptr /\ n \in Ptr
    BY <1>4, <1>6
  <2>2. /\ Put(h, p, n) \in [Ptr -> Ptr]
        /\ \A q \in Ptr : Put(h, p, n)[q] = IF q = p /\ p # Null THEN n ELSE h[q]
    BY <2>1, PutIs
  <2> QED BY <2>2, <1>5
<1>8. Leads(g, I, T)
  <2>1. \A y \in Elem : g[y] = IF y = p THEN n ELSE IF y = t THEN Null ELSE f[y]
    BY <1>6, <1>7, Pointers
  <2>2. \A y \in Elem : g[y] = IF y = Before(S[l], a) THEN After(S[l], b)
                               ELSE IF y = S[l][b] THEN Null ELSE f[y]
    BY <2>1 DEF p, n, t
  <2>3. Leads(f, I, S)
    BY <1>1
  <2> QED BY <2>2, <2>3, TearsOnward
<1>9. \A q \in Ptr : ~In(I, T, q) => g[q] = Null
  BY <1>1, <1>2, <1>4, <1>6, <1>7
<1> QED BY <1>7, <1>8, <1>9, OnwardIs

\* ... and those to the other field.
LEMMA TearPrev ==
    ASSUME NEW I, NEW S, NEW T, NEW l \in I, NEW new \in I, l # new,
           NEW a \in 1..Len(S[l]), NEW b \in a..Len(S[l]),
           Family(I, S), S[new] = <<>>, Torn(I, S, T, l, a, b, new), NEW f, Back(f, I, S),
           NEW g, g = Put(Put(f, S[l][a], Null), After(S[l], b), Before(S[l], a))
    PROVE  Back(g, I, T)
<1> DEFINE p == Before(S[l], a)
           n == After(S[l], b)
           t == S[l][a]
           h == Put(f, t, Null)
<1>1. /\ f \in [Ptr -> Ptr] /\ Returns(f, I, S)
      /\ \A q \in Ptr : ~In(I, S, q) => f[q] = Null
  BY BackIs
<1>2. Family(I, T) /\ \A q : In(I, T, q) <=> In(I, S, q)
  BY Tears
<1>3. S[l] \in Seq(Elem) /\ a \in 1..(Len(S[l]) + 1) /\ b \in 1..(Len(S[l]) + 1) /\ b \in 1..Len(S[l])
      /\ a <= b /\ a \in Nat /\ b \in Nat
  BY DEF Family
<1>4. p \in Ptr /\ n \in Ptr /\ t \in Ptr /\ t # Null /\ Null \in Ptr
      /\ (n # Null => In(I, S, n)) /\ In(I, S, t) /\ n # t
  <2>1. p \in Ptr /\ n \in Ptr /\ t \in Ptr /\ t # Null /\ Null \in Ptr
    BY <1>3, Neighbours, Pointers
  <2>2. n # Null => b + 1 \in 1..Len(S[l]) /\ n = S[l][b + 1] /\ b + 1 # a
    BY <1>3, Neighbours
  <2>3. n # Null => In(I, S, n)
    BY <2>2 DEF In
  <2>4. n # t
    BY <2>1, <2>2, <1>3 DEF Family, Distinct
  <2> QED BY <2>1, <2>3, <2>4, <1>3 DEF In
<1>5. g = Put(h, n, p)
  OBVIOUS
<1> HIDE DEF p, n, t
<1>6. h \in [Ptr -> Ptr] /\ \A q \in Ptr : h[q] = IF q = t THEN Null ELSE f[q]
  <2>1. f \in [Ptr -> Ptr] /\ t \in Ptr /\ Null \in Ptr
    BY <1>1, <1>4
  <2>2. /\ h \in [Ptr -> Ptr]
        /\ \A q \in Ptr : h[q] = IF q = t /\ t # Null THEN Null ELSE f[q]
    BY <2>1, PutIs
  <2> HIDE DEF h
  <2> QED BY <2>2, <1>4
<1> HIDE DEF h
<1>7. g \in [Ptr -> Ptr] /\ \A q \in Ptr : g[q] = IF q = n /\ n # Null THEN p ELSE h[q]
  <2>1. h \in [Ptr -> Ptr] /\ p \in Ptr /\ n \in Ptr
    BY <1>4, <1>6
  <2>2. /\ Put(h, n, p) \in [Ptr -> Ptr]
        /\ \A q \in Ptr : Put(h, n, p)[q] = IF q = n /\ n # Null THEN p ELSE h[q]
    BY <2>1, PutIs
  <2> QED BY <2>2, <1>5
<1>8. Returns(g, I, T)
  <2>1. \A y \in Elem : g[y] = IF y = n THEN p ELSE IF y = t THEN Null ELSE f[y]
    BY <1>6, <1>7, Pointers
  <2>2. \A y \in Elem : g[y] = IF y = After(S[l], b) THEN Before(S[l], a)
                               ELSE IF y = S[l][a] THEN Null ELSE f[y]
    BY <2>1 DEF p, n, t
  <2>3. Returns(f, I, S)
    BY <1>1
  <2> QED BY <2>2, <2>3, TearsBack
<1>9. \A q \in Ptr : ~In(I, T, q) => g[q] = Null
  BY <1>1, <1>2, <1>4, <1>6, <1>7
<1> QED BY <1>7, <1>8, <1>9, BackIs

\* The elements of sequence l go.
Emptied(I, S, T, l) ==
    /\ T \in [I -> Seq(Elem)]
    /\ \A m \in I : m # l => T[m] = S[m]
    /\ T[l] = <<>>

\* Without all elements of a list the sequences stay distinct.
LEMMA Empties ==
    ASSUME NEW I, NEW S, NEW T, NEW l \in I, Family(I, S), Emptied(I, S, T, l)
    PROVE  /\ Family(I, T)
           /\ \A p : In(I, T, p) <=> In(I, S, p) /\ p \notin {S[l][i] : i \in 1..Len(S[l])}
<1>1. \A m \in I : \A i \in 1..Len(T[m]) : m # l /\ T[m] = S[m] /\ i \in 1..Len(S[m])
  BY DEF Emptied
<1>2. Family(I, T)
  BY <1>1 DEF Family, Distinct, Emptied
<1>3. ASSUME NEW p, In(I, T, p)
      PROVE  In(I, S, p) /\ p \notin {S[l][i] : i \in 1..Len(S[l])}
  <2>1. PICK m \in I : \E i \in 1..Len(T[m]) : p = T[m][i]
    BY <1>3 DEF In
  <2>2. PICK i \in 1..Len(T[m]) : p = T[m][i]
    BY <2>1
  <2>3. m # l /\ i \in 1..Len(S[m]) /\ p = S[m][i]
    BY <1>1, <2>2
  <2> QED BY <2>3 DEF In, Family, Distinct
<1>4. ASSUME NEW p, In(I, S, p), p \notin {S[l][i] : i \in 1..Len(S[l])}
      PROVE  In(I, T, p)
  <2>1. PICK m \in I : \E i \in 1..Len(S[m]) : p = S[m][i]
    BY <1>4 DEF In
  <2>2. m # l
    BY <1>4, <2>1
  <2> QED BY <2>1, <2>2 DEF In, Emptied
<1> QED BY <1>2, <1>3, <1>4

\* Freeing them leaves fields that lead onward ...
LEMMA EmptyNext ==
    ASSUME NEW I, NEW S, NEW T, NEW l \in I, Family(I, S), Emptied(I, S, T, l),
           NEW f, Onward(f, I, S), NEW g, g = Forget(f, {S[l][i] : i \in 1..Len(S[l])})
    PROVE  Onward(g, I, T)
<1> DEFINE M == {S[l][i] : i \in 1..Len(S[l])}
<1>1. \A p : In(I, T, p) <=> In(I, S, p) /\ p \notin M
  BY Empties
<1>2. g \in [Ptr -> Ptr] /\ \A q \in Ptr : g[q] = IF q \in M THEN Null ELSE f[q]
  BY ForgetIs DEF Onward
<1>3. ASSUME NEW m \in I, NEW i \in 1..Len(T[m])
      PROVE  g[T[m][i]] = IF i < Len(T[m]) THEN T[m][i + 1] ELSE Null
  <2>1. m # l /\ T[m] = S[m] /\ i \in 1..Len(S[m])
    BY DEF Emptied
  <2>2. In(I, T, T[m][i]) /\ T[m][i] \in Ptr
    BY <2>1, Pointers DEF In, Family
  <2> QED BY <2>1, <2>2, <1>1, <1>2 DEF Onward
<1>4. \A p \in Ptr : ~In(I, T, p) => g[p] = Null
  BY <1>1, <1>2 DEF Onward
<1> QED BY <1>2, <1>3, <1>4 DEF Onward

\* ... and back.
LEMMA EmptyPrev ==
    ASSUME NEW I, NEW S, NEW T, NEW l \in I, Family(I, S), Emptied(I, S, T, l),
           NEW f, Back(f, I, S), NEW g, g = Forget(f, {S[l][i] : i \in 1..Len(S[l])})
    PROVE  Back(g, I, T)
<1> DEFINE M == {S[l][i] : i \in 1..Len(S[l])}
<1>1. \A p : In(I, T, p) <=> In(I, S, p) /\ p \notin M
  BY Empties
<1>2. g \in [Ptr -> Ptr] /\ \A q \in Ptr : g[q] = IF q \in M THEN Null ELSE f[q]
  BY ForgetIs DEF Back
<1>3. ASSUME NEW m \in I, NEW i \in 1..Len(T[m])
      PROVE  g[T[m][i]] = IF 1 < i THEN T[m][i - 1] ELSE Null
  <2>1. m # l /\ T[m] = S[m] /\ i \in 1..Len(S[m])
    BY DEF Emptied
  <2>2. In(I, T, T[m][i]) /\ T[m][i] \in Ptr
    BY <2>1, Pointers DEF In, Family
  <2> QED BY <2>1, <2>2, <1>1, <1>2 DEF Back
<1>4. \A p \in Ptr : ~In(I, T, p) => g[p] = Null
  BY <1>1, <1>2 DEF Back
<1> QED BY <1>2, <1>3, <1>4 DEF Back

-----------------------------------------------------------------------------
\* Back along a field is onward along it in the reversed sequences.
End(s) == IF Len(s) = 0 THEN Null ELSE s[Len(s)]

\* What Reverse returns.
LEMMA ReverseIs ==
    ASSUME NEW s \in Seq(Elem)
    PROVE  /\ Reverse(s) \in Seq(Elem) /\ Len(Reverse(s)) = Len(s)
           /\ \A i \in 1..Len(s) : Reverse(s)[i] = s[Len(s) - i + 1]
           /\ First(Reverse(s)) = End(s)
<1>1. Len(s) \in Nat /\ \A i \in 1..Len(s) : Len(s) - i + 1 \in 1..Len(s)
  OBVIOUS
<1>2. Reverse(s) = [i \in 1..Len(s) |-> s[(Len(s) - i) + 1]]
  BY DEF Reverse
<1>3. /\ Reverse(s) \in Seq(Elem) /\ Len(Reverse(s)) = Len(s)
      /\ \A i \in 1..Len(s) : Reverse(s)[i] = s[Len(s) - i + 1]
  BY <1>1, <1>2
<1>4. Len(s) # 0 => 1 \in 1..Len(s) /\ Len(s) - 1 + 1 = Len(s)
  BY <1>1
<1> QED BY <1>3, <1>4 DEF First, End

Mirror(I, S) == [l \in I |-> Reverse(S[l])]

\* Back along the sequences is onward along the reversed ones.
LEMMA MirrorOnward ==
    ASSUME NEW I, NEW S, Family(I, S), NEW f, Back(f, I, S)
    PROVE  Family(I, Mirror(I, S)) /\ Onward(f, I, Mirror(I, S))
<1> DEFINE R == Mirror(I, S)
           n(l) == Len(S[l])
<1>1. ASSUME NEW l \in I
      PROVE  /\ R[l] \in Seq(Elem) /\ n(l) \in Nat /\ Len(R[l]) = n(l)
             /\ \A i \in 1..n(l) : R[l][i] = S[l][n(l) - i + 1]
  <2>1. S[l] \in Seq(Elem) /\ R[l] = Reverse(S[l])
    BY DEF Family, Mirror
  <2> QED BY <2>1, ReverseIs
<1>2. R \in [I -> Seq(Elem)]
  <2>1. R = [l \in I |-> R[l]]
    BY DEF Mirror
  <2> HIDE DEF R
  <2> QED BY <1>1, <2>1
<1> HIDE DEF R
<1>3. ASSUME NEW l \in I, NEW i \in 1..n(l)
      PROVE  n(l) - i + 1 \in 1..n(l)
  BY <1>1
<1>4. ASSUME NEW l \in I, NEW m \in I, NEW i \in 1..Len(R[l]), NEW j \in 1..Len(R[m]),
             R[l][i] = R[m][j]
      PROVE  l = m /\ i = j
  <2>1. n(l) - i + 1 \in 1..n(l) /\ n(m) - j + 1 \in 1..n(m)
        /\ S[l][n(l) - i + 1] = S[m][n(m) - j + 1]
    BY <1>1, <1>3, <1>4
  <2>2. l = m /\ n(l) - i + 1 = n(m) - j + 1
    BY <2>1, SameSpot DEF Family
  <2>3. n(l) \in Nat /\ i \in Int /\ j \in Int
    BY <1>1
  <2> QED BY <2>2, <2>3
<1>5. Family(I, R)
  BY <1>2, <1>4 DEF Family, Distinct
<1>6. ASSUME NEW p
      PROVE  In(I, R, p) <=> In(I, S, p)
  <2>1. ASSUME NEW l \in I, NEW i \in 1..n(l)
        PROVE  /\ n(l) - i + 1 \in 1..n(l) /\ R[l][i] = S[l][n(l) - i + 1]
               /\ R[l][n(l) - i + 1] = S[l][i]
    <3>1. n(l) - i + 1 \in 1..n(l) /\ n(l) - (n(l) - i + 1) + 1 = i
      BY <1>1, <1>3
    <3> QED BY <1>1, <3>1
  <2> QED BY <1>1, <2>1 DEF In
<1>7. ASSUME NEW l \in I, NEW i \in 1..Len(R[l])
      PROVE  f[R[l][i]] = IF i < Len(R[l]) THEN R[l][i + 1] ELSE Null
  <2> DEFINE j == n(l) - i + 1
  <2>1. n(l) \in Nat /\ i \in 1..n(l) /\ Len(R[l]) = n(l) /\ R[l][i] = S[l][j]
    BY <1>1
  <2>2. j \in 1..n(l) /\ (1 < j <=> i < n(l))
        /\ (i < n(l) => i + 1 \in 1..n(l) /\ n(l) - (i + 1) + 1 = j - 1)
    BY <2>1
  <2>3. i < n(l) => R[l][i + 1] = S[l][j - 1]
    BY <1>1, <2>2
  <2> HIDE DEF j
  <2>4. f[S[l][j]] = IF 1 < j THEN S[l][j - 1] ELSE Null
    BY <2>2 DEF Back
  <2> QED BY <2>1, <2>2, <2>3, <2>4
<1>8. Onward(f, I, R)
  BY <1>6, <1>7 DEF Onward, Back
<1> QED BY <1>5, <1>8 DEF R

\* A loop along a field that leads back sees the sequence reversed.
LEMMA WalkBack ==
    ASSUME NEW I, NEW S, Family(I, S), NEW f, Back(f, I, S), NEW l \in I
    PROVE  Walk(f, End(S[l])) = Reverse(S[l])
<1>1. Family(I, Mirror(I, S)) /\ Onward(f, I, Mirror(I, S))
  BY MirrorOnward
<1>2. Mirror(I, S)[l] = Reverse(S[l]) /\ S[l] \in Seq(Elem)
  BY DEF Mirror, Family
<1>3. Walk(f, First(Mirror(I, S)[l])) = Mirror(I, S)[l]
  BY <1>1, WalkIs
<1> QED BY <1>2, <1>3, ReverseIs

\* A list k whose first r elements are turned round.
Half(f, s, r) ==
    \A i \in 1..Len(s) :
        f[s[i]] = IF i <= r THEN IF 1 < i THEN s[i - 1] ELSE Null
                  ELSE IF i < Len(s) THEN s[i + 1] ELSE Null

Turns(f, I, S, k, r) ==
    /\ f \in [Ptr -> Ptr]
    /\ Half(f, S[k], r)
    /\ \A l \in I : l # k => \A i \in 1..Len(S[l]) :
         f[S[l][i]] = IF i < Len(S[l]) THEN S[l][i + 1] ELSE Null
    /\ \A p \in Ptr : ~In(I, S, p) => f[p] = Null

\* Its two chains, the turned one under the index Null.
Halves(I, S, k, r) ==
    [l \in I \cup {Null} |->
       IF l = Null THEN [i \in 1..r |-> S[k][r - i + 1]]
       ELSE IF l = k THEN [i \in 1..(Len(S[k]) - r) |-> S[k][r + i]] ELSE S[l]]

\* In the middle of a reversal the field leads onward along both chains.
LEMMA HalvesOnward ==
    ASSUME NEW I, Null \notin I, NEW S, Family(I, S), NEW k \in I, NEW r \in 1..(Len(S[k]) - 1),
           NEW f, Turns(f, I, S, k, r)
    PROVE  /\ Family(I \cup {Null}, Halves(I, S, k, r))
           /\ Onward(f, I \cup {Null}, Halves(I, S, k, r))
<1> DEFINE G == Halves(I, S, k, r)
           J == I \cup {Null}
           s == S[k]
           n == Len(s)
           at(l) == IF l = Null THEN k ELSE l
           old(l, i) == IF l = Null THEN r - i + 1 ELSE IF l = k THEN r + i ELSE i
<1>1. s \in Seq(Elem) /\ n \in Nat /\ r \in Nat /\ 1 <= r /\ r < n /\ S \in [I -> Seq(Elem)]
      /\ \A l \in I : Len(S[l]) \in Nat
  BY DEF Family
<1>2. /\ G[Null] = [i \in 1..r |-> s[r - i + 1]]
      /\ G[k] = [i \in 1..(n - r) |-> s[r + i]]
      /\ \A l \in I : l # k => G[l] = S[l]
      /\ G = [l \in J |-> G[l]]
  BY DEF Halves
<1> HIDE DEF G
<1>3. /\ \A i \in 1..r : r - i + 1 \in 1..r /\ r - i + 1 \in 1..n
      /\ \A i \in 1..(n - r) : r + i \in 1..n /\ ~(r + i <= r)
  BY <1>1
<1>4. /\ G[Null] \in Seq(Elem) /\ Len(G[Null]) = r
      /\ \A i \in 1..r : G[Null][i] = s[r - i + 1]
  <2> HIDE DEF s, n
  <2>1. r \in Nat /\ \A i \in 1..r : s[r - i + 1] \in Elem
    <3>1. \A i \in 1..n : s[i] \in Elem
      BY <1>1 DEF n
    <3> QED BY <1>1, <1>3, <3>1
  <2> DEFINE t == [i \in 1..r |-> s[r - i + 1]]
  <2>2. t \in Seq(Elem) /\ Len(t) = r /\ \A i \in 1..r : t[i] = s[r - i + 1]
    BY <2>1
  <2>3. G[Null] = t
    BY <1>2
  <2> HIDE DEF t
  <2> QED BY <2>2, <2>3
<1>5. /\ G[k] \in Seq(Elem) /\ Len(G[k]) = n - r
      /\ \A i \in 1..(n - r) : G[k][i] = s[r + i]
  <2> HIDE DEF s, n
  <2>1. n - r \in Nat /\ \A i \in 1..(n - r) : s[r + i] \in Elem
    <3>1. n - r \in Nat
      BY <1>1
    <3>2. \A i \in 1..n : s[i] \in Elem
      BY <1>1 DEF n
    <3> QED BY <1>3, <3>1, <3>2
  <2> DEFINE t == [i \in 1..(n - r) |-> s[r + i]]
  <2>2. t \in Seq(Elem) /\ Len(t) = n - r /\ \A i \in 1..(n - r) : t[i] = s[r + i]
    BY <2>1
  <2>3. G[k] = t
    BY <1>2
  <2> HIDE DEF t
  <2> QED BY <2>2, <2>3
<1>6. \A l \in I : l # k => G[l] = S[l]
  BY <1>2
<1>7. G \in [J -> Seq(Elem)]
  <2>1. \A l \in J : G[l] \in Seq(Elem)
    BY <1>1, <1>4, <1>5, <1>6
  <2> QED BY <1>2, <2>1
<1>8. ASSUME NEW l \in J, NEW i \in 1..Len(G[l])
      PROVE  /\ at(l) \in I /\ old(l, i) \in 1..Len(S[at(l)])
             /\ G[l][i] = S[at(l)][old(l, i)] /\ i \in Int
             /\ l = Null => old(l, i) <= r
             /\ l = k => r < old(l, i)
  <2>0. k # Null
    OBVIOUS
  <2>1. CASE l = Null
    <3>1. i \in 1..r
      BY <2>1, <1>4
    <3>2. at(l) = k /\ old(l, i) = r - i + 1 /\ r - i + 1 \in 1..n /\ r - i + 1 <= r
      BY <2>1, <3>1, <1>1, <1>3
    <3> QED BY <2>0, <2>1, <3>1, <3>2, <1>4
  <2>2. CASE l = k
    <3>1. i \in 1..(n - r)
      BY <2>2, <1>5
    <3>2. at(l) = k /\ old(l, i) = r + i /\ r + i \in 1..n /\ r < r + i
      BY <2>0, <2>2, <3>1, <1>1, <1>3
    <3> QED BY <2>0, <2>2, <3>1, <3>2, <1>5
  <2>3. CASE l # Null /\ l # k
    BY <2>3, <1>1, <1>6
  <2> QED BY <2>1, <2>2, <2>3
<1>9. ASSUME NEW l \in J, NEW m \in J, NEW i \in 1..Len(G[l]), NEW j \in 1..Len(G[m]),
             G[l][i] = G[m][j]
      PROVE  l = m /\ i = j
  <2>1. at(l) = at(m) /\ old(l, i) = old(m, j)
    <3>1. /\ at(l) \in I /\ old(l, i) \in 1..Len(S[at(l)]) /\ G[l][i] = S[at(l)][old(l, i)]
          /\ at(m) \in I /\ old(m, j) \in 1..Len(S[at(m)]) /\ G[m][j] = S[at(m)][old(m, j)]
      BY <1>8
    <3>2. S[at(l)][old(l, i)] = S[at(m)][old(m, j)] /\ Distinct(I, S)
      BY <3>1, <1>9 DEF Family
    <3> HIDE DEF at, old
    <3> QED BY <3>1, <3>2, SameSpot
  <2>2. /\ l = Null => old(l, i) <= r
        /\ l = k => r < old(l, i)
        /\ m = Null => old(m, j) <= r
        /\ m = k => r < old(m, j)
        /\ i \in Int /\ j \in Int
    BY <1>8
  <2>3. l = m
    <3>1. CASE l = Null /\ m = k
      BY <2>1, <2>2, <3>1, <1>1
    <3>2. CASE l = k /\ m = Null
      BY <2>1, <2>2, <3>2, <1>1
    <3>3. CASE ~(l = Null /\ m = k) /\ ~(l = k /\ m = Null)
      BY <2>1, <3>3
    <3> QED BY <3>1, <3>2, <3>3
  <2> QED BY <2>1, <2>2, <2>3, <1>1
<1>10. Family(J, G)
  BY <1>7, <1>9 DEF Family, Distinct
<1>11. ASSUME NEW p, In(I, S, p)
       PROVE  In(J, G, p)
  <2>1. PICK l \in I : \E i \in 1..Len(S[l]) : p = S[l][i]
    BY <1>11 DEF In
  <2>2. PICK i \in 1..Len(S[l]) : p = S[l][i]
    BY <2>1
  <2>3. CASE l # k
    BY <2>2, <2>3, <1>6 DEF In
  <2>n. i \in Int
    OBVIOUS
  <2>4. CASE l = k /\ i <= r
    <3>1. r - i + 1 \in 1..r /\ r - (r - i + 1) + 1 = i
      BY <2>4, <1>1
    <3>2. r - i + 1 \in 1..Len(G[Null]) /\ p = G[Null][r - i + 1]
      BY <2>2, <2>4, <3>1, <1>4
    <3> QED BY <3>2 DEF In
  <2>5. CASE l = k /\ ~(i <= r)
    <3>1. i - r \in 1..(n - r) /\ r + (i - r) = i
      BY <2>5, <1>1
    <3>2. i - r \in 1..Len(G[k]) /\ p = G[k][i - r]
      BY <2>2, <2>5, <3>1, <1>5
    <3> QED BY <3>2 DEF In
  <2> QED BY <2>3, <2>4, <2>5
<1>12. ASSUME NEW i \in 1..Len(G[Null])
       PROVE  f[G[Null][i]] = IF i < Len(G[Null]) THEN G[Null][i + 1] ELSE Null
  <2> DEFINE j == r - i + 1
  <2>1. i \in 1..r /\ G[Null][i] = s[j] /\ Len(G[Null]) = r
    BY <1>4
  <2>a. i \in Nat /\ 1 <= i /\ i <= r /\ r \in Nat /\ n \in Nat /\ r < n
    BY <2>1, <1>1
  <2> HIDE DEF n
  <2>2. j \in 1..n /\ j <= r /\ (1 < j <=> i < r)
        /\ (i < r => i + 1 \in 1..r /\ r - (i + 1) + 1 = j - 1)
    BY <2>a
  <2> USE DEF n
  <2>3. i < r => G[Null][i + 1] = s[j - 1]
    BY <2>2, <1>4
  <2> HIDE DEF j
  <2>4. f[s[j]] = IF 1 < j THEN s[j - 1] ELSE Null
    BY <2>2 DEF Turns, Half
  <2> HIDE DEF s
  <2> QED BY <2>1, <2>2, <2>3, <2>4
<1>13. ASSUME NEW i \in 1..Len(G[k])
       PROVE  f[G[k][i]] = IF i < Len(G[k]) THEN G[k][i + 1] ELSE Null
  <2> DEFINE j == r + i
  <2>1. i \in 1..(n - r) /\ G[k][i] = s[j] /\ Len(G[k]) = n - r
    BY <1>5
  <2>2. j \in 1..n /\ ~(j <= r) /\ (j < n <=> i < n - r)
        /\ (i < n - r => i + 1 \in 1..(n - r) /\ r + (i + 1) = j + 1)
    BY <2>1, <1>1
  <2>3. i < n - r => G[k][i + 1] = s[j + 1]
    BY <2>2, <1>5
  <2> HIDE DEF j
  <2>4. f[s[j]] = IF j < n THEN s[j + 1] ELSE Null
    BY <2>2 DEF Turns, Half
  <2> HIDE DEF s
  <2> QED BY <2>1, <2>2, <2>3, <2>4
<1>14. ASSUME NEW l \in J, NEW i \in 1..Len(G[l])
       PROVE  f[G[l][i]] = IF i < Len(G[l]) THEN G[l][i + 1] ELSE Null
  <2>1. CASE l # Null /\ l # k
    BY <2>1, <1>6 DEF Turns
  <2> QED BY <2>1, <1>12, <1>13
<1>15. Onward(f, J, G)
  BY <1>11, <1>14 DEF Onward, Turns
<1> QED BY <1>10, <1>15 DEF G
=============================================================================
