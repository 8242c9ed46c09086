---------------------------- MODULE AnalysisProofs ----------------------------
(***************************************************************************)
(* Theorems about Analysis, for every scenario and all limits.             *)
(*                                                                         *)
(*   ShownChainsAreWhole    a chain that is shown has all it refers to     *)
(*   NothingDisappears      the report accounts for every finding          *)
(*   FindingsAreCanonical   a bucket is what a reader of all its findings, *)
(*                          in any order, would put there                  *)
(*                                                                         *)
(* The first rests on SavingInv, about the order of SaveResult's statements*)
(* and what the reader has seen of them; the second on AccountInv, about   *)
(* what is ranked, reported and left out; the third on a lemma for each of *)
(* the folds of correlation. The lemmas before them are about the data:    *)
(* that a fold, a sort and a flattening keep what each of their steps      *)
(* keeps. These recursions are proved total by the least number of steps   *)
(* for which they would fail.                                              *)
(***************************************************************************)
EXTENDS Analysis, FiniteSetTheorems, NaturalsInduction, WellFoundedInduction, TLAPS

-----------------------------------------------------------------------------
(* Recursion over data.                                                    *)

(* A set of natural numbers that is not empty has a least element.         *)
LEMMA LeastNatural ==
  ASSUME NEW T, T \subseteq Nat, T # {}
  PROVE  \E n \in T : \A m \in T : n <= m
<1>1. PICK n \in T : \A m \in T : ~ (<<m, n>> \in OpToRel(<, Nat))
  BY NatLessThanWellFounded, WFMin
<1>2. \A m \in T : ~ (m < n)
  BY <1>1 DEF OpToRel
<1> QED  BY <1>2

(* A fold over a finite set: which element is taken next, what a step      *)
(* keeps, and the recursion that takes one element away.                   *)
Picks(pick, S) == \A s \in SUBSET S : s # {} => pick[s] \in s
Keeps(step, S, V) == \A x \in S, v \in V : step[<<x, v>>] \in V

Folds(g, S, V, base, pick, step) ==
  /\ g \in [SUBSET S -> V]
  /\ g[{}] = base
  /\ \A s \in SUBSET S : s # {} => g[s] = step[<<pick[s], g[s \ {pick[s]}]>>]

(* The recursion has a solution.                                           *)
LEMMA FoldExists ==
  ASSUME NEW S, IsFiniteSet(S), NEW V, NEW base \in V,
         NEW pick, Picks(pick, S), NEW step, Keeps(step, S, V)
  PROVE  \E g : Folds(g, S, V, base, pick, step)
<1> USE DEF Picks, Keeps
<1> DEFINE Upto(n) == {s \in SUBSET S : Cardinality(s) <= n}
           Solves(g, n) == /\ g \in [Upto(n) -> V]
                           /\ g[{}] = base
                           /\ \A s \in Upto(n) :
                                s # {} => g[s] = step[<<pick[s], g[s \ {pick[s]}]>>]
           Bad == {n \in Nat : ~ \E g : Solves(g, n)}
<1>0. \A s \in SUBSET S : IsFiniteSet(s) /\ Cardinality(s) \in Nat /\ Cardinality(s) <= Cardinality(S)
  BY FS_Subset, FS_CardinalityType
<1>1. ASSUME Bad # {}  PROVE FALSE
  <2>1. PICK n \in Bad : \A m \in Bad : n <= m
    <3> HIDE DEF Solves
    <3> QED  BY <1>1, LeastNatural
  <2> n \in Nat  OBVIOUS
  <2>2. CASE n = 0
    <3> DEFINE g == [s \in Upto(n) |-> base]
    <3>1. \A s \in Upto(n) : s = {}
      BY <2>2, <1>0, FS_EmptySet
    <3>2. {} \in Upto(n)
      BY <2>2, FS_EmptySet
    <3>3. Solves(g, n)
      BY <3>1, <3>2
    <3> QED  BY <3>3
  <2>3. CASE n # 0
    <3>1. n - 1 \in Nat /\ n - 1 \notin Bad
      <4>1. n - 1 \in Nat /\ ~(n <= n - 1)
        BY <2>3
      <4> HIDE DEF Bad
      <4> QED  BY <4>1, <2>1
    <3>2. PICK g : Solves(g, n - 1)
      BY <3>1
    <3> DEFINE h == [s \in Upto(n) |-> IF s = {} THEN base
                                       ELSE step[<<pick[s], g[s \ {pick[s]}]>>]]
    <3>3. {} \in Upto(n) /\ {} \in Upto(n - 1)
      BY <3>1, FS_EmptySet
    <3>4. \A s \in Upto(n) : s # {} => pick[s] \in S /\ s \ {pick[s]} \in Upto(n - 1)
      <4> SUFFICES ASSUME NEW s \in Upto(n), s # {}
                   PROVE  pick[s] \in S /\ s \ {pick[s]} \in Upto(n - 1)
        OBVIOUS
      <4>1. pick[s] \in s
        OBVIOUS
      <4>2. Cardinality(s \ {pick[s]}) = Cardinality(s) - 1
        BY <4>1, <1>0, FS_RemoveElement
      <4> QED  BY <4>1, <4>2, <1>0
    <3>5. \A s \in Upto(n - 1) : h[s] = g[s]
      <4>1. \A s \in Upto(n - 1) : s \in Upto(n)
        BY <1>0, <3>1
      <4> QED  BY <4>1, <3>2
    <3>6. h \in [Upto(n) -> V]
      BY <3>2, <3>4
    <3>7. \A s \in Upto(n) : s # {} => h[s] = step[<<pick[s], h[s \ {pick[s]}]>>]
      BY <3>4, <3>5
    <3>8. Solves(h, n)
      BY <3>3, <3>6, <3>7
    <3> HIDE DEF h
    <3> QED  BY <3>8
  <2> QED  BY <2>2, <2>3
<1>2. Cardinality(S) \in Nat
  BY FS_CardinalityType
<1>3. PICK g : Solves(g, Cardinality(S))
  BY <1>1, <1>2
<1>4. Upto(Cardinality(S)) = SUBSET S
  BY <1>0
<1> QED  BY <1>3, <1>4 DEF Folds

(* What such a recursion keeps at every step, its result has.              *)
LEMMA FoldKeeps ==
  ASSUME NEW S, IsFiniteSet(S), NEW V, NEW h, h[{}] \in V,
         NEW pick, Picks(pick, S),
         \A s \in SUBSET S : s # {} /\ h[s \ {pick[s]}] \in V => h[s] \in V
  PROVE  h[S] \in V
<1> DEFINE Bad == {n \in Nat : \E s \in SUBSET S : Cardinality(s) = n /\ h[s] \notin V}
<1>0. \A s \in SUBSET S : IsFiniteSet(s) /\ Cardinality(s) \in Nat
  BY FS_Subset, FS_CardinalityType
<1>1. ASSUME Bad # {}  PROVE FALSE
  <2>1. PICK n \in Bad : \A m \in Bad : n <= m
    BY <1>1, LeastNatural
  <2>2. PICK s \in SUBSET S : Cardinality(s) = n /\ h[s] \notin V
    BY <2>1
  <2>3. s # {} /\ pick[s] \in s
    BY <2>2 DEF Picks
  <2>4. Cardinality(s \ {pick[s]}) = n - 1 /\ n - 1 \in Nat
    <3>1. IsFiniteSet(s) /\ Cardinality(s) \in Nat /\ n \in Nat
      BY <1>0
    <3>2. Cardinality(s \ {pick[s]}) = Cardinality(s) - 1
      <4>1. \A x \in s : Cardinality(s \ {x}) = Cardinality(s) - 1
        BY <3>1, FS_RemoveElement
      <4> QED  BY <2>3, <4>1
    <3>3. s \ {pick[s]} \in SUBSET S
      OBVIOUS
    <3> QED  BY <2>2, <3>1, <3>2, <3>3, <1>0
  <2>5. h[s \ {pick[s]}] \in V
    <3>1. n - 1 \notin Bad
      <4> HIDE DEF Bad
      <4>1. ~(n <= n - 1)
        BY <2>4 DEF Bad
      <4> QED  BY <2>1, <4>1
    <3> QED  BY <3>1, <2>4
  <2> QED  BY <2>2, <2>3, <2>5
<1> QED  BY <1>0, <1>1

(* An order in which no two elements tie, how many stand before an         *)
(* element, and the elements in a row.                                     *)
Total(S, R) ==
  /\ \A x \in S : <<x, x>> \notin R
  /\ \A x, y, z \in S : <<x, y>> \in R /\ <<y, z>> \in R => <<x, z>> \in R
  /\ \A x, y \in S : x = y \/ <<x, y>> \in R \/ <<y, x>> \in R

Place(S, R, x) == Cardinality({y \in S : <<y, x>> \in R})

Arranged(s, S, R) ==
  /\ s \in Seq(S)
  /\ Len(s) = Cardinality(S)
  /\ \A x \in S : \E i \in 1..Len(s) : s[i] = x
  /\ \A i, j \in 1..Len(s) : i < j => <<s[i], s[j]>> \in R

(* Every place of an order is taken by one element.                        *)
LEMMA PlacesAreTaken ==
  ASSUME NEW S, IsFiniteSet(S), NEW R, Total(S, R)
  PROVE  /\ \A x \in S : Place(S, R, x) \in 0..(Cardinality(S) - 1)
         /\ \A x, y \in S : <<x, y>> \in R => Place(S, R, x) < Place(S, R, y)
         /\ \A i \in 1..Cardinality(S) : \E x \in S : Place(S, R, x) = i - 1
<1> USE DEF Total
<1> DEFINE Below(x) == {y \in S : <<y, x>> \in R}
           place == [x \in S |-> Cardinality(Below(x))]
<1>1. Cardinality(S) \in Nat
  BY FS_CardinalityType
<1>2. \A x \in S : IsFiniteSet(Below(x)) /\ Cardinality(Below(x)) \in Nat
  BY FS_Subset, FS_CardinalityType
<1>3. ASSUME NEW x \in S  PROVE Cardinality(Below(x)) <= Cardinality(S) - 1
  <2>1. /\ IsFiniteSet(S \ {x})
        /\ Cardinality(S \ {x}) = Cardinality(S) - 1
    BY FS_RemoveElement
  <2>2. Below(x) \subseteq S \ {x}
    OBVIOUS
  <2>3. Cardinality(Below(x)) <= Cardinality(S \ {x})
    <3> HIDE DEF Below
    <3> QED  BY <2>1, <2>2, FS_Subset
  <2> QED  BY <2>1, <2>3
<1>4. place \in [S -> 0..(Cardinality(S) - 1)]
  <2>1. place = [x \in S |-> Cardinality(Below(x))]
    OBVIOUS
  <2> HIDE DEF Below
  <2> QED  BY <2>1, <1>1, <1>2, <1>3
<1>5. ASSUME NEW x \in S, NEW y \in S, <<x, y>> \in R
      PROVE  place[x] < place[y]
  <2>1. Below(x) \subseteq Below(y) /\ x \in Below(y) /\ x \notin Below(x)
    BY <1>5
  <2>2. Cardinality(Below(x)) <= Cardinality(Below(y))
    BY <2>1, <1>2, FS_Subset
  <2>3. Cardinality(Below(x)) # Cardinality(Below(y))
    BY <2>1, <1>2, FS_Subset
  <2>4. place[x] = Cardinality(Below(x)) /\ place[y] = Cardinality(Below(y))
    OBVIOUS
  <2> HIDE DEF Below
  <2> QED  BY <2>2, <2>3, <2>4, <1>2
<1>6. \A x, y \in S : place[x] = place[y] => x = y
  <2> SUFFICES ASSUME NEW x \in S, NEW y \in S, place[x] = place[y], x # y
               PROVE  FALSE
    OBVIOUS
  <2>1. <<x, y>> \in R \/ <<y, x>> \in R
    OBVIOUS
  <2>2. place[x] < place[y] \/ place[y] < place[x]
    BY <2>1, <1>5
  <2>3. place[x] \in Int /\ place[y] \in Int
    BY <1>4, <1>1
  <2> QED  BY <2>2, <2>3
<1>7. place \in Injection(S, 0..(Cardinality(S) - 1))
  BY <1>4, <1>6 DEF Injection, IsInjective
<1>8. /\ IsFiniteSet(0..(Cardinality(S) - 1))
      /\ Cardinality(0..(Cardinality(S) - 1)) = Cardinality(S)
  <2>1. 0 \in Int /\ Cardinality(S) - 1 \in Int
    BY <1>1
  <2> HIDE DEF Below
  <2>2. /\ IsFiniteSet(0..(Cardinality(S) - 1))
        /\ Cardinality(0..(Cardinality(S) - 1)) =
             IF 0 > Cardinality(S) - 1 THEN 0 ELSE Cardinality(S) - 1 - 0 + 1
    BY <2>1, FS_Interval
  <2> QED  BY <2>2, <1>1
<1>9. place \in Surjection(S, 0..(Cardinality(S) - 1))
  BY <1>7, <1>8, FS_Injection
<1>10. \A i \in 1..Cardinality(S) : \E x \in S : place[x] = i - 1
  <2>1. \A i \in 1..Cardinality(S) : i - 1 \in 0..(Cardinality(S) - 1)
    BY <1>1
  <2> QED  BY <2>1, <1>9 DEF Surjection
<1>11. \A x \in S : place[x] = Place(S, R, x)
  BY DEF Place
<1> HIDE DEF place
<1> QED  BY <1>4, <1>5, <1>10, <1>11

(* A sequence of sequences, in one.                                        *)
LEMMA FlatType ==
  ASSUME NEW V, NEW seqs \in Seq(Seq(V))
  PROVE  FlattenSeq(seqs) \in Seq(V)
<1>1. CASE Len(seqs) = 0
  BY <1>1 DEF FlattenSeq
<1>2. CASE Len(seqs) # 0
  <2> DEFINE n == Len(seqs)
             Solves(g, m) == /\ g \in [1..m -> Seq(V)]
                             /\ \A i \in 1..m : g[i] = IF i = 1 THEN seqs[i]
                                                       ELSE g[i - 1] \o seqs[i]
             Bad == {m \in Nat : m > 0 /\ m <= n /\ ~ \E g : Solves(g, m)}
  <2>1. n \in Nat /\ n > 0 /\ \A i \in 1..n : seqs[i] \in Seq(V)
    BY <1>2
  <2>2. ASSUME Bad # {}  PROVE FALSE
    <3>1. PICK m \in Bad : \A k \in Bad : m <= k
      <4> HIDE DEF Solves
      <4> QED  BY <2>2, LeastNatural
    <3>2. CASE m = 1
      <4>1. Solves([i \in 1..1 |-> seqs[1]], 1)
        BY <2>1
      <4> QED  BY <3>2, <4>1
    <3>3. CASE m # 1
      <4>1. m - 1 \in Nat /\ m - 1 > 0 /\ m - 1 <= n /\ m - 1 \notin Bad
        <5>1. m - 1 \in Nat /\ m - 1 > 0 /\ m - 1 <= n /\ ~(m <= m - 1)
          BY <3>3, <2>1
        <5> HIDE DEF Bad
        <5> QED  BY <5>1, <3>1
      <4>2. PICK g : Solves(g, m - 1)
        BY <4>1
      <4> DEFINE h == [i \in 1..m |-> IF i = m THEN g[m - 1] \o seqs[m] ELSE g[i]]
      <4>3. seqs[m] \in Seq(V) /\ g[m - 1] \in Seq(V)
        BY <4>1, <4>2, <2>1
      <4>4. g[m - 1] \o seqs[m] \in Seq(V)
        BY <4>3
      <4>5. \A i \in 1..m : i # m => i \in 1..(m - 1)
        OBVIOUS
      <4>6. h \in [1..m -> Seq(V)]
        BY <4>4, <4>5, <4>2
      <4>7. \A i \in 1..m : h[i] = IF i = 1 THEN seqs[i] ELSE h[i - 1] \o seqs[i]
        <5> SUFFICES ASSUME NEW i \in 1..m
                     PROVE  h[i] = IF i = 1 THEN seqs[i] ELSE h[i - 1] \o seqs[i]
          OBVIOUS
        <5>1. CASE i = m
          <6>1. m - 1 \in 1..m /\ m - 1 # m /\ m # 1
            BY <4>1, <3>3
          <6> QED  BY <5>1, <6>1
        <5>2. CASE i # m /\ i = 1
          BY <5>2, <4>5, <4>2
        <5>3. CASE i # m /\ i # 1
          <6>1. i - 1 \in 1..m /\ i - 1 # m
            BY <5>3
          <6> QED  BY <5>3, <6>1, <4>5, <4>2
        <5> QED  BY <5>1, <5>2, <5>3
      <4>8. Solves(h, m)
        BY <4>6, <4>7
      <4> HIDE DEF h
      <4> QED  BY <4>8
    <3> QED  BY <3>2, <3>3
  <2>3. PICK g : Solves(g, n)
    <3>1. n \notin Bad
      <4> HIDE DEF Bad
      <4> QED  BY <2>2
    <3> HIDE DEF Solves
    <3> QED  BY <2>1, <3>1
  <2> DEFINE Rule(f) == f = [i \in 1..n |-> IF i = 1 THEN seqs[i] ELSE f[i - 1] \o seqs[i]]
  <2>4. Rule(g)
    BY <2>3
  <2> DEFINE flat == CHOOSE f : Rule(f)
  <2>5. Rule(flat)
    <3> HIDE DEF Rule
    <3> QED  BY <2>4
  <2>6. FlattenSeq(seqs) = flat[n]
    BY <1>2 DEF FlattenSeq
  <2> HIDE DEF flat
  <2> DEFINE Worse == {i \in Nat : i \in 1..n /\ flat[i] \notin Seq(V)}
  <2>7. ASSUME Worse # {}  PROVE FALSE
    <3>1. PICK i \in Worse : \A j \in Worse : i <= j
      <4> HIDE DEF Rule
      <4> QED  BY <2>7, LeastNatural
    <3>2. CASE i = 1
      BY <3>1, <3>2, <2>5, <2>1
    <3>3. CASE i # 1
      <4>1. flat[i] = flat[i - 1] \o seqs[i]
        BY <2>5, <3>3, <3>1
      <4>2. i - 1 \in Nat /\ i - 1 \in 1..n /\ i - 1 \notin Worse
        <5>1. i - 1 \in Nat /\ i - 1 \in 1..n /\ ~(i <= i - 1)
          BY <3>1, <3>3, <2>1
        <5> HIDE DEF Worse
        <5> QED  BY <5>1, <3>1
      <4>3. flat[i - 1] \in Seq(V) /\ seqs[i] \in Seq(V)
        BY <4>2, <2>1
      <4>4. flat[i] \in Seq(V)
        <5> HIDE DEF Worse
        <5> QED  BY <4>1, <4>3
      <4> QED  BY <4>4, <3>1
    <3> QED  BY <3>2, <3>3
  <2> QED  BY <2>6, <2>7, <2>1
<1> QED  BY <1>1, <1>2

(* What stands in the places of an order is sorted, and all of it.         *)
LEMMA SortedIs ==
  ASSUME NEW S, IsFiniteSet(S), NEW R, Total(S, R),
         NEW s \in [1..Cardinality(S) -> S],
         \A i \in 1..Cardinality(S) : Place(S, R, s[i]) = i - 1
  PROVE  Arranged(s, S, R)
<1> DEFINE place(x) == Place(S, R, x)
<1>0. Cardinality(S) \in Nat
  BY FS_CardinalityType
<1>1. /\ \A x \in S : place(x) \in 0..(Cardinality(S) - 1)
      /\ \A x, y \in S : <<x, y>> \in R => place(x) < place(y)
  BY PlacesAreTaken
<1>2. s \in Seq(S) /\ Len(s) = Cardinality(S)
  BY <1>0
<1>3. \A i \in 1..Cardinality(S) : place(s[i]) = i - 1
  OBVIOUS
<1> HIDE DEF place
<1>4. \A x, y \in S : place(x) = place(y) => x = y
  <2> SUFFICES ASSUME NEW x \in S, NEW y \in S, place(x) = place(y), x # y
               PROVE  FALSE
    OBVIOUS
  <2>1. place(x) \in Int /\ place(y) \in Int
    BY <1>1, <1>0
  <2>2. CASE <<x, y>> \in R
    BY <2>1, <2>2, <1>1
  <2>3. CASE <<y, x>> \in R
    <3>1. place(y) < place(x)
      BY <2>3, <1>1
    <3> QED  BY <3>1, <2>1
  <2> QED  BY <2>2, <2>3 DEF Total
<1>5. \A x \in S : \E i \in 1..Len(s) : s[i] = x
  <2> SUFFICES ASSUME NEW x \in S
               PROVE  \E i \in 1..Len(s) : s[i] = x
    OBVIOUS
  <2>1. place(x) \in 0..(Cardinality(S) - 1)
    BY <1>1
  <2>2. place(x) + 1 \in 1..Cardinality(S) /\ place(x) + 1 - 1 = place(x)
    BY <2>1, <1>0
  <2>3. PICK i \in 1..Cardinality(S) : i = place(x) + 1
    BY <2>2
  <2>4. place(s[i]) = place(x) /\ s[i] \in S
    <3>1. place(s[i]) = i - 1
      BY <1>3
    <3>2. i - 1 = place(x)
      BY <2>1, <2>3, <1>0
    <3>3. s[i] \in S
      OBVIOUS
    <3> QED  BY <3>1, <3>2, <3>3
  <2> QED  BY <2>3, <2>4, <1>4, <1>2
<1>6. ASSUME NEW i \in 1..Len(s), NEW j \in 1..Len(s), i < j
      PROVE  <<s[i], s[j]>> \in R
  <2>1. s[i] \in S /\ s[j] \in S /\ place(s[i]) = i - 1 /\ place(s[j]) = j - 1
    BY <1>2, <1>3
  <2>2. s[i] # s[j] /\ ~(place(s[j]) < place(s[i]))
    BY <2>1, <1>6
  <2> QED  BY <2>1, <2>2, <1>1 DEF Total
<1> QED  BY <1>2, <1>5, <1>6 DEF Arranged

(* The lesser of two.                                                      *)
LEMMA MinOfTwo ==
  ASSUME NEW a \in Int, NEW b \in Int
  PROVE  /\ Min({a, b}) \in {a, b} /\ Min({a, b}) <= a /\ Min({a, b}) <= b
         /\ Max({a, b}) \in {a, b} /\ {Min({a, b}), Max({a, b})} = {a, b}
<1>1. \E x \in {a, b} : \A y \in {a, b} : x <= y
  OBVIOUS
<1>2. \E x \in {a, b} : \A y \in {a, b} : x >= y
  OBVIOUS
<1>3. Min({a, b}) \in {a, b} /\ \A y \in {a, b} : Min({a, b}) <= y
  BY <1>1 DEF Min
<1>4. Max({a, b}) \in {a, b} /\ \A y \in {a, b} : Max({a, b}) >= y
  BY <1>2 DEF Max
<1> QED  BY <1>3, <1>4

(* The head of a sequence.                                                 *)
LEMMA HeadOfSequence ==
  ASSUME NEW V, NEW s \in Seq(V), NEW n \in Nat \ {0}
  PROVE  /\ Min({Len(s), n}) \in Nat /\ Min({Len(s), n}) <= Len(s)
         /\ SubSeq(s, 1, Min({Len(s), n})) \in Seq(V)
         /\ Len(SubSeq(s, 1, Min({Len(s), n}))) = Min({Len(s), n})
         /\ \A i \in 1..Min({Len(s), n}) : SubSeq(s, 1, Min({Len(s), n}))[i] = s[i]
<1> DEFINE m == Min({Len(s), n})
<1>1. m \in {Len(s), n} /\ m <= Len(s)
  <2>1. Len(s) \in Int /\ n \in Int
    OBVIOUS
  <2> QED  BY <2>1, MinOfTwo
<1> HIDE DEF m
<1>2. m \in Nat
  BY <1>1
<1>3. /\ SubSeq(s, 1, m) \in Seq(V)
      /\ Len(SubSeq(s, 1, m)) = m
      /\ \A i \in 1..m : SubSeq(s, 1, m)[i] = s[i]
  BY <1>1, <1>2
<1> QED  BY <1>1, <1>2, <1>3 DEF m

-----------------------------------------------------------------------------
(* The chains of a scenario.                                               *)

(* The findings that are compared are findings of the scan.                *)
LEMMA ViewsAreStored ==
  ASSUME NEW S \in Scenarios
  PROVE  Views(S) \in Seq(S)
<1> DEFINE Named == {f \in S : f.id # 0}
           R == {p \in Named \X Named : ViewBelow(p[1], p[2])}
           all == Sorted(Named, ViewBelow)
<1>1. IsFiniteSet(Named) /\ Cardinality(Named) \in Nat
  BY AnalysisAssumption, FS_Subset, FS_CardinalityType
<1>2. \A f \in Named : f.id \in Nat /\ f.scan \in Nat /\ f.host \in Nat /\ f.endpoint.name \in Nat
  BY AnalysisAssumption
<1>3. \A f, g \in Named : f.id = g.id => f = g
  BY AnalysisAssumption
<1>4. \A f, g \in Named : <<f, g>> \in R <=> ViewBelow(f, g)
  OBVIOUS
<1>5. \A x \in Named : <<x, x>> \notin R
  <2> HIDE DEF Named, R
  <2> QED  BY <1>2, <1>4 DEF ViewBelow
<1>6. \A x, y, z \in Named : <<x, y>> \in R /\ <<y, z>> \in R => <<x, z>> \in R
  <2> HIDE DEF Named, R
  <2> SUFFICES ASSUME NEW x \in Named, NEW y \in Named, NEW z \in Named,
                      ViewBelow(x, y), ViewBelow(y, z)
               PROVE  ViewBelow(x, z)
    BY <1>4
  <2>1. \A f \in {x, y, z} :
          f.id \in Nat /\ f.scan \in Nat /\ f.host \in Nat /\ f.endpoint.name \in Nat
    BY <1>2
  <2> QED  BY <2>1 DEF ViewBelow
<1>7. \A x, y \in Named : x = y \/ <<x, y>> \in R \/ <<y, x>> \in R
  <2> HIDE DEF Named, R
  <2> SUFFICES ASSUME NEW x \in Named, NEW y \in Named, x # y
               PROVE  ViewBelow(x, y) \/ ViewBelow(y, x)
    BY <1>4
  <2>1. \A f \in {x, y} :
          f.id \in Nat /\ f.scan \in Nat /\ f.host \in Nat /\ f.endpoint.name \in Nat
    BY <1>2
  <2>2. x.id # y.id
    BY <1>3
  <2> QED  BY <2>1, <2>2 DEF ViewBelow
<1>total. Total(Named, R)
  BY <1>5, <1>6, <1>7 DEF Total
<1>8. \A x \in Named : Place(Named, R, x) = Cardinality({y \in Named : ViewBelow(y, x)})
  <2> SUFFICES ASSUME NEW x \in Named
               PROVE  Place(Named, R, x) = Cardinality({y \in Named : ViewBelow(y, x)})
    OBVIOUS
  <2>1. {y \in Named : <<y, x>> \in R} = {y \in Named : ViewBelow(y, x)}
    OBVIOUS
  <2> QED  BY <2>1 DEF Place
<1> HIDE DEF Named, R
<1>9. \A i \in 1..Cardinality(Named) :
        \E x \in Named : Cardinality({y \in Named : ViewBelow(y, x)}) = i - 1
  <2>1. \A i \in 1..Cardinality(Named) : \E x \in Named : Place(Named, R, x) = i - 1
    BY <1>1, <1>total, PlacesAreTaken
  <2> QED  BY <2>1, <1>8
<1>10. all \in [1..Cardinality(Named) -> Named]
  BY <1>9 DEF Sorted
<1>11. all \in Seq(Named)
  <2> HIDE DEF all
  <2> QED  BY <1>10, <1>1
<1>12. all \in Seq(S)
  <2>1. Named \subseteq S
    BY DEF Named
  <2> HIDE DEF all
  <2> QED  BY <2>1, <1>11
<1>13. Views(S) = SubSeq(all, 1, Min({Len(all), MaxViews}))
  BY DEF Views, Named
<1>14. MaxViews \in Nat \ {0}
  BY AnalysisAssumption
<1> HIDE DEF all
<1> QED  BY <1>12, <1>13, <1>14, HeadOfSequence

(* A relation of a scenario: of two of its findings that are not isolated  *)
(* from each other.                                                        *)
Relates(r, f, g) ==
  \E type \in Range(RelationTypes) : Isolated(f, g) /\ r = NewRelation(type, f, g)

Possible(S) ==
  {NewRelation(p[1], p[2], p[3]) :
     p \in {q \in Range(RelationTypes) \X S \X S : Isolated(q[2], q[3])}}

LEMMA PossibleRelates ==
  ASSUME NEW S, NEW r
  PROVE  r \in Possible(S) <=> \E f, g \in S : Relates(r, f, g)
<1>1. ASSUME r \in Possible(S)  PROVE \E f, g \in S : Relates(r, f, g)
  BY <1>1 DEF Possible, Relates
<1>2. ASSUME NEW f \in S, NEW g \in S, Relates(r, f, g)  PROVE r \in Possible(S)
  <2>1. PICK type \in Range(RelationTypes) : Isolated(f, g) /\ r = NewRelation(type, f, g)
    BY <1>2 DEF Relates
  <2>2. <<type, f, g>> \in {q \in Range(RelationTypes) \X S \X S : Isolated(q[2], q[3])}
    BY <2>1
  <2> QED  BY <2>1, <2>2 DEF Possible
<1> QED  BY <1>1, <1>2

(* What is found for a pair.                                               *)
LEMMA RelationsForType ==
  ASSUME NEW S, NEW f \in S, NEW g \in S, NEW views, Isolated(f, g)
  PROVE  RelationsFor(f, g, views) \in Seq(Possible(S))
<1> DEFINE Of(i) ==
      LET r == NewRelation(RelationTypes[i], f, g)
      IN  IF ~Holds(RelationTypes[i], f, g, views) THEN <<>>
          ELSE IF Twice(RelationTypes[i], f, g) THEN <<r, r>> ELSE <<r>>
    each == [i \in DOMAIN RelationTypes |-> Of(i)]
<1>1. ASSUME NEW i \in DOMAIN RelationTypes
      PROVE  Of(i) \in Seq(Possible(S))
  <2>1. NewRelation(RelationTypes[i], f, g) \in Possible(S)
    <3>1. RelationTypes[i] \in Range(RelationTypes)
      BY DEF Range
    <3> QED  BY <3>1, PossibleRelates DEF Relates
  <2> QED  BY <2>1
<1>2. DOMAIN RelationTypes = 1..8
  BY DEF RelationTypes
<1> HIDE DEF Of
<1>3. each \in Seq(Seq(Possible(S)))
  BY <1>1, <1>2
<1>4. RelationsFor(f, g, views) = FlattenSeq(each)
  BY DEF RelationsFor, Of
<1> HIDE DEF each
<1> QED  BY <1>3, <1>4, FlatType

(* The relations of a scenario, and that they are finitely many.           *)
LEMMA RelationsArePossible ==
  ASSUME NEW S, NEW views \in Seq(S)
  PROVE  Relations(views) \subseteq Possible(S) /\ IsFiniteSet(Relations(views))
<1> DEFINE n == Len(views)
           rows == [i \in 1..n |-> [j \in 1..(n - i) |-> <<views[i], views[i + j]>>]]
           pairs == FlattenSeq(rows)
           Related(p) == IF Isolated(p[1], p[2]) THEN RelationsFor(p[1], p[2], views) ELSE <<>>
           each == [k \in DOMAIN pairs |-> Related(pairs[k])]
           all == FlattenSeq(each)
           m == Min({Len(all), MaxRelations})
<1>1. pairs \in Seq(S \X S)
  <2>1. ASSUME NEW i \in 1..n
        PROVE  [j \in 1..(n - i) |-> <<views[i], views[i + j]>>] \in Seq(S \X S)
    <3>1. \A j \in 1..(n - i) : <<views[i], views[i + j]>> \in S \X S
      <4>1. \A j \in 1..(n - i) : i + j \in 1..n
        OBVIOUS
      <4> QED  BY <4>1
    <3>2. n - i \in Nat
      OBVIOUS
    <3> QED  BY <3>1, <3>2
  <2>2. rows \in Seq(Seq(S \X S))
    BY <2>1
  <2> HIDE DEF rows
  <2> QED  BY <2>2, FlatType
<1>2. each \in Seq(Seq(Possible(S)))
  <2>1. \A p \in S \X S : Related(p) \in Seq(Possible(S))
    BY RelationsForType
  <2>2. \A k \in DOMAIN pairs : pairs[k] \in S \X S
    BY <1>1
  <2> HIDE DEF pairs, Related
  <2>3. DOMAIN pairs = 1..Len(pairs) /\ Len(pairs) \in Nat
    BY <1>1
  <2>4. \A k \in 1..Len(pairs) : Related(pairs[k]) \in Seq(Possible(S))
    BY <2>1, <2>2, <2>3
  <2> QED  BY <2>3, <2>4
<1>3. all \in Seq(Possible(S))
  <2> HIDE DEF each
  <2> QED  BY <1>2, FlatType
<1>4. Relations(views) = {all[k] : k \in 1..m}
  BY DEF Relations
<1> HIDE DEF all
<1>5. m \in Nat /\ m <= Len(all)
  BY <1>3, HeadOfSequence, AnalysisAssumption
<1> HIDE DEF m
<1>6. Relations(views) \subseteq Possible(S)
  BY <1>3, <1>4, <1>5
<1>7. IsFiniteSet(Relations(views))
  <2> DEFINE f == [k \in 1..m |-> all[k]]
  <2>1. f \in Surjection(1..m, Relations(views))
    BY <1>4 DEF Surjection
  <2>2. IsFiniteSet(1..m)
    BY <1>5, FS_Interval
  <2> QED  BY <2>1, <2>2, FS_Surjection
<1> QED  BY <1>6, <1>7

(* Whose a finding is.                                                     *)
Owner(f) == <<f.scan, f.identity>>

(* A part of related findings: all of one scan and identity.               *)
OfOneOwner(S, p) ==
  \E f \in S : f.id \in p /\ \A id \in p : \E g \in S : g.id = id /\ Owner(g) = Owner(f)

(* Two findings that a relation unites had one owner.                      *)
LEMMA UniteKeepsOwners ==
  ASSUME NEW W \in Scenarios, NEW S, S \subseteq W, NEW r \in Possible(S),
         NEW parts, \A p \in parts : OfOneOwner(S, p)
  PROVE  \A p \in Unite(parts, r) : OfOneOwner(S, p)
<1>1. PICK f \in S, g \in S : Relates(r, f, g)
  BY PossibleRelates
<1>2. {r.a, r.b} = {f.id, g.id} /\ Owner(f) = Owner(g)
  <2>1. f.id \in Int /\ g.id \in Int
    BY AnalysisAssumption
  <2>2. r.a = Min({f.id, g.id}) /\ r.b = Max({f.id, g.id})
    BY <1>1 DEF Relates, NewRelation
  <2>3. Owner(f) = Owner(g)
    BY <1>1 DEF Relates, Isolated, Owner
  <2>4. {Min({f.id, g.id}), Max({f.id, g.id})} = {f.id, g.id}
    BY <2>1, MinOfTwo
  <2> QED  BY <2>2, <2>3, <2>4
<1>3. \A e, h \in S : e.id = h.id => e = h
  BY AnalysisAssumption
<1> DEFINE touched == {p \in parts : {r.a, r.b} \cap p # {}}
           all == {r.a, r.b} \cup UNION touched
<1>4. OfOneOwner(S, all)
  <2>1. f.id \in all
    BY <1>2
  <2>2. ASSUME NEW id \in all
        PROVE  \E e \in S : e.id = id /\ Owner(e) = Owner(f)
    <3>1. CASE id \in {r.a, r.b}
      BY <3>1, <1>2
    <3>2. CASE id \in UNION touched
      <4>1. PICK p \in parts : id \in p /\ {r.a, r.b} \cap p # {}
        BY <3>2
      <4>2. PICK e \in {f, g} : e.id \in p
        BY <4>1, <1>2
      <4>3. PICK k \in S : \A x \in p : \E h \in S : h.id = x /\ Owner(h) = Owner(k)
        BY DEF OfOneOwner
      <4>4. Owner(e) = Owner(k)
        BY <4>2, <4>3, <1>3
      <4>5. Owner(k) = Owner(f)
        BY <4>4, <1>2
      <4> QED  BY <4>1, <4>3, <4>5
    <3> QED  BY <3>1, <3>2
  <2> HIDE DEF all
  <2> QED  BY <2>1, <2>2 DEF OfOneOwner
<1>5. Unite(parts, r) = (parts \ touched) \cup {all}
  BY DEF Unite
<1> HIDE DEF all
<1> QED  BY <1>4, <1>5

(* So every component has one owner.                                       *)
LEMMA ComponentsHaveOneOwner ==
  ASSUME NEW W \in Scenarios, NEW S, S \subseteq W,
         NEW relations, relations \subseteq Possible(S),
         IsFiniteSet(relations)
  PROVE  \A p \in Components(relations) : OfOneOwner(S, p)
<1> DEFINE Ids == {f.id : f \in S}
           V == {parts \in SUBSET SUBSET Ids : \A p \in parts : OfOneOwner(S, p)}
           pick == [s \in SUBSET relations |-> CHOOSE r \in s : TRUE]
           step == [p \in relations \X V |-> Unite(p[2], p[1])]
           Rule(g) == g = [s \in SUBSET relations |->
                             IF s = {} THEN {} ELSE LET r == CHOOSE r \in s : TRUE
                                                    IN  Unite(g[s \ {r}], r)]
           iter == CHOOSE g : Rule(g)
<1>1. Components(relations) = iter[relations]
  BY DEF Components, FoldSet, MapThenFoldSet
<1>2. {} \in V
  OBVIOUS
<1>3. Picks(pick, relations)
  BY DEF Picks
<1>4. \A r \in relations, parts \in V : Unite(parts, r) \in V
  <2> SUFFICES ASSUME NEW r \in relations, NEW parts \in V
               PROVE  Unite(parts, r) \in V
    OBVIOUS
  <2>1. \A p \in Unite(parts, r) : OfOneOwner(S, p)
    BY UniteKeepsOwners
  <2>2. \A p \in Unite(parts, r) : p \subseteq Ids
    BY <2>1 DEF OfOneOwner
  <2> QED  BY <2>1, <2>2
<1>5. Keeps(step, relations, V)
  BY <1>4 DEF Keeps
<1>6. PICK g : Folds(g, relations, V, {}, pick, step)
  <2> HIDE DEF V, pick, step
  <2> QED  BY <1>2, <1>3, <1>5, FoldExists
<1>7. Rule(g)
  <2>1. \A s \in SUBSET relations : s # {} =>
          /\ pick[s] \in relations /\ s \ {pick[s]} \in SUBSET relations
          /\ g[s \ {pick[s]}] \in V
    BY <1>3, <1>6 DEF Picks, Folds
  <2>2. \A s \in SUBSET relations : s # {} => g[s] = Unite(g[s \ {pick[s]}], pick[s])
    <3> HIDE DEF V, pick
    <3> QED  BY <2>1, <1>6 DEF Folds
  <2>3. \A s \in SUBSET relations : pick[s] = CHOOSE r \in s : TRUE
    OBVIOUS
  <2> HIDE DEF V, pick, step
  <2> QED  BY <2>2, <2>3, <1>6 DEF Folds
<1>8. Rule(iter)
  <2> HIDE DEF Rule
  <2> QED  BY <1>7
<1> HIDE DEF iter
<1>9. iter[relations] \in V
  <2>1. iter[{}] \in V
    <3> HIDE DEF V
    <3> QED  BY <1>8, <1>2
  <2>2. \A s \in SUBSET relations : s # {} /\ iter[s \ {pick[s]}] \in V => iter[s] \in V
    <3> SUFFICES ASSUME NEW s \in SUBSET relations, s # {}, iter[s \ {pick[s]}] \in V
                 PROVE  iter[s] \in V
      OBVIOUS
    <3>1. pick[s] \in relations /\ pick[s] = CHOOSE r \in s : TRUE
      BY <1>3 DEF Picks
    <3> HIDE DEF V, pick
    <3>2. iter[s] = Unite(iter[s \ {pick[s]}], pick[s])
      BY <3>1, <1>8
    <3> QED  BY <3>1, <3>2, <1>4
  <2> HIDE DEF V, pick, step, Rule
  <2> QED  BY <2>1, <2>2, <1>3, FoldKeeps
<1> QED  BY <1>1, <1>9

(* What a relation is made of.                                             *)
LEMMA RelationParts ==
  ASSUME NEW S \in Scenarios, NEW r \in Possible(S)
  PROVE  /\ r.type \in Range(RelationTypes)
         /\ r.a \in Int /\ r.b \in Int
         /\ \E f, g \in S : /\ {r.a, r.b} = {f.id, g.id} /\ Isolated(f, g)
                            /\ r = [type |-> r.type, a |-> r.a, b |-> r.b, scan |-> f.scan,
                                    confidence |-> RelationConfidence[r.type]]
<1>1. PICK f \in S, g \in S : Relates(r, f, g)
  BY PossibleRelates
<1>2. PICK type \in Range(RelationTypes) : Isolated(f, g) /\ r = NewRelation(type, f, g)
  BY <1>1 DEF Relates
<1>3. f.id \in Int /\ g.id \in Int
  BY AnalysisAssumption
<1>4. r.type = type /\ r.a = Min({f.id, g.id}) /\ r.b = Max({f.id, g.id})
  BY <1>2 DEF NewRelation
<1>5. /\ {Min({f.id, g.id}), Max({f.id, g.id})} = {f.id, g.id}
      /\ Min({f.id, g.id}) \in {f.id, g.id} /\ Max({f.id, g.id}) \in {f.id, g.id}
  BY <1>3, MinOfTwo
<1>6. {r.a, r.b} = {f.id, g.id} /\ r.a \in Int /\ r.b \in Int
  BY <1>3, <1>4, <1>5
<1>7. r = [type |-> r.type, a |-> r.a, b |-> r.b, scan |-> f.scan,
           confidence |-> RelationConfidence[r.type]]
  BY <1>2, <1>4 DEF NewRelation
<1> QED  BY <1>2, <1>4, <1>6, <1>7

(* Relations are told apart by their type and their findings.              *)
LEMMA RelationsHaveIds ==
  ASSUME NEW S \in Scenarios, NEW r \in Possible(S), NEW s \in Possible(S),
         r.type = s.type, r.a = s.a, r.b = s.b
  PROVE  r = s
<1>1. PICK f \in S, g \in S :
        /\ {r.a, r.b} = {f.id, g.id} /\ Isolated(f, g)
        /\ r = [type |-> r.type, a |-> r.a, b |-> r.b, scan |-> f.scan,
                confidence |-> RelationConfidence[r.type]]
  BY RelationParts
<1>2. PICK h \in S, k \in S :
        /\ {s.a, s.b} = {h.id, k.id} /\ Isolated(h, k)
        /\ s = [type |-> s.type, a |-> s.a, b |-> s.b, scan |-> h.scan,
                confidence |-> RelationConfidence[s.type]]
  BY RelationParts
<1>3. h \in {f, g}
  BY <1>1, <1>2, AnalysisAssumption
<1>4. h.scan = f.scan
  BY <1>1, <1>3 DEF Isolated
<1> QED  BY <1>1, <1>2, <1>4

LEMMA TypesAreOrdered ==
  /\ \A t \in Range(RelationTypes) : TypeOrder[t] \in Int
  /\ \A t, u \in Range(RelationTypes) : TypeOrder[t] = TypeOrder[u] => t = u
<1>1. Range(RelationTypes) =
        {"SAME_ENDPOINT", "SAME_PARAMETER", "SAME_RESOURCE", "SAME_IDENTITY", "SHARED_EVIDENCE",
         "DATA_FLOW", "POTENTIAL_PRECONDITION", "POTENTIAL_IMPACT_AMPLIFIER"}
  <2>1. DOMAIN RelationTypes = 1..8
    BY DEF RelationTypes
  <2>2. 1..8 = {1, 2, 3, 4, 5, 6, 7, 8}
    OBVIOUS
  <2> QED  BY <2>1, <2>2 DEF RelationTypes, Range
<1> QED  BY <1>1 DEF TypeOrder

(* The relations of a scenario are saved, each of them and nothing else.   *)
LEMMA RelationsAreSaved ==
  ASSUME NEW S \in Scenarios
  PROVE  /\ Correlate(S).relations \in Seq(Relations(Views(S)))
         /\ \A r \in Relations(Views(S)) :
              \E i \in 1..Len(Correlate(S).relations) : Correlate(S).relations[i] = r
<1> DEFINE Found == Relations(Views(S))
           R == {p \in Found \X Found : RelationBelow(p[1], p[2])}
           all == Sorted(Found, RelationBelow)
<1>1. Found \subseteq Possible(S) /\ IsFiniteSet(Found) /\ Cardinality(Found) \in Nat
  BY ViewsAreStored, RelationsArePossible, FS_CardinalityType
<1>2. \A r \in Found : r.a \in Int /\ r.b \in Int /\ TypeOrder[r.type] \in Int
  <2> HIDE DEF Found
  <2> QED  BY <1>1, RelationParts, TypesAreOrdered
<1>3. \A r, s \in Found : r # s =>
        TypeOrder[r.type] # TypeOrder[s.type] \/ r.a # s.a \/ r.b # s.b
  <2> HIDE DEF Found
  <2> SUFFICES ASSUME NEW r \in Found, NEW s \in Found,
                      TypeOrder[r.type] = TypeOrder[s.type], r.a = s.a, r.b = s.b
               PROVE  r = s
    OBVIOUS
  <2>1. r.type = s.type
    BY <1>1, RelationParts, TypesAreOrdered
  <2> QED  BY <2>1, <1>1, RelationsHaveIds
<1>4. \A r, s \in Found : <<r, s>> \in R <=> RelationBelow(r, s)
  OBVIOUS
<1> HIDE DEF Found, R
<1>5. \A x \in Found : <<x, x>> \notin R
  BY <1>2, <1>4 DEF RelationBelow
<1>6. \A x, y, z \in Found : <<x, y>> \in R /\ <<y, z>> \in R => <<x, z>> \in R
  <2> SUFFICES ASSUME NEW x \in Found, NEW y \in Found, NEW z \in Found,
                      RelationBelow(x, y), RelationBelow(y, z)
               PROVE  RelationBelow(x, z)
    BY <1>4
  <2>1. \A r \in {x, y, z} : r.a \in Int /\ r.b \in Int /\ TypeOrder[r.type] \in Int
    BY <1>2
  <2> QED  BY <2>1 DEF RelationBelow
<1>7. \A x, y \in Found : x = y \/ <<x, y>> \in R \/ <<y, x>> \in R
  <2> SUFFICES ASSUME NEW x \in Found, NEW y \in Found, x # y
               PROVE  RelationBelow(x, y) \/ RelationBelow(y, x)
    BY <1>4
  <2>1. \A r \in {x, y} : r.a \in Int /\ r.b \in Int /\ TypeOrder[r.type] \in Int
    BY <1>2
  <2>2. TypeOrder[x.type] # TypeOrder[y.type] \/ x.a # y.a \/ x.b # y.b
    BY <1>3
  <2>3. x.type = y.type \/ TypeOrder[x.type] # TypeOrder[y.type]
    BY <1>1, RelationParts, TypesAreOrdered
  <2> QED  BY <2>1, <2>2, <2>3 DEF RelationBelow
<1>total. Total(Found, R)
  BY <1>5, <1>6, <1>7 DEF Total
<1>8. \A x \in Found : Place(Found, R, x) = Cardinality({y \in Found : RelationBelow(y, x)})
  <2> SUFFICES ASSUME NEW x \in Found
               PROVE  Place(Found, R, x) = Cardinality({y \in Found : RelationBelow(y, x)})
    OBVIOUS
  <2>1. {y \in Found : <<y, x>> \in R} = {y \in Found : RelationBelow(y, x)}
    BY <1>4
  <2> QED  BY <2>1 DEF Place
<1>9. \A i \in 1..Cardinality(Found) : \E x \in Found : Place(Found, R, x) = i - 1
  BY <1>1, <1>total, PlacesAreTaken
<1>10. /\ all \in [1..Cardinality(Found) -> Found]
       /\ \A i \in 1..Cardinality(Found) :
            Cardinality({y \in Found : RelationBelow(y, all[i])}) = i - 1
  <2>1. \A i \in 1..Cardinality(Found) :
          \E x \in Found : Cardinality({y \in Found : RelationBelow(y, x)}) = i - 1
    BY <1>8, <1>9
  <2> QED  BY <2>1 DEF Sorted
<1>11. Correlate(S).relations = all
  BY DEF Correlate, Found
<1> HIDE DEF all
<1>12. \A i \in 1..Cardinality(Found) : Place(Found, R, all[i]) = i - 1
  BY <1>8, <1>10
<1>13. all \in Seq(Found) /\ \A x \in Found : \E i \in 1..Len(all) : all[i] = x
  BY <1>1, <1>total, <1>10, <1>12, SortedIs DEF Arranged
<1> QED  BY <1>11, <1>13 DEF Found

-----------------------------------------------------------------------------
(* A chain that says what its relations and its findings are.              *)
Evident == {"DATA_FLOW", "SHARED_EVIDENCE", "POTENTIAL_PRECONDITION"}

Resolves(S, relations, c) ==
  /\ c.relations = {r \in relations : {r.a, r.b} \subseteq c.findings}
  /\ \A id \in c.findings : \E f \in S : f.id = id
  /\ \A f \in S : f.id \in c.findings => f.scan = c.scan /\ f.identity = c.identity
  /\ (c.status = "SUPPORTED") <=> \E r \in c.relations : r.type \in Evident

(* The candidate of findings of one owner, of which some are related.      *)
LEMMA CandidateResolves ==
  ASSUME NEW S \in Scenarios, NEW ids, ids \subseteq {f.id : f \in Range(Views(S))},
         \A f, g \in S : f.id \in ids /\ g.id \in ids => Owner(f) = Owner(g),
         Inside(Relations(Views(S)), ids) # {}
  PROVE  /\ Resolves(S, Relations(Views(S)), Candidate(ids, Relations(Views(S)), Views(S)))
<1> DEFINE relations == Relations(Views(S))
           inside == Inside(relations, ids)
           c == Candidate(ids, relations, Views(S))
           first == CHOOSE f \in Range(Views(S)) : f.id = Min(ids)
<1>1. PICK r \in relations : {r.a, r.b} \subseteq ids
  BY DEF Inside
<1>2. c.findings = ids /\ c.relations = inside /\ c.scan = first.scan
      /\ c.identity = first.identity /\ c.status = Statuses({q.type : q \in inside})
  BY DEF Candidate
<1>3. first \in S /\ first.id \in ids
  <2>1. Range(Views(S)) \subseteq S
    BY ViewsAreStored DEF Range
  <2>2. ids \subseteq Nat /\ ids # {}
    BY <2>1, <1>1, AnalysisAssumption
  <2>3. Min(ids) \in ids
    BY <2>2, LeastNatural DEF Min
  <2>4. \E f \in Range(Views(S)) : f.id = Min(ids)
    BY <2>3
  <2>5. first \in Range(Views(S)) /\ first.id = Min(ids)
    BY <2>4
  <2> QED  BY <2>1, <2>3, <2>5
<1>4. \A f \in S : f.id \in c.findings => f.scan = c.scan /\ f.identity = c.identity
  BY <1>2, <1>3 DEF Owner
<1>5. c.relations = {q \in relations : {q.a, q.b} \subseteq c.findings}
  BY <1>2 DEF Inside
<1>6. \A id \in c.findings : \E f \in S : f.id = id
  <2>1. Range(Views(S)) \subseteq S
    BY ViewsAreStored DEF Range
  <2> QED  BY <2>1, <1>2
<1>7. (c.status = "SUPPORTED") <=> \E q \in c.relations : q.type \in Evident
  BY <1>2 DEF Statuses, Evident
<1> HIDE DEF c, relations
<1>8. Resolves(S, relations, c)
  BY <1>4, <1>5, <1>6, <1>7 DEF Resolves
<1> QED  BY <1>8 DEF c, relations

(* Every candidate of a scenario resolves.                                 *)
LEMMA CandidatesResolve ==
  ASSUME NEW S \in Scenarios
  PROVE  /\ Len(Correlate(S).candidates) \in Nat
         /\ DOMAIN Correlate(S).candidates = 1..Len(Correlate(S).candidates)
         /\ \A i \in 1..Len(Correlate(S).candidates) :
              Resolves(S, Relations(Views(S)), Correlate(S).candidates[i])
<1> DEFINE views == Views(S)
           T == Range(views)
           relations == Relations(views)
           Ids == {f.id : f \in S}
           cores == {Members(c) : c \in Components(relations)}
           Kept == {c \in cores : Inside(relations, c) # {}}
           R == {p \in Kept \X Kept : ChainDigest(p[1]) < ChainDigest(p[2])}
           all == Sorted(Kept, LAMBDA c, d : ChainDigest(c) < ChainDigest(d))
<1>1. /\ views \in Seq(T) /\ T \subseteq S
      /\ relations \subseteq Possible(T) /\ IsFiniteSet(relations)
  <2>1. views \in Seq(S)
    BY ViewsAreStored
  <2> HIDE DEF views
  <2>2. views \in Seq(T) /\ T \subseteq S
    BY <2>1 DEF Range
  <2> HIDE DEF T
  <2> QED  BY <2>2, RelationsArePossible
<1>2. ASSUME NEW c \in cores
      PROVE  /\ c \subseteq {f.id : f \in T}
             /\ \A f, g \in S : f.id \in c /\ g.id \in c => Owner(f) = Owner(g)
  <2>1. PICK p \in Components(relations) : c = Members(p)
    OBVIOUS
  <2>2. OfOneOwner(T, p)
    <3> HIDE DEF relations, T
    <3> QED  BY <1>1, ComponentsHaveOneOwner
  <2>3. c \subseteq p
    BY <2>1 DEF Members
  <2>4. PICK k \in T : \A id \in p : \E g \in T : g.id = id /\ Owner(g) = Owner(k)
    BY <2>2 DEF OfOneOwner
  <2>5. c \subseteq {f.id : f \in T}
    BY <2>3, <2>4
  <2>i. \A f, g \in S : f.id = g.id => f = g
    BY ONLY S \in Scenarios, AnalysisAssumption
  <2>6. \A f \in S : f.id \in c => Owner(f) = Owner(k)
    BY ONLY <2>3, <2>4, <2>i, <1>1
  <2> QED  BY <2>5, <2>6
<1>3. \A c \in Kept : Resolves(S, relations, Candidate(c, relations, views))
  <2> SUFFICES ASSUME NEW c \in Kept
               PROVE  Resolves(S, relations, Candidate(c, relations, views))
    OBVIOUS
  <2>1. /\ c \subseteq {f.id : f \in T} /\ Inside(relations, c) # {}
        /\ \A f, g \in S : f.id \in c /\ g.id \in c => Owner(f) = Owner(g)
    BY <1>2
  <2> HIDE DEF Kept
  <2> QED  BY <2>1, CandidateResolves
<1>4. IsFiniteSet(Kept) /\ Cardinality(Kept) \in Nat /\ Kept \subseteq SUBSET Ids
  <2>1. Kept \subseteq SUBSET Ids
    BY <1>1, <1>2
  <2>2. IsFiniteSet(Ids)
    <3> DEFINE f == [x \in S |-> x.id]
    <3>1. f \in Surjection(S, Ids)
      BY DEF Surjection
    <3>2. IsFiniteSet(S)
      BY AnalysisAssumption
    <3> QED  BY <3>1, <3>2, FS_Surjection
  <2>3. IsFiniteSet(SUBSET Ids)
    BY <2>2, FS_SUBSET
  <2> HIDE DEF Ids, Kept
  <2> QED  BY <2>1, <2>3, FS_Subset, FS_CardinalityType
<1>5. \A c, d \in Kept : /\ ChainDigest(c) \in Int
                         /\ ChainDigest(c) = ChainDigest(d) => c = d
  <2> HIDE DEF Kept
  <2> QED  BY <1>4, DigestAssumption
<1>6. \A c, d \in Kept : <<c, d>> \in R <=> ChainDigest(c) < ChainDigest(d)
  OBVIOUS
<1> HIDE DEF Kept, R
<1>total. Total(Kept, R)
  <2>2. \A x \in Kept : <<x, x>> \notin R
    BY <1>5, <1>6
  <2>3. \A x, y, z \in Kept : <<x, y>> \in R /\ <<y, z>> \in R => <<x, z>> \in R
    <3> SUFFICES ASSUME NEW x \in Kept, NEW y \in Kept, NEW z \in Kept,
                        ChainDigest(x) < ChainDigest(y), ChainDigest(y) < ChainDigest(z)
                 PROVE  ChainDigest(x) < ChainDigest(z)
      BY <1>6
    <3> QED  BY <1>5
  <2>4. \A x, y \in Kept : x = y \/ <<x, y>> \in R \/ <<y, x>> \in R
    <3> SUFFICES ASSUME NEW x \in Kept, NEW y \in Kept, x # y
                 PROVE  ChainDigest(x) < ChainDigest(y) \/ ChainDigest(y) < ChainDigest(x)
      BY <1>6
    <3>1. ChainDigest(x) \in Int /\ ChainDigest(y) \in Int /\ ChainDigest(x) # ChainDigest(y)
      BY <1>5
    <3> QED  BY <3>1
  <2> QED  BY <2>2, <2>3, <2>4 DEF Total
<1>7. \A x \in Kept :
        Place(Kept, R, x) = Cardinality({y \in Kept : ChainDigest(y) < ChainDigest(x)})
  <2> SUFFICES ASSUME NEW x \in Kept
               PROVE  Place(Kept, R, x) =
                        Cardinality({y \in Kept : ChainDigest(y) < ChainDigest(x)})
    OBVIOUS
  <2>1. {y \in Kept : <<y, x>> \in R} = {y \in Kept : ChainDigest(y) < ChainDigest(x)}
    BY <1>6
  <2> QED  BY <2>1 DEF Place
<1>8. \A i \in 1..Cardinality(Kept) : \E x \in Kept : Place(Kept, R, x) = i - 1
  BY <1>4, <1>total, PlacesAreTaken
<1>9. all \in [1..Cardinality(Kept) -> Kept]
  <2>1. \A i \in 1..Cardinality(Kept) :
          \E x \in Kept : Cardinality({y \in Kept : ChainDigest(y) < ChainDigest(x)}) = i - 1
    BY <1>7, <1>8
  <2> QED  BY <2>1 DEF Sorted
<1>10. all \in Seq(Kept)
  <2> HIDE DEF all
  <2> QED  BY <1>9, <1>4
<1>11. Correlate(S).candidates =
         [i \in 1..Min({Len(all), MaxCandidates}) |-> Candidate(all[i], relations, views)]
  BY DEF Correlate, BuildCandidates, Kept
<1> HIDE DEF all, views, relations
<1>12. /\ Min({Len(all), MaxCandidates}) \in Nat
       /\ Min({Len(all), MaxCandidates}) <= Len(all)
  BY <1>10, HeadOfSequence, AnalysisAssumption
<1>13. Len(Correlate(S).candidates) = Min({Len(all), MaxCandidates})
  BY <1>11, <1>12
<1>14. \A i \in 1..Len(Correlate(S).candidates) :
         /\ all[i] \in Kept
         /\ Correlate(S).candidates[i] = Candidate(all[i], relations, views)
  BY <1>10, <1>11, <1>12, <1>13
<1> QED  BY <1>3, <1>11, <1>12, <1>13, <1>14 DEF relations, views

-----------------------------------------------------------------------------
(* Saving. What the first k statements of SaveResult leave in the tables,  *)
(* and what is left to do then.                                            *)
Result == Correlate(stored)
All == SaveStatements(Result)

Saved(k) ==
  [relations |-> {Result.relations[i] : i \in {j \in DOMAIN Result.relations : j + 2 <= k}},
   candidates |-> {Result.candidates[i] :
                     i \in {j \in DOMAIN Result.candidates : j + 2 + Len(Result.relations) <= k}}]

Left(k) == [i \in 1..(Len(All) - k) |-> All[k + i]]

(* Two sequences, one after the other.                                     *)
LEMMA Joined ==
  ASSUME NEW V, NEW s \in Seq(V), NEW t \in Seq(V)
  PROVE  /\ s \o t \in Seq(V) /\ Len(s \o t) = Len(s) + Len(t)
         /\ \A i \in 1..Len(s) : (s \o t)[i] = s[i]
         /\ \A i \in 1..Len(t) : (s \o t)[Len(s) + i] = t[i]
OBVIOUS

(* The statements, in their order.                                         *)
LEMMA StatementsAre ==
  ASSUME stored \in Scenarios
  PROVE  /\ Len(Result.relations) \in Nat /\ Len(Result.candidates) \in Nat
         /\ DOMAIN Result.relations = 1..Len(Result.relations)
         /\ DOMAIN Result.candidates = 1..Len(Result.candidates)
         /\ Len(All) = 2 + Len(Result.relations) + Len(Result.candidates)
         /\ All[1] = [do |-> "deleteRelations"]
         /\ All[2] = [do |-> "deleteCandidates"]
         /\ \A i \in 1..Len(Result.relations) :
              All[2 + i] = [do |-> "insertRelation", row |-> Result.relations[i]]
         /\ \A i \in 1..Len(Result.candidates) :
              All[2 + Len(Result.relations) + i] =
                [do |-> "insertCandidate", row |-> Result.candidates[i]]
         /\ All = [i \in 1..Len(All) |-> All[i]]
<1> DEFINE n == Len(Result.relations)
           m == Len(Result.candidates)
           A == {[do |-> "deleteRelations"], [do |-> "deleteCandidates"]}
           B == {[do |-> "insertRelation", row |-> Result.relations[i]] : i \in 1..n}
           C == {[do |-> "insertCandidate", row |-> Result.candidates[i]] : i \in 1..m}
           V == A \cup B \cup C
           first == <<[do |-> "deleteRelations"], [do |-> "deleteCandidates"]>>
           second == [i \in DOMAIN Result.relations |->
                        [do |-> "insertRelation", row |-> Result.relations[i]]]
           third == [i \in DOMAIN Result.candidates |->
                       [do |-> "insertCandidate", row |-> Result.candidates[i]]]
<1>1. n \in Nat /\ DOMAIN Result.relations = 1..n
  BY RelationsAreSaved DEF Result
<1>2. m \in Nat /\ DOMAIN Result.candidates = 1..m
  BY CandidatesResolve DEF Result
<1>3. /\ first \in Seq(V) /\ Len(first) = 2
      /\ first[1] = [do |-> "deleteRelations"] /\ first[2] = [do |-> "deleteCandidates"]
  OBVIOUS
<1>4. /\ second \in Seq(V) /\ Len(second) = n
      /\ \A i \in 1..n : second[i] = [do |-> "insertRelation", row |-> Result.relations[i]]
  <2>1. \A i \in 1..n : [do |-> "insertRelation", row |-> Result.relations[i]] \in V
    OBVIOUS
  <2> HIDE DEF V, n
  <2> QED  BY <2>1, <1>1
<1>5. /\ third \in Seq(V) /\ Len(third) = m
      /\ \A i \in 1..m : third[i] = [do |-> "insertCandidate", row |-> Result.candidates[i]]
  <2>1. \A i \in 1..m : [do |-> "insertCandidate", row |-> Result.candidates[i]] \in V
    OBVIOUS
  <2> HIDE DEF V, m
  <2> QED  BY <2>1, <1>2
<1>6. All = (first \o second) \o third
  BY DEF All, SaveStatements
<1> HIDE DEF first, second, third, V, A, B, C, n, m
<1>7. /\ first \o second \in Seq(V) /\ Len(first \o second) = 2 + n
      /\ \A i \in 1..2 : (first \o second)[i] = first[i]
      /\ \A i \in 1..n : (first \o second)[2 + i] = second[i]
  <2>1. /\ first \o second \in Seq(V) /\ Len(first \o second) = Len(first) + Len(second)
        /\ \A i \in 1..Len(first) : (first \o second)[i] = first[i]
        /\ \A i \in 1..Len(second) : (first \o second)[Len(first) + i] = second[i]
    <3>1. first \in Seq(V) /\ second \in Seq(V)
      BY <1>3, <1>4
    <3> QED  BY ONLY <3>1, Joined
  <2> QED  BY <2>1, <1>3, <1>4
<1>8. /\ Len(All) = 2 + n + m
      /\ \A i \in 1..(2 + n) : All[i] = (first \o second)[i]
      /\ \A i \in 1..m : All[2 + n + i] = third[i]
  <2> DEFINE begin == first \o second
  <2>1. begin \in Seq(V) /\ Len(begin) = 2 + n
    BY <1>7
  <2> HIDE DEF begin
  <2>2. /\ Len(begin \o third) = Len(begin) + Len(third)
        /\ \A i \in 1..Len(begin) : (begin \o third)[i] = begin[i]
        /\ \A i \in 1..Len(third) : (begin \o third)[Len(begin) + i] = third[i]
    <3>1. begin \in Seq(V) /\ third \in Seq(V)
      BY <2>1, <1>5
    <3> QED  BY ONLY <3>1, Joined
  <2>3. All = begin \o third
    BY <1>6 DEF begin
  <2>4. /\ Len(All) = 2 + n + m
        /\ \A i \in 1..(2 + n) : All[i] = begin[i]
        /\ \A i \in 1..m : All[2 + n + i] = third[i]
    BY <2>1, <2>2, <2>3, <1>5
  <2> QED  BY <2>4 DEF begin
<1>9. All[1] = first[1] /\ All[2] = first[2]
  <2>1. 1 \in 1..2 /\ 2 \in 1..2 /\ 1 \in 1..(2 + n) /\ 2 \in 1..(2 + n)
    BY ONLY <1>1
  <2> QED  BY ONLY <1>7, <1>8, <2>1
<1>10. \A i \in 1..n : All[2 + i] = second[i]
  <2>1. \A i \in 1..n : 2 + i \in 1..(2 + n)
    BY ONLY <1>1
  <2> QED  BY ONLY <1>7, <1>8, <2>1
<1>11. All = [i \in 1..Len(All) |-> All[i]]
  <2>1. first \o second \in Seq(V) /\ third \in Seq(V)
    BY <1>5, <1>7
  <2>2. (first \o second) \o third \in Seq(V)
    BY ONLY <2>1, Joined
  <2>3. All \in Seq(V)
    BY <1>6, <2>2
  <2> QED  BY <2>3
<1> QED  BY <1>1, <1>2, <1>3, <1>4, <1>5, <1>8, <1>9, <1>10, <1>11 DEF n, m

(* Tables of which one is replaced.                                        *)
LEMMA Replaced ==
  ASSUME NEW t, NEW a, NEW b, NEW v, t = [relations |-> a, candidates |-> b]
  PROVE  /\ [t EXCEPT !.relations = v] = [relations |-> v, candidates |-> b]
         /\ [t EXCEPT !.candidates = v] = [relations |-> a, candidates |-> v]
OBVIOUS

(* A statement does what comes next.                                       *)
LEMMA StatementSaves ==
  ASSUME stored \in Scenarios, NEW k \in Nat, k < Len(All), db = Saved(k)
  PROVE  Executed(All[k + 1]) = Saved(k + 1)
<1> DEFINE n == Len(Result.relations)
           m == Len(Result.candidates)
           rows(j) == {Result.relations[i] : i \in {x \in 1..n : x + 2 <= j}}
           chains(j) == {Result.candidates[i] : i \in {x \in 1..m : x + 2 + n <= j}}
<1>1. /\ n \in Nat /\ m \in Nat /\ Len(All) = 2 + n + m
      /\ All[1].do = "deleteRelations" /\ All[2].do = "deleteCandidates"
      /\ k + 1 \in Nat
  <2>1. All[1] = [do |-> "deleteRelations"] /\ All[2] = [do |-> "deleteCandidates"]
    BY StatementsAre
  <2>2. All[1].do = "deleteRelations" /\ All[2].do = "deleteCandidates"
    BY <2>1
  <2>3. n \in Nat /\ m \in Nat /\ Len(All) = 2 + n + m
    BY StatementsAre
  <2> QED  BY <2>2, <2>3
<1>2. \A j \in Nat : Saved(j) = [relations |-> rows(j), candidates |-> chains(j)]
  BY StatementsAre DEF Saved
<1>3. /\ db = [relations |-> rows(k), candidates |-> chains(k)]
      /\ db.relations = rows(k) /\ db.candidates = chains(k)
      /\ Saved(k + 1) = [relations |-> rows(k + 1), candidates |-> chains(k + 1)]
  <2>1. Saved(k) = [relations |-> rows(k), candidates |-> chains(k)]
    BY <1>2
  <2>2. Saved(k + 1) = [relations |-> rows(k + 1), candidates |-> chains(k + 1)]
    BY <1>1, <1>2
  <2> HIDE DEF rows, chains
  <2>3. db.relations = rows(k) /\ db.candidates = chains(k)
    BY <2>1
  <2> QED  BY <2>1, <2>2, <2>3
<1>relation. \A i \in 1..n : All[2 + i] = [do |-> "insertRelation", row |-> Result.relations[i]]
  BY StatementsAre
<1>candidate. \A i \in 1..m :
                All[2 + n + i] = [do |-> "insertCandidate", row |-> Result.candidates[i]]
  BY StatementsAre
<1> HIDE DEF n, m
<1>4. CASE k = 0
  <2>1. rows(k) = {} /\ chains(k) = {} /\ rows(k + 1) = {} /\ chains(k + 1) = {}
    <3>1. ~(\E x \in 1..n : x + 2 <= k + 1) /\ ~(\E x \in 1..m : x + 2 + n <= k + 1)
      BY ONLY <1>1, <1>4
    <3>2. ~(\E x \in 1..n : x + 2 <= k) /\ ~(\E x \in 1..m : x + 2 + n <= k)
      BY ONLY <1>1, <1>4
    <3> QED  BY ONLY <3>1, <3>2
  <2>2. All[k + 1].do = "deleteRelations"
    BY <1>1, <1>4
  <2> HIDE DEF rows, chains
  <2>3. Executed(All[k + 1]) = [db EXCEPT !.relations = {}]
    BY <2>2 DEF Executed
  <2>4. Executed(All[k + 1]) = [relations |-> {}, candidates |-> chains(k)]
    BY <1>3, <2>3, Replaced
  <2>5. Saved(k + 1) = [relations |-> {}, candidates |-> {}]
    BY <1>3, <2>1
  <2> QED  BY <2>1, <2>4, <2>5
<1>5. CASE k = 1
  <2>1. rows(k) = {} /\ chains(k) = {} /\ rows(k + 1) = {} /\ chains(k + 1) = {}
    <3>1. ~(\E x \in 1..n : x + 2 <= k + 1) /\ ~(\E x \in 1..m : x + 2 + n <= k + 1)
      BY ONLY <1>1, <1>5
    <3>2. ~(\E x \in 1..n : x + 2 <= k) /\ ~(\E x \in 1..m : x + 2 + n <= k)
      BY ONLY <1>1, <1>5
    <3> QED  BY ONLY <3>1, <3>2
  <2>2. All[k + 1].do = "deleteCandidates"
    BY <1>1, <1>5
  <2> HIDE DEF rows, chains
  <2>3. Executed(All[k + 1]) = [db EXCEPT !.candidates = {}]
    BY <2>2 DEF Executed
  <2>4. Executed(All[k + 1]) = [relations |-> rows(k), candidates |-> {}]
    BY <1>3, <2>3, Replaced
  <2>5. Saved(k + 1) = [relations |-> {}, candidates |-> {}]
    BY <1>3, <2>1
  <2> QED  BY <2>1, <2>4, <2>5
<1>6. CASE k \in 2..(n + 1)
  <2>1. PICK i \in 1..n : i = k - 1 /\ k + 1 = 2 + i
    BY <1>1, <1>6
  <2>2. All[k + 1] = [do |-> "insertRelation", row |-> Result.relations[i]]
    BY <2>1, <1>relation
  <2>3. chains(k + 1) = {} /\ chains(k) = {}
    <3>1. ~(\E x \in 1..m : x + 2 + n <= k + 1) /\ ~(\E x \in 1..m : x + 2 + n <= k)
      BY ONLY <1>1, <1>6
    <3> QED  BY ONLY <3>1
  <2>4. rows(k + 1) = rows(k) \cup {Result.relations[i]}
    <3>a. \A x \in 1..n : x + 2 <= k + 1 <=> x + 2 <= k \/ x = i
      BY ONLY <2>1, <1>1, k \in Nat, i \in 1..n
    <3>1. {x \in 1..n : x + 2 <= k + 1} = {x \in 1..n : x + 2 <= k} \cup {i}
      BY ONLY <3>a, i \in 1..n
    <3> QED  BY <3>1
  <2> HIDE DEF rows, chains
  <2>5. Executed(All[k + 1]) = [db EXCEPT !.relations = db.relations \cup {Result.relations[i]}]
    BY <2>2 DEF Executed
  <2>6. Executed(All[k + 1]) =
          [relations |-> rows(k) \cup {Result.relations[i]}, candidates |-> chains(k)]
    <3> DEFINE new == rows(k) \cup {Result.relations[i]}
    <3>1. Executed(All[k + 1]) = [db EXCEPT !.relations = new]
      BY ONLY <1>3, <2>5
    <3> HIDE DEF new
    <3>2. Executed(All[k + 1]) = [relations |-> new, candidates |-> chains(k)]
      BY ONLY <1>3, <3>1, Replaced
    <3> QED  BY ONLY <3>2 DEF new
  <2>7. Saved(k + 1) = [relations |-> rows(k) \cup {Result.relations[i]}, candidates |-> {}]
    BY <1>3, <2>3, <2>4
  <2> QED  BY <2>3, <2>6, <2>7
<1>7. CASE k >= n + 2
  <2>1. PICK i \in 1..m : i = k - 1 - n /\ k + 1 = 2 + n + i
    BY <1>1, <1>7
  <2>2. All[k + 1] = [do |-> "insertCandidate", row |-> Result.candidates[i]]
    BY <2>1, <1>candidate
  <2>3. rows(k + 1) = rows(k)
    <3>1. {x \in 1..n : x + 2 <= k + 1} = {x \in 1..n : x + 2 <= k}
      BY <1>1, <1>7
    <3> QED  BY <3>1
  <2>4. chains(k + 1) = chains(k) \cup {Result.candidates[i]}
    <3>a. \A x \in 1..m : x + 2 + n <= k + 1 <=> x + 2 + n <= k \/ x = i
      BY ONLY <2>1, <1>1, k \in Nat, i \in 1..m
    <3>1. {x \in 1..m : x + 2 + n <= k + 1} = {x \in 1..m : x + 2 + n <= k} \cup {i}
      BY ONLY <3>a, i \in 1..m
    <3> QED  BY <3>1
  <2> HIDE DEF rows, chains
  <2>5. Executed(All[k + 1]) = [db EXCEPT !.candidates = db.candidates \cup {Result.candidates[i]}]
    BY <2>2 DEF Executed
  <2>6. Executed(All[k + 1]) =
          [relations |-> rows(k), candidates |-> chains(k) \cup {Result.candidates[i]}]
    <3> DEFINE new == chains(k) \cup {Result.candidates[i]}
    <3>1. Executed(All[k + 1]) = [db EXCEPT !.candidates = new]
      BY ONLY <1>3, <2>5
    <3> HIDE DEF new
    <3>2. Executed(All[k + 1]) = [relations |-> rows(k), candidates |-> new]
      BY ONLY <1>3, <3>1, Replaced
    <3> QED  BY ONLY <3>2 DEF new
  <2>7. Saved(k + 1) =
          [relations |-> rows(k), candidates |-> chains(k) \cup {Result.candidates[i]}]
    BY <1>3, <2>3, <2>4
  <2> QED  BY <2>6, <2>7
<1>8. k = 0 \/ k = 1 \/ k \in 2..(n + 1) \/ k >= n + 2
  BY <1>1
<1> QED  BY <1>4, <1>5, <1>6, <1>7, <1>8

(* The tables hold what some number of statements left, and while the      *)
(* result is being saved the others are still to come.                     *)
SaveInv ==
  \E k \in 0..Len(All) :
    /\ db = Saved(k)
    /\ pc \in {"list", "ingest"} => k = 0
    /\ pc = "save" => statements = Left(k)

(* What a reader has found is still there, and so is what it shows: once a *)
(* candidate is in, no statement touches the relations.                    *)
ReaderInv ==
  /\ reader.pc \in {"idle", "found", "shown"}
  /\ reader.pc # "idle" => reader.candidate \in db.candidates
  /\ reader.pc = "shown" => reader.relations = db.relations

SavingInv == stored \in Scenarios /\ SaveInv /\ ReaderInv

(* Before the first statement the tables are empty.                        *)
LEMMA NothingSaved ==
  ASSUME stored \in Scenarios
  PROVE  Saved(0) = [relations |-> {}, candidates |-> {}]
<1>1. /\ Len(Result.relations) \in Nat
      /\ DOMAIN Result.relations \subseteq Nat /\ DOMAIN Result.candidates \subseteq Nat
  BY StatementsAre
<1>2. /\ {j \in DOMAIN Result.relations : j + 2 <= 0} = {}
      /\ {j \in DOMAIN Result.candidates : j + 2 + Len(Result.relations) <= 0} = {}
  BY <1>1
<1> QED  BY <1>2 DEF Saved

(* Once a candidate is in, all relations are.                              *)
LEMMA RelationsBeforeCandidates ==
  ASSUME stored \in Scenarios, NEW k \in Nat, NEW c \in Saved(k).candidates
  PROVE  /\ Saved(k).relations = {Result.relations[i] : i \in DOMAIN Result.relations}
         /\ \E i \in DOMAIN Result.candidates : c = Result.candidates[i]
         /\ Saved(k + 1).relations = Saved(k).relations
<1> DEFINE n == Len(Result.relations)
<1>1. /\ n \in Nat /\ DOMAIN Result.relations = 1..n
      /\ DOMAIN Result.candidates \subseteq Nat \ {0}
  BY StatementsAre
<1>2. \A j \in Nat : Saved(j).relations =
                       {Result.relations[i] : i \in {x \in DOMAIN Result.relations : x + 2 <= j}}
  BY DEF Saved
<1>3. PICK i \in DOMAIN Result.candidates : c = Result.candidates[i] /\ i + 2 + n <= k
  BY DEF Saved
<1> HIDE DEF n
<1>4. /\ {x \in DOMAIN Result.relations : x + 2 <= k} = DOMAIN Result.relations
      /\ {x \in DOMAIN Result.relations : x + 2 <= k + 1} = DOMAIN Result.relations
  BY <1>1, <1>3
<1>5. k + 1 \in Nat
  OBVIOUS
<1> QED  BY <1>2, <1>3, <1>4, <1>5

(* The tail of a sequence.                                                 *)
LEMMA TailOf ==
  ASSUME NEW V, NEW s \in Seq(V), s # <<>>
  PROVE  Tail(s) = [i \in 1..(Len(s) - 1) |-> s[i + 1]]
<1>1. Len(s) \in Nat /\ Len(s) # 0
  OBVIOUS
<1>2. /\ Tail(s) \in Seq(V) /\ Len(Tail(s)) = Len(s) - 1
      /\ \A i \in 1..(Len(s) - 1) : Tail(s)[i] = s[i + 1]
  BY <1>1
<1>3. Tail(s) = [i \in 1..Len(Tail(s)) |-> Tail(s)[i]]
  <2> DEFINE t == Tail(s)
  <2>1. t \in Seq(V)
    BY <1>2
  <2> HIDE DEF t
  <2>2. t = [i \in 1..Len(t) |-> t[i]]
    BY <2>1
  <2> QED  BY <2>2 DEF t
<1> QED  BY <1>2, <1>3

(* What is left is the next statement and what is left after it.           *)
LEMMA NextStatement ==
  ASSUME stored \in Scenarios, NEW k \in 0..Len(All)
  PROVE  /\ Len(All) \in Nat
         /\ (Left(k) = <<>>) <=> (k = Len(All))
         /\ k < Len(All) => Head(Left(k)) = All[k + 1] /\ Tail(Left(k)) = Left(k + 1)
<1>1. Len(All) \in Nat
  BY StatementsAre
<1> DEFINE n == Len(All)
<1>2. Left(k) = [i \in 1..(n - k) |-> All[k + i]]
  BY DEF Left
<1>3. Left(k + 1) = [i \in 1..(n - (k + 1)) |-> All[k + 1 + i]]
  BY DEF Left
<1> HIDE DEF n
<1>4. n \in Nat /\ k \in 0..n
  BY <1>1 DEF n
<1>5. PICK V : \A i \in 1..n : All[i] \in V
  <2> DEFINE V == {All[i] : i \in 1..n}
  <2>1. \A i \in 1..n : All[i] \in V
    OBVIOUS
  <2> QED  BY <2>1
<1>6. Left(k) \in Seq(V) /\ Len(Left(k)) = n - k /\ \A i \in 1..(n - k) : Left(k)[i] = All[k + i]
  <2>1. n - k \in Nat /\ \A i \in 1..(n - k) : All[k + i] \in V
    BY <1>4, <1>5
  <2> QED  BY <1>2, <2>1
<1>7. (Left(k) = <<>>) <=> (k = n)
  BY <1>4, <1>6
<1>8. ASSUME k < n PROVE Head(Left(k)) = All[k + 1] /\ Tail(Left(k)) = Left(k + 1)
  <2>1. Left(k) # <<>> /\ Head(Left(k)) = Left(k)[1] /\ Left(k)[1] = All[k + 1]
    BY <1>4, <1>6, <1>7, <1>8
  <2>2. Tail(Left(k)) = [i \in 1..(n - k - 1) |-> Left(k)[i + 1]]
    <3>1. Tail(Left(k)) = [i \in 1..(Len(Left(k)) - 1) |-> Left(k)[i + 1]]
      BY <1>6, <2>1, TailOf
    <3> QED  BY <1>6, <3>1
  <2>3. n - k - 1 = n - (k + 1)
    BY <1>4
  <2>4. \A i \in 1..(n - (k + 1)) : Left(k)[i + 1] = All[k + 1 + i]
    <3> SUFFICES ASSUME NEW i \in 1..(n - (k + 1)) PROVE Left(k)[i + 1] = All[k + 1 + i]
      OBVIOUS
    <3>1. i + 1 \in 1..(n - k) /\ k + (i + 1) = k + 1 + i
      BY <1>4
    <3> QED  BY <1>6, <3>1
  <2> QED  BY <1>3, <2>1, <2>2, <2>3, <2>4
<1> QED  BY <1>4, <1>7, <1>8 DEF n

(* The first step of an execution.                                         *)
LEMMA SavingInit == Init => SavingInv
<1> SUFFICES ASSUME Init PROVE SavingInv
  OBVIOUS
<1>1. stored \in Scenarios
  BY DEF Init
<1>2. Len(All) \in Nat /\ 0 \in 0..Len(All)
  BY <1>1, NextStatement, StatementsAre
<1>3. db = Saved(0) /\ pc = "list"
  BY <1>1, NothingSaved DEF Init
<1>4. SaveInv
  BY <1>2, <1>3 DEF SaveInv
<1>5. ReaderInv
  BY DEF Init, NoReader, ReaderInv
<1> QED  BY <1>1, <1>4, <1>5 DEF SavingInv

(* What is said of a result does not change while the findings do not.     *)
LEMMA SameResult ==
  ASSUME UNCHANGED stored
  PROVE  /\ Len(All)' = Len(All)
         /\ \A k : Saved(k)' = Saved(k) /\ Left(k)' = Left(k)
BY DEF All, Result, Saved, Left

(* A step that neither saves nor starts to save.                           *)
LEMMA SavedFrame ==
  ASSUME SavingInv, UNCHANGED <<stored, db>>,
         pc' \in {"list", "ingest"} => pc \in {"list", "ingest"},
         pc' = "save" => pc = "save" /\ UNCHANGED statements
  PROVE  stored' \in Scenarios /\ SaveInv'
<1>1. PICK k \in 0..Len(All) : /\ db = Saved(k)
                               /\ pc \in {"list", "ingest"} => k = 0
                               /\ pc = "save" => statements = Left(k)
  BY DEF SavingInv, SaveInv
<1>2. k \in 0..Len(All)' /\ db' = Saved(k)'
  BY <1>1, SameResult
<1>3. pc' \in {"list", "ingest"} => k = 0
  BY <1>1
<1>4. pc' = "save" => statements' = Left(k)'
  BY <1>1, SameResult
<1> QED  BY <1>2, <1>3, <1>4 DEF SavingInv, SaveInv

LEMMA ReaderFrame ==
  ASSUME SavingInv, UNCHANGED <<db, reader>>
  PROVE  ReaderInv'
BY DEF SavingInv, ReaderInv

(* A statement.                                                            *)
LEMMA SaveStatementSaves ==
  ASSUME SavingInv, SaveStatement
  PROVE  SavingInv'
<1>1. PICK k \in 0..Len(All) : db = Saved(k) /\ statements = Left(k)
  BY DEF SavingInv, SaveInv, SaveStatement
<1>2. /\ stored \in Scenarios /\ stored' = stored /\ pc = "save" /\ pc' = "save"
      /\ reader' = reader /\ statements # <<>>
      /\ db' = Executed(Head(statements)) /\ statements' = Tail(statements)
  BY DEF SavingInv, SaveStatement
<1>3. Len(All) \in Nat /\ k \in Nat /\ k < Len(All) /\ k + 1 \in 0..Len(All)
  <2>1. Len(All) \in Nat /\ k # Len(All)
    BY <1>1, <1>2, NextStatement
  <2> QED  BY <2>1
<1>4. db' = Saved(k + 1) /\ statements' = Left(k + 1)
  <2>1. Head(statements) = All[k + 1] /\ Tail(statements) = Left(k + 1)
    BY <1>1, <1>2, <1>3, NextStatement
  <2>2. Executed(All[k + 1]) = Saved(k + 1)
    BY <1>1, <1>2, <1>3, StatementSaves
  <2> QED  BY <1>2, <2>1, <2>2
<1>5. SaveInv'
  <2>1. db' = Saved(k + 1)' /\ statements' = Left(k + 1)' /\ k + 1 \in 0..Len(All)'
    BY <1>2, <1>3, <1>4, SameResult
  <2> QED  BY <1>2, <2>1 DEF SaveInv
<1>6. ASSUME NEW c \in db.candidates
      PROVE  c \in db'.candidates /\ db'.relations = db.relations
  <2>1. c \in Saved(k).candidates /\ Saved(k + 1).relations = Saved(k).relations
    BY <1>1, <1>2, <1>3, <1>6, RelationsBeforeCandidates
  <2>2. Saved(k).candidates \subseteq Saved(k + 1).candidates
    <3>1. \A j \in Nat : Saved(j).candidates =
             {Result.candidates[i] :
                i \in {x \in DOMAIN Result.candidates : x + 2 + Len(Result.relations) <= j}}
      BY DEF Saved
    <3>2. Len(Result.relations) \in Nat /\ DOMAIN Result.candidates \subseteq Nat
      BY <1>2, StatementsAre
    <3>3. {x \in DOMAIN Result.candidates : x + 2 + Len(Result.relations) <= k}
             \subseteq {x \in DOMAIN Result.candidates : x + 2 + Len(Result.relations) <= k + 1}
      <4> DEFINE n == Len(Result.relations)
      <4> HIDE DEF n
      <4>1. n \in Nat
        BY <3>2 DEF n
      <4>2. {x \in DOMAIN Result.candidates : x + 2 + n <= k}
               \subseteq {x \in DOMAIN Result.candidates : x + 2 + n <= k + 1}
        BY <4>1, <3>2, <1>3
      <4> QED  BY <4>2 DEF n
    <3> QED  BY <1>3, <3>1, <3>3
  <2> QED  BY <1>1, <1>4, <2>1, <2>2
<1>7. ReaderInv'
  BY <1>2, <1>6 DEF SavingInv, ReaderInv
<1> QED  BY <1>2, <1>5, <1>7 DEF SavingInv

(* Every other step.                                                       *)
LEMMA SavingStep ==
  ASSUME SavingInv, [Next]_vars
  PROVE  SavingInv'
<1>0. CASE UNCHANGED vars
  BY <1>0, SavedFrame, ReaderFrame DEF vars, SavingInv
<1>1. CASE ListByScanJob
  BY <1>1, SavedFrame, ReaderFrame DEF ListByScanJob, SavingInv
<1>2. CASE IngestOne
  BY <1>2, SavedFrame, ReaderFrame DEF IngestOne, SavingInv
<1>3. CASE StartSave
  <2>1. /\ stored \in Scenarios /\ stored' = stored /\ pc' = "save" /\ pc = "ingest"
        /\ db' = db /\ reader' = reader /\ statements' = SaveStatements(Correlate(stored))
    BY <1>3 DEF StartSave, SavingInv
  <2>2. db = Saved(0)
    BY <2>1 DEF SavingInv, SaveInv
  <2>3. Len(All) \in Nat /\ statements' = All
    BY <2>1, StatementsAre DEF All, Result
  <2>4. All = Left(0)
    <3>1. All = [i \in 1..Len(All) |-> All[i]]
      BY <2>1, StatementsAre
    <3>2. /\ 1..(Len(All) - 0) = 1..Len(All)
          /\ \A i \in 1..Len(All) : 0 + i = i
      BY <2>3
    <3> QED  BY <3>1, <3>2 DEF Left
  <2>5. db' = Saved(0)' /\ statements' = Left(0)' /\ 0 \in 0..Len(All)'
    BY <2>1, <2>2, <2>3, <2>4, SameResult
  <2>6. SaveInv'
    BY <2>1, <2>5 DEF SaveInv
  <2> QED  BY <2>1, <2>6, ReaderFrame DEF SavingInv
<1>4. CASE SaveStatement
  BY <1>4, SaveStatementSaves
<1>5. CASE SaveFails
  BY <1>5, SavedFrame, ReaderFrame DEF SaveFails, AfterCorrelation, SavingInv
<1>6. CASE SaveDone
  BY <1>6, SavedFrame, ReaderFrame DEF SaveDone, AfterCorrelation, SavingInv
<1>7. CASE RankFindings
  BY <1>7, SavedFrame, ReaderFrame DEF RankFindings, SavingInv
<1>8. CASE PackageOne
  BY <1>8, SavedFrame, ReaderFrame DEF PackageOne, SavingInv
<1>9. CASE EvidenceEnds
  BY <1>9, SavedFrame, ReaderFrame DEF EvidenceEnds, SavingInv
<1>10. CASE Finalize
  BY <1>10, SavedFrame, ReaderFrame DEF Finalize, SavingInv
<1>11. CASE ContextDone
  BY <1>11, SavedFrame, ReaderFrame DEF ContextDone, SavingInv
<1>12. CASE Crash
  BY <1>12, SavedFrame, ReaderFrame DEF Crash, SavingInv
<1>13. CASE FindCandidate
  <2>1. stored' \in Scenarios /\ SaveInv'
    BY <1>13, SavedFrame DEF FindCandidate
  <2>2. PICK c \in db.candidates : reader' = [pc |-> "found", candidate |-> c, relations |-> {}]
    BY <1>13 DEF FindCandidate
  <2>3. reader'.pc = "found" /\ reader'.candidate = c /\ db' = db
    BY <1>13, <2>2 DEF FindCandidate
  <2> QED  BY <2>1, <2>3 DEF SavingInv, ReaderInv
<1>14. CASE ShowChain
  <2>1. stored' \in Scenarios /\ SaveInv'
    BY <1>14, SavedFrame DEF ShowChain
  <2>2. reader.pc = "found" /\ reader.candidate \in db.candidates /\ db' = db
    BY <1>14 DEF ShowChain, SavingInv, ReaderInv
  <2>3. /\ reader'.pc = "shown" /\ reader'.candidate = reader.candidate
        /\ reader'.relations = db.relations
    BY <1>14 DEF ShowChain
  <2> QED  BY <2>1, <2>2, <2>3 DEF SavingInv, ReaderInv
<1> QED  BY <1>0, <1>1, <1>2, <1>3, <1>4, <1>5, <1>6, <1>7, <1>8, <1>9, <1>10, <1>11,
            <1>12, <1>13, <1>14 DEF Next

(* Every execution keeps the tables and the reader like that.              *)
THEOREM SavingCorrect == Spec => []SavingInv
<1>1. SavingInv /\ [Next]_vars => SavingInv'
  BY SavingStep
<1> QED  BY SavingInit, <1>1, PTL DEF Spec

(* Whenever a chain is shown it is whole: `chains show` finds every        *)
(* relation of the candidate, of findings of the candidate's scan and      *)
(* identity, and the evidence its status claims (repos.go:989).            *)
THEOREM ShownChainsAreWhole == Spec => []ShownChainsResolve
<1>1. SavingInv => ShownChainsResolve
  <2> SUFFICES ASSUME SavingInv, reader.pc = "shown" PROVE ShownChainsResolve
    BY DEF ShownChainsResolve
  <2> DEFINE c == reader.candidate
             relations == Relations(Views(stored))
  <2>1. stored \in Scenarios /\ c \in db.candidates /\ reader.relations = db.relations
    BY DEF SavingInv, ReaderInv
  <2>2. PICK k \in Nat : db = Saved(k)
    <3>1. PICK k \in 0..Len(All) : db = Saved(k)
      BY DEF SavingInv, SaveInv
    <3>2. Len(All) \in Nat
      BY <2>1, StatementsAre
    <3> QED  BY <3>1, <3>2
  <2>3. /\ reader.relations = {Result.relations[i] : i \in DOMAIN Result.relations}
        /\ \E i \in DOMAIN Result.candidates : c = Result.candidates[i]
    BY <2>1, <2>2, RelationsBeforeCandidates
  <2>4. relations \subseteq reader.relations /\ reader.relations \subseteq relations
    <3>1. /\ Result.relations \in Seq(relations)
          /\ \A r \in relations : \E i \in 1..Len(Result.relations) : Result.relations[i] = r
      BY <2>1, RelationsAreSaved DEF Result
    <3>2. DOMAIN Result.relations = 1..Len(Result.relations)
      BY <2>1, StatementsAre
    <3> HIDE DEF relations
    <3>3. \A i \in DOMAIN Result.relations : Result.relations[i] \in relations
      BY <3>1
    <3> QED  BY <2>3, <3>1, <3>2, <3>3
  <2>5. Resolves(stored, relations, c)
    <3>1. /\ DOMAIN Result.candidates = 1..Len(Result.candidates)
          /\ \A i \in 1..Len(Result.candidates) :
               Resolves(stored, relations, Result.candidates[i])
      BY <2>1, CandidatesResolve DEF Result
    <3> QED  BY <2>3, <3>1
  <2> HIDE DEF relations, c
  <2> DEFINE shown == {r \in reader.relations : {r.a, r.b} \subseteq c.findings}
             members == {f \in stored : f.id \in c.findings}
  <2>6. reader.relations = relations
    BY <2>4
  <2>7. c.relations = shown
    BY <2>5, <2>6 DEF Resolves
  <2>8. c.findings = {f.id : f \in members}
    BY <2>5 DEF Resolves
  <2>9. \A f \in members : f.scan = c.scan /\ f.identity = c.identity
    BY <2>5 DEF Resolves
  <2>10. (c.status = "SUPPORTED") <=>
           \E r \in shown : r.type \in {"DATA_FLOW", "SHARED_EVIDENCE", "POTENTIAL_PRECONDITION"}
    BY <2>5, <2>7 DEF Resolves, Evident
  <2>11. c.relations \subseteq reader.relations /\ \A r \in c.relations : {r.a, r.b} \subseteq c.findings
    BY <2>7
  <2> QED  BY <2>8, <2>9, <2>10, <2>11 DEF ShownChainsResolve, c
<1> QED  BY <1>1, SavingCorrect, PTL

-----------------------------------------------------------------------------
(* The ranking of the findings.                                            *)

(* What the groups of a bucket are.                                        *)
Group(s, c, v, e, t, d) ==
  [signature |-> s, confidence |-> c, severity |-> v, evidence |-> e, title |-> t, detector |-> d]

Changed(h, c, v, t, d) ==
  [h EXCEPT !.confidence = c, !.severity = v, !.title = t, !.detector = d]

IsGroup(g) ==
  \E s, v, e, t, d : \E c \in Nat : g = Group(s, c, v, e, t, d)

AreGroups(G) == G # {} /\ IsFiniteSet(G) /\ \A g \in G : IsGroup(g)

(* A finite set of natural numbers that is not empty has a greatest one.   *)
LEMMA GreatestNatural ==
  ASSUME NEW T, T \subseteq Nat, T # {}, IsFiniteSet(T)
  PROVE  Max(T) \in T /\ \A n \in T : Max(T) >= n
<1> DEFINE Bounds == {n \in Nat : \E m \in T : Cardinality({k \in T : k > m}) = n}
<1>1. \A m \in T : IsFiniteSet({k \in T : k > m}) /\ Cardinality({k \in T : k > m}) \in Nat
  <2> TAKE m \in T
  <2>1. {k \in T : k > m} \subseteq T
    OBVIOUS
  <2> QED  BY <2>1, FS_Subset, FS_CardinalityType
<1>2. Bounds # {} /\ Bounds \subseteq Nat
  BY <1>1
<1>3. PICK n \in Bounds : \A m \in Bounds : n <= m
  <2> HIDE DEF Bounds
  <2> QED  BY <1>2, LeastNatural
<1>4. PICK m \in T : Cardinality({k \in T : k > m}) = n
  OBVIOUS
<1>5. \A k \in T : k <= m
  <2> SUFFICES ASSUME NEW k \in T, k > m PROVE FALSE
    OBVIOUS
  <2>1. {l \in T : l > k} \subseteq {l \in T : l > m} /\ {l \in T : l > k} # {l \in T : l > m}
    <3>1. k \in {l \in T : l > m} /\ k \notin {l \in T : l > k}
      OBVIOUS
    <3>2. \A l \in T : l > k => l > m
      OBVIOUS
    <3> QED  BY <3>1, <3>2
  <2>2. Cardinality({l \in T : l > k}) < Cardinality({l \in T : l > m})
    BY <2>1, <1>1, FS_Subset
  <2>3. Cardinality({l \in T : l > k}) \in Bounds
    BY <1>1
  <2> HIDE DEF Bounds
  <2> QED  BY <2>2, <2>3, <1>1, <1>2, <1>3, <1>4
<1>6. \E x \in T : \A y \in T : x >= y
  BY <1>5
<1> QED  BY <1>6 DEF Max

(* A score is an integer.                                                  *)
LEMMA ScoresAreIntegers ==
  ASSUME NEW severity, NEW confidence \in {"LOW", "MEDIUM", "HIGH"},
         NEW verification \in {"UNVERIFIED", "SUSPICIOUS", "VERIFIED"}
  PROVE  Score([severity |-> severity, confidence |-> confidence,
                verification |-> verification, exposure |-> "UNKNOWN"]) \in Int
<1> DEFINE factors == [severity |-> severity, confidence |-> confidence,
                       verification |-> verification, exposure |-> "UNKNOWN"]
           base == SeverityBase(severity)
           c == ConfidenceMultiplier[confidence]
           v == VerificationMultiplier[verification]
           x == ExposureMultiplier["UNKNOWN"]
           millionths == base * c * v * x
<1>1. RankOfSeverity(severity) \in 0..5
  BY DEF RankOfSeverity
<1>2. base \in Int
  BY <1>1 DEF SeverityBase
<1>3. c \in Int /\ v \in Int /\ x \in Int
  BY DEF ConfidenceMultiplier, VerificationMultiplier, ExposureMultiplier
<1>4. Score(factors) = IF base * c = 4500 /\ millionths = 31500000 THEN 31
                       ELSE Clamp((2 * millionths + 1000000) \div 2000000)
  BY DEF Score
<1> HIDE DEF base, c, v, x
<1>5. base * c \in Int
  BY <1>2, <1>3
<1>6. base * c * v \in Int
  <2> DEFINE p == base * c
  <2> HIDE DEF p
  <2>1. p \in Int => p * v \in Int
    BY <1>3
  <2> QED  BY <1>5, <2>1 DEF p
<1>7. millionths \in Int
  <2> DEFINE p == base * c * v
  <2> HIDE DEF p
  <2>1. p \in Int => p * x \in Int
    BY <1>3
  <2> QED  BY <1>6, <2>1 DEF p
<1> HIDE DEF millionths
<1>8. (2 * millionths + 1000000) \div 2000000 \in Int
  BY <1>7
<1>9. \A n \in Int : Clamp(n) \in Int
  <2> SUFFICES ASSUME NEW n \in Int PROVE Clamp(n) \in Int
    OBVIOUS
  <2>1. \A a \in Int, b \in Int : Max({a, b}) \in Int /\ Min({a, b}) \in Int
    <3> TAKE a \in Int, b \in Int
    <3>1. Max({a, b}) \in {a, b} /\ Min({a, b}) \in {a, b}
      BY MinOfTwo
    <3> QED  BY <3>1
  <2> DEFINE m == Max({0, n})
  <2>2. m \in Int
    BY <2>1
  <2> HIDE DEF m
  <2>3. Min({100, m}) \in Int
    BY <2>1, <2>2
  <2>4. Clamp(n) = Min({100, m})
    BY DEF Clamp, m
  <2> QED  BY <2>3, <2>4
<1> HIDE DEF factors
<1>10. Score(factors) \in Int
  BY <1>4, <1>8, <1>9
<1> QED  BY <1>10 DEF factors

(* What can be ranked.                                                     *)
IsKey(id) == {id.host, id.path} \subseteq Int /\ IdDigest(id) \in Int

(* An assessment is compared by seven integers, of which the last is the   *)
(* digest of the identity.                                                 *)
LEMMA KeysAreIntegers ==
  ASSUME NEW id, IsKey(id), NEW G, AreGroups(G)
  PROVE  /\ Assess(Build(id, G)).finding = id
         /\ Keys(Assess(Build(id, G))) \in [1..7 -> Int]
         /\ Keys(Assess(Build(id, G)))[7] = IdDigest(id)
<1> DEFINE cf == Build(id, G)
           f == DeriveFactors(cf)
           a == Assess(cf)
           score == Score(f)
           digest == IdDigest(id)
<1>1. cf.confidence \in Nat
  <2> DEFINE T == {g.confidence : g \in G}
  <2>1. T \subseteq Nat /\ T # {}
    BY DEF AreGroups, IsGroup, Group
  <2>2. IsFiniteSet(T)
    <3> DEFINE h == [g \in G |-> g.confidence]
    <3>1. h \in Surjection(G, T)
      BY DEF Surjection
    <3>2. IsFiniteSet(G)
      BY DEF AreGroups
    <3> HIDE DEF T, h
    <3> QED  BY <3>1, <3>2, FS_Surjection
  <2>3. cf.confidence = Max(T)
    BY DEF Build
  <2> HIDE DEF T, cf
  <2> QED  BY <2>1, <2>2, <2>3, GreatestNatural
<1>2. cf.id = id
  BY DEF Build
<1> HIDE DEF cf
<1>3. f.confidence \in {"LOW", "MEDIUM", "HIGH"} /\ ConfidenceTier(cf.confidence) = f.confidence
  BY <1>1 DEF DeriveFactors, ConfidenceTier
<1>4. f.verification \in {"UNVERIFIED", "SUSPICIOUS", "VERIFIED"}
  BY DEF DeriveFactors, VerificationTier
<1>5. f = [severity |-> cf.severity, confidence |-> f.confidence,
           verification |-> f.verification, exposure |-> "UNKNOWN"]
  BY DEF DeriveFactors
<1> HIDE DEF f
<1>6. score \in Int
  <2>1. \A c \in {"LOW", "MEDIUM", "HIGH"}, v \in {"UNVERIFIED", "SUSPICIOUS", "VERIFIED"} :
          Score([severity |-> cf.severity, confidence |-> c, verification |-> v,
                 exposure |-> "UNKNOWN"]) \in Int
    BY ScoresAreIntegers
  <2> QED  BY <1>3, <1>4, <1>5, <2>1
<1>7. /\ a.finding = id /\ a.severity = cf.severity /\ a.factors = f /\ a.score = score
  BY <1>2 DEF Assess, f
<1> HIDE DEF a, score
<1>8. RankOfSeverity(a.severity) \in Int
  BY DEF RankOfSeverity
<1>9. ConfidenceRank[a.factors.confidence] \in Int /\ VerificationRank[a.factors.verification] \in Int
  BY <1>3, <1>4, <1>7 DEF ConfidenceRank, VerificationRank
<1>10. Keys(a) \in [1..7 -> Int] /\ Keys(a)[7] = digest
  <2>1. /\ -a.score \in Int /\ -RankOfSeverity(a.severity) \in Int
        /\ -ConfidenceRank[a.factors.confidence] \in Int
        /\ -VerificationRank[a.factors.verification] \in Int
    BY <1>6, <1>7, <1>8, <1>9
  <2>2. a.finding.host \in Int /\ a.finding.path \in Int /\ IdDigest(a.finding) \in Int
    BY <1>7 DEF IsKey
  <2>3. \A p, q, r, s, t, u, v \in Int :
          <<p, q, r, s, t, u, v>> \in [1..7 -> Int] /\ <<p, q, r, s, t, u, v>>[7] = v
    OBVIOUS
  <2> QED  BY <1>7, <2>1, <2>2, <2>3 DEF Keys
<1> QED  BY <1>7, <1>10 DEF a, cf

(* Sequences of seven integers are compared from the left.                 *)
LEMMA LessByIsTotal ==
  ASSUME NEW k \in [1..7 -> Int], NEW l \in [1..7 -> Int]
  PROVE  /\ ~ LessBy(k, k)
         /\ k = l \/ LessBy(k, l) \/ LessBy(l, k)
         /\ \A m \in [1..7 -> Int] : LessBy(k, l) /\ LessBy(l, m) => LessBy(k, m)
<1>1. ~ LessBy(k, k)
  BY DEF LessBy
<1>2. ASSUME k # l PROVE LessBy(k, l) \/ LessBy(l, k)
  <2> DEFINE T == {i \in 1..7 : k[i] # l[i]}
  <2>1. T # {} /\ T \subseteq Nat
    BY <1>2
  <2>2. PICK i \in T : \A j \in T : i <= j
    BY <2>1, LeastNatural
  <2>3. \A j \in 1..(i - 1) : k[j] = l[j]
    BY <2>2
  <2>4. i \in 1..7 /\ (k[i] < l[i] \/ l[i] < k[i])
    OBVIOUS
  <2> QED  BY <2>3, <2>4 DEF LessBy
<1>3. ASSUME NEW m \in [1..7 -> Int], LessBy(k, l), LessBy(l, m) PROVE LessBy(k, m)
  <2>1. PICK i \in 1..7 : k[i] < l[i] /\ \A j \in 1..(i - 1) : k[j] = l[j]
    BY <1>3 DEF LessBy
  <2>2. PICK h \in 1..7 : l[h] < m[h] /\ \A j \in 1..(h - 1) : l[j] = m[j]
    BY <1>3 DEF LessBy
  <2>3. CASE i <= h
    <3>1. k[i] < m[i]
      BY <2>1, <2>2, <2>3
    <3>2. \A j \in 1..(i - 1) : k[j] = m[j]
      BY <2>1, <2>2, <2>3
    <3> QED  BY <3>1, <3>2 DEF LessBy
  <2>4. CASE h < i
    <3>1. k[h] < m[h]
      BY <2>1, <2>2, <2>4
    <3>2. \A j \in 1..(h - 1) : k[j] = m[j]
      BY <2>1, <2>2, <2>4
    <3> QED  BY <3>1, <3>2 DEF LessBy
  <2> QED  BY <2>3, <2>4
<1> QED  BY <1>1, <1>2, <1>3

(* The assessments of all findings, in their order, and the findings that  *)
(* the report keeps.                                                       *)
Assessment(b, id) == Assess(Build(id, b[id]))
Assessments(b) == {Assess(cf) : cf \in Findings(b)}
Ranking(b) == Rank(Assessments(b))
Kept(b) == {Keep(Ranking(b))[i].finding : i \in 1..Len(Keep(Ranking(b)))}

AreBuckets(b) ==
  /\ IsFiniteSet(DOMAIN b)
  /\ \A id \in DOMAIN b : IsKey(id) /\ AreGroups(b[id])
  /\ \A id, jd \in DOMAIN b : IdDigest(id) = IdDigest(jd) => id = jd

(* All assessments are ranked.                                             *)
LEMMA AllAreRanked ==
  ASSUME NEW b, AreBuckets(b)
  PROVE  /\ \A a \in Assessments(b) : a.finding \in DOMAIN b /\ a = Assessment(b, a.finding)
         /\ \A id \in DOMAIN b : Assessment(b, id) \in Assessments(b)
                                 /\ Assessment(b, id).finding = id
         /\ Ranking(b) \in Seq(Assessments(b))
         /\ \A a \in Assessments(b) : \E i \in 1..Len(Ranking(b)) : Ranking(b)[i] = a
         /\ \A i, j \in 1..Len(Ranking(b)) : i < j => RankedBefore(Ranking(b)[i], Ranking(b)[j])
<1> DEFINE A == Assessments(b)
           R == {p \in A \X A : RankedBefore(p[1], p[2])}
           all == Ranking(b)
<1>1. \A id \in DOMAIN b : /\ Assessment(b, id).finding = id
                           /\ Keys(Assessment(b, id)) \in [1..7 -> Int]
                           /\ Keys(Assessment(b, id))[7] = IdDigest(id)
  BY KeysAreIntegers DEF AreBuckets, Assessment
<1>2. /\ \A a \in A : \E id \in DOMAIN b : a = Assessment(b, id)
      /\ \A id \in DOMAIN b : Assessment(b, id) \in A
  BY DEF Assessments, Findings, Assessment
<1>3. IsFiniteSet(A) /\ Cardinality(A) \in Nat
  <2> DEFINE h == [id \in DOMAIN b |-> Assessment(b, id)]
  <2> HIDE DEF A
  <2>1. h \in Surjection(DOMAIN b, A)
    BY <1>2 DEF Surjection
  <2>2. IsFiniteSet(DOMAIN b)
    BY DEF AreBuckets
  <2> HIDE DEF h
  <2> QED  BY <2>1, <2>2, FS_Surjection, FS_CardinalityType
<1>4. \A a \in A : a.finding \in DOMAIN b /\ a = Assessment(b, a.finding)
  <2> HIDE DEF A
  <2> QED  BY <1>1, <1>2
<1>5. \A a \in A : Keys(a) \in [1..7 -> Int]
  <2> HIDE DEF A
  <2> QED  BY <1>1, <1>2
<1>6. \A x, y \in A : Keys(x) = Keys(y) => x = y
  <2> HIDE DEF A
  <2> SUFFICES ASSUME NEW x \in A, NEW y \in A, Keys(x) = Keys(y) PROVE x = y
    OBVIOUS
  <2>1. PICK id \in DOMAIN b : x = Assessment(b, id)
    BY <1>2
  <2>2. PICK jd \in DOMAIN b : y = Assessment(b, jd)
    BY <1>2
  <2>3. IdDigest(id) = IdDigest(jd)
    BY <2>1, <2>2, <1>1
  <2>4. id = jd
    BY <2>3 DEF AreBuckets
  <2> QED  BY <2>1, <2>2, <2>4
<1>7. \A x, y \in A : <<x, y>> \in R <=> LessBy(Keys(x), Keys(y))
  BY DEF RankedBefore
<1> HIDE DEF A, R
<1>total. Total(A, R)
  <2>1. \A x \in A : <<x, x>> \notin R
    BY <1>5, <1>7, LessByIsTotal
  <2>2. \A x, y, z \in A : <<x, y>> \in R /\ <<y, z>> \in R => <<x, z>> \in R
    <3> SUFFICES ASSUME NEW x \in A, NEW y \in A, NEW z \in A,
                        LessBy(Keys(x), Keys(y)), LessBy(Keys(y), Keys(z))
                 PROVE  LessBy(Keys(x), Keys(z))
      BY <1>7
    <3> QED  BY <1>5, LessByIsTotal
  <2>3. \A x, y \in A : x = y \/ <<x, y>> \in R \/ <<y, x>> \in R
    <3> SUFFICES ASSUME NEW x \in A, NEW y \in A, x # y
                 PROVE  LessBy(Keys(x), Keys(y)) \/ LessBy(Keys(y), Keys(x))
      BY <1>7
    <3>1. Keys(x) # Keys(y)
      BY <1>6
    <3> QED  BY <1>5, <3>1, LessByIsTotal
  <2> QED  BY <2>1, <2>2, <2>3 DEF Total
<1>8. \A x \in A : Place(A, R, x) = Cardinality({y \in A : RankedBefore(y, x)})
  <2> SUFFICES ASSUME NEW x \in A
               PROVE  Place(A, R, x) = Cardinality({y \in A : RankedBefore(y, x)})
    OBVIOUS
  <2>1. {y \in A : <<y, x>> \in R} = {y \in A : RankedBefore(y, x)}
    BY <1>7 DEF RankedBefore
  <2> QED  BY <2>1 DEF Place
<1>9. \A i \in 1..Cardinality(A) : \E x \in A : Place(A, R, x) = i - 1
  BY <1>3, <1>total, PlacesAreTaken
<1>10. /\ all \in [1..Cardinality(A) -> A]
       /\ \A i \in 1..Cardinality(A) :
            Cardinality({y \in A : RankedBefore(y, all[i])}) = i - 1
  <2>1. \A i \in 1..Cardinality(A) :
          \E x \in A : Cardinality({y \in A : RankedBefore(y, x)}) = i - 1
    BY <1>8, <1>9
  <2>2. all = Sorted(A, RankedBefore)
    BY DEF Ranking, Rank, A
  <2> HIDE DEF all
  <2> QED  BY <2>1, <2>2 DEF Sorted
<1> HIDE DEF all
<1>11. \A i \in 1..Cardinality(A) : Place(A, R, all[i]) = i - 1
  BY <1>8, <1>10
<1>12. Arranged(all, A, R)
  BY <1>3, <1>total, <1>10, <1>11, SortedIs
<1>13. /\ all \in Seq(A)
       /\ \A a \in A : \E i \in 1..Len(all) : all[i] = a
       /\ \A i, j \in 1..Len(all) : i < j => RankedBefore(all[i], all[j])
  <2>1. /\ all \in Seq(A)
        /\ \A a \in A : \E i \in 1..Len(all) : all[i] = a
        /\ \A i, j \in 1..Len(all) : i < j => <<all[i], all[j]>> \in R
    BY <1>12 DEF Arranged
  <2>2. ASSUME NEW i \in 1..Len(all), NEW j \in 1..Len(all), i < j
        PROVE  RankedBefore(all[i], all[j])
    <3> HIDE DEF A, R
    <3>a. all \in Seq(A)
      BY ONLY <2>1
    <3>1. all[i] \in A /\ all[j] \in A
      BY ONLY <3>a, i \in 1..Len(all), j \in 1..Len(all)
    <3>2. <<all[i], all[j]>> \in R
      BY ONLY <2>1, i \in 1..Len(all), j \in 1..Len(all), i < j
    <3> QED  BY <3>1, <3>2, <1>7 DEF RankedBefore
  <2> QED  BY <2>1, <2>2
<1> QED  BY <1>1, <1>2, <1>4, <1>13 DEF A, all

(* What the report does not keep ranks below everything it keeps.          *)
LEMMA KeptRankFirst ==
  ASSUME NEW b, AreBuckets(b)
  PROVE  /\ Keep(Ranking(b)) \in Seq(Assessments(b))
         /\ Kept(b) \subseteq DOMAIN b
         /\ \A id \in DOMAIN b :
              \/ id \in Kept(b)
              \/ /\ Len(Ranking(b)) > MaxFindings
                 /\ \A k \in Kept(b) : RankedBefore(Assessment(b, k), Assessment(b, id))
<1> DEFINE A == Assessments(b)
           all == Ranking(b)
           kept == Keep(all)
           m == Min({Len(all), MaxFindings})
<1>1. /\ \A a \in A : a.finding \in DOMAIN b /\ a = Assessment(b, a.finding)
      /\ \A id \in DOMAIN b : Assessment(b, id) \in A /\ Assessment(b, id).finding = id
      /\ all \in Seq(A)
      /\ \A a \in A : \E i \in 1..Len(all) : all[i] = a
      /\ \A i, j \in 1..Len(all) : i < j => RankedBefore(all[i], all[j])
  BY AllAreRanked
<1> HIDE DEF A, all
<1>2. /\ m \in Nat /\ m <= Len(all)
      /\ kept \in Seq(A) /\ Len(kept) = m
      /\ \A i \in 1..m : kept[i] = all[i]
  <2>1. MaxFindings \in Nat \ {0}
    BY AnalysisAssumption
  <2> QED  BY <1>1, <2>1, HeadOfSequence DEF Keep
<1>3. m = Len(all) \/ (m = MaxFindings /\ Len(all) \in Nat)
  <2>1. Len(all) \in Int /\ MaxFindings \in Int
    BY <1>1, AnalysisAssumption
  <2>2. m \in {Len(all), MaxFindings}
    BY <2>1, MinOfTwo
  <2> QED  BY <2>2, <1>1
<1>4. Kept(b) = {kept[i].finding : i \in 1..m}
  BY <1>2 DEF Kept, all
<1> HIDE DEF kept, m
<1>5. \A k \in Kept(b) : \E i \in 1..m : k = all[i].finding /\ all[i] = Assessment(b, k)
                                         /\ k \in DOMAIN b
  <2> SUFFICES ASSUME NEW k \in Kept(b)
               PROVE  \E i \in 1..m : k = all[i].finding /\ all[i] = Assessment(b, k)
                                      /\ k \in DOMAIN b
    OBVIOUS
  <2>1. PICK i \in 1..m : k = kept[i].finding
    BY <1>4
  <2>2. kept[i] = all[i] /\ i \in 1..Len(all)
    BY <1>1, <1>2
  <2>3. all[i] \in A
    BY <1>1, <2>2
  <2> QED  BY <1>1, <2>1, <2>2, <2>3
<1>6. ASSUME NEW id \in DOMAIN b, id \notin Kept(b)
      PROVE  /\ Len(all) > MaxFindings
             /\ \A k \in Kept(b) : RankedBefore(Assessment(b, k), Assessment(b, id))
  <2>1. PICK j \in 1..Len(all) : all[j] = Assessment(b, id)
    BY <1>1
  <2>2. j \notin 1..m
    <3>1. all[j].finding = id
      BY <1>1, <2>1
    <3>2. j \in 1..m => kept[j] = all[j]
      BY <1>2
    <3> QED  BY <3>1, <3>2, <1>4, <1>6
  <2>3. j > m /\ Len(all) > MaxFindings
    <3>1. j \in Nat /\ m \in Nat /\ Len(all) \in Nat /\ j <= Len(all) /\ j >= 1
      BY <1>1, <1>2
    <3> QED  BY <3>1, <2>2, <1>3
  <2>4. ASSUME NEW k \in Kept(b) PROVE RankedBefore(Assessment(b, k), Assessment(b, id))
    <3>1. PICK i \in 1..m : all[i] = Assessment(b, k)
      BY <1>5
    <3>2. i \in 1..Len(all) /\ i < j
      BY <1>2, <1>1, <2>3
    <3> QED  BY <1>1, <2>1, <3>1, <3>2
  <2> QED  BY <2>3, <2>4
<1>7. kept \in Seq(A)
  BY <1>2
<1>8. Kept(b) \subseteq DOMAIN b
  BY <1>5
<1> QED  BY <1>6, <1>7, <1>8 DEF A, all, kept

-----------------------------------------------------------------------------
(* The report.                                                             *)

(* The findings that a package or a warning is about.                      *)
Reported ==
  {p.finding.id : p \in packages} \cup {w.finding : w \in {v \in warnings : v.about = "finding"}}

(* What has been reported and what is still to be packaged are what the    *)
(* report keeps, and that findings were cut off is known until it is said. *)
AccountInv ==
  /\ stored \in Scenarios /\ arrived \subseteq stored
  /\ DOMAIN buckets = {Identity(f) : f \in arrived}
  /\ \A id \in DOMAIN buckets : AreGroups(buckets[id])
  /\ pc \in {"save", "risk", "evidence", "finalize", "done"} => arrived = stored
  /\ pc \in {"list", "ingest", "save", "risk"} => Reported = {}
  /\ pc = "evidence" =>
       /\ ranked \in Seq(Assessments(buckets))
       /\ Reported \cup {ranked[i].finding : i \in 1..Len(ranked)} = Kept(buckets)
  /\ pc \in {"finalize", "done"} => Reported = Kept(buckets)
  /\ pc \in {"evidence", "finalize"} => truncated = (Len(Ranking(buckets)) > MaxFindings)
  /\ pc = "done" /\ Len(Ranking(buckets)) > MaxFindings => [about |-> "truncated"] \in warnings

(* Identities of findings of a scenario can be ranked.                     *)
LEMMA IdentitiesAreKeys ==
  ASSUME NEW S \in Scenarios
  PROVE  /\ \A f \in S : IsKey(Identity(f)) /\ f.confidence \in Nat
         /\ \A f, g \in S : IdDigest(Identity(f)) = IdDigest(Identity(g)) => Identity(f) = Identity(g)
<1>1. ASSUME NEW f \in S PROVE IsKey(Identity(f)) /\ f.confidence \in Nat
  <2>1. /\ f.host \in Nat /\ f.endpoint.name \in Nat /\ f.urlPath.name \in Nat
        /\ f.confidence \in Nat
    BY AnalysisAssumption, ReportAssumption
  <2>2. Identity(f).host \in Int /\ Identity(f).path \in Int
    BY <2>1 DEF Identity
  <2>3. IdDigest(Identity(f)) \in Int
    BY DigestAssumption
  <2> QED  BY <2>1, <2>2, <2>3 DEF IsKey
<1>2. \A f, g \in S : IdDigest(Identity(f)) = IdDigest(Identity(g)) => Identity(f) = Identity(g)
  BY DigestAssumption
<1> QED  BY <1>1, <1>2

LEMMA BucketsAreBuckets ==
  ASSUME AccountInv
  PROVE  AreBuckets(buckets)
<1>1. /\ stored \in Scenarios /\ arrived \subseteq stored
      /\ DOMAIN buckets = {Identity(f) : f \in arrived}
      /\ \A id \in DOMAIN buckets : AreGroups(buckets[id])
  BY DEF AccountInv
<1>2. IsFiniteSet(DOMAIN buckets)
  <2> DEFINE D == {Identity(f) : f \in arrived}
             h == [f \in arrived |-> Identity(f)]
  <2>1. h \in Surjection(arrived, D)
    BY DEF Surjection
  <2>2. IsFiniteSet(arrived)
    BY <1>1, AnalysisAssumption, FS_Subset
  <2> HIDE DEF D, h
  <2>3. IsFiniteSet(D)
    BY <2>1, <2>2, FS_Surjection
  <2> QED  BY <1>1, <2>3 DEF D
<1>3. \A id \in DOMAIN buckets : IsKey(id)
  BY <1>1, IdentitiesAreKeys
<1>4. \A id, jd \in DOMAIN buckets : IdDigest(id) = IdDigest(jd) => id = jd
  BY <1>1, IdentitiesAreKeys
<1> QED  BY <1>1, <1>2, <1>3, <1>4 DEF AreBuckets

(* A group of which all but the signature and the evidence is replaced.    *)
LEMMA GroupChanged ==
  ASSUME NEW s, NEW c, NEW v, NEW e, NEW t, NEW d, NEW p, NEW q, NEW r, NEW u
  PROVE  Changed(Group(s, c, v, e, t, d), p, q, r, u) = Group(s, p, q, e, r, u)
<1> DEFINE h == Group(s, c, v, e, t, d)
           k == Changed(h, p, q, r, u)
<1>1. DOMAIN k = {"signature", "confidence", "severity", "evidence", "title", "detector"}
  BY DEF Group, Changed
<1>2. /\ k.signature = s /\ k.confidence = p /\ k.severity = q
      /\ k.evidence = e /\ k.title = r /\ k.detector = u
  BY DEF Group, Changed
<1>3. k = [x \in DOMAIN k |-> k[x]]
  BY DEF Group, Changed
<1> HIDE DEF k
<1>4. k = Group(s, p, q, e, r, u)
  BY <1>1, <1>2, <1>3 DEF Group
<1> QED  BY <1>4 DEF k

(* A bucket that takes a finding still holds groups.                       *)
LEMMA GroupsStay ==
  ASSUME NEW G, G = {} \/ AreGroups(G), NEW f, f.confidence \in Nat
  PROVE  AreGroups(IngestInto(G, f))
<1> DEFINE g == NewGroup(f)
           same == {h \in G : h.signature = g.signature}
           merged == {Merge(h, g) : h \in same}
<1>1. IsFiniteSet(G) /\ \A h \in G : IsGroup(h)
  BY FS_EmptySet DEF AreGroups
<1>2. IsGroup(g) /\ g.confidence \in Nat
  BY DEF NewGroup, IsGroup, Group
<1>3. ASSUME NEW h \in G PROVE IsGroup(Merge(h, g))
  <2>1. PICK s, v, e, t, d : \E c \in Nat : h = Group(s, c, v, e, t, d)
    BY <1>1 DEF IsGroup
  <2>2. PICK c \in Nat : h = Group(s, c, v, e, t, d)
    BY <2>1
  <2>3. h.confidence = c
    BY <2>2 DEF Group
  <2>4. (IF g.confidence < h.confidence THEN g.confidence ELSE h.confidence) \in Nat
    BY <1>2, <2>3
  <2>5. \A p, q, r, u : Changed(h, p, q, r, u) = Group(s, p, q, e, r, u)
    BY <2>2, GroupChanged
  <2>6. \A p \in Nat : \A q, r, u : IsGroup(Changed(h, p, q, r, u))
    BY <2>5 DEF IsGroup
  <2>7. \E p \in Nat : \E q, r, u : Merge(h, g) = Changed(h, p, q, r, u)
    BY <2>4 DEF Merge, Changed
  <2> QED  BY <2>6, <2>7
<1>4. IsFiniteSet(merged)
  <2> DEFINE k == [h \in same |-> Merge(h, g)]
  <2>1. IsFiniteSet(same)
    BY <1>1, FS_Subset
  <2> HIDE DEF g, same
  <2>2. k \in Surjection(same, merged)
    BY DEF Surjection
  <2> HIDE DEF k, merged
  <2> QED  BY <2>1, <2>2, FS_Surjection
<1> HIDE DEF g
<1>5. CASE same # {}
  <2>1. IngestInto(G, f) = (G \ same) \cup merged
    BY <1>5 DEF IngestInto, g
  <2>2. IsFiniteSet((G \ same) \cup merged)
    <3>1. IsFiniteSet(G \ same)
      BY <1>1, FS_Subset
    <3> HIDE DEF same, merged
    <3> QED  BY <3>1, <1>4, FS_Union
  <2>3. merged # {} /\ \A x \in merged : IsGroup(x)
    BY <1>3, <1>5
  <2> HIDE DEF same, merged
  <2> QED  BY <2>1, <2>2, <2>3, <1>1 DEF AreGroups
<1>6. ASSUME NEW H, H \subseteq G PROVE AreGroups(H \cup {g})
  <2>1. IsFiniteSet(H)
    BY <1>1, <1>6, FS_Subset
  <2>2. IsFiniteSet(H \cup {g})
    BY <2>1, FS_AddElement
  <2> QED  BY <1>1, <1>2, <1>6, <2>2 DEF AreGroups
<1>7. CASE same = {}
  <2>1. \/ IngestInto(G, f) = G \cup {g}
        \/ IngestInto(G, f) = (G \ {Weakest(G)}) \cup {g}
        \/ IngestInto(G, f) = G /\ ~(Cardinality(G) < MaxGroups)
    BY <1>7 DEF IngestInto, g
  <2>2. G = {} => Cardinality(G) < MaxGroups
    BY FS_EmptySet, AnalysisAssumption
  <2> QED  BY <2>1, <2>2, <1>6
<1> QED  BY <1>5, <1>7

(* A finding goes to the bucket of its identity.                           *)
LEMMA BucketsGrow ==
  ASSUME NEW b, \A id \in DOMAIN b : AreGroups(b[id]), NEW f, f.confidence \in Nat
  PROVE  /\ DOMAIN Ingest(b, f) = DOMAIN b \cup {Identity(f)}
         /\ \A id \in DOMAIN Ingest(b, f) : AreGroups(Ingest(b, f)[id])
<1> DEFINE id == Identity(f)
<1> HIDE DEF id
<1>1. CASE id \in DOMAIN b
  <2> DEFINE G == IngestInto(b[id], f)
  <2>1. Ingest(b, f) = [b EXCEPT ![id] = G]
    BY <1>1 DEF Ingest, id
  <2>2. AreGroups(G)
    BY <1>1, GroupsStay
  <2> HIDE DEF G
  <2>3. DOMAIN Ingest(b, f) = DOMAIN b
    BY <2>1
  <2>4. \A i \in DOMAIN b : Ingest(b, f)[i] = IF i = id THEN G ELSE b[i]
    BY <2>1
  <2> QED  BY <1>1, <2>2, <2>3, <2>4 DEF id
<1>2. CASE id \notin DOMAIN b
  <2> DEFINE G == IngestInto({}, f)
  <2>1. Ingest(b, f) = [i \in DOMAIN b \cup {id} |-> IF i = id THEN G ELSE b[i]]
    BY <1>2 DEF Ingest, id
  <2>2. AreGroups(G)
    BY GroupsStay
  <2> HIDE DEF G
  <2>3. DOMAIN Ingest(b, f) = DOMAIN b \cup {id}
    BY <2>1
  <2>4. \A i \in DOMAIN b \cup {id} : Ingest(b, f)[i] = IF i = id THEN G ELSE b[i]
    BY <2>1
  <2> QED  BY <1>2, <2>2, <2>3, <2>4 DEF id
<1> QED  BY <1>1, <1>2

(* The first step of an execution.                                         *)
LEMMA AccountInit == Init => AccountInv
<1> SUFFICES ASSUME Init PROVE AccountInv
  OBVIOUS
<1>1. /\ stored \in Scenarios /\ arrived = {} /\ buckets = <<>> /\ pc = "list"
      /\ packages = {} /\ warnings = {}
  BY DEF Init
<1>2. DOMAIN buckets = {}
  BY <1>1
<1>3. Reported = {}
  BY <1>1 DEF Reported
<1> QED  BY <1>1, <1>2, <1>3 DEF AccountInv

(* A step that leaves findings, buckets and report alone.                  *)
Unreported ==
  UNCHANGED <<stored, arrived, buckets, ranked, truncated, packages, warnings>>

LEMMA AccountFrame ==
  ASSUME AccountInv, Unreported,
         \/ pc' = pc
         \/ pc = "list" /\ pc' = "ingest"
         \/ pc = "save" /\ pc' = "risk"
         \/ pc' \in {"failed", "cancelled"}
  PROVE  AccountInv'
<1>1. /\ Reported' = Reported /\ stored' = stored /\ arrived' = arrived /\ buckets' = buckets
      /\ ranked' = ranked /\ truncated' = truncated /\ warnings' = warnings
  BY DEF Unreported, Reported
<1>2. /\ Kept(buckets)' = Kept(buckets) /\ Assessments(buckets)' = Assessments(buckets)
      /\ Ranking(buckets)' = Ranking(buckets)
  BY <1>1
<1>3. CASE pc' = pc
  BY <1>1, <1>2, <1>3 DEF AccountInv
<1>4. CASE pc = "list" /\ pc' = "ingest"
  BY <1>1, <1>2, <1>4 DEF AccountInv
<1>5. CASE pc = "save" /\ pc' = "risk"
  BY <1>1, <1>2, <1>5 DEF AccountInv
<1>6. CASE pc' \in {"failed", "cancelled"}
  BY <1>1, <1>2, <1>6 DEF AccountInv
<1> QED  BY <1>3, <1>4, <1>5, <1>6

(* Warnings that are about no finding report none.                         *)
LEMMA OtherWarnings ==
  ASSUME NEW about \in {"chains", "truncated"}, packages' = packages,
         warnings' = warnings \cup {[about |-> about]}
  PROVE  Reported' = Reported
<1>1. {v \in warnings' : v.about = "finding"} = {v \in warnings : v.about = "finding"}
  OBVIOUS
<1> QED  BY <1>1 DEF Reported

LEMMA AccountIngest == ASSUME AccountInv, IngestOne PROVE AccountInv'
<1>1. PICK f \in stored \ arrived : buckets' = Ingest(buckets, f) /\ arrived' = arrived \cup {f}
  BY DEF IngestOne
<1>2. /\ stored \in Scenarios /\ stored' = stored /\ pc = "ingest" /\ pc' = "ingest"
      /\ packages' = packages /\ warnings' = warnings
      /\ \A id \in DOMAIN buckets : AreGroups(buckets[id])
      /\ DOMAIN buckets = {Identity(g) : g \in arrived}
      /\ arrived \subseteq stored /\ Reported = {}
  BY DEF IngestOne, AccountInv
<1>3. f.confidence \in Nat
  BY <1>2, IdentitiesAreKeys
<1>4. /\ DOMAIN buckets' = DOMAIN buckets \cup {Identity(f)}
      /\ \A id \in DOMAIN buckets' : AreGroups(buckets'[id])
  BY <1>1, <1>2, <1>3, BucketsGrow
<1>5. DOMAIN buckets' = {Identity(g) : g \in arrived'}
  BY <1>1, <1>2, <1>4
<1>6. Reported' = {}
  BY <1>2 DEF Reported
<1> QED  BY <1>1, <1>2, <1>4, <1>5, <1>6 DEF AccountInv

LEMMA AccountRank == ASSUME AccountInv, RankFindings PROVE AccountInv'
<1>1. CASE ctxDone
  BY <1>1, AccountFrame DEF RankFindings, Unreported
<1>2. CASE ~ctxDone
  <2> DEFINE all == Ranking(buckets)
  <2>1. /\ stored' = stored /\ arrived' = arrived /\ buckets' = buckets
        /\ packages' = packages /\ warnings' = warnings /\ pc = "risk" /\ pc' = "evidence"
        /\ ranked' = Keep(all) /\ truncated' = (Len(all) > MaxFindings)
    BY <1>2 DEF RankFindings, Ranking, Assessments
  <2>2. Keep(all) \in Seq(Assessments(buckets))
    BY BucketsAreBuckets, KeptRankFirst
  <2>3. Reported = {} /\ Reported' = {}
    BY <2>1 DEF AccountInv, Reported
  <2>4. Kept(buckets) = {Keep(all)[i].finding : i \in 1..Len(Keep(all))}
    BY DEF Kept
  <2>5. /\ Kept(buckets)' = Kept(buckets) /\ Assessments(buckets)' = Assessments(buckets)
        /\ Ranking(buckets)' = all
    BY <2>1
  <2> HIDE DEF all
  <2> QED  BY <2>1, <2>2, <2>3, <2>4, <2>5 DEF AccountInv
<1> QED  BY <1>1, <1>2

LEMMA AccountPackage == ASSUME AccountInv, PackageOne PROVE AccountInv'
<1> DEFINE A == Assessments(buckets)
           a == Head(ranked)
           cf == CHOOSE cf \in Findings(buckets) : cf.id = a.finding
           Rest(s) == {s[i].finding : i \in 1..Len(s)}
<1>1. /\ stored' = stored /\ arrived' = arrived /\ buckets' = buckets /\ truncated' = truncated
      /\ pc = "evidence" /\ pc' = "evidence" /\ ranked # <<>> /\ ranked' = Tail(ranked)
      /\ \/ packages' = packages \cup {BuildPackage(cf, a)} /\ warnings' = warnings
         \/ /\ warnings' = warnings \cup {[about |-> "finding", finding |-> a.finding]}
            /\ packages' = packages
  BY DEF PackageOne
<1>2. /\ ranked \in Seq(A) /\ Reported \cup Rest(ranked) = Kept(buckets)
      /\ truncated = (Len(Ranking(buckets)) > MaxFindings)
  BY <1>1 DEF AccountInv
<1>3. ranked' \in Seq(A) /\ Rest(ranked) = Rest(ranked') \cup {a.finding} /\ a \in A
  <2> DEFINE s == ranked
             t == Tail(ranked)
  <2> HIDE DEF A
  <2>1. s \in Seq(A) /\ s # <<>>
    BY <1>1, <1>2
  <2> HIDE DEF s
  <2>2. t = [i \in 1..(Len(s) - 1) |-> s[i + 1]]
    BY <2>1, TailOf DEF s
  <2>3. Len(s) \in Nat /\ Len(s) >= 1 /\ Head(s) = s[1] /\ s[1] \in A
    BY <2>1
  <2>4. \A i \in 1..(Len(s) - 1) : s[i + 1] \in A
    BY <2>1, <2>3
  <2>5. t \in Seq(A) /\ Len(t) = Len(s) - 1 /\ \A i \in 1..(Len(s) - 1) : t[i] = s[i + 1]
    <3> HIDE DEF t
    <3> QED  BY <2>2, <2>3, <2>4
  <2> HIDE DEF t
  <2>6. Rest(s) \subseteq Rest(t) \cup {s[1].finding}
    <3> SUFFICES ASSUME NEW i \in 1..Len(s) PROVE s[i].finding \in Rest(t) \cup {s[1].finding}
      OBVIOUS
    <3>1. CASE i = 1
      BY <3>1
    <3>2. CASE i # 1
      <4>1. i - 1 \in 1..(Len(s) - 1) /\ (i - 1) + 1 = i
        BY <2>3, <3>2
      <4>2. t[i - 1] = s[i]
        BY <4>1, <2>5
      <4> QED  BY <4>1, <4>2, <2>5
    <3> QED  BY <3>1, <3>2
  <2>7. Rest(t) \cup {s[1].finding} \subseteq Rest(s)
    <3>1. \A i \in 1..Len(t) : t[i].finding \in Rest(s)
      <4> TAKE i \in 1..Len(t)
      <4>1. i + 1 \in 1..Len(s) /\ t[i] = s[i + 1]
        BY <2>3, <2>5
      <4> QED  BY <4>1
    <3>2. 1 \in 1..Len(s)
      BY <2>3
    <3> QED  BY <3>1, <3>2
  <2>8. Rest(s) = Rest(t) \cup {s[1].finding}
    BY <2>6, <2>7
  <2> HIDE DEF Rest
  <2>9. ranked' = t /\ a = s[1]
    BY <1>1, <2>3 DEF s, t
  <2> QED  BY <2>3, <2>5, <2>8, <2>9 DEF s
<1>4. Reported' = Reported \cup {a.finding}
  <2>1. CASE packages' = packages \cup {BuildPackage(cf, a)} /\ warnings' = warnings
    <3>1. a.finding \in DOMAIN buckets
      BY <1>3, BucketsAreBuckets, AllAreRanked
    <3>2. \E x \in Findings(buckets) : x.id = a.finding
      <4>1. Build(a.finding, buckets[a.finding]) \in Findings(buckets)
        BY <3>1 DEF Findings
      <4>2. Build(a.finding, buckets[a.finding]).id = a.finding
        BY DEF Build
      <4> QED  BY <4>1, <4>2
    <3>3. cf.id = a.finding
      BY <3>2
    <3> HIDE DEF cf, a
    <3>4. BuildPackage(cf, a).finding.id = a.finding
      BY <3>3 DEF BuildPackage
    <3> QED  BY <2>1, <3>4 DEF Reported
  <2>2. CASE /\ warnings' = warnings \cup {[about |-> "finding", finding |-> a.finding]}
             /\ packages' = packages
    <3> HIDE DEF a
    <3> DEFINE w == [about |-> "finding", finding |-> a.finding]
    <3>1. w.about = "finding" /\ w.finding = a.finding
      OBVIOUS
    <3> HIDE DEF w
    <3>2. {v \in warnings' : v.about = "finding"} = {v \in warnings : v.about = "finding"} \cup {w}
      BY <2>2, <3>1 DEF w
    <3> QED  BY <2>2, <3>1, <3>2 DEF Reported
  <2> QED  BY <1>1, <2>1, <2>2
<1>5. Reported' \cup Rest(ranked') = Kept(buckets)
  BY <1>2, <1>3, <1>4
<1>6. /\ Kept(buckets)' = Kept(buckets) /\ Assessments(buckets)' = A
      /\ Ranking(buckets)' = Ranking(buckets)
  BY <1>1
<1>7. ranked' \in Seq(A)
  BY <1>3
<1> HIDE DEF A
<1> QED  BY <1>1, <1>2, <1>5, <1>6, <1>7 DEF AccountInv

(* Every step.                                                             *)
LEMMA AccountStep ==
  ASSUME AccountInv, [Next]_vars
  PROVE  AccountInv'
<1>0. CASE UNCHANGED vars
  BY <1>0, AccountFrame DEF vars, Unreported
<1>1. CASE ListByScanJob
  BY <1>1, AccountFrame DEF ListByScanJob, Unreported
<1>2. CASE IngestOne
  BY <1>2, AccountIngest
<1>3. CASE StartSave
  <2>1. /\ stored' = stored /\ arrived' = arrived /\ buckets' = buckets /\ arrived = stored
        /\ packages' = packages /\ warnings' = warnings /\ pc = "ingest" /\ pc' = "save"
    BY <1>3 DEF StartSave
  <2>2. Reported' = Reported
    BY <2>1 DEF Reported
  <2> QED  BY <2>1, <2>2 DEF AccountInv
<1>4. CASE SaveStatement
  BY <1>4, AccountFrame DEF SaveStatement, Unreported
<1>5. CASE SaveFails
  <2>1. /\ stored' = stored /\ arrived' = arrived /\ buckets' = buckets /\ pc = "save"
        /\ pc' \in {"cancelled", "risk"} /\ packages' = packages
        /\ warnings' = warnings \cup {[about |-> "chains"]}
    BY <1>5 DEF SaveFails, AfterCorrelation
  <2>2. Reported' = Reported
    BY <2>1, OtherWarnings
  <2> QED  BY <2>1, <2>2 DEF AccountInv
<1>6. CASE SaveDone
  BY <1>6, AccountFrame DEF SaveDone, AfterCorrelation, Unreported
<1>7. CASE RankFindings
  BY <1>7, AccountRank
<1>8. CASE PackageOne
  BY <1>8, AccountPackage
<1>9. CASE EvidenceEnds
  <2>1. CASE ctxDone
    BY <1>9, <2>1, AccountFrame DEF EvidenceEnds, Unreported
  <2>2. CASE ~ctxDone
    <3>1. /\ stored' = stored /\ arrived' = arrived /\ buckets' = buckets /\ ranked = <<>>
          /\ pc = "evidence" /\ pc' = "finalize" /\ packages' = packages /\ warnings' = warnings
          /\ truncated' = truncated
      BY <1>9, <2>2 DEF EvidenceEnds
    <3>2. {ranked[i].finding : i \in 1..Len(ranked)} = {}
      BY <3>1
    <3>3. /\ Reported' = Reported /\ Kept(buckets)' = Kept(buckets)
          /\ Ranking(buckets)' = Ranking(buckets)
      BY <3>1 DEF Reported
    <3> QED  BY <3>1, <3>2, <3>3 DEF AccountInv
  <2> QED  BY <2>1, <2>2
<1>10. CASE Finalize
  <2>1. /\ stored' = stored /\ arrived' = arrived /\ buckets' = buckets /\ packages' = packages
        /\ pc = "finalize" /\ pc' = "done"
        /\ warnings' = warnings \cup (IF truncated THEN {[about |-> "truncated"]} ELSE {})
    BY <1>10 DEF Finalize
  <2>2. Reported' = Reported
    <3>1. CASE truncated
      BY <2>1, <3>1, OtherWarnings
    <3>2. CASE ~truncated
      BY <2>1, <3>2 DEF Reported
    <3> QED  BY <3>1, <3>2
  <2>3. Kept(buckets)' = Kept(buckets) /\ Ranking(buckets)' = Ranking(buckets)
    BY <2>1
  <2>4. truncated => [about |-> "truncated"] \in warnings'
    BY <2>1
  <2> QED  BY <2>1, <2>2, <2>3, <2>4 DEF AccountInv
<1>11. CASE ContextDone
  BY <1>11, AccountFrame DEF ContextDone, Unreported
<1>12. CASE Crash
  <2>1. /\ stored' = stored /\ arrived' = {} /\ buckets' = <<>> /\ pc' = "crashed"
    BY <1>12 DEF Crash
  <2>2. DOMAIN buckets' = {}
    BY <2>1
  <2> QED  BY <2>1, <2>2 DEF AccountInv
<1>13. CASE FindCandidate
  BY <1>13, AccountFrame DEF FindCandidate, Unreported
<1>14. CASE ShowChain
  BY <1>14, AccountFrame DEF ShowChain, Unreported
<1> QED  BY <1>0, <1>1, <1>2, <1>3, <1>4, <1>5, <1>6, <1>7, <1>8, <1>9, <1>10, <1>11,
            <1>12, <1>13, <1>14 DEF Next

(* Every execution keeps the account.                                      *)
THEOREM AccountCorrect == Spec => []AccountInv
<1>1. AccountInv /\ [Next]_vars => AccountInv'
  BY AccountStep
<1> QED  BY AccountInit, <1>1, PTL DEF Spec

(* No raw finding disappears: a scan that went through has a package or a  *)
(* warning for its identity, or says that findings were cut off, and then  *)
(* all that it reports rank above it (orchestrator.go:579-619).            *)
THEOREM NothingDisappears == Spec => []EveryFindingAccountedFor
<1>1. AccountInv => EveryFindingAccountedFor
  <2> SUFFICES ASSUME AccountInv, pc = "done" PROVE EveryFindingAccountedFor
    BY DEF EveryFindingAccountedFor
  <2>1. /\ arrived = stored /\ DOMAIN buckets = {Identity(f) : f \in arrived}
        /\ Reported = Kept(buckets)
        /\ Len(Ranking(buckets)) > MaxFindings => [about |-> "truncated"] \in warnings
    BY DEF AccountInv
  <2>2. \A f \in stored : Identity(f) \in DOMAIN buckets
    BY <2>1
  <2>3. ASSUME NEW f \in stored
        PROVE  \/ Identity(f) \in Reported
               \/ /\ [about |-> "truncated"] \in warnings
                  /\ \A k \in Reported :
                       RankedBefore(Assessment(buckets, k), Assessment(buckets, Identity(f)))
    BY <2>1, <2>2, BucketsAreBuckets, KeptRankFirst
  <2> QED  BY <2>3 DEF EveryFindingAccountedFor, Reported, Assessment
<1> QED  BY <1>1, AccountCorrect, PTL

-----------------------------------------------------------------------------
(* The canonical findings.                                                 *)

(* A severity that is at most another, where a severity that is not        *)
(* recognised is above all.                                                *)
AtMost(a, b) == RankOfSeverity(b) = 0 \/ (RankOfSeverity(a) # 0 /\ RankOfSeverity(a) <= RankOfSeverity(b))

LEMMA SeverityOrder ==
  /\ \A a : RankOfSeverity(a) \in 0..5 /\ AtMost(a, a)
  /\ \A a, b : /\ MinSeverity(a, b) \in {a, b}
               /\ AtMost(MinSeverity(a, b), a) /\ AtMost(MinSeverity(a, b), b)
  /\ \A a, b, c : AtMost(a, b) /\ AtMost(b, c) => AtMost(a, c)
  /\ \A a, b : AtMost(a, b) /\ AtMost(b, a) => RankOfSeverity(a) = RankOfSeverity(b)
  /\ \A a, b : RankOfSeverity(a) # 0 /\ RankOfSeverity(a) = RankOfSeverity(b) => a = b
<1>1. \A a : RankOfSeverity(a) \in 0..5
  BY DEF RankOfSeverity
<1>2. \A a, b : RankOfSeverity(a) # 0 /\ RankOfSeverity(a) = RankOfSeverity(b) => a = b
  <2>1. \A a : RankOfSeverity(a) # 0 => Severities[RankOfSeverity(a)] = a
    <3> TAKE a
    <3> HAVE RankOfSeverity(a) # 0
    <3>1. \E i \in 1..5 : Severities[i] = a
      BY DEF RankOfSeverity
    <3>2. RankOfSeverity(a) = CHOOSE i \in 1..5 : Severities[i] = a
      BY <3>1 DEF RankOfSeverity
    <3> QED  BY <3>1, <3>2
  <2> QED  BY <2>1
<1>3. \A a, b : /\ MinSeverity(a, b) \in {a, b}
                /\ AtMost(MinSeverity(a, b), a) /\ AtMost(MinSeverity(a, b), b)
  <2> TAKE a, b
  <2>1. RankOfSeverity(a) \in 0..5 /\ RankOfSeverity(b) \in 0..5
    BY <1>1
  <2> QED  BY <2>1 DEF MinSeverity, AtMost
<1>4. \A a, b, c : AtMost(a, b) /\ AtMost(b, c) => AtMost(a, c)
  <2> TAKE a, b, c
  <2>1. {RankOfSeverity(a), RankOfSeverity(b), RankOfSeverity(c)} \subseteq Int
    BY <1>1
  <2> QED  BY <2>1 DEF AtMost
<1>5. \A a, b : AtMost(a, b) /\ AtMost(b, a) => RankOfSeverity(a) = RankOfSeverity(b)
  <2> TAKE a, b
  <2>1. {RankOfSeverity(a), RankOfSeverity(b)} \subseteq Int
    BY <1>1
  <2> QED  BY <2>1 DEF AtMost
<1>6. \A a : AtMost(a, a)
  <2> TAKE a
  <2>1. RankOfSeverity(a) \in Int
    BY <1>1
  <2> QED  BY <2>1 DEF AtMost
<1> QED  BY <1>1, <1>2, <1>3, <1>4, <1>5, <1>6

(* The severity that a fold finds is the least.                            *)
LEMMA LeastSeverity ==
  ASSUME NEW T, IsFiniteSet(T), NEW base \in T
  PROVE  /\ FoldSet(MinSeverity, base, T) \in T
         /\ \A s \in T : AtMost(FoldSet(MinSeverity, base, T), s)
<1> DEFINE pick == [s \in SUBSET T |-> CHOOSE r \in s : TRUE]
           step == [p \in T \X T |-> MinSeverity(p[1], p[2])]
           Rule(g) == g = [s \in SUBSET T |->
                             IF s = {} THEN base ELSE LET x == CHOOSE x \in s : TRUE
                                                      IN  MinSeverity(x, g[s \ {x}])]
           iter == CHOOSE g : Rule(g)
           V == {p \in (SUBSET T) \X T : \A x \in p[1] : AtMost(p[2], x)}
           h == [s \in SUBSET T |-> <<s, iter[s]>>]
<1>1. FoldSet(MinSeverity, base, T) = iter[T]
  BY DEF FoldSet, MapThenFoldSet
<1>2. Picks(pick, T)
  BY DEF Picks
<1>3. \A a, b \in T : MinSeverity(a, b) \in T
  <2> TAKE a \in T, b \in T
  <2>1. MinSeverity(a, b) \in {a, b}
    BY SeverityOrder
  <2> QED  BY <2>1
<1>4. Keeps(step, T, T)
  BY <1>3 DEF Keeps
<1>5. PICK g : Folds(g, T, T, base, pick, step)
  <2> HIDE DEF pick, step
  <2> QED  BY <1>2, <1>4, FoldExists
<1>6. Rule(g)
  <2>1. \A s \in SUBSET T : s # {} =>
          /\ pick[s] \in T /\ s \ {pick[s]} \in SUBSET T /\ g[s \ {pick[s]}] \in T
    BY <1>2, <1>5 DEF Picks, Folds
  <2>2. \A s \in SUBSET T : s # {} => g[s] = MinSeverity(pick[s], g[s \ {pick[s]}])
    <3> HIDE DEF pick
    <3> QED  BY <2>1, <1>5 DEF Folds
  <2>3. \A s \in SUBSET T : pick[s] = CHOOSE r \in s : TRUE
    OBVIOUS
  <2> HIDE DEF pick, step
  <2> QED  BY <2>2, <2>3, <1>5 DEF Folds
<1>7. Rule(iter)
  <2> HIDE DEF Rule
  <2> QED  BY <1>6
<1> HIDE DEF iter
<1>8. h[T] \in V
  <2>1. h[{}] \in V
    BY <1>7
  <2>2. \A s \in SUBSET T : s # {} /\ h[s \ {pick[s]}] \in V => h[s] \in V
    <3> SUFFICES ASSUME NEW s \in SUBSET T, s # {}, h[s \ {pick[s]}] \in V
                 PROVE  h[s] \in V
      OBVIOUS
    <3> DEFINE x == pick[s]
               rest == s \ {x}
    <3>1. x \in s /\ x \in T /\ x = (CHOOSE r \in s : TRUE) /\ rest \in SUBSET T
      BY <1>2 DEF Picks
    <3> HIDE DEF pick
    <3>2. iter[s] = MinSeverity(x, iter[rest])
      BY <3>1, <1>7
    <3>3. iter[rest] \in T /\ \A y \in rest : AtMost(iter[rest], y)
      BY <3>1
    <3> HIDE DEF rest, x
    <3>4. iter[s] \in T /\ AtMost(iter[s], x) /\ AtMost(iter[s], iter[rest])
      BY <3>1, <3>2, <3>3, <1>3, SeverityOrder
    <3>5. \A y \in rest : AtMost(iter[s], y)
      BY <3>3, <3>4, SeverityOrder
    <3>6. \A y \in s : AtMost(iter[s], y)
      BY <3>4, <3>5 DEF rest
    <3> QED  BY <3>4, <3>6
  <2> HIDE DEF V, pick, step, Rule, h
  <2> QED  BY <2>1, <2>2, <1>2, FoldKeeps
<1>9. iter[T] \in T /\ \A s \in T : AtMost(iter[T], s)
  BY <1>8
<1> QED  BY <1>1, <1>9

(* What a group says of the findings that show its evidence: the least     *)
(* confidence, severity and title of them.                                 *)
Says(g, X, e, c, v, t, d) ==
  /\ g = Group(e, c, v, Bounded(e), t, d)
  /\ c \in Nat /\ (\E x \in X : x.confidence = c) /\ \A x \in X : c <= x.confidence
  /\ (\E x \in X : x.severity = v) /\ \A x \in X : AtMost(v, x.severity)
  /\ t \in Nat /\ (\E x \in X : x.title = t /\ x.detector = d) /\ \A x \in X : t <= x.title

Summarises(g, X, e) == \E c, v, t, d : Says(g, X, e, c, v, t, d)

Lowered(h, c, v) == [h EXCEPT !.confidence = c, !.severity = v]

LEMMA GroupLowered ==
  ASSUME NEW s, NEW c, NEW v, NEW e, NEW t, NEW d, NEW p, NEW q
  PROVE  Lowered(Group(s, c, v, e, t, d), p, q) = Group(s, p, q, e, t, d)
<1> DEFINE h == Group(s, c, v, e, t, d)
           k == Lowered(h, p, q)
<1>1. DOMAIN k = {"signature", "confidence", "severity", "evidence", "title", "detector"}
  BY DEF Group, Lowered
<1>2. /\ k.signature = s /\ k.confidence = p /\ k.severity = q
      /\ k.evidence = e /\ k.title = t /\ k.detector = d
  BY DEF Group, Lowered
<1>3. k = [x \in DOMAIN k |-> k[x]]
  BY DEF Group, Lowered
<1> HIDE DEF k
<1>4. k = Group(s, p, q, e, t, d)
  BY <1>1, <1>2, <1>3 DEF Group
<1> QED  BY <1>4 DEF k

(* The reference is such a group.                                          *)
LEMMA SummaryIs ==
  ASSUME NEW S \in Scenarios, NEW X, X \subseteq S, X # {}, NEW e, \A x \in X : x.evidence = e
  PROVE  Summarises(Summary(X), X, e)
<1> DEFINE f == CHOOSE f \in X : \A g \in X : f.title <= g.title
           C == {x.confidence : x \in X}
           V == {x.severity : x \in X}
           T == {x.title : x \in X}
           c == Min(C)
           v == FoldSet(MinSeverity, f.severity, V)
<1>1. f \in X /\ \A g \in X : f.title <= g.title
  <2>1. T \subseteq Nat /\ T # {}
    BY ReportAssumption
  <2>2. PICK t \in T : \A u \in T : t <= u
    <3> HIDE DEF T
    <3> QED  BY <2>1, LeastNatural
  <2>3. \E g \in X : \A h \in X : g.title <= h.title
    BY <2>2
  <2> QED  BY <2>3
<1> HIDE DEF f
<1>2. c \in Nat /\ c \in C /\ \A x \in C : c <= x
  <2>1. C \subseteq Nat /\ C # {}
    BY ReportAssumption
  <2> HIDE DEF C
  <2>2. \E n \in C : \A m \in C : n <= m
    BY <2>1, LeastNatural
  <2> QED  BY <2>1, <2>2 DEF Min
<1>3. v \in V /\ \A s \in V : AtMost(v, s)
  <2>1. IsFiniteSet(X)
    BY AnalysisAssumption, FS_Subset
  <2>2. IsFiniteSet(V)
    <3> DEFINE h == [x \in X |-> x.severity]
    <3>1. h \in Surjection(X, V)
      BY DEF Surjection
    <3> HIDE DEF h, V
    <3> QED  BY <2>1, <3>1, FS_Surjection
  <2>3. f.severity \in V
    BY <1>1
  <2> HIDE DEF V
  <2> QED  BY <2>2, <2>3, LeastSeverity
<1>4. Summary(X) = Lowered(NewGroup(f), c, v)
  BY DEF Summary, f, Lowered
<1>5. NewGroup(f) = Group(e, f.confidence, f.severity, Bounded(e), f.title, f.detector)
  BY <1>1 DEF NewGroup, Group
<1> HIDE DEF c, v
<1>6. Summary(X) = Group(e, c, v, Bounded(e), f.title, f.detector)
  BY <1>4, <1>5, GroupLowered
<1>7. f.title \in Nat
  BY <1>1, ReportAssumption
<1>8. (\E x \in X : x.confidence = c) /\ \A x \in X : c <= x.confidence
  BY <1>2
<1>9. (\E x \in X : x.severity = v) /\ \A x \in X : AtMost(v, x.severity)
  BY <1>3
<1>10. Says(Summary(X), X, e, c, v, f.title, f.detector)
  BY <1>1, <1>2, <1>6, <1>7, <1>8, <1>9 DEF Says
<1> QED  BY <1>10 DEF Summarises

(* There is only one.                                                      *)
LEMMA SummaryIsUnique ==
  ASSUME NEW S \in Scenarios, NEW X, X \subseteq S, NEW e, \A x \in X : x.evidence = e,
         NEW g, Summarises(g, X, e), NEW h, Summarises(h, X, e)
  PROVE  g = h
<1>1. PICK c, v, t, d : Says(g, X, e, c, v, t, d)
  BY DEF Summarises
<1>2. PICK p, q, r, u : Says(h, X, e, p, q, r, u)
  BY DEF Summarises
<1>3. c = p
  <2>1. c \in Nat /\ p \in Nat /\ c <= p /\ p <= c
    BY <1>1, <1>2 DEF Says
  <2> QED  BY <2>1
<1>4. t = r
  <2>1. t \in Nat /\ r \in Nat /\ t <= r /\ r <= t
    BY <1>1, <1>2 DEF Says
  <2> QED  BY <2>1
<1>5. d = u
  <2>1. PICK x \in X : x.title = t /\ x.detector = d
    BY <1>1 DEF Says
  <2>2. PICK y \in X : y.title = r /\ y.detector = u
    BY <1>2 DEF Says
  <2> QED  BY <2>1, <2>2, <1>4, ReportAssumption
<1>6. v = q
  <2>1. PICK x \in X : x.severity = v
    BY <1>1 DEF Says
  <2>2. PICK y \in X : y.severity = q
    BY <1>2 DEF Says
  <2>3. AtMost(v, q) /\ AtMost(q, v)
    BY <1>1, <1>2, <2>1, <2>2 DEF Says
  <2>4. RankOfSeverity(v) = RankOfSeverity(q)
    BY <2>3, SeverityOrder
  <2>5. CASE RankOfSeverity(v) = 0
    BY <2>1, <2>2, <2>4, <2>5, ReportAssumption
  <2>6. CASE RankOfSeverity(v) # 0
    BY <2>4, <2>6, SeverityOrder
  <2> QED  BY <2>5, <2>6
<1> QED  BY <1>1, <1>2, <1>3, <1>4, <1>5, <1>6 DEF Says

(* A new group is one of its finding.                                      *)
LEMMA SummaryStarts ==
  ASSUME NEW S \in Scenarios, NEW f \in S
  PROVE  Summarises(NewGroup(f), {f}, f.evidence)
<1>1. f.confidence \in Nat /\ f.title \in Nat
  BY ReportAssumption
<1>2. NewGroup(f) =
        Group(f.evidence, f.confidence, f.severity, Bounded(f.evidence), f.title, f.detector)
  BY DEF NewGroup, Group
<1>3. AtMost(f.severity, f.severity)
  BY SeverityOrder
<1>4. Says(NewGroup(f), {f}, f.evidence, f.confidence, f.severity, f.title, f.detector)
  BY <1>1, <1>2, <1>3 DEF Says
<1> QED  BY <1>4 DEF Summarises

(* And merging another finding keeps it one.                               *)
LEMMA SummaryGrows ==
  ASSUME NEW S \in Scenarios, NEW X, X \subseteq S, NEW f \in S,
         NEW h, Summarises(h, X, f.evidence)
  PROVE  Summarises(Merge(h, NewGroup(f)), X \cup {f}, f.evidence)
<1> DEFINE e == f.evidence
           g == NewGroup(f)
<1>1. PICK c, v, t, d : Says(h, X, e, c, v, t, d)
  BY DEF Summarises
<1>2. f.confidence \in Nat /\ f.title \in Nat /\ \A x \in X : x.confidence \in Nat /\ x.title \in Nat
  BY ReportAssumption
<1>3. /\ g.confidence = f.confidence /\ g.severity = f.severity
      /\ g.title = f.title /\ g.detector = f.detector
  BY DEF NewGroup
<1>4. /\ h = Group(e, c, v, Bounded(e), t, d)
      /\ h.confidence = c /\ h.severity = v /\ h.title = t /\ h.detector = d
  BY <1>1 DEF Says, Group
<1> DEFINE p == IF f.confidence < c THEN f.confidence ELSE c
           q == MinSeverity(v, f.severity)
           r == IF f.title < t THEN f.title ELSE t
           u == IF f.title < t THEN f.detector ELSE d
<1>5. Merge(h, g) = Changed(h, p, q, r, u)
  BY <1>3, <1>4 DEF Merge, Changed
<1>6. Merge(h, g) = Group(e, p, q, Bounded(e), r, u)
  <2> HIDE DEF p, q, r, u, g, e
  <2> QED  BY <1>4, <1>5, GroupChanged
<1>7. p \in Nat /\ (\E x \in X \cup {f} : x.confidence = p) /\ \A x \in X \cup {f} : p <= x.confidence
  BY <1>1, <1>2 DEF Says
<1>8. (\E x \in X \cup {f} : x.severity = q) /\ \A x \in X \cup {f} : AtMost(q, x.severity)
  <2>1. q \in {v, f.severity} /\ AtMost(q, v) /\ AtMost(q, f.severity)
    BY SeverityOrder
  <2>2. (\E x \in X : x.severity = v) /\ \A x \in X : AtMost(v, x.severity)
    BY <1>1 DEF Says
  <2> HIDE DEF q
  <2>3. \A x \in X : AtMost(q, x.severity)
    BY <2>1, <2>2, SeverityOrder
  <2> QED  BY <2>1, <2>2, <2>3
<1>9. /\ r \in Nat /\ (\E x \in X \cup {f} : x.title = r /\ x.detector = u)
      /\ \A x \in X \cup {f} : r <= x.title
  BY <1>1, <1>2 DEF Says
<1> HIDE DEF p, q, r, u, g, e
<1>10. Says(Merge(h, g), X \cup {f}, e, p, q, r, u)
  BY <1>6, <1>7, <1>8, <1>9 DEF Says
<1> QED  BY <1>10 DEF Summarises, g, e

(* Groups of which no two tie.                                             *)
Comparable(T) ==
  /\ IsFiniteSet(T)
  /\ \A g \in T : g.confidence \in Int /\ Digest(g.signature) \in Int
  /\ \A g, h \in T : Digest(g.signature) = Digest(h.signature) => g = h

LEMMA StrengthIsTotal ==
  ASSUME NEW T, Comparable(T)
  PROVE  Total(T, {p \in T \X T : StrongerThan(p[1], p[2])})
<1> DEFINE R == {p \in T \X T : StrongerThan(p[1], p[2])}
           rank(g) == RankOfSeverity(g.severity)
           digest(g) == Digest(g.signature)
<1>1. \A g \in T : rank(g) \in Int /\ g.confidence \in Int /\ digest(g) \in Int
  <2>1. \A g \in T : RankOfSeverity(g.severity) \in 0..5
    BY SeverityOrder
  <2> QED  BY <2>1 DEF Comparable
<1>2. \A g, h \in T : <<g, h>> \in R <=>
        \/ rank(g) > rank(h)
        \/ rank(g) = rank(h) /\ g.confidence > h.confidence
        \/ rank(g) = rank(h) /\ g.confidence = h.confidence /\ digest(g) < digest(h)
  BY DEF StrongerThan
<1>3. \A g, h \in T : digest(g) = digest(h) => g = h
  BY DEF Comparable
<1> HIDE DEF R, rank, digest
<1>4. \A x \in T : <<x, x>> \notin R
  BY <1>1, <1>2
<1>5. \A x, y, z \in T : <<x, y>> \in R /\ <<y, z>> \in R => <<x, z>> \in R
  <2> SUFFICES ASSUME NEW x \in T, NEW y \in T, NEW z \in T, <<x, y>> \in R, <<y, z>> \in R
               PROVE  <<x, z>> \in R
    OBVIOUS
  <2>1. \A g \in {x, y, z} : rank(g) \in Int /\ g.confidence \in Int /\ digest(g) \in Int
    BY <1>1
  <2> QED  BY <2>1, <1>2
<1>6. \A x, y \in T : x = y \/ <<x, y>> \in R \/ <<y, x>> \in R
  <2> SUFFICES ASSUME NEW x \in T, NEW y \in T, x # y
               PROVE  <<x, y>> \in R \/ <<y, x>> \in R
    OBVIOUS
  <2>1. \A g \in {x, y} : rank(g) \in Int /\ g.confidence \in Int /\ digest(g) \in Int
    BY <1>1
  <2>2. digest(x) # digest(y)
    BY <1>3
  <2> QED  BY <2>1, <2>2, <1>2
<1>7. Total(T, R)
  BY <1>4, <1>5, <1>6 DEF Total
<1> QED  BY <1>7 DEF R

(* How many groups of a set are stronger.                                  *)
Stronger(T, x) == {h \in T : StrongerThan(h, x)}

LEMMA StrongerIs ==
  ASSUME NEW T, Comparable(T)
  PROVE  /\ \A x, y \in T : StrongerThan(x, y) => ~ StrongerThan(y, x) /\ x # y
         /\ \A x, y, z \in T : StrongerThan(x, y) /\ StrongerThan(y, z) => StrongerThan(x, z)
         /\ \A x, y \in T : x = y \/ StrongerThan(x, y) \/ StrongerThan(y, x)
         /\ \A x \in T : /\ Stronger(T, x) = {h \in T \ {x} : StrongerThan(h, x)}
                         /\ IsFiniteSet(Stronger(T, x))
                         /\ Cardinality(Stronger(T, x)) \in 0..(Cardinality(T) - 1)
         /\ \A i \in 1..Cardinality(T) : \E x \in T : Cardinality(Stronger(T, x)) = i - 1
<1> DEFINE R == {p \in T \X T : StrongerThan(p[1], p[2])}
<1>1. Total(T, R) /\ IsFiniteSet(T)
  BY StrengthIsTotal DEF Comparable
<1>2. \A x, y \in T : <<x, y>> \in R <=> StrongerThan(x, y)
  OBVIOUS
<1>3. \A x \in T : Stronger(T, x) = {y \in T : <<y, x>> \in R}
  BY <1>2 DEF Stronger
<1> HIDE DEF R
<1>4. \A x \in T : Place(T, R, x) = Cardinality(Stronger(T, x))
  BY <1>3 DEF Place
<1>5. /\ \A x \in T : Place(T, R, x) \in 0..(Cardinality(T) - 1)
      /\ \A i \in 1..Cardinality(T) : \E x \in T : Place(T, R, x) = i - 1
  BY <1>1, PlacesAreTaken
<1>6. \A x \in T : IsFiniteSet(Stronger(T, x))
  BY <1>1, FS_Subset DEF Stronger
<1>7. \A x, y \in T : StrongerThan(x, y) => ~ StrongerThan(y, x) /\ x # y
  BY <1>1, <1>2 DEF Total
<1>8. \A x, y, z \in T : StrongerThan(x, y) /\ StrongerThan(y, z) => StrongerThan(x, z)
  BY <1>1, <1>2 DEF Total
<1>9. \A x, y \in T : x = y \/ StrongerThan(x, y) \/ StrongerThan(y, x)
  BY <1>1, <1>2 DEF Total
<1>10. \A x \in T : Stronger(T, x) = {h \in T \ {x} : StrongerThan(h, x)}
  BY <1>7 DEF Stronger
<1> QED  BY <1>4, <1>5, <1>6, <1>7, <1>8, <1>9, <1>10

(* As long as there is room all are kept.                                  *)
LEMMA StrongestAll ==
  ASSUME NEW T, Comparable(T), NEW n \in Nat, Cardinality(T) <= n
  PROVE  Strongest(T, n) = T
<1>1. Cardinality(T) \in Nat
  BY FS_CardinalityType DEF Comparable
<1>2. \A x \in T : Cardinality({h \in T \ {x} : StrongerThan(h, x)}) < n
  <2> TAKE x \in T
  <2>1. Cardinality({h \in T \ {x} : StrongerThan(h, x)}) \in 0..(Cardinality(T) - 1)
    BY StrongerIs
  <2> QED  BY <2>1, <1>1
<1> QED  BY <1>2 DEF Strongest

(* Which are the strongest when there is one more.                         *)
LEMMA StrongestGrows ==
  ASSUME NEW T, NEW g, g \notin T, Comparable(T \cup {g}), NEW n \in Nat \ {0}
  PROVE  Strongest(T \cup {g}, n) =
           IF Cardinality(Strongest(T, n)) < n THEN Strongest(T, n) \cup {g}
           ELSE IF StrongerThan(g, Weakest(Strongest(T, n)))
                THEN (Strongest(T, n) \ {Weakest(Strongest(T, n))}) \cup {g}
                ELSE Strongest(T, n)
<1> DEFINE U == T \cup {g}
           G == Strongest(T, n)
           H == Strongest(U, n)
           w == Weakest(G)
           at(x) == Cardinality(Stronger(T, x))
           now(x) == Cardinality(Stronger(U, x))
<1>1. Comparable(T) /\ Comparable(U) /\ IsFiniteSet(T) /\ IsFiniteSet(U)
  <2>1. IsFiniteSet(T)
    BY FS_Subset DEF Comparable
  <2> QED  BY <2>1 DEF Comparable
<1>2. \A x, y, z \in U : /\ StrongerThan(x, y) => ~ StrongerThan(y, x) /\ x # y
                         /\ StrongerThan(x, y) /\ StrongerThan(y, z) => StrongerThan(x, z)
                         /\ x = y \/ StrongerThan(x, y) \/ StrongerThan(y, x)
  BY <1>1, StrongerIs
<1>3. Cardinality(T) \in Nat /\ Cardinality(U) = Cardinality(T) + 1
  BY <1>1, FS_CardinalityType, FS_AddElement
<1>4. \A x \in U : IsFiniteSet(Stronger(T, x)) /\ at(x) \in Nat
  <2> TAKE x \in U
  <2>1. Stronger(T, x) \subseteq T
    BY DEF Stronger
  <2> QED  BY <2>1, <1>1, FS_Subset, FS_CardinalityType
<1>5. \A x \in U : now(x) = IF StrongerThan(g, x) THEN at(x) + 1 ELSE at(x)
  <2> TAKE x \in U
  <2>1. CASE StrongerThan(g, x)
    <3>1. Stronger(U, x) = Stronger(T, x) \cup {g} /\ g \notin Stronger(T, x)
      BY <2>1 DEF Stronger
    <3> QED  BY <3>1, <2>1, <1>4, FS_AddElement
  <2>2. CASE ~ StrongerThan(g, x)
    <3>1. Stronger(U, x) = Stronger(T, x)
      BY <2>2 DEF Stronger
    <3> QED  BY <3>1, <2>2
  <2> QED  BY <2>1, <2>2
<1>6. /\ \A x \in G : x \in T /\ at(x) < n
      /\ \A x \in T : at(x) < n => x \in G
      /\ \A x \in H : x \in U /\ now(x) < n
      /\ \A x \in U : now(x) < n => x \in H
  <2>1. /\ \A x \in T : Stronger(T, x) = {h \in T \ {x} : StrongerThan(h, x)}
        /\ \A x \in U : Stronger(U, x) = {h \in U \ {x} : StrongerThan(h, x)}
    BY <1>1, StrongerIs
  <2> HIDE DEF U
  <2>2. /\ \A x \in G : x \in T /\ at(x) < n
        /\ \A x \in T : at(x) < n => x \in G
    BY <2>1 DEF Strongest
  <2>3. /\ \A x \in H : x \in U /\ now(x) < n
        /\ \A x \in U : now(x) < n => x \in H
    BY <2>1 DEF Strongest
  <2> QED  BY <2>2, <2>3
<1>7. /\ \A i \in 1..Cardinality(T) : \E x \in T : at(x) = i - 1
      /\ \A x \in T : at(x) < Cardinality(T)
      /\ \A x \in U : now(x) \in Nat /\ now(x) <= Cardinality(T)
  <2>1. /\ \A i \in 1..Cardinality(T) : \E x \in T : at(x) = i - 1
        /\ \A x \in T : at(x) \in 0..(Cardinality(T) - 1)
    BY <1>1, StrongerIs
  <2>2. \A x \in U : now(x) \in 0..(Cardinality(U) - 1)
    BY <1>1, StrongerIs
  <2> HIDE DEF U, at, now
  <2> QED  BY <2>1, <2>2, <1>3
<1>8. \A x, y \in U : StrongerThan(y, x) => at(y) <= at(x) /\ (y \in T => at(y) < at(x))
  <2> SUFFICES ASSUME NEW x \in U, NEW y \in U, StrongerThan(y, x)
               PROVE  at(y) <= at(x) /\ (y \in T => at(y) < at(x))
    OBVIOUS
  <2>1. Stronger(T, y) \subseteq Stronger(T, x)
    BY <1>2 DEF Stronger
  <2>2. at(y) <= at(x)
    BY <2>1, <1>4, FS_Subset
  <2>3. ASSUME y \in T PROVE at(y) < at(x)
    <3>1. y \in Stronger(T, x) /\ y \notin Stronger(T, y)
      BY <2>3, <1>2 DEF Stronger
    <3> QED  BY <2>1, <3>1, <1>4, FS_Subset
  <2> QED  BY <2>2, <2>3
<1>9. IsFiniteSet(G) /\ Cardinality(G) \in Nat /\ Cardinality(G) <= Cardinality(T) /\ G \subseteq T
  BY <1>1, <1>6, FS_Subset, FS_CardinalityType
<1>10. g \in U /\ T \subseteq U /\ \A x \in U : x \in T \/ x = g
  OBVIOUS
<1> HIDE DEF U, G, H, at, now
<1>11. CASE Cardinality(G) < n
  <2>1. \A x \in T : at(x) < n
    <3> SUFFICES ASSUME NEW x \in T, ~ (at(x) < n) PROVE FALSE
      OBVIOUS
    <3>1. n + 1 \in 1..Cardinality(T)
      <4>1. at(x) \in Nat /\ at(x) < Cardinality(T)
        BY <1>4, <1>7, <1>10
      <4> QED  BY <4>1, <1>3
    <3>2. PICK y \in T : at(y) = n
      <4>1. PICK y \in T : at(y) = (n + 1) - 1
        BY <3>1, <1>7
      <4> QED  BY <4>1
    <3>3. Stronger(T, y) \subseteq G
      <4> SUFFICES ASSUME NEW h \in T, StrongerThan(h, y) PROVE h \in G
        BY DEF Stronger
      <4>1. at(h) < at(y)
        BY <1>8, <1>10
      <4> QED  BY <4>1, <3>2, <1>6
    <3>4. Cardinality(Stronger(T, y)) <= Cardinality(G)
      BY <3>3, <1>9, FS_Subset
    <3>5. Cardinality(Stronger(T, y)) = n
      BY <3>2 DEF at
    <3> QED  BY <3>4, <3>5, <1>9, <1>11
  <2>2. G = T
    BY <2>1, <1>6, <1>9
  <2>3. \A x \in U : now(x) < n
    <3> TAKE x \in U
    <3>1. now(x) \in Nat /\ now(x) <= Cardinality(T) /\ Cardinality(T) < n
      BY <1>7, <1>11, <2>2
    <3> QED  BY <3>1, <1>3
  <2>4. H = U
    BY <2>3, <1>6
  <2> QED  BY <2>2, <2>4, <1>11 DEF G, H, U
<1>12. CASE ~ (Cardinality(G) < n)
  <2>1. PICK y \in T : at(y) = n - 1
    <3>1. n \in 1..Cardinality(T)
      BY <1>3, <1>9, <1>12
    <3> QED  BY <3>1, <1>7
  <2>2. y \in G
    <3>1. at(y) < n
      BY <2>1
    <3> QED  BY <3>1, <1>6
  <2>3. \A h \in G \ {y} : StrongerThan(h, y)
    <3> SUFFICES ASSUME NEW h \in G, h # y, ~ StrongerThan(h, y) PROVE FALSE
      OBVIOUS
    <3>1. h \in T /\ h \in U /\ y \in U
      BY <1>6, <1>10
    <3>2. StrongerThan(y, h)
      BY <3>1, <1>2
    <3>3. at(y) < at(h) /\ at(h) < n /\ at(h) \in Nat
      BY <3>1, <3>2, <1>4, <1>6, <1>8
    <3> QED  BY <3>3, <2>1
  <2>4. w \in G /\ \A h \in G \ {w} : StrongerThan(h, w)
    BY <2>2, <2>3 DEF Weakest
  <2> HIDE DEF w
  <2>5. w = y
    <3> SUFFICES ASSUME w # y PROVE FALSE
      OBVIOUS
    <3>1. StrongerThan(w, y) /\ StrongerThan(y, w)
      BY <2>2, <2>3, <2>4
    <3> QED  BY <3>1, <2>2, <2>4, <1>2, <1>9, <1>10
  <2>6. at(w) = n - 1 /\ w \in T /\ w \in U
    BY <2>1, <2>5, <1>10
  <2>7. \A x \in T : x \notin G => x \notin H
    <3> SUFFICES ASSUME NEW x \in T, x \notin G PROVE x \notin H
      OBVIOUS
    <3>1. ~ (at(x) < n) /\ at(x) \in Nat /\ now(x) \in Nat /\ (now(x) = at(x) + 1 \/ now(x) = at(x))
      BY <1>4, <1>5, <1>6, <1>7, <1>10
    <3>2. ~ (now(x) < n)
      BY <3>1
    <3> QED  BY <3>2, <1>6
  <2>8. CASE StrongerThan(g, w)
    <3>1. \A x \in G \ {w} : x \in H
      <4> SUFFICES ASSUME NEW x \in G, x # w PROVE x \in H
        OBVIOUS
      <4>1. x \in T /\ x \in U /\ StrongerThan(x, w)
        BY <2>4, <1>9, <1>10
      <4>2. at(x) < n - 1 /\ at(x) \in Nat /\ (now(x) = at(x) + 1 \/ now(x) = at(x))
        BY <4>1, <2>6, <1>4, <1>5, <1>8
      <4>3. now(x) < n
        BY <4>2
      <4> QED  BY <4>1, <4>3, <1>6
    <3>2. w \notin H
      <4>1. now(w) = (n - 1) + 1
        BY <2>6, <2>8, <1>5
      <4>2. ~ (now(w) < n)
        BY <4>1
      <4> QED  BY <4>2, <1>6
    <3>3. g \in H
      <4>1. ~ StrongerThan(g, g)
        BY <1>2, <1>10
      <4>2. now(g) = at(g) /\ at(g) <= n - 1 /\ at(g) \in Nat
        BY <4>1, <2>6, <2>8, <1>4, <1>5, <1>8, <1>10
      <4>3. now(g) < n
        BY <4>2
      <4> QED  BY <4>3, <1>6, <1>10
    <3>4. H = (G \ {w}) \cup {g}
      <4>1. \A x \in H : x \in (G \ {w}) \cup {g}
        BY <3>2, <2>7, <1>6, <1>10
      <4> QED  BY <4>1, <3>1, <3>3
    <3> QED  BY <3>4, <2>8, <1>12 DEF G, H, U, w
  <2>9. CASE ~ StrongerThan(g, w)
    <3>1. StrongerThan(w, g)
      <4>1. w # g
        BY <2>6
      <4> QED  BY <4>1, <2>6, <2>9, <1>2, <1>10
    <3>2. \A x \in G : x \in H
      <4> SUFFICES ASSUME NEW x \in G PROVE x \in H
        OBVIOUS
      <4>1. x \in T /\ x \in U /\ (x = w \/ StrongerThan(x, w))
        BY <2>4, <1>9, <1>10
      <4>2. ~ StrongerThan(g, x)
        BY <4>1, <2>6, <2>9, <1>2, <1>10
      <4>3. now(x) = at(x) /\ at(x) < n
        BY <4>1, <4>2, <1>5, <1>6
      <4> QED  BY <4>1, <4>3, <1>6
    <3>3. g \notin H
      <4>1. ~ StrongerThan(g, g)
        BY <1>2, <1>10
      <4>2. now(g) = at(g) /\ at(w) < at(g) /\ at(g) \in Nat
        BY <4>1, <3>1, <2>6, <1>4, <1>5, <1>8, <1>10
      <4>3. ~ (now(g) < n)
        BY <4>2, <2>6
      <4> QED  BY <4>3, <1>6
    <3>4. H = G
      <4>1. \A x \in H : x \in G
        BY <3>3, <2>7, <1>6, <1>10
      <4> QED  BY <4>1, <3>2
    <3> QED  BY <3>4, <2>9, <1>12 DEF G, H, U, w
  <2> QED  BY <2>8, <2>9
<1> QED  BY <1>11, <1>12

(* The findings that show the evidence of one of them, and the group that  *)
(* the reference makes of them.                                            *)
Alike(came, f) == {x \in came : x.evidence = f.evidence}
Summed(came, f) == Summary(Alike(came, f))

(* The reference has one group for every signature.                        *)
LEMMA SummariesAre ==
  ASSUME NEW S \in Scenarios, NEW came, came \subseteq S
  PROVE  /\ Summaries(came) = {Summed(came, f) : f \in came}
         /\ \A f \in came : /\ Summarises(Summed(came, f), Alike(came, f), f.evidence)
                            /\ Summed(came, f).signature = f.evidence
                            /\ Summed(came, f).confidence \in Nat
         /\ \A g, h \in Summaries(came) : g.signature = h.signature => g = h
         /\ Comparable(Summaries(came))
<1>1. Summaries(came) = {Summed(came, f) : f \in came}
  BY DEF Summaries, Summed, Alike
<1>2. ASSUME NEW f \in came
      PROVE  /\ Summarises(Summed(came, f), Alike(came, f), f.evidence)
             /\ Summed(came, f).signature = f.evidence /\ Summed(came, f).confidence \in Nat
  <2>1. /\ Alike(came, f) \subseteq S /\ Alike(came, f) # {}
        /\ \A x \in Alike(came, f) : x.evidence = f.evidence
    BY DEF Alike
  <2>2. Summarises(Summed(came, f), Alike(came, f), f.evidence)
    BY <2>1, SummaryIs DEF Summed
  <2>3. PICK c, v, t, d : Says(Summed(came, f), Alike(came, f), f.evidence, c, v, t, d)
    BY <2>2 DEF Summarises
  <2> QED  BY <2>2, <2>3 DEF Says, Group
<1>3. ASSUME NEW f \in came, NEW g \in came, f.evidence = g.evidence
      PROVE  Summed(came, f) = Summed(came, g)
  BY <1>3 DEF Summed, Alike
<1>4. \A g, h \in Summaries(came) : g.signature = h.signature => g = h
  BY <1>1, <1>2, <1>3
<1>5. IsFiniteSet(Summaries(came))
  <2> DEFINE k == [f \in came |-> Summed(came, f)]
  <2>1. IsFiniteSet(came)
    BY AnalysisAssumption, FS_Subset
  <2>2. k \in Surjection(came, Summaries(came))
    BY <1>1 DEF Surjection
  <2> HIDE DEF k
  <2> QED  BY <2>1, <2>2, FS_Surjection
<1>6. \A g \in Summaries(came) : g.confidence \in Int /\ Digest(g.signature) \in Int
  <2> TAKE g \in Summaries(came)
  <2>1. PICK f \in came : g = Summed(came, f)
    BY <1>1
  <2>2. g.signature = f.evidence /\ g.confidence \in Nat
    BY <1>2, <2>1
  <2> QED  BY <2>2, DigestAssumption
<1>7. \A g, h \in Summaries(came) : Digest(g.signature) = Digest(h.signature) => g = h
  <2> SUFFICES ASSUME NEW g \in Summaries(came), NEW h \in Summaries(came),
                      Digest(g.signature) = Digest(h.signature)
               PROVE  g = h
    OBVIOUS
  <2>1. PICK x \in came : g = Summed(came, x)
    BY <1>1
  <2>2. PICK y \in came : h = Summed(came, y)
    BY <1>1
  <2>3. g.signature = x.evidence /\ h.signature = y.evidence
    BY <1>2, <2>1, <2>2
  <2>4. x.evidence = y.evidence
    BY <2>3, DigestAssumption
  <2> QED  BY <2>1, <2>2, <2>4, <1>3
<1> QED  BY <1>1, <1>2, <1>4, <1>5, <1>6, <1>7 DEF Comparable

(* What the reference says when one more finding came.                     *)
LEMMA SummariesGrow ==
  ASSUME NEW S \in Scenarios, NEW came, came \subseteq S, NEW f \in S, f \notin came
  PROVE  /\ \A x \in came : x.evidence = f.evidence =>
              /\ Summaries(came \cup {f}) =
                   (Summaries(came) \ {Summed(came, x)}) \cup {Merge(Summed(came, x), NewGroup(f))}
              /\ Merge(Summed(came, x), NewGroup(f)).signature = f.evidence
         /\ (\A x \in came : x.evidence # f.evidence) =>
              Summaries(came \cup {f}) = Summaries(came) \cup {NewGroup(f)}
<1> DEFINE now == came \cup {f}
           e == f.evidence
<1>1. now \subseteq S /\ f \in now
  OBVIOUS
<1>2. /\ Summaries(came) = {Summed(came, x) : x \in came}
      /\ Summaries(now) = {Summed(now, x) : x \in now}
      /\ \A x \in came : /\ Summarises(Summed(came, x), Alike(came, x), x.evidence)
                         /\ Summed(came, x).signature = x.evidence
      /\ \A g, h \in Summaries(came) : g.signature = h.signature => g = h
      /\ \A x \in now : Summarises(Summed(now, x), Alike(now, x), x.evidence)
      /\ Summed(now, f).signature = e
  BY <1>1, SummariesAre
<1>3. \A x \in came : x.evidence # e => Summed(now, x) = Summed(came, x)
  BY DEF Summed, Alike
<1>4. \A x \in came : x.evidence = e => Summed(now, x) = Summed(now, f)
  BY DEF Summed, Alike
<1>5. ASSUME NEW g, Summarises(g, Alike(now, f), e) PROVE g = Summed(now, f)
  <2>1. Alike(now, f) \subseteq S /\ \A x \in Alike(now, f) : x.evidence = e
    BY <1>1 DEF Alike
  <2>2. Summarises(Summed(now, f), Alike(now, f), e)
    BY <1>1, <1>2
  <2> HIDE DEF now, e
  <2> QED  BY <2>1, <2>2, <1>5, SummaryIsUnique
<1>6. ASSUME NEW x \in came, x.evidence = e
      PROVE  Summed(now, f) = Merge(Summed(came, x), NewGroup(f))
  <2>1. Alike(now, f) = Alike(came, x) \cup {f} /\ Alike(came, x) \subseteq S
    BY <1>6 DEF Alike
  <2>2. Summarises(Summed(came, x), Alike(came, x), e)
    BY <1>2, <1>6
  <2>3. Summarises(Merge(Summed(came, x), NewGroup(f)), Alike(now, f), e)
    BY <2>1, <2>2, SummaryGrows
  <2> QED  BY <2>3, <1>5
<1>7. ASSUME \A x \in came : x.evidence # e PROVE Summed(now, f) = NewGroup(f)
  <2>1. Alike(now, f) = {f}
    BY <1>7 DEF Alike
  <2> QED  BY <2>1, <1>5, SummaryStarts
<1> HIDE DEF now, e
<1>8. ASSUME NEW x \in came, x.evidence = e
      PROVE  Summaries(now) = (Summaries(came) \ {Summed(came, x)}) \cup {Summed(now, f)}
  <2>1. \A y \in came : y.evidence # e => Summed(came, y) # Summed(came, x)
    BY <1>2, <1>8
  <2>2. \A y \in came : y.evidence = e => Summed(came, y) = Summed(came, x)
    <3> TAKE y \in came
    <3> HAVE y.evidence = e
    <3>1. Summed(came, y).signature = Summed(came, x).signature
      BY <1>2, <1>8
    <3>2. Summed(came, y) \in Summaries(came) /\ Summed(came, x) \in Summaries(came)
      BY <1>2
    <3> QED  BY <3>1, <3>2, <1>2
  <2>3. \A g \in Summaries(now) : g \in (Summaries(came) \ {Summed(came, x)}) \cup {Summed(now, f)}
    <3> TAKE g \in Summaries(now)
    <3>1. PICK y \in now : g = Summed(now, y)
      BY <1>2
    <3> QED  BY <3>1, <2>1, <1>2, <1>3, <1>4 DEF now
  <2>4. \A g \in Summaries(came) \ {Summed(came, x)} : g \in Summaries(now)
    <3> TAKE g \in Summaries(came) \ {Summed(came, x)}
    <3>1. PICK y \in came : g = Summed(came, y)
      BY <1>2
    <3>2. y.evidence # e
      BY <3>1, <2>2
    <3>3. g = Summed(now, y) /\ y \in now
      BY <3>1, <3>2, <1>3 DEF now
    <3> QED  BY <3>3, <1>2
  <2>5. Summed(now, f) \in Summaries(now)
    BY <1>1, <1>2
  <2> QED  BY <2>3, <2>4, <2>5
<1>9. ASSUME \A x \in came : x.evidence # e
      PROVE  Summaries(now) = Summaries(came) \cup {Summed(now, f)}
  <2>1. \A x \in came : Summed(now, x) = Summed(came, x)
    BY <1>3, <1>9
  <2>2. {Summed(now, x) : x \in now} = {Summed(now, x) : x \in came} \cup {Summed(now, f)}
    BY DEF now
  <2>3. {Summed(now, x) : x \in came} = {Summed(came, x) : x \in came}
    BY <2>1
  <2> QED  BY <2>2, <2>3, <1>2
<1>10. \A x \in came : x.evidence = e => Merge(Summed(came, x), NewGroup(f)).signature = e
  BY <1>2, <1>6
<1> QED  BY <1>6, <1>7, <1>8, <1>9, <1>10 DEF now, e

(* A bucket that is what the reference says of the findings that came      *)
(* still is when one more comes.                                           *)
LEMMA BucketSettles ==
  ASSUME NEW S \in Scenarios, NEW came, came \subseteq S, NEW f \in S, f \notin came,
         NEW G, Settled(came) => G = Strongest(Summaries(came), MaxGroups),
         Settled(came \cup {f})
  PROVE  IngestInto(G, f) = Strongest(Summaries(came \cup {f}), MaxGroups)
<1> DEFINE T == Summaries(came)
           U == Summaries(came \cup {f})
           g == NewGroup(f)
<1>1. MaxGroups \in Nat \ {0}
  BY AnalysisAssumption
<1>2. /\ Comparable(T) /\ IsFiniteSet(T) /\ Cardinality(T) \in Nat
      /\ T = {Summed(came, x) : x \in came}
      /\ \A x \in came : Summed(came, x).signature = x.evidence
      /\ \A h, k \in T : h.signature = k.signature => h = k
  BY SummariesAre, FS_CardinalityType DEF Comparable
<1>3. Comparable(U)
  <2>1. came \cup {f} \subseteq S
    OBVIOUS
  <2> QED  BY <2>1, SummariesAre
<1>4. g.signature = f.evidence
  BY DEF NewGroup
<1>5. /\ \A x \in came : x.evidence = f.evidence =>
           /\ U = (T \ {Summed(came, x)}) \cup {Merge(Summed(came, x), g)}
           /\ Merge(Summed(came, x), g).signature = f.evidence
      /\ (\A x \in came : x.evidence # f.evidence) => U = T \cup {g}
  BY SummariesGrow
<1>6. Settled(came) <=> \/ Cardinality(T) <= MaxGroups
                        \/ \A x, y \in came : x.evidence = y.evidence => x = y
  BY DEF Settled
<1>7. \/ Cardinality(U) <= MaxGroups
      \/ \A x, y \in came \cup {f} : x.evidence = y.evidence => x = y
  BY DEF Settled
<1>8. IngestInto(G, f) =
        LET same == {h \in G : h.signature = f.evidence}
        IN  IF same # {} THEN (G \ same) \cup {Merge(h, g) : h \in same}
            ELSE IF Cardinality(G) < MaxGroups THEN G \cup {g}
            ELSE IF StrongerThan(g, Weakest(G)) THEN (G \ {Weakest(G)}) \cup {g}
            ELSE G
  BY <1>4 DEF IngestInto
<1> HIDE DEF T, U, g
<1>9. CASE \E x \in came : x.evidence = f.evidence
  <2>1. PICK x \in came : x.evidence = f.evidence
    BY <1>9
  <2> DEFINE h == Summed(came, x)
             m == Merge(h, g)
  <2>2. h \in T /\ h.signature = f.evidence
    BY <1>2, <2>1
  <2>3. U = (T \ {h}) \cup {m} /\ m.signature = f.evidence
    BY <1>5, <2>1
  <2> HIDE DEF h, m
  <2>4. Cardinality(U) <= MaxGroups
    BY <1>7, <2>1
  <2>5. m \notin T \ {h}
    BY <1>2, <2>2, <2>3
  <2>6. Cardinality(U) = Cardinality(T)
    <3>1. IsFiniteSet(T \ {h}) /\ Cardinality(T \ {h}) = Cardinality(T) - 1
      BY <1>2, <2>2, FS_RemoveElement
    <3>2. Cardinality((T \ {h}) \cup {m}) = Cardinality(T \ {h}) + 1
      BY <3>1, <2>5, FS_AddElement
    <3> QED  BY <3>1, <3>2, <2>3, <1>2
  <2>7. G = T
    <3>1. Settled(came)
      BY <2>4, <2>6, <1>6
    <3>2. Strongest(T, MaxGroups) = T
      BY <2>4, <2>6, <1>1, <1>2, StrongestAll
    <3> QED  BY <3>1, <3>2 DEF T
  <2>8. {k \in G : k.signature = f.evidence} = {h}
    BY <2>2, <2>7, <1>2
  <2>9. IngestInto(G, f) = (T \ {h}) \cup {Merge(k, g) : k \in {h}}
    BY <2>7, <2>8, <1>8
  <2>10. IngestInto(G, f) = U
    BY <2>3, <2>9 DEF m
  <2>11. Strongest(U, MaxGroups) = U
    BY <2>4, <1>1, <1>3, StrongestAll
  <2> QED  BY <2>10, <2>11 DEF U
<1>10. CASE \A x \in came : x.evidence # f.evidence
  <2>1. U = T \cup {g}
    BY <1>5, <1>10
  <2>2. \A h \in T : h.signature # f.evidence
    BY <1>2, <1>10
  <2>3. g \notin T
    BY <2>2, <1>4 DEF g
  <2>4. Cardinality(U) = Cardinality(T) + 1
    BY <2>1, <2>3, <1>2, FS_AddElement
  <2>5. Settled(came)
    <3>1. CASE Cardinality(U) <= MaxGroups
      <4>1. Cardinality(T) <= MaxGroups
        BY <3>1, <2>4, <1>1, <1>2
      <4> QED  BY <4>1, <1>6
    <3>2. CASE \A x, y \in came \cup {f} : x.evidence = y.evidence => x = y
      BY <3>2, <1>6
    <3> QED  BY <3>1, <3>2, <1>7
  <2>6. G = Strongest(T, MaxGroups)
    BY <2>5 DEF T
  <2>7. {h \in G : h.signature = f.evidence} = {}
    <3>1. G \subseteq T
      BY <2>6 DEF Strongest
    <3> QED  BY <3>1, <2>2
  <2>8. IngestInto(G, f) =
          IF Cardinality(G) < MaxGroups THEN G \cup {g}
          ELSE IF StrongerThan(g, Weakest(G)) THEN (G \ {Weakest(G)}) \cup {g}
          ELSE G
    BY <2>7, <1>8
  <2>9. Strongest(T \cup {g}, MaxGroups) =
          IF Cardinality(G) < MaxGroups THEN G \cup {g}
          ELSE IF StrongerThan(g, Weakest(G)) THEN (G \ {Weakest(G)}) \cup {g}
          ELSE G
    <3>1. Comparable(T \cup {g})
      BY <2>1, <1>3
    <3> QED  BY <3>1, <2>3, <2>6, <1>1, StrongestGrows
  <2> QED  BY <2>1, <2>8, <2>9 DEF U
<1> QED  BY <1>9, <1>10

(* The reference of an identity, and what its bucket should be.            *)
Came(id) == {f \in arrived : Identity(f) = id}

Canonical(id) ==
  Settled(Came(id)) => buckets[id] = Strongest(Summaries(Came(id)), MaxGroups)

LEMMA CanonicalIs ==
  CanonicalIsReference <=>
    /\ DOMAIN buckets = {Identity(f) : f \in arrived}
    /\ \A id \in DOMAIN buckets : Canonical(id)
BY DEF CanonicalIsReference, Canonical, Came

LEMMA CanonicalIngest ==
  ASSUME AccountInv, CanonicalIsReference, IngestOne
  PROVE  CanonicalIsReference'
<1>1. PICK f \in stored \ arrived : buckets' = Ingest(buckets, f) /\ arrived' = arrived \cup {f}
  BY DEF IngestOne
<1>2. /\ stored \in Scenarios /\ arrived \subseteq stored
      /\ \A i \in DOMAIN buckets : AreGroups(buckets[i])
      /\ DOMAIN buckets = {Identity(g) : g \in arrived}
  BY DEF AccountInv
<1>3. f.confidence \in Nat
  BY <1>2, IdentitiesAreKeys
<1>4. DOMAIN buckets' = DOMAIN buckets \cup {Identity(f)}
  BY <1>1, <1>2, <1>3, BucketsGrow
<1>5. DOMAIN buckets' = {Identity(g) : g \in arrived'}
  BY <1>1, <1>2, <1>4
<1> DEFINE id == Identity(f)
           before == IF id \in DOMAIN buckets THEN buckets[id] ELSE {}
<1> HIDE DEF id
<1>6. \A i \in DOMAIN buckets' : buckets'[i] = IF i = id THEN IngestInto(before, f) ELSE buckets[i]
  <2>1. CASE id \in DOMAIN buckets
    <3> DEFINE G == IngestInto(buckets[id], f)
    <3>1. buckets' = [buckets EXCEPT ![id] = G]
      BY <1>1, <2>1 DEF Ingest, id
    <3>2. before = buckets[id]
      BY <2>1
    <3> HIDE DEF G
    <3>3. \A i \in DOMAIN buckets' : buckets'[i] = IF i = id THEN G ELSE buckets[i]
      BY <3>1
    <3> QED  BY <3>2, <3>3 DEF G
  <2>2. CASE id \notin DOMAIN buckets
    <3> DEFINE G == IngestInto({}, f)
    <3>1. buckets' = [i \in DOMAIN buckets \cup {id} |-> IF i = id THEN G ELSE buckets[i]]
      BY <1>1, <2>2 DEF Ingest, id
    <3>2. before = {}
      BY <2>2
    <3> HIDE DEF G
    <3>3. \A i \in DOMAIN buckets' : buckets'[i] = IF i = id THEN G ELSE buckets[i]
      BY <3>1
    <3> QED  BY <3>2, <3>3 DEF G
  <2> QED  BY <2>1, <2>2
<1>7. \A i \in DOMAIN buckets : Canonical(i)
  BY CanonicalIs
<1> HIDE DEF before
<1>8. ASSUME NEW i \in DOMAIN buckets', i # id PROVE Canonical(i)'
  <2>1. i \in DOMAIN buckets /\ buckets'[i] = buckets[i]
    BY <1>4, <1>6, <1>8 DEF id
  <2>2. Came(i)' = Came(i)
    BY <1>1, <1>8 DEF Came, id
  <2>3. Canonical(i)
    BY <2>1, <1>7
  <2> QED  BY <2>1, <2>2, <2>3 DEF Canonical
<1>9. Canonical(id)'
  <2> DEFINE came == Came(id)
  <2>1. Came(id)' = came \cup {f} /\ came \subseteq stored /\ f \notin came /\ f \in stored
    BY <1>1, <1>2 DEF Came, id
  <2>2. buckets'[id] = IngestInto(before, f)
    BY <1>4, <1>6 DEF id
  <2>3. Settled(came) => before = Strongest(Summaries(came), MaxGroups)
    <3>1. CASE id \in DOMAIN buckets
      BY <3>1, <1>7 DEF before, Canonical
    <3>2. CASE id \notin DOMAIN buckets
      <4>1. came = {}
        BY <3>2, <1>2 DEF Came
      <4>2. Summaries(came) = {}
        BY <4>1 DEF Summaries
      <4>3. Strongest(Summaries(came), MaxGroups) = {}
        BY <4>2 DEF Strongest
      <4> QED  BY <3>2, <4>3 DEF before
    <3> QED  BY <3>1, <3>2
  <2> HIDE DEF came
  <2>4. Settled(came \cup {f}) =>
          IngestInto(before, f) = Strongest(Summaries(came \cup {f}), MaxGroups)
    BY <2>1, <2>3, <1>2, BucketSettles
  <2>5. Canonical(id)' <=>
          (Settled(Came(id)') => buckets'[id] = Strongest(Summaries(Came(id)'), MaxGroups))
    BY DEF Canonical
  <2> QED  BY <2>1, <2>2, <2>4, <2>5
<1>10. \A i \in DOMAIN buckets' : Canonical(i)'
  BY <1>8, <1>9
<1> QED  BY <1>5, <1>10 DEF CanonicalIsReference, Canonical, Came

(* The canonical findings do not depend on the order in which the raw ones *)
(* came, as long as all signatures of an identity fit in its bucket or no  *)
(* signature came twice: each bucket is what the reference says of the     *)
(* findings that came (engine.go:86-139).                                  *)
THEOREM FindingsAreCanonical == Spec => []CanonicalIsReference
<1>1. Init => CanonicalIsReference
  <2> SUFFICES ASSUME Init PROVE CanonicalIsReference
    OBVIOUS
  <2>1. arrived = {} /\ DOMAIN buckets = {}
    BY DEF Init
  <2> QED  BY <2>1 DEF CanonicalIsReference
<1>2. ASSUME AccountInv, CanonicalIsReference, [Next]_vars PROVE CanonicalIsReference'
  <2>1. CASE IngestOne
    BY <1>2, <2>1, CanonicalIngest
  <2>2. CASE Crash
    <3>1. arrived' = {} /\ DOMAIN buckets' = {}
      BY <2>2 DEF Crash
    <3> QED  BY <3>1 DEF CanonicalIsReference
  <2>3. CASE arrived' = arrived /\ buckets' = buckets
    BY <1>2, <2>3 DEF CanonicalIsReference
  <2>4. IngestOne \/ Crash \/ (arrived' = arrived /\ buckets' = buckets)
    BY <1>2 DEF Next, vars, ListByScanJob, StartSave, SaveStatement, SaveFails, SaveDone,
                RankFindings, PackageOne, EvidenceEnds, Finalize, ContextDone, FindCandidate,
                ShowChain
  <2> QED  BY <2>1, <2>2, <2>3, <2>4
<1>3. AccountInv /\ CanonicalIsReference /\ [Next]_vars => CanonicalIsReference'
  BY <1>2
<1> QED  BY <1>1, <1>3, AccountCorrect, PTL DEF Spec
=============================================================================
