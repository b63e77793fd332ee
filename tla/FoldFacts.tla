----------------------------- MODULE FoldFacts -----------------------------
(***************************************************************************)
(* What the folds of the models compute, over sets (FoldSet) and sequences *)
(* (FoldLeft) of any size.  A fold is the value at the whole set of a      *)
(* function that is defined by recursion over its subsets.  Existence says *)
(* that there is a function that satisfies the recursion equation, and     *)
(* Stays that what holds at the empty set and is carried over from a set   *)
(* without its chosen element to the set holds at the whole set.  The      *)
(* induction is by the least natural number that is a counterexample.      *)
(***************************************************************************)
EXTENDS Integers, Sequences, FiniteSets, FiniteSetsExt, SequencesExt,
        FiniteSetTheorems, WellFoundedInduction, TLAPS

Chosen(s) == CHOOSE x \in s : TRUE

\* Every set of natural numbers that is not empty has a least element.
LEMMA LeastNat ==
  ASSUME NEW T \in SUBSET Nat, T # {}
  PROVE  \E n \in T : \A m \in T : n <= m
<1> DEFINE R == {p \in Nat \X Nat : p[1] < p[2]}
<1>1. OpToRel(<, Nat) = R
  BY Zenon DEF OpToRel
<1>2. IsWellFoundedOn(R, Nat)
  BY <1>1, NatLessThanWellFounded, Zenon
<1>3. \E x \in T : \A y \in T : ~ (<<y, x>> \in R)
  <2> HIDE DEF R
  <2> QED BY <1>2, WFMin, Zenon
<1>4. PICK x \in T : \A y \in T : ~ (<<y, x>> \in R)
  BY <1>3
<1>5. ASSUME NEW y \in T PROVE x <= y
  <2>1. x \in Nat /\ y \in Nat
    OBVIOUS
  <2>2. <<y, x>> \in Nat \X Nat
    BY <2>1
  <2>3. <<y, x>> \notin R
    BY <1>4
  <2>4. ~ (y < x)
    BY <2>2, <2>3
  <2> QED BY <2>1, <2>4
<1> QED BY <1>5

\* Induction over the natural numbers, for a set.
LEMMA NatInd ==
  ASSUME NEW N \in SUBSET Nat, 0 \in N, \A n \in N : n + 1 \in N
  PROVE  \A n \in Nat : n \in N
<1> SUFFICES ASSUME Nat \ N # {} PROVE FALSE
  OBVIOUS
<1>1. PICK n \in Nat \ N : \A m \in Nat \ N : n <= m
  BY LeastNat
<1>2. n # 0
  OBVIOUS
<1>3. n - 1 \in Nat
  BY <1>2
<1>4. n - 1 \in N
  BY <1>1, <1>3
<1> QED BY <1>1, <1>4

\* Max and Min of a finite set of numbers that is not empty.
LEMMA MinIn ==
  ASSUME NEW s \in SUBSET Nat, s # {}
  PROVE  Min(s) \in s /\ \A y \in s : Min(s) <= y
<1>1. \E x \in s : \A y \in s : x =< y
  BY LeastNat
<1> QED BY <1>1 DEF Min

\* A set of positions has a largest one.
LEMMA MaxIn ==
  ASSUME NEW n \in Nat, NEW s \in SUBSET (1 .. n), s # {}
  PROVE  Max(s) \in s /\ \A y \in s : Max(s) >= y
<1> DEFINE T == {n - x : x \in s}
<1>0. \A x \in s : n - x \in Nat
  OBVIOUS
<1>1. T \in SUBSET Nat /\ T # {}
  BY <1>0, Zenon
<1>2. PICK t \in T : \A m \in T : t <= m
  BY <1>1, LeastNat
<1>3. PICK x \in s : t = n - x
  OBVIOUS
<1>4. ASSUME NEW y \in s PROVE x >= y
  <2>1. n - y \in T
    OBVIOUS
  <2>2. n - x <= n - y
    BY <1>2, <1>3, <2>1
  <2> QED BY <2>2
<1> QED BY <1>4 DEF Max

-----------------------------------------------------------------------------
(* The general facts, for a choice ch of an element of each set.           *)

FoldEquation(D, base, g, ch, it) == \A s \in SUBSET D :
    it[s] = IF s = {} THEN base ELSE g[<<it[s \ {ch[s]}], ch[s]>>]

\* The equation of a fold of g from base has a solution.
LEMMA FoldExists ==
  ASSUME NEW D, IsFiniteSet(D), NEW V, NEW base \in V, NEW g \in [V \X D -> V],
         NEW ch, \A s \in SUBSET D : s # {} => ch[s] \in s
  PROVE  \E it \in [SUBSET D -> V] : FoldEquation(D, base, g, ch, it)
<1> DEFINE Sol(it, n) == \A s \in SUBSET D : Cardinality(s) <= n =>
               it[s] = IF s = {} THEN base ELSE g[<<it[s \ {ch[s]}], ch[s]>>]
           N == {n \in Nat : \E it \in [SUBSET D -> V] : Sol(it, n)}
<1>0. \A s \in SUBSET D : IsFiniteSet(s) /\ Cardinality(s) \in Nat
  BY FS_Subset, FS_CardinalityType
<1>1. 0 \in N
  <2> DEFINE it == [s \in SUBSET D |-> base]
  <2>1. it \in [SUBSET D -> V]
    OBVIOUS
  <2>2. \A s \in SUBSET D : Cardinality(s) <= 0 => s = {}
    BY <1>0, FS_EmptySet
  <2>3. Sol(it, 0)
    BY <2>2
  <2> QED BY <2>1, <2>3
<1>2. ASSUME NEW n \in N PROVE n + 1 \in N
  <2>1. PICK it \in [SUBSET D -> V] : Sol(it, n)
    OBVIOUS
  <2> DEFINE jt == [s \in SUBSET D |->
                      IF s = {} THEN base ELSE g[<<it[s \ {ch[s]}], ch[s]>>]]
  <2>2. jt \in [SUBSET D -> V]
    <3> SUFFICES ASSUME NEW s \in SUBSET D, s # {}
                 PROVE  g[<<it[s \ {ch[s]}], ch[s]>>] \in V
      OBVIOUS
    <3>1. ch[s] \in D /\ s \ {ch[s]} \in SUBSET D
      OBVIOUS
    <3>2. it[s \ {ch[s]}] \in V
      BY <3>1
    <3> QED BY <3>1, <3>2
  <2>3. \A s \in SUBSET D : Cardinality(s) <= n => jt[s] = it[s]
    BY <2>1
  <2>4. ASSUME NEW s \in SUBSET D, Cardinality(s) <= n + 1, s # {}
        PROVE  jt[s \ {ch[s]}] = it[s \ {ch[s]}]
    <3>1. ch[s] \in s
      BY <2>4
    <3>2. Cardinality(s \ {ch[s]}) = Cardinality(s) - 1
      BY <1>0, <3>1, FS_RemoveElement
    <3>3. Cardinality(s \ {ch[s]}) <= n
      BY <1>0, <2>4, <3>2
    <3> QED BY <2>3, <3>3
  <2>5. Sol(jt, n + 1)
    <3> SUFFICES ASSUME NEW s \in SUBSET D, Cardinality(s) <= n + 1
                 PROVE  jt[s] = IF s = {} THEN base ELSE g[<<jt[s \ {ch[s]}], ch[s]>>]
      OBVIOUS
    <3>1. jt[s] = IF s = {} THEN base ELSE g[<<it[s \ {ch[s]}], ch[s]>>]
      OBVIOUS
    <3> HIDE DEF jt
    <3> QED BY <2>4, <3>1
  <2> HIDE DEF jt, Sol
  <2> QED BY <2>2, <2>5
<1>3. Cardinality(D) \in N
  <2> HIDE DEF N
  <2>1. N \in SUBSET Nat
    BY DEF N
  <2>2. Cardinality(D) \in Nat
    BY FS_CardinalityType
  <2> QED BY <1>1, <1>2, <2>1, <2>2, NatInd
<1>4. PICK it \in [SUBSET D -> V] : Sol(it, Cardinality(D))
  BY <1>3
<1>5. \A s \in SUBSET D : Cardinality(s) <= Cardinality(D)
  BY FS_Subset
<1> QED BY <1>4, <1>5 DEF FoldEquation

\* What a fold carries along holds at its end.
LEMMA FoldStays ==
  ASSUME NEW D, IsFiniteSet(D), NEW ch, \A s \in SUBSET D : s # {} => ch[s] \in s,
         NEW W, NEW it, it[{}] \in W[{}],
         \A s \in SUBSET D : s # {} /\ it[s \ {ch[s]}] \in W[s \ {ch[s]}] => it[s] \in W[s]
  PROVE  it[D] \in W[D]
<1> DEFINE N == {n \in Nat : \A s \in SUBSET D : Cardinality(s) = n => it[s] \in W[s]}
<1>0. \A s \in SUBSET D : IsFiniteSet(s) /\ Cardinality(s) \in Nat
  BY FS_Subset, FS_CardinalityType
<1>1. 0 \in N
  BY <1>0, FS_EmptySet
<1>2. ASSUME NEW n \in N PROVE n + 1 \in N
  <2> SUFFICES ASSUME NEW s \in SUBSET D, Cardinality(s) = n + 1 PROVE it[s] \in W[s]
    OBVIOUS
  <2>0. n \in Nat
    OBVIOUS
  <2>1. s # {}
    <3>1. n + 1 # 0
      BY <2>0
    <3> HIDE DEF N
    <3> QED BY <3>1, FS_EmptySet
  <2>2. ch[s] \in s
    BY <2>1
  <2>3. Cardinality(s \ {ch[s]}) = n
    BY <1>0, <2>2, FS_RemoveElement
  <2>4. s \ {ch[s]} \in SUBSET D
    OBVIOUS
  <2>5. it[s \ {ch[s]}] \in W[s \ {ch[s]}]
    BY <2>3, <2>4
  <2> QED BY <2>1, <2>5
<1>3. Cardinality(D) \in N
  <2> HIDE DEF N
  <2>1. N \in SUBSET Nat
    BY DEF N
  <2> QED BY <1>0, <1>1, <1>2, <2>1, NatInd
<1> QED BY <1>3

-----------------------------------------------------------------------------
(* The two folds of the community modules.                                 *)

\* What is chosen from a set is in it.
LEMMA ChosenIn ==
  ASSUME NEW s, s # {}
  PROVE  Chosen(s) \in s
BY DEF Chosen

SetFold(D, base, g, it) == \A s \in SUBSET D :
    it[s] = IF s = {} THEN base ELSE g[<<it[s \ {Chosen(s)}], Chosen(s)>>]

\* A fold over a finite set has a value for every subset.
LEMMA SetFoldExists ==
  ASSUME NEW D, IsFiniteSet(D), NEW V, NEW base \in V, NEW g \in [V \X D -> V]
  PROVE  \E it \in [SUBSET D -> V] : SetFold(D, base, g, it)
<1> DEFINE ch == [s \in SUBSET D |-> Chosen(s)]
<1>1. \A s \in SUBSET D : s # {} => ch[s] \in s
  BY ChosenIn
<1>2. \A s \in SUBSET D : ch[s] = Chosen(s)
  OBVIOUS
<1> HIDE DEF ch
<1>3. PICK it \in [SUBSET D -> V] : FoldEquation(D, base, g, ch, it)
  BY <1>1, FoldExists, Zenon
<1> QED BY <1>2, <1>3 DEF FoldEquation, SetFold

\* What the base has and each step keeps, the fold has.
LEMMA SetFoldStays ==
  ASSUME NEW D, IsFiniteSet(D), NEW W, NEW it, it[{}] \in W[{}],
         \A s \in SUBSET D : s # {} /\ it[s \ {Chosen(s)}] \in W[s \ {Chosen(s)}]
                                => it[s] \in W[s]
  PROVE  it[D] \in W[D]
<1> DEFINE ch == [s \in SUBSET D |-> Chosen(s)]
<1>1. \A s \in SUBSET D : s # {} => ch[s] \in s
  BY ChosenIn
<1>2. \A s \in SUBSET D : ch[s] = Chosen(s)
  OBVIOUS
<1> HIDE DEF ch
<1>3. \A s \in SUBSET D : s # {} /\ it[s \ {ch[s]}] \in W[s \ {ch[s]}] => it[s] \in W[s]
  BY <1>2
<1> QED BY <1>1, <1>3, FoldStays

SeqFold(n, base, g, it) == \A s \in SUBSET (1 .. n) :
    it[s] = IF s = {} THEN base ELSE g[<<it[s \ {Max(s)}], Max(s)>>]

\* The same for a fold over the positions of a sequence, last first.
LEMMA SeqFoldExists ==
  ASSUME NEW n \in Nat, NEW V, NEW base \in V, NEW g \in [V \X (1 .. n) -> V]
  PROVE  \E it \in [SUBSET (1 .. n) -> V] : SeqFold(n, base, g, it)
<1> DEFINE D == 1 .. n
           ch == [s \in SUBSET D |-> Max(s)]
<1>0. IsFiniteSet(D)
  BY FS_Interval
<1>1. \A s \in SUBSET D : s # {} => ch[s] \in s
  BY MaxIn
<1>2. \A s \in SUBSET D : ch[s] = Max(s)
  OBVIOUS
<1> HIDE DEF ch, D
<1>3. g \in [V \X D -> V]
  BY DEF D
<1>4. PICK it \in [SUBSET D -> V] : FoldEquation(D, base, g, ch, it)
  BY <1>0, <1>1, <1>3, FoldExists, Zenon
<1> QED BY <1>2, <1>4 DEF D, FoldEquation, SeqFold

\* What the base has and each step keeps, the fold over a sequence has.
LEMMA SeqFoldStays ==
  ASSUME NEW n \in Nat, NEW W, NEW it, it[{}] \in W[{}],
         \A s \in SUBSET (1 .. n) : s # {} /\ it[s \ {Max(s)}] \in W[s \ {Max(s)}]
                                => it[s] \in W[s]
  PROVE  it[1 .. n] \in W[1 .. n]
<1> DEFINE D == 1 .. n
           ch == [s \in SUBSET D |-> Max(s)]
<1>0. IsFiniteSet(D)
  BY FS_Interval
<1>1. \A s \in SUBSET D : s # {} => ch[s] \in s
  BY MaxIn
<1>2. \A s \in SUBSET D : ch[s] = Max(s)
  OBVIOUS
<1>3. \A s \in SUBSET D : s # {} /\ it[s \ {Max(s)}] \in W[s \ {Max(s)}] => it[s] \in W[s]
  BY DEF D
<1> HIDE DEF ch, D
<1>4. \A s \in SUBSET D : s # {} /\ it[s \ {ch[s]}] \in W[s \ {ch[s]}] => it[s] \in W[s]
  BY <1>2, <1>3
<1>5. it[D] \in W[D]
  BY <1>0, <1>1, <1>4, FoldStays
<1> QED BY <1>5 DEF D
=============================================================================
