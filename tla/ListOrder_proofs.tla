-------------------------- MODULE ListOrder_proofs --------------------------
(* What InOrder makes of a finite set and a strict order: a list of all    *)
(* its elements, once each and in order.                                   *)
EXTENDS ListOrder, FiniteSetTheorems, SequenceTheorems, TLAPS

(* The order is given as a set of pairs, as a theorem cannot be applied to *)
(* an operator.                                                            *)
StrictOrder(R, S) ==
  /\ \A x \in S : <<x, x>> \notin R
  /\ \A x, y, z \in S : <<x, y>> \in R /\ <<y, z>> \in R => <<x, z>> \in R
  /\ \A x, y \in S : x # y => <<x, y>> \in R \/ <<y, x>> \in R

(* A list of all the elements of a set, in the order.                      *)
Enumerates(f, S, R) ==
  /\ f \in Seq(S)
  /\ Len(f) = Cardinality(S)
  /\ \A x \in S : \E i \in 1 .. Len(f) : f[i] = x
  /\ \A i, j \in 1 .. Len(f) : i < j => <<f[i], f[j]>> \in R

\* The elements before another, and their number.
Below(R, S, x) == {y \in S : <<y, x>> \in R}
Rank(R, S, x) == Cardinality(Below(R, S, x))

\* InOrder, with the order as a set of pairs.
Ordered(R, S) ==
  [r \in 1 .. Cardinality(S) |-> CHOOSE x \in S : Rank(R, S, x) = r - 1]

(* Ranks are numbers below the size of the set.                            *)
LEMMA RankBounded ==
  ASSUME NEW S, IsFiniteSet(S), NEW R, StrictOrder(R, S), NEW x \in S
  PROVE  /\ Cardinality(S) \in Nat
         /\ Rank(R, S, x) \in 0 .. Cardinality(S) - 1
<1> DEFINE B == Below(R, S, x)
<1>1. B \in SUBSET S /\ B # S
  BY DEF Below, StrictOrder
<1>2. Cardinality(S) \in Nat
  BY FS_CardinalityType
<1> HIDE DEF B
<1>3. IsFiniteSet(B) /\ Cardinality(B) <= Cardinality(S) /\ Cardinality(B) # Cardinality(S)
  BY <1>1, FS_Subset
<1>4. Cardinality(B) \in Nat
  BY <1>3, FS_CardinalityType
<1>5. Cardinality(B) \in 0 .. Cardinality(S) - 1
  BY <1>2, <1>3, <1>4
<1> QED BY <1>2, <1>5 DEF B, Rank

(* What is before has the smaller rank.                                    *)
LEMMA RankOrdered ==
  ASSUME NEW S, IsFiniteSet(S), NEW R, StrictOrder(R, S),
         NEW x \in S, NEW y \in S, <<x, y>> \in R
  PROVE  Rank(R, S, x) < Rank(R, S, y)
<1> DEFINE B == Below(R, S, x)
           C == Below(R, S, y)
<1>1. B \in SUBSET C /\ B # C
  BY DEF Below, StrictOrder
<1>2. C \in SUBSET S /\ B \in SUBSET S
  BY DEF Below
<1> HIDE DEF B, C
<1>3. IsFiniteSet(C) /\ IsFiniteSet(B)
  BY <1>2, FS_Subset
<1>4. Cardinality(B) <= Cardinality(C) /\ Cardinality(B) # Cardinality(C)
  BY <1>1, <1>3, FS_Subset
<1>5. Cardinality(B) \in Nat /\ Cardinality(C) \in Nat
  BY <1>3, FS_CardinalityType
<1>6. Cardinality(B) < Cardinality(C)
  BY <1>4, <1>5
<1> QED BY <1>6 DEF B, C, Rank

(* Every rank below the size of the set is some element's: there are as    *)
(* many ranks as elements, and no two elements share one.                  *)
LEMMA RankTaken ==
  ASSUME NEW S, IsFiniteSet(S), NEW R, StrictOrder(R, S),
         NEW k \in 0 .. Cardinality(S) - 1
  PROVE  \E x \in S : Rank(R, S, x) = k
<1> DEFINE n == Cardinality(S)
           T == 0 .. n - 1
           f == [x \in S |-> Rank(R, S, x)]
<1>1. n \in Nat
  BY FS_CardinalityType
<1>2. IsFiniteSet(T) /\ Cardinality(T) = n
  BY <1>1, FS_Interval
<1>3. f \in [S -> T]
  BY RankBounded
<1>4. \A x, y \in S : f[x] = f[y] => x = y
  <2> SUFFICES ASSUME NEW x \in S, NEW y \in S, x # y
               PROVE  f[x] # f[y]
    OBVIOUS
  <2>1. f[x] \in Nat /\ f[y] \in Nat
    BY RankBounded
  <2>2. f[x] < f[y] \/ f[y] < f[x]
    BY RankOrdered DEF StrictOrder
  <2> QED BY <2>1, <2>2
<1> HIDE DEF f, T
<1>5. f \in Injection(S, T)
  BY <1>3, <1>4 DEF Injection, IsInjective
<1>6. f \in Surjection(S, T)
  BY <1>2, <1>5, FS_Injection
<1>7. \E x \in S : f[x] = k
  BY <1>6 DEF Surjection, T
<1> QED BY <1>7 DEF f

(* The list.                                                               *)
THEOREM OrderedEnumerates ==
  ASSUME NEW S, IsFiniteSet(S), NEW R, StrictOrder(R, S)
  PROVE  Enumerates(Ordered(R, S), S, R)
<1> DEFINE f == Ordered(R, S)
           n == Cardinality(S)
<1>1. n \in Nat
  BY FS_CardinalityType
<1>2. \A i \in 1 .. n : f[i] \in S /\ Rank(R, S, f[i]) = i - 1
  <2> SUFFICES ASSUME NEW i \in 1 .. n
               PROVE  f[i] \in S /\ Rank(R, S, f[i]) = i - 1
    OBVIOUS
  <2>1. i - 1 \in 0 .. Cardinality(S) - 1
    BY <1>1
  <2>2. \E x \in S : Rank(R, S, x) = i - 1
    BY <2>1, RankTaken
  <2>3. f[i] = CHOOSE x \in S : Rank(R, S, x) = i - 1
    BY DEF Ordered
  <2> QED BY <2>2, <2>3
<1>3. f \in [1 .. n -> S]
  BY <1>2 DEF Ordered
<1> HIDE DEF f
<1>4. f \in Seq(S) /\ Len(f) = n
  BY <1>1, <1>3
<1>5. ASSUME NEW x \in S
      PROVE  \E i \in 1 .. n : f[i] = x
  <2> DEFINE i == Rank(R, S, x) + 1
  <2>1. i \in 1 .. n /\ i - 1 = Rank(R, S, x)
    BY <1>1, RankBounded
  <2>2. f[i] \in S /\ Rank(R, S, f[i]) = Rank(R, S, x)
    BY <1>2, <2>1
  <2>3. Rank(R, S, x) \in Nat
    BY <1>1, RankBounded
  <2> HIDE DEF i
  <2>4. f[i] = x
    <3> SUFFICES ASSUME f[i] # x PROVE FALSE
      OBVIOUS
    <3>1. <<f[i], x>> \in R \/ <<x, f[i]>> \in R
      BY <2>2 DEF StrictOrder
    <3>2. Rank(R, S, f[i]) < Rank(R, S, x) \/ Rank(R, S, x) < Rank(R, S, f[i])
      BY <2>2, <3>1, RankOrdered
    <3> QED BY <2>2, <2>3, <3>2
  <2> QED BY <2>1, <2>4
<1>6. ASSUME NEW i \in 1 .. n, NEW j \in 1 .. n, i < j
      PROVE  <<f[i], f[j]>> \in R
  <2>1. f[i] \in S /\ f[j] \in S /\ Rank(R, S, f[i]) = i - 1 /\ Rank(R, S, f[j]) = j - 1
    BY <1>2
  <2>2. f[i] # f[j] /\ ~(Rank(R, S, f[j]) < Rank(R, S, f[i]))
    BY <1>1, <1>6, <2>1
  <2>3. <<f[j], f[i]>> \notin R
    BY <2>1, <2>2, RankOrdered
  <2> QED BY <2>1, <2>2, <2>3 DEF StrictOrder
<1>7. Enumerates(f, S, R)
  BY <1>4, <1>5, <1>6 DEF Enumerates
<1> QED BY <1>7 DEF f

(* The order of numbers, in which filters, chips and drop-downs list.      *)
THEOREM SmallerEnumerates ==
  ASSUME NEW S, IsFiniteSet(S), S \subseteq Int
  PROVE  LET f == InOrder(S, Smaller)
         IN /\ f \in Seq(S)
            /\ Len(f) = Cardinality(S)
            /\ \A x \in S : \E i \in 1 .. Len(f) : f[i] = x
            /\ \A i, j \in 1 .. Len(f) : i < j => f[i] < f[j]
<1> DEFINE R == {p \in S \X S : p[1] < p[2]}
<1>1. \A x, y \in S : <<x, y>> \in R <=> x < y
  OBVIOUS
<1>2. StrictOrder(R, S)
  <2> HIDE DEF R
  <2> QED BY <1>1 DEF StrictOrder
<1> HIDE DEF R
<1>3. InOrder(S, Smaller) = Ordered(R, S)
  <2>1. ASSUME NEW x \in S
        PROVE  {y \in S : Smaller(y, x)} = Below(R, S, x)
    BY <1>1 DEF Smaller, Below
  <2> DEFINE a(r) == CHOOSE x \in S : Cardinality({y \in S : Smaller(y, x)}) = r - 1
             b(r) == CHOOSE x \in S : Rank(R, S, x) = r - 1
  <2>2. ASSUME NEW r \in 1 .. Cardinality(S)
        PROVE  a(r) = b(r)
    <3>1. \A x \in S : Cardinality({y \in S : Smaller(y, x)}) = r - 1 <=> Rank(R, S, x) = r - 1
      BY <2>1 DEF Rank
    <3> QED BY <3>1
  <2>3. /\ InOrder(S, Smaller) = [r \in 1 .. Cardinality(S) |-> a(r)]
        /\ Ordered(R, S) = [r \in 1 .. Cardinality(S) |-> b(r)]
    BY DEF InOrder, Ordered
  <2> HIDE DEF a, b
  <2> QED BY <2>2, <2>3
<1>4. Enumerates(Ordered(R, S), S, R)
  BY <1>2, OrderedEnumerates
<1> DEFINE f == Ordered(R, S)
<1> HIDE DEF f
<1>5. Enumerates(f, S, R)
  BY <1>4 DEF f
<1>6. /\ f \in Seq(S)
      /\ Len(f) = Cardinality(S)
      /\ \A x \in S : \E i \in 1 .. Len(f) : f[i] = x
  BY <1>5 DEF Enumerates
<1>7. \A i, j \in 1 .. Len(f) : i < j => f[i] < f[j]
  <2> SUFFICES ASSUME NEW i \in 1 .. Len(f), NEW j \in 1 .. Len(f), i < j
               PROVE  f[i] < f[j]
    OBVIOUS
  <2>1. f[i] \in S /\ f[j] \in S
    BY <1>6, ElementOfSeq
  <2>2. <<f[i], f[j]>> \in R
    BY <1>5 DEF Enumerates
  <2> QED BY <1>1, <2>1, <2>2
<1> QED BY <1>3, <1>6, <1>7 DEF f

-----------------------------------------------------------------------------
(* Lists of whatever elements *)

(* A sequence.                                                             *)
IsList(f) == f \in Seq({f[i] : i \in DOMAIN f})

(* A sequence has a length, its positions, and is empty or not.            *)
LEMMA ListLength ==
  ASSUME NEW f, IsList(f)
  PROVE  /\ Len(f) \in Nat
         /\ DOMAIN f = 1 .. Len(f)
         /\ f = <<>> <=> Len(f) = 0
<1> DEFINE T == {f[i] : i \in DOMAIN f}
<1>1. f \in Seq(T)
  BY DEF IsList
<1> HIDE DEF T
<1> QED BY <1>1, LenProperties, EmptySeq

(* A sequence over a set is one over its own elements.                     *)
LEMMA SeqIsList ==
  ASSUME NEW S, NEW f \in Seq(S)
  PROVE  IsList(f)
<1> DEFINE T == {f[i] : i \in DOMAIN f}
<1>1. Len(f) \in Nat /\ f \in [1 .. Len(f) -> S] /\ DOMAIN f = 1 .. Len(f)
  BY LenProperties
<1>2. f \in [1 .. Len(f) -> T]
  BY <1>1
<1>3. Seq(T) = UNION {[1 .. m -> T] : m \in Nat}
  BY SeqDef
<1> QED BY <1>1, <1>2, <1>3 DEF IsList
=============================================================================
