---------------------------- MODULE BoundsProofs ----------------------------
(***************************************************************************)
(* Facts about least and greatest elements, induction and folds over       *)
(* finite sets, and what follows from them about the hourly bounds.        *)
(***************************************************************************)
EXTENDS DirectiveBounds, FiniteSetTheorems, WellFoundedInduction, TLAPS

(* Every nonempty set of natural numbers has a least element. *)
LEMMA LeastNatural ==
    ASSUME NEW T, T \subseteq Nat, T # {}
    PROVE  \E x \in T : \A y \in T : x <= y
<1> DEFINE R == OpToRel(<, Nat)
<1>1. IsWellFoundedOn(R, Nat)
  BY NatLessThanWellFounded
<1>2. PICK x \in T : \A y \in T : ~(<<y, x>> \in R)
  <2> HIDE DEF R
  <2> QED BY <1>1, WFMin
<1>3. \A y \in T : ~(y < x)
  BY <1>2 DEF OpToRel
<1> HIDE DEF R
<1> QED BY <1>3

(* Induction up to n, for the members of a set. *)
LEMMA InductionUpTo ==
    ASSUME NEW n \in Nat, NEW G, 0 \in G,
           \A i \in 0 .. n : i \in G /\ i < n => i + 1 \in G
    PROVE  \A i \in 0 .. n : i \in G
<1> DEFINE T == {i \in 0 .. n : i \notin G}
<1> SUFFICES ASSUME T # {} PROVE FALSE
  OBVIOUS
<1>1. PICK x \in T : \A y \in T : x <= y
  <2>1. T \subseteq Nat
    OBVIOUS
  <2> HIDE DEF T
  <2> QED BY <2>1, LeastNatural
<1>2. x # 0 /\ x - 1 \in 0 .. n /\ x - 1 \notin T
  BY <1>1
<1> QED BY <1>1, <1>2

(* The member that the folds of the community modules take first. *)
Chosen(s) == CHOOSE x \in s : TRUE

(* What is chosen is a member, and leaves one member less. *)
LEMMA ChosenIsMember ==
    ASSUME NEW s, IsFiniteSet(s), s # {}
    PROVE  /\ Chosen(s) \in s
           /\ Cardinality(s \ {Chosen(s)}) = Cardinality(s) - 1
           /\ Cardinality(s) \in Nat
<1>1. Chosen(s) \in s
  BY DEF Chosen
<1> QED BY <1>1, FS_RemoveElement, FS_CardinalityType

(* Induction on the subsets of a finite set, for the members of a set. *)
LEMMA InductionOnSubsets ==
    ASSUME NEW S, IsFiniteSet(S), NEW G, {} \in G,
           \A s \in SUBSET S : s # {} /\ s \ {Chosen(s)} \in G => s \in G
    PROVE  \A s \in SUBSET S : s \in G
<1> DEFINE T == {Cardinality(s) : s \in {s \in SUBSET S : s \notin G}}
<1>0. \A s \in SUBSET S : IsFiniteSet(s) /\ Cardinality(s) \in Nat
  <2>1. ASSUME NEW s \in SUBSET S PROVE IsFiniteSet(s)
    BY <2>1, FS_Subset
  <2> QED BY <2>1, FS_CardinalityType
<1> SUFFICES ASSUME T # {} PROVE FALSE
  OBVIOUS
<1>1. PICK k \in T : \A j \in T : k <= j
  <2>1. T \subseteq Nat
    BY <1>0
  <2> HIDE DEF T
  <2> QED BY <2>1, LeastNatural
<1>2. PICK s \in SUBSET S : s \notin G /\ k = Cardinality(s)
  BY <1>1
<1>3. Cardinality(s \ {Chosen(s)}) = k - 1 /\ k \in Nat
  BY <1>0, <1>2, ChosenIsMember
<1>4. Cardinality(s \ {Chosen(s)}) \notin T
  BY <1>1, <1>3
<1>5. s \ {Chosen(s)} \in G
  <2>1. s \ {Chosen(s)} \in SUBSET S
    OBVIOUS
  <2> QED BY <1>4, <2>1, Zenon
<1> QED BY <1>2, <1>5

-----------------------------------------------------------------------------
(* The values a function takes on a finite set are finitely many. *)
LEMMA ImageIsFinite ==
    ASSUME NEW S, IsFiniteSet(S), NEW f
    PROVE  IsFiniteSet({f[x] : x \in S})
<1> DEFINE T == {f[x] : x \in S}
           g == [x \in S |-> f[x]]
<1>1. g \in Surjection(S, T)
  BY Zenon DEF Surjection
<1> HIDE DEF g, T
<1>2. IsFiniteSet(T)
  BY <1>1, FS_Surjection
<1> QED BY <1>2 DEF T

(* A finite set of integers that is not empty has a least element ... *)
LEMMA MinFacts ==
    ASSUME NEW T, T \subseteq Int, IsFiniteSet(T), T # {}
    PROVE  Min(T) \in T /\ \A y \in T : Min(T) <= y
<1> DEFINE G == {s \in SUBSET T : s # {} => \E x \in s : \A y \in s : x <= y}
<1>1. ASSUME NEW s \in SUBSET T, s # {}, s \ {Chosen(s)} \in G
      PROVE  s \in G
  <2>0. PICK x \in s : x = Chosen(s)
    BY <1>1 DEF Chosen
  <2>1. CASE s \ {x} = {}
    BY <2>1
  <2>2. CASE s \ {x} # {}
    <3>1. PICK z \in s \ {x} : \A y \in s \ {x} : z <= y
      BY <1>1, <2>0, <2>2
    <3>2. CASE x <= z
      <4>1. \A y \in s : x <= y
        BY <3>1, <3>2
      <4> QED BY <4>1
    <3>3. CASE ~(x <= z)
      <4>1. \A y \in s : z <= y
        BY <3>1, <3>3
      <4> QED BY <4>1
    <3> QED BY <3>2, <3>3
  <2> QED BY <2>1, <2>2
<1>2. {} \in G
  OBVIOUS
<1>3. T \in G
  <2> HIDE DEF G
  <2> QED BY <1>1, <1>2, InductionOnSubsets
<1>4. \E x \in T : \A y \in T : x <= y
  BY <1>3
<1> QED BY <1>4 DEF Min

(* ... and a greatest one. *)
LEMMA MaxFacts ==
    ASSUME NEW T, T \subseteq Int, IsFiniteSet(T), T # {}
    PROVE  Max(T) \in T /\ \A y \in T : Max(T) >= y
<1> DEFINE minus    == [x \in Int |-> -x]
           Opposite == {minus[x] : x \in T}
<1>1. IsFiniteSet(Opposite)
  <2> HIDE DEF minus
  <2> QED BY ImageIsFinite
<1>2. Opposite \subseteq Int /\ Opposite # {}
  <2>1. \A x \in T : minus[x] \in Int
    OBVIOUS
  <2> HIDE DEF minus
  <2> QED BY <2>1
<1>3. Min(Opposite) \in Opposite /\ \A y \in Opposite : Min(Opposite) <= y
  <2> HIDE DEF Opposite
  <2> QED BY <1>1, <1>2, MinFacts
<1>4. PICK x \in T : minus[x] = Min(Opposite)
  BY <1>3
<1>5. \A y \in T : x >= y
  <2> TAKE y \in T
  <2>1. minus[x] <= minus[y]
    BY <1>3, <1>4
  <2> QED BY <2>1
<1> QED BY <1>5 DEF Max

(* The more values, the lower the least of them and the greater the most. *)
LEMMA MoreValues ==
    ASSUME NEW S, NEW T, S \subseteq T, T \subseteq Int, IsFiniteSet(T), S # {}
    PROVE  Min(T) <= Min(S) /\ Max(T) >= Max(S)
<1>1. IsFiniteSet(S) /\ S \subseteq Int /\ T # {}
  BY FS_Subset
<1>2. Min(S) \in S /\ Max(S) \in S
  BY <1>1, MinFacts, MaxFacts
<1> QED BY <1>1, <1>2, MinFacts, MaxFacts
-----------------------------------------------------------------------------
(* The folds of the model add or multiply the values of a function.         *)
Folded(op, f, s, g) ==
    IF s = {} THEN (IF op = "sum" THEN 0 ELSE 1)
    ELSE IF op = "sum" THEN f[Chosen(s)] + g[s \ {Chosen(s)}]
    ELSE g[s \ {Chosen(s)}] * f[Chosen(s)]

Folds(op, S, f, g) == g = [s \in SUBSET S |-> Folded(op, f, s, g)]

(* The recursive equation of a fold has a solution. *)
LEMMA FoldExists ==
    ASSUME NEW S, IsFiniteSet(S), NEW op, NEW f
    PROVE  \E g : Folds(op, S, f, g)
<1> DEFINE Solves(g, n) ==
               \A s \in SUBSET S : Cardinality(s) <= n => g[s] = Folded(op, f, s, g)
           G == {n \in Nat : \E g : Solves(g, n)}
<1>0. \A s \in SUBSET S : IsFiniteSet(s)
  BY FS_Subset
<1>1. 0 \in G
  <2> DEFINE g == [s \in SUBSET S |-> IF op = "sum" THEN 0 ELSE 1]
  <2>1. ASSUME NEW s \in SUBSET S, Cardinality(s) <= 0
        PROVE  g[s] = Folded(op, f, s, g)
    <3>1. s = {}
      BY <1>0, <2>1, ChosenIsMember, FS_CardinalityType, FS_EmptySet
    <3> QED BY <3>1 DEF Folded, Folds
  <2>2. Solves(g, 0)
    BY <2>1
  <2> QED BY <2>2
<1>2. ASSUME NEW i \in Nat, i \in G PROVE i + 1 \in G
  <2>1. PICK g : Solves(g, i)
    BY <1>2
  <2> DEFINE h == [s \in SUBSET S |-> IF Cardinality(s) <= i THEN g[s] ELSE Folded(op, f, s, g)]
  <2>2. ASSUME NEW s \in SUBSET S, Cardinality(s) <= i + 1
        PROVE  h[s] = Folded(op, f, s, h)
    <3>1. h[s] = Folded(op, f, s, g)
      BY <2>1
    <3>2. Folded(op, f, s, g) = Folded(op, f, s, h)
      <4>1. CASE s = {}
        BY <4>1 DEF Folded, Folds
      <4>2. CASE s # {}
        <5>1. Cardinality(s \ {Chosen(s)}) <= i /\ s \ {Chosen(s)} \in SUBSET S
          <6>1. /\ Cardinality(s \ {Chosen(s)}) = Cardinality(s) - 1
                /\ Cardinality(s) \in Nat
            BY <1>0, <4>2, ChosenIsMember
          <6> QED BY <2>2, <6>1
        <5>2. h[s \ {Chosen(s)}] = g[s \ {Chosen(s)}]
          BY <5>1
        <5> HIDE DEF h
        <5> QED BY <4>2, <5>2 DEF Folded, Folds
      <4> QED BY <4>1, <4>2
    <3> QED BY <3>1, <3>2
  <2>3. Solves(h, i + 1)
    BY <2>2
  <2> HIDE DEF h
  <2>4. \E x : Solves(x, i + 1)
    BY <2>3
  <2> QED BY <2>4
<1>3. Cardinality(S) \in Nat /\ \A s \in SUBSET S : Cardinality(s) <= Cardinality(S)
  BY FS_Subset, FS_CardinalityType
<1>4. Cardinality(S) \in G
  <2> HIDE DEF G
  <2> QED BY <1>1, <1>2, <1>3, InductionUpTo
<1>5. PICK g : Solves(g, Cardinality(S))
  BY <1>4
<1> DEFINE h == [s \in SUBSET S |-> g[s]]
<1>6. ASSUME NEW s \in SUBSET S PROVE g[s] = Folded(op, f, s, h)
  <2>1. g[s] = Folded(op, f, s, g)
    BY <1>3, <1>5
  <2>2. Folded(op, f, s, g) = Folded(op, f, s, h)
    BY DEF Folded, Folds
  <2> QED BY <2>1, <2>2
<1>7. h = [s \in SUBSET S |-> Folded(op, f, s, h)]
  <2> HIDE DEF Folded, Folds
  <2> QED BY <1>6
<1> QED BY <1>7, Zenon DEF Folds

(* v is the sum, or the product, of the values of f on S. *)
IsFold(op, S, f, v) == \E g : Folds(op, S, f, g) /\ v = g[S]

LEMMA ProductOfLess ==
    ASSUME NEW a \in Int, NEW b \in Int, NEW c \in Int, NEW d \in Int,
           0 <= a, a <= c, 0 <= b, b <= d
    PROVE  0 <= a * b /\ a * b <= c * d /\ a * b \in Int /\ c * d \in Int
<1>1. a * b <= c * b
  OBVIOUS
<1>2. c * b <= c * d
  OBVIOUS
<1> QED BY <1>1, <1>2

(* Lower factors that are not negative have a lower product. *)
LEMMA ProductIsMonotone ==
    ASSUME NEW S, IsFiniteSet(S), NEW e, NEW f,
           \A x \in S : e[x] \in Int /\ f[x] \in Int /\ 0 <= e[x] /\ e[x] <= f[x],
           NEW p, IsFold("product", S, e, p), NEW q, IsFold("product", S, f, q)
    PROVE  p \in Int /\ q \in Int /\ 0 <= p /\ p <= q
<1>1. PICK g : Folds("product", S, e, g) /\ p = g[S]
  BY DEF IsFold
<1>2. PICK h : Folds("product", S, f, h) /\ q = h[S]
  BY DEF IsFold
<1> DEFINE Less(s) == g[s] \in Int /\ h[s] \in Int /\ 0 <= g[s] /\ g[s] <= h[s]
           G == {s \in SUBSET S : Less(s)}
<1>3. {} \in G
  <2>1. g[{}] = 1 /\ h[{}] = 1
    BY <1>1, <1>2 DEF Folded, Folds
  <2> QED BY <2>1
<1>4. ASSUME NEW s \in SUBSET S, s # {}, s \ {Chosen(s)} \in G
      PROVE  s \in G
  <2> DEFINE c == Chosen(s)
  <2>1. g[s] = g[s \ {c}] * e[c] /\ h[s] = h[s \ {c}] * f[c]
    BY <1>1, <1>2, <1>4 DEF Folded, Folds
  <2>2. c \in S
    BY <1>4 DEF Chosen
  <2>3. Less(s \ {c})
    BY <1>4
  <2> HIDE DEF c
  <2>4. Less(s)
    BY <2>1, <2>2, <2>3, ProductOfLess
  <2> QED BY <2>4
<1>5. S \in G
  <2> HIDE DEF G
  <2> QED BY <1>3, <1>4, InductionOnSubsets
<1> QED BY <1>1, <1>2, <1>5

(* A product of whole numbers is a whole number. *)
LEMMA ProductIsNumber ==
    ASSUME NEW S, IsFiniteSet(S), NEW f, \A x \in S : f[x] \in Int,
           NEW p, IsFold("product", S, f, p)
    PROVE  p \in Int
<1>1. PICK g : Folds("product", S, f, g) /\ p = g[S]
  BY DEF IsFold
<1> DEFINE G == {s \in SUBSET S : g[s] \in Int}
<1>2. {} \in G
  BY <1>1 DEF Folded, Folds
<1>3. ASSUME NEW s \in SUBSET S, s # {}, s \ {Chosen(s)} \in G
      PROVE  s \in G
  <2> DEFINE c == Chosen(s)
  <2>1. g[s] = g[s \ {c}] * f[c]
    BY <1>1, <1>3 DEF Folded, Folds
  <2>2. c \in S
    BY <1>3 DEF Chosen
  <2>3. g[s \ {c}] \in Int
    BY <1>3
  <2> HIDE DEF c
  <2>4. g[s] \in Int
    BY <2>1, <2>2, <2>3
  <2> QED BY <2>4
<1>4. S \in G
  <2> HIDE DEF G
  <2> QED BY <1>2, <1>3, InductionOnSubsets
<1> QED BY <1>1, <1>4

(* A product of factors greater than 0 is greater than 0. *)
LEMMA ProductIsPositive ==
    ASSUME NEW S, IsFiniteSet(S), NEW f, \A x \in S : f[x] \in Int /\ f[x] > 0,
           NEW p, IsFold("product", S, f, p)
    PROVE  p \in Int /\ p > 0
<1>1. PICK g : Folds("product", S, f, g) /\ p = g[S]
  BY DEF IsFold
<1> DEFINE G == {s \in SUBSET S : g[s] \in Int /\ g[s] > 0}
<1>2. {} \in G
  <2>1. g[{}] = 1
    BY <1>1 DEF Folded, Folds
  <2> QED BY <2>1
<1>3. ASSUME NEW s \in SUBSET S, s # {}, s \ {Chosen(s)} \in G
      PROVE  s \in G
  <2> DEFINE c == Chosen(s)
  <2>1. g[s] = g[s \ {c}] * f[c]
    BY <1>1, <1>3 DEF Folded, Folds
  <2>2. c \in S
    BY <1>3 DEF Chosen
  <2>3. g[s \ {c}] \in Int /\ g[s \ {c}] > 0
    BY <1>3
  <2> HIDE DEF c
  <2>4. g[s] \in Int /\ g[s] > 0
    BY <2>1, <2>2, <2>3
  <2> QED BY <2>4
<1>4. S \in G
  <2> HIDE DEF G
  <2> QED BY <1>2, <1>3, InductionOnSubsets
<1> QED BY <1>1, <1>4

(* A product with one factor that may be negative is not positive. *)
LEMMA ProductWithNegative ==
    ASSUME NEW S, IsFiniteSet(S), NEW f, NEW m \in S,
           \A x \in S : f[x] \in Int /\ (x # m => f[x] >= 0), f[m] <= 0,
           NEW p, IsFold("product", S, f, p)
    PROVE  p \in Int /\ p <= 0
<1>1. PICK g : Folds("product", S, f, g) /\ p = g[S]
  BY DEF IsFold
<1> DEFINE Sign(s) == g[s] \in Int /\ IF m \in s THEN g[s] <= 0 ELSE g[s] >= 0
           G == {s \in SUBSET S : Sign(s)}
<1>2. {} \in G
  <2>1. g[{}] = 1
    BY <1>1 DEF Folded, Folds
  <2> QED BY <2>1
<1>3. ASSUME NEW s \in SUBSET S, s # {}, s \ {Chosen(s)} \in G
      PROVE  s \in G
  <2> DEFINE c == Chosen(s)
  <2>1. g[s] = g[s \ {c}] * f[c]
    BY <1>1, <1>3 DEF Folded, Folds
  <2>2. c \in s /\ f[c] \in Int
    BY <1>3 DEF Chosen
  <2>3. Sign(s \ {c})
    BY <1>3
  <2> HIDE DEF c
  <2>4. CASE c = m
    <3>1. g[s \ {c}] >= 0 /\ f[c] <= 0 /\ g[s \ {c}] \in Int
      BY <2>3, <2>4
    <3>2. g[s] <= 0 /\ g[s] \in Int
      BY <2>1, <2>2, <3>1
    <3> QED BY <2>2, <2>4, <3>2
  <2>5. CASE c # m
    <3>1. f[c] >= 0
      BY <2>2, <2>5
    <3>2. CASE m \in s
      <4>1. g[s \ {c}] <= 0 /\ g[s \ {c}] \in Int
        BY <2>3, <2>5, <3>2
      <4>2. g[s] <= 0 /\ g[s] \in Int
        BY <2>1, <2>2, <3>1, <4>1
      <4> QED BY <3>2, <4>2
    <3>3. CASE m \notin s
      <4>1. g[s \ {c}] >= 0 /\ g[s \ {c}] \in Int
        BY <2>3, <3>3
      <4>2. g[s] >= 0 /\ g[s] \in Int
        BY <2>1, <2>2, <3>1, <4>1
      <4> QED BY <3>3, <4>2
    <3> QED BY <3>2, <3>3
  <2> QED BY <2>4, <2>5
<1>4. S \in G
  <2> HIDE DEF G
  <2> QED BY <1>2, <1>3, InductionOnSubsets
<1> QED BY <1>1, <1>4

(* A sum of integers is one, and sums of lower terms are lower. *)
LEMMA SumIsMonotone ==
    ASSUME NEW S, IsFiniteSet(S), NEW e, NEW f,
           \A x \in S : e[x] \in Int /\ f[x] \in Int /\ e[x] <= f[x],
           NEW p, IsFold("sum", S, e, p), NEW q, IsFold("sum", S, f, q)
    PROVE  p \in Int /\ q \in Int /\ p <= q
<1>1. PICK g : Folds("sum", S, e, g) /\ p = g[S]
  BY DEF IsFold
<1>2. PICK h : Folds("sum", S, f, h) /\ q = h[S]
  BY DEF IsFold
<1> DEFINE Less(s) == g[s] \in Int /\ h[s] \in Int /\ g[s] <= h[s]
           G == {s \in SUBSET S : Less(s)}
<1>3. {} \in G
  <2>1. g[{}] = 0 /\ h[{}] = 0
    BY <1>1, <1>2 DEF Folded, Folds
  <2> QED BY <2>1
<1>4. ASSUME NEW s \in SUBSET S, s # {}, s \ {Chosen(s)} \in G
      PROVE  s \in G
  <2> DEFINE c == Chosen(s)
  <2>1. g[s] = e[c] + g[s \ {c}] /\ h[s] = f[c] + h[s \ {c}]
    BY <1>1, <1>2, <1>4 DEF Folded, Folds
  <2>2. c \in S
    BY <1>4 DEF Chosen
  <2>3. Less(s \ {c})
    BY <1>4
  <2> HIDE DEF c
  <2>4. Less(s)
    BY <2>1, <2>2, <2>3
  <2> QED BY <2>4
<1>5. S \in G
  <2> HIDE DEF G
  <2> QED BY <1>3, <1>4, InductionOnSubsets
<1> QED BY <1>1, <1>2, <1>5

-----------------------------------------------------------------------------
(* The bounds of a set of directives.                                       *)

(* Directives that can be combined: finitely many, with numbers. *)
Combinable(D) == IsFiniteSet(D) /\ \A d \in D : d.value \in Int

FactorsNotNegative(D) == \A d \in D : d.type = "solar_reduction" => d.value >= 0

LEMMA ValuesFacts ==
    ASSUME NEW E, Combinable(E), NEW D, D \subseteq E
    PROVE  /\ IsFiniteSet(Values(D)) /\ Values(D) \subseteq Int
           /\ Values(D) \subseteq Values(E)
<1>1. IsFiniteSet(D)
  BY FS_Subset DEF Combinable
<1> DEFINE f == [d \in D |-> d.value]
<1>2. IsFiniteSet({f[d] : d \in D})
  <2> HIDE DEF f
  <2> QED BY <1>1, ImageIsFinite
<1>3. {f[d] : d \in D} = Values(D)
  BY DEF Values
<1> QED BY <1>2, <1>3 DEF Values, Combinable

(* The least and the greatest of some values and a default. *)
LEMMA WithDefault ==
    ASSUME NEW E, Combinable(E), NEW D, D \subseteq E, NEW base \in Int
    PROVE  /\ Min({base} \cup Values(D)) \in Int /\ Max({base} \cup Values(D)) \in Int
           /\ Min({base} \cup Values(E)) <= Min({base} \cup Values(D))
           /\ Min({base} \cup Values(D)) <= base
           /\ Max({base} \cup Values(E)) >= Max({base} \cup Values(D))
           /\ Max({base} \cup Values(D)) >= base
           /\ Min({base} \cup Values(D)) \in {base} \cup Values(D)
           /\ Max({base} \cup Values(D)) \in {base} \cup Values(D)
<1> DEFINE S == {base} \cup Values(D)
           T == {base} \cup Values(E)
<1>1. /\ IsFiniteSet(Values(D)) /\ Values(D) \subseteq Int
      /\ IsFiniteSet(Values(E)) /\ Values(E) \subseteq Int
      /\ Values(D) \subseteq Values(E)
  BY ValuesFacts
<1>2. IsFiniteSet({base})
  BY FS_Singleton
<1>3. IsFiniteSet(S) /\ IsFiniteSet(T)
  BY <1>1, <1>2, FS_Union
<1>4. S \subseteq Int /\ T \subseteq Int /\ S # {} /\ T # {} /\ S \subseteq T /\ base \in S
  BY <1>1
<1> HIDE DEF S, T
<1>5. Min(S) \in S /\ Max(S) \in S /\ \A y \in S : Min(S) <= y /\ Max(S) >= y
  BY <1>3, <1>4, MinFacts, MaxFacts
<1>6. Min(T) <= Min(S) /\ Max(T) >= Max(S)
  BY <1>3, <1>4, MoreValues
<1>7. /\ Min(S) \in Int /\ Max(S) \in Int /\ Min(T) <= Min(S) /\ Min(S) <= base
      /\ Max(T) >= Max(S) /\ Max(S) >= base /\ Min(S) \in S /\ Max(S) \in S
  BY <1>4, <1>5, <1>6
<1> QED BY <1>7 DEF S, T

(* What one hour of one note may be, and that more directives restrict it. *)
LEMMA HourFacts ==
    ASSUME NEW E, Combinable(E), NEW D, D \subseteq E, NEW h, NEW n, NEW base \in Int
    PROVE  /\ NoteFactor(D, n, h) \in Int /\ NoteFactor(D, n, h) <= Whole
           /\ NoteFactor(E, n, h) <= NoteFactor(D, n, h)
           /\ Reserve(D, base, h) \in Int /\ Reserve(D, base, h) >= base
           /\ Reserve(E, base, h) >= Reserve(D, base, h)
           /\ GridCap(D, h) \in Int /\ GridCap(D, h) <= Unlimited
           /\ GridCap(E, h) <= GridCap(D, h)
           /\ \A type : On(D, type, h) \subseteq On(E, type, h)
<1> DEFINE Of(A) == {d \in On(A, "solar_reduction", h) : d.note = n}
<1>1. \A type : On(D, type, h) \subseteq On(E, type, h) /\ On(E, type, h) \subseteq E
  BY DEF On
<1>2. Of(D) \subseteq Of(E) /\ Of(E) \subseteq E
  BY <1>1
<1>3. \A A : A \subseteq E => Combinable(A)
  BY FS_Subset DEF Combinable
<1>4. Combinable(Of(E)) /\ \A type : Combinable(On(E, type, h))
  BY <1>1, <1>2, <1>3
<1>5. Whole \in Int /\ Unlimited \in Int
  BY BoundsAssumption
<1> HIDE DEF Of
<1>6. /\ Min({Whole} \cup Values(Of(D))) \in Int /\ Min({Whole} \cup Values(Of(D))) <= Whole
      /\ Min({Whole} \cup Values(Of(E))) <= Min({Whole} \cup Values(Of(D)))
  BY <1>2, <1>4, <1>5, WithDefault
<1>7. /\ Reserve(D, base, h) \in Int /\ Reserve(D, base, h) >= base
      /\ Reserve(E, base, h) >= Reserve(D, base, h)
  BY <1>1, <1>4, WithDefault DEF Reserve
<1>8. /\ GridCap(D, h) \in Int /\ GridCap(D, h) <= Unlimited
      /\ GridCap(E, h) <= GridCap(D, h)
  BY <1>1, <1>4, <1>5, WithDefault DEF GridCap
<1> QED BY <1>1, <1>6, <1>7, <1>8 DEF NoteFactor, Of

(* A factor is that of a directive of the note, or none at all. *)
LEMMA NoteFactorFrom ==
    ASSUME NEW D, Combinable(D), NEW h, NEW n
    PROVE  \/ NoteFactor(D, n, h) = Whole
           \/ \E d \in D : d.type = "solar_reduction" /\ d.note = n /\ NoteFactor(D, n, h) = d.value
<1> DEFINE O == {d \in On(D, "solar_reduction", h) : d.note = n}
<1>1. O \subseteq D /\ \A d \in O : d.type = "solar_reduction" /\ d.note = n
  BY DEF On
<1>2. NoteFactor(D, n, h) = Min({Whole} \cup Values(O))
  BY DEF NoteFactor
<1>3. Combinable(O) /\ Whole \in Int
  BY <1>1, BoundsAssumption, FS_Subset DEF Combinable
<1> HIDE DEF O
<1>4. NoteFactor(D, n, h) \in {Whole} \cup Values(O)
  BY <1>2, <1>3, WithDefault
<1> QED BY <1>1, <1>4 DEF Values

(* A cap, or a reserve above the base, is that of a directive of the hour. *)
LEMMA HourFrom ==
    ASSUME NEW h, NEW D, NEW base \in Int
    PROVE  /\ GridCap(D, h) # Unlimited => On(D, "max_grid_window", h) # {}
           /\ Reserve(D, base, h) # base => On(D, "minimum_battery_reserve", h) # {}
<1>1. Values({}) = {}
  BY DEF Values
<1>2. Min({Unlimited}) = Unlimited /\ Max({base}) = base
  BY BoundsAssumption DEF Min, Max
<1> QED BY <1>1, <1>2 DEF GridCap, Reserve

(* The factor of an hour, and its scale, are products over the notes. *)
LEMMA FactorIsFold ==
    ASSUME NEW D, NEW h
    PROVE  IsFold("product", Notes, [n \in Notes |-> NoteFactor(D, n, h)], Factor(D, h))
<1> DEFINE f == [n \in Notes |-> NoteFactor(D, n, h)]
           Equation(r) == r = [s \in SUBSET Notes |->
                                   IF s = {} THEN 1
                                   ELSE r[s \ {CHOOSE x \in s : TRUE}]
                                            * NoteFactor(D, CHOOSE x \in s : TRUE, h)]
<1>1. PICK g : Folds("product", Notes, f, g)
  BY BoundsAssumption, FoldExists
<1>2. ASSUME NEW r PROVE Equation(r) <=> Folds("product", Notes, f, r)
  <2>1. ASSUME NEW s \in SUBSET Notes
        PROVE  Folded("product", f, s, r) =
                  IF s = {} THEN 1
                  ELSE r[s \ {CHOOSE x \in s : TRUE}] * NoteFactor(D, CHOOSE x \in s : TRUE, h)
    <3>1. CASE s = {}
      BY <3>1 DEF Folded, Folds
    <3>2. CASE s # {}
      <4>1. f[Chosen(s)] = NoteFactor(D, Chosen(s), h)
        BY <3>2 DEF Chosen
      <4> HIDE DEF f
      <4> QED BY <3>2, <4>1, Zenon DEF Folded, Chosen
    <3> QED BY <3>1, <3>2
  <2> HIDE DEF f
  <2> QED BY <2>1, Zenon DEF Folds
<1>3. Factor(D, h) = (CHOOSE r : Equation(r))[Notes]
  BY DEF Factor, FoldSet, MapThenFoldSet
<1> HIDE DEF Equation, f
<1>4. Equation(CHOOSE r : Equation(r))
  BY <1>1, <1>2, Zenon
<1> QED BY <1>2, <1>3, <1>4 DEF IsFold, f

LEMMA ScaleIsFold == IsFold("product", Notes, [n \in Notes |-> Whole], FullScale)
<1> DEFINE f == [n \in Notes |-> Whole]
           Equation(r) == r = [s \in SUBSET Notes |->
                                   IF s = {} THEN 1
                                   ELSE r[s \ {CHOOSE x \in s : TRUE}] * Whole]
<1>1. PICK g : Folds("product", Notes, f, g)
  BY BoundsAssumption, FoldExists
<1>2. ASSUME NEW r PROVE Equation(r) <=> Folds("product", Notes, f, r)
  <2>1. ASSUME NEW s \in SUBSET Notes
        PROVE  Folded("product", f, s, r) =
                  IF s = {} THEN 1 ELSE r[s \ {CHOOSE x \in s : TRUE}] * Whole
    <3>1. CASE s = {}
      BY <3>1 DEF Folded, Folds
    <3>2. CASE s # {}
      <4>1. f[Chosen(s)] = Whole
        BY <3>2 DEF Chosen
      <4> HIDE DEF f
      <4>2. Folded("product", f, s, r) = r[s \ {Chosen(s)}] * Whole
        BY <3>2, <4>1 DEF Folded, Folds
      <4> QED BY <3>2, <4>2, Zenon DEF Chosen
    <3> QED BY <3>1, <3>2
  <2> HIDE DEF f
  <2> QED BY <2>1, Zenon DEF Folds
<1>3. FullScale = (CHOOSE r : Equation(r))[Notes]
  BY DEF FullScale, FoldSet, MapThenFoldSet
<1> HIDE DEF Equation, f
<1>4. Equation(CHOOSE r : Equation(r))
  BY <1>1, <1>2, Zenon
<1> QED BY <1>2, <1>3, <1>4 DEF IsFold, f

LEMMA ScaleIsPositive == FullScale \in Nat /\ FullScale > 0
<1> DEFINE f == [n \in Notes |-> Whole]
<1>1. IsFold("product", Notes, f, FullScale)
  BY ScaleIsFold
<1>2. \A n \in Notes : f[n] \in Int /\ f[n] > 0
  BY BoundsAssumption
<1> HIDE DEF f
<1>3. FullScale \in Int /\ FullScale > 0
  BY <1>1, <1>2, BoundsAssumption, ProductIsPositive
<1> QED BY <1>3

(* Lower factors of the notes, none of them negative, have a lower product. *)
LEMMA FactorIsMonotone ==
    ASSUME NEW D, NEW E, NEW h,
           \A n \in Notes : /\ NoteFactor(E, n, h) \in Int /\ NoteFactor(D, n, h) \in Int
                            /\ 0 <= NoteFactor(E, n, h)
                            /\ NoteFactor(E, n, h) <= NoteFactor(D, n, h)
    PROVE  /\ Factor(E, h) \in Int /\ Factor(D, h) \in Int
           /\ 0 <= Factor(E, h) /\ Factor(E, h) <= Factor(D, h)
<1> DEFINE e == [n \in Notes |-> NoteFactor(E, n, h)]
           f == [n \in Notes |-> NoteFactor(D, n, h)]
<1>1. IsFold("product", Notes, e, Factor(E, h)) /\ IsFold("product", Notes, f, Factor(D, h))
  BY FactorIsFold
<1>2. \A n \in Notes : e[n] \in Int /\ f[n] \in Int /\ 0 <= e[n] /\ e[n] <= f[n]
  OBVIOUS
<1> HIDE DEF e, f
<1> QED BY <1>1, <1>2, BoundsAssumption, ProductIsMonotone

LEMMA FactorIsNumber ==
    ASSUME NEW D, Combinable(D), NEW h
    PROVE  Factor(D, h) \in Int
<1> DEFINE e == [n \in Notes |-> NoteFactor(D, n, h)]
<1>1. IsFold("product", Notes, e, Factor(D, h))
  BY FactorIsFold
<1>2. \A n \in Notes : e[n] \in Int
  BY HourFacts, 0 \in Int
<1> HIDE DEF e
<1> QED BY <1>1, <1>2, BoundsAssumption, ProductIsNumber

(* A factor is a part of the full scale, of which it is all if there is no directive. *)
LEMMA FactorRange ==
    ASSUME NEW D, Combinable(D), FactorsNotNegative(D), NEW h
    PROVE  Factor(D, h) \in Int /\ 0 <= Factor(D, h) /\ Factor(D, h) <= FullScale
<1> DEFINE e == [n \in Notes |-> NoteFactor(D, n, h)]
           f == [n \in Notes |-> Whole]
<1>1. IsFold("product", Notes, e, Factor(D, h)) /\ IsFold("product", Notes, f, FullScale)
  BY FactorIsFold, ScaleIsFold
<1>2. ASSUME NEW n \in Notes PROVE e[n] \in Int /\ f[n] \in Int /\ 0 <= e[n] /\ e[n] <= f[n]
  <2>1. NoteFactor(D, n, h) \in Int /\ NoteFactor(D, n, h) <= Whole
    BY HourFacts, 0 \in Int
  <2>2. 0 <= NoteFactor(D, n, h)
    BY NoteFactorFrom, BoundsAssumption DEF FactorsNotNegative, Combinable
  <2> QED BY <2>1, <2>2, BoundsAssumption
<1> HIDE DEF e, f
<1> QED BY <1>1, <1>2, BoundsAssumption, ProductIsMonotone

LEMMA NoFactor ==
    ASSUME NEW h
    PROVE  Factor({}, h) = FullScale
<1> DEFINE e == [n \in Notes |-> NoteFactor({}, n, h)]
           f == [n \in Notes |-> Whole]
<1>1. IsFold("product", Notes, e, Factor({}, h)) /\ IsFold("product", Notes, f, FullScale)
  BY FactorIsFold, ScaleIsFold
<1>2. \A n \in Notes : e[n] = Whole /\ f[n] = Whole
  <2>1. Combinable({})
    BY FS_EmptySet DEF Combinable
  <2> QED BY <2>1, NoteFactorFrom
<1>3. \A n \in Notes : /\ e[n] \in Int /\ f[n] \in Int /\ 0 <= e[n] /\ 0 <= f[n]
                       /\ e[n] <= f[n] /\ f[n] <= e[n]
  <2> HIDE DEF e, f
  <2> QED BY <1>2, BoundsAssumption
<1> HIDE DEF e, f
<1>4. /\ Factor({}, h) \in Int /\ FullScale \in Int
      /\ Factor({}, h) <= FullScale /\ FullScale <= Factor({}, h)
  BY <1>1, <1>3, BoundsAssumption, ProductIsMonotone
<1> QED BY <1>4

-----------------------------------------------------------------------------
(* The bounds of more directives are tighter.                               *)

LEMMA KeptFacts ==
    ASSUME NEW A, Combinable(A), NEW hedges
    PROVE  /\ Kept(A, hedges) \subseteq A
           /\ Combinable(Kept(A, hedges))
           /\ Kept(A, FALSE) \subseteq Kept(A, TRUE)
           /\ FactorsNotNegative(A) => FactorsNotNegative(Kept(A, hedges))
<1>1. Kept(A, hedges) \subseteq A /\ Kept(A, FALSE) \subseteq Kept(A, TRUE)
  BY DEF Kept
<1> QED BY <1>1, FS_Subset DEF Combinable, FactorsNotNegative

(* All but the factors. *)
LEMMA TighterButFactor ==
    ASSUME NEW A, Combinable(A), NEW B, Combinable(B), NEW base \in Int, NEW hA, NEW hB,
           Kept(B, hB) \subseteq Kept(A, hA), NEW h \in Hours
    PROVE  LET b == BuildBounds(A, base, hA)
               c == BuildBounds(B, base, hB)
           IN  /\ b.reserve[h] >= c.reserve[h]
               /\ b.chargeOk[h] => c.chargeOk[h]
               /\ b.dischargeOk[h] => c.dischargeOk[h]
               /\ b.gridCap[h] <= c.gridCap[h]
<1> DEFINE E == Kept(A, hA)
           D == Kept(B, hB)
<1>1. Combinable(E)
  BY KeptFacts
<1>2. /\ Reserve(E, base, h) >= Reserve(D, base, h)
      /\ GridCap(E, h) <= GridCap(D, h)
      /\ \A type : On(D, type, h) \subseteq On(E, type, h)
  <2> HIDE DEF D, E
  <2>1. D \subseteq E
    BY DEF D, E
  <2> QED BY <1>1, <2>1, HourFacts
<1>3. /\ On(E, "no_charge_window", h) = {} => On(D, "no_charge_window", h) = {}
      /\ On(E, "no_discharge_window", h) = {} => On(D, "no_discharge_window", h) = {}
  BY <1>2
<1> DEFINE b == BuildBounds(A, base, hA)
           c == BuildBounds(B, base, hB)
<1>4. /\ b.reserve[h] = Reserve(E, base, h)
      /\ b.chargeOk[h] <=> On(E, "no_charge_window", h) = {}
      /\ b.dischargeOk[h] <=> On(E, "no_discharge_window", h) = {}
      /\ b.gridCap[h] = GridCap(E, h)
  BY DEF BuildBounds
<1>5. /\ c.reserve[h] = Reserve(D, base, h)
      /\ c.chargeOk[h] <=> On(D, "no_charge_window", h) = {}
      /\ c.dischargeOk[h] <=> On(D, "no_discharge_window", h) = {}
      /\ c.gridCap[h] = GridCap(D, h)
  BY DEF BuildBounds
<1> HIDE DEF b, c, D, E
<1>6. /\ b.reserve[h] >= c.reserve[h]
      /\ b.chargeOk[h] => c.chargeOk[h]
      /\ b.dischargeOk[h] => c.dischargeOk[h]
      /\ b.gridCap[h] <= c.gridCap[h]
  BY <1>2, <1>3, <1>4, <1>5
<1> QED BY <1>6 DEF b, c

(* If no factor is negative, more directives allow no more. *)
LEMMA MoreDirectivesTighten ==
    ASSUME NEW A, Combinable(A), NEW B, Combinable(B), NEW base \in Int, NEW hA, NEW hB,
           Kept(B, hB) \subseteq Kept(A, hA), FactorsNotNegative(Kept(A, hA))
    PROVE  Tighter(BuildBounds(A, base, hA), BuildBounds(B, base, hB))
<1> DEFINE E == Kept(A, hA)
           D == Kept(B, hB)
           b == BuildBounds(A, base, hA)
           c == BuildBounds(B, base, hB)
<1>1. Combinable(E) /\ FactorsNotNegative(E) /\ D \subseteq E
  BY KeptFacts
<1>2. ASSUME NEW h \in Hours PROVE b.factor[h] <= c.factor[h]
  <2>1. ASSUME NEW n \in Notes
        PROVE  /\ NoteFactor(E, n, h) \in Int /\ NoteFactor(D, n, h) \in Int
               /\ 0 <= NoteFactor(E, n, h) /\ NoteFactor(E, n, h) <= NoteFactor(D, n, h)
    <3> HIDE DEF D, E
    <3>1. 0 <= NoteFactor(E, n, h)
      BY <1>1, NoteFactorFrom, BoundsAssumption DEF FactorsNotNegative, Combinable
    <3> QED BY <1>1, <3>1, HourFacts, 0 \in Int
  <2>2. Factor(E, h) <= Factor(D, h)
    <3> HIDE DEF D, E
    <3> QED BY <2>1, FactorIsMonotone
  <2>3. b.factor[h] = Factor(E, h) /\ c.factor[h] = Factor(D, h)
    BY DEF BuildBounds
  <2> QED BY <2>2, <2>3
<1>3. ASSUME NEW h \in Hours
      PROVE  /\ b.reserve[h] >= c.reserve[h]
             /\ b.chargeOk[h] => c.chargeOk[h]
             /\ b.dischargeOk[h] => c.dischargeOk[h]
             /\ b.gridCap[h] <= c.gridCap[h]
  BY TighterButFactor
<1> HIDE DEF b, c
<1>4. Tighter(b, c)
  BY <1>2, <1>3 DEF Tighter
<1> QED BY <1>4 DEF b, c

(* Bounds are whole numbers; the reserve is never below the base.           *)
NumericBounds(b) ==
    \A h \in Hours :
        /\ b.factor[h] \in Int /\ b.reserve[h] \in Int
        /\ b.gridCap[h] \in Int /\ b.gridCap[h] <= Unlimited

LEMMA BuiltBoundsAreNumeric ==
    ASSUME NEW A, Combinable(A), NEW base \in Int, NEW hedges
    PROVE  /\ NumericBounds(BuildBounds(A, base, hedges))
           /\ \A h \in Hours : BuildBounds(A, base, hedges).reserve[h] >= base
<1> DEFINE D == Kept(A, hedges)
<1>1. Combinable(D)
  BY KeptFacts
<1>2. ASSUME NEW h \in Hours
      PROVE  /\ Factor(D, h) \in Int /\ GridCap(D, h) \in Int /\ GridCap(D, h) <= Unlimited
             /\ Reserve(D, base, h) \in Int /\ Reserve(D, base, h) >= base
  <2> HIDE DEF D
  <2> QED BY <1>1, FactorIsNumber, HourFacts
<1> QED BY <1>2 DEF BuildBounds, NumericBounds

(* Hedges tighten even if one note has a negative factor among its hedges.  *)
LEMMA HedgesTighten ==
    ASSUME NEW A, Combinable(A), NEW base \in Int, FactorsNotNegative(Kept(A, FALSE)),
           \A d, e \in A : /\ d.type = "solar_reduction" /\ d.value < 0
                           /\ e.type = "solar_reduction" /\ e.value < 0
                           => d.note = e.note
    PROVE  Tighter(BuildBounds(A, base, TRUE), BuildBounds(A, base, FALSE))
<1> DEFINE E == Kept(A, TRUE)
           D == Kept(A, FALSE)
           b == BuildBounds(A, base, TRUE)
           c == BuildBounds(A, base, FALSE)
<1>1. Combinable(E) /\ Combinable(D) /\ FactorsNotNegative(D) /\ D \subseteq E /\ E \subseteq A
  BY KeptFacts
<1>2. ASSUME NEW h \in Hours PROVE b.factor[h] <= c.factor[h]
  <2>1. ASSUME NEW n \in Notes
        PROVE  /\ NoteFactor(E, n, h) \in Int /\ NoteFactor(D, n, h) \in Int
               /\ NoteFactor(E, n, h) <= NoteFactor(D, n, h)
    <3> HIDE DEF D, E
    <3> QED BY <1>1, HourFacts, 0 \in Int
  <2>0. b.factor[h] = Factor(E, h) /\ c.factor[h] = Factor(D, h)
    BY DEF BuildBounds
  <2> HIDE DEF b, c, D, E
  <2>2. Factor(D, h) \in Int /\ 0 <= Factor(D, h)
    BY <1>1, FactorRange
  <2>3. CASE \A n \in Notes : 0 <= NoteFactor(E, n, h)
    <3>1. Factor(E, h) <= Factor(D, h)
      BY <2>1, <2>3, FactorIsMonotone
    <3> QED BY <2>0, <3>1
  <2>4. CASE \E n \in Notes : ~(0 <= NoteFactor(E, n, h))
    <3>1. PICK m \in Notes : NoteFactor(E, m, h) < 0
      BY <2>1, <2>4
    <3>2. ASSUME NEW n \in Notes, n # m PROVE 0 <= NoteFactor(E, n, h)
      <4>1. ASSUME NEW k \in Notes, NoteFactor(E, k, h) < 0
            PROVE  \E d \in A : d.type = "solar_reduction" /\ d.value < 0 /\ d.note = k
        BY <1>1, <4>1, NoteFactorFrom, BoundsAssumption
      <4>2. \A k, l \in Notes : NoteFactor(E, k, h) < 0 /\ NoteFactor(E, l, h) < 0 => k = l
        BY <4>1
      <4> QED BY <2>1, <3>1, <3>2, <4>2
    <3> DEFINE f == [n \in Notes |-> NoteFactor(E, n, h)]
    <3>3. IsFold("product", Notes, f, Factor(E, h))
      BY FactorIsFold
    <3>4. (\A n \in Notes : f[n] \in Int /\ (n # m => f[n] >= 0)) /\ f[m] <= 0
      BY <2>1, <3>1, <3>2
    <3>5. Factor(E, h) \in Int /\ Factor(E, h) <= 0
      <4> HIDE DEF f
      <4> QED BY <3>1, <3>3, <3>4, BoundsAssumption, ProductWithNegative
    <3> QED BY <2>0, <2>2, <3>5
  <2> QED BY <2>3, <2>4
<1>3. ASSUME NEW h \in Hours
      PROVE  /\ b.reserve[h] >= c.reserve[h]
             /\ b.chargeOk[h] => c.chargeOk[h]
             /\ b.dischargeOk[h] => c.dischargeOk[h]
             /\ b.gridCap[h] <= c.gridCap[h]
  BY <1>1, TighterButFactor
<1> HIDE DEF b, c
<1>4. Tighter(b, c)
  BY <1>2, <1>3 DEF Tighter
<1> QED BY <1>4 DEF b, c
=============================================================================
