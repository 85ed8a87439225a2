------------------------------ MODULE SumProofs ------------------------------
(***************************************************************************)
(* Facts about SumFunction of the community modules, for every finite set  *)
(* of terms: what sum_lines of services/line_calculator.py and the SUM     *)
(* queries of the reports compute.  SumFunction takes the terms in an      *)
(* order of its own, the same one for every function of a set, so that     *)
(* sums of one set are compared term by term.                              *)
(*                                                                         *)
(* Induction is over sets of numbers: the least counterexample comes from  *)
(* the well-foundedness of < on Nat.                                       *)
(***************************************************************************)
EXTENDS Integers, Functions, FiniteSetTheorems, WellFoundedInduction, TLAPS

(* A set of natural numbers has a least element.                           *)
LEMMA NatLeast ==
  ASSUME NEW T, T \subseteq Nat, T # {}
  PROVE  \E n \in T : \A m \in T : n <= m
<1> DEFINE R == OpToRel(<, Nat)
<1>1. IsWellFoundedOn(R, Nat)
  BY NatLessThanWellFounded
<1>2. \A a, b \in Nat : <<a, b>> \in R <=> a < b
  BY DEF OpToRel
<1> HIDE DEF R
<1>3. PICK n \in T : \A m \in T : ~(<<m, n>> \in R)
  BY <1>1, WFMin
<1>4. \A m \in T : m \in Nat /\ n \in Nat /\ ~(m < n)
  BY <1>2, <1>3
<1>5. \A m \in T : n <= m
  BY <1>4
<1> QED
  BY <1>5

(* Induction, with a set in place of a predicate.                          *)
LEMMA SetInduction ==
  ASSUME NEW P, 0 \in P, \A n \in Nat : n \in P => n + 1 \in P
  PROVE  \A n \in Nat : n \in P
<1> SUFFICES ASSUME Nat \ P # {} PROVE FALSE
  OBVIOUS
<1>1. PICK n \in Nat \ P : \A m \in Nat \ P : n <= m
  BY NatLeast
<1>2. n # 0 /\ n - 1 \in Nat /\ n - 1 \in P
  BY <1>1
<1> QED
  BY <1>1, <1>2

(* The term of a set that SumFunction takes next                           *)
Chosen(s) == CHOOSE x \in s : TRUE

(* g has the sum of f over every subset of S.                              *)
IsSum(g, f, S) ==
  g = [s \in SUBSET S |->
         IF s = {} THEN 0 ELSE f[Chosen(s)] + g[s \ {Chosen(s)}]]

(* The definition of SumFunction, with its recursive function named.       *)
LEMMA SumChoice ==
  ASSUME NEW f
  PROVE  SumFunction(f) = (CHOOSE g : IsSum(g, f, DOMAIN f))[DOMAIN f]
BY DEF SumFunction, SumFunctionOnSet, FoldFunctionOnSet, MapThenFoldSet, IsSum,
       Chosen

(* SumFunction takes a term that there is.                                 *)
LEMMA ChosenIsMember == \A s : s # {} => Chosen(s) \in s
  BY DEF Chosen

(* The subsets of S of at most n elements                                  *)
UpTo(S, n) == {s \in SUBSET S : Cardinality(s) <= n}

(* The recursive function of SumFunction exists: from the subsets of n     *)
(* elements it is defined on those of one more.                            *)
LEMMA SumExists ==
  ASSUME NEW S, IsFiniteSet(S), NEW f \in [S -> Int]
  PROVE  \E g \in [SUBSET S -> Int] : IsSum(g, f, S)
<1> DEFINE Sums(g, n) ==
             \A s \in UpTo(S, n) :
               g[s] = IF s = {} THEN 0 ELSE f[Chosen(s)] + g[s \ {Chosen(s)}]
           P == {n \in Nat : \E g \in [UpTo(S, n) -> Int] : Sums(g, n)}
<1>1. \A s \in SUBSET S :
        /\ Cardinality(s) \in Nat
        /\ Cardinality(s) = 0 => s = {}
        /\ s # {} => /\ Chosen(s) \in s
                     /\ f[Chosen(s)] \in Int
                     /\ Cardinality(s \ {Chosen(s)}) = Cardinality(s) - 1
  <2> SUFFICES ASSUME NEW s \in SUBSET S
               PROVE  /\ Cardinality(s) \in Nat
                      /\ Cardinality(s) = 0 => s = {}
                      /\ s # {} =>
                           /\ Chosen(s) \in s
                           /\ f[Chosen(s)] \in Int
                           /\ Cardinality(s \ {Chosen(s)}) = Cardinality(s) - 1
    OBVIOUS
  <2>1. IsFiniteSet(s)
    BY FS_Subset
  <2>2. Cardinality(s) \in Nat /\ (Cardinality(s) = 0 <=> s = {})
    BY <2>1, FS_CardinalityType, FS_EmptySet
  <2>3. ASSUME s # {}
        PROVE  /\ Chosen(s) \in s
               /\ f[Chosen(s)] \in Int
               /\ Cardinality(s \ {Chosen(s)}) = Cardinality(s) - 1
    <3>1. Chosen(s) \in s
      BY <2>3, ChosenIsMember
    <3> HIDE DEF Chosen
    <3>2. Cardinality(s \ {Chosen(s)}) = Cardinality(s) - 1
      BY <2>1, <3>1, FS_RemoveElement
    <3> QED
      BY <3>1, <3>2
  <2> QED
    BY <2>2, <2>3
<1>2. \A n \in Int : \A s :
        s \in UpTo(S, n) <=> s \in SUBSET S /\ Cardinality(s) <= n
  BY DEF UpTo
<1>3. 0 \in P
  <2>1. \A s \in UpTo(S, 0) : s = {}
    <3> SUFFICES ASSUME NEW s \in UpTo(S, 0) PROVE s = {}
      OBVIOUS
    <3>1. s \in SUBSET S /\ Cardinality(s) <= 0
      BY <1>2
    <3>2. Cardinality(s) \in Nat
      BY <1>1, <3>1
    <3>3. Cardinality(s) = 0
      BY <3>1, <3>2
    <3> QED
      BY <1>1, <3>1, <3>3
  <2>2. PICK g \in [UpTo(S, 0) -> Int] : \A s \in UpTo(S, 0) : g[s] = 0
    <3>1. [s \in UpTo(S, 0) |-> 0] \in [UpTo(S, 0) -> Int]
      OBVIOUS
    <3> QED
      BY <3>1
  <2>3. Sums(g, 0)
    BY <2>1, <2>2
  <2> QED
    BY <2>3
<1>4. ASSUME NEW n \in Nat, n \in P PROVE n + 1 \in P
  <2>1. PICK g \in [UpTo(S, n) -> Int] : Sums(g, n)
    BY <1>4
  <2>2. \A s \in UpTo(S, n + 1) : s # {} => s \ {Chosen(s)} \in UpTo(S, n)
    <3> SUFFICES ASSUME NEW s \in UpTo(S, n + 1), s # {}
                 PROVE  s \ {Chosen(s)} \in UpTo(S, n)
      OBVIOUS
    <3>1. s \in SUBSET S /\ Cardinality(s) <= n + 1
      BY <1>2
    <3>2. /\ Cardinality(s) \in Nat
          /\ Cardinality(s \ {Chosen(s)}) = Cardinality(s) - 1
      BY <1>1, <3>1
    <3>3. s \ {Chosen(s)} \in SUBSET S /\ Cardinality(s \ {Chosen(s)}) <= n
      BY <3>1, <3>2
    <3> QED
      BY <1>2, <3>3
  <2>3. \A s \in UpTo(S, n) : s \in UpTo(S, n + 1)
    <3> SUFFICES ASSUME NEW s \in UpTo(S, n) PROVE s \in UpTo(S, n + 1)
      OBVIOUS
    <3>1. s \in SUBSET S /\ Cardinality(s) <= n
      BY <1>2
    <3>2. Cardinality(s) \in Nat
      BY <1>1, <3>1
    <3>3. Cardinality(s) <= n + 1
      BY <3>1, <3>2
    <3> QED
      BY <1>2, <3>1, <3>3
  <2>4. PICK h :
          h = [s \in UpTo(S, n + 1) |->
                 IF s = {} THEN 0 ELSE f[Chosen(s)] + g[s \ {Chosen(s)}]]
    OBVIOUS
  <2>5. \A s \in UpTo(S, n + 1) :
          h[s] = IF s = {} THEN 0 ELSE f[Chosen(s)] + g[s \ {Chosen(s)}]
    BY <2>4
  <2>6. \A s \in UpTo(S, n) : h[s] = g[s]
    BY <2>1, <2>3, <2>5
  <2>7. Sums(h, n + 1)
    BY <2>2, <2>5, <2>6
  <2>8. \A s \in UpTo(S, n + 1) : h[s] \in Int
    <3> SUFFICES ASSUME NEW s \in UpTo(S, n + 1) PROVE h[s] \in Int
      OBVIOUS
    <3>1. CASE s = {}
      BY <2>5, <3>1
    <3>2. CASE s # {}
      <4>1. s \in SUBSET S
        BY <1>2
      <4>2. f[Chosen(s)] \in Int
        BY <1>1, <3>2, <4>1
      <4>3. g[s \ {Chosen(s)}] \in Int
        BY <2>1, <2>2, <3>2
      <4>4. h[s] = f[Chosen(s)] + g[s \ {Chosen(s)}]
        BY <2>5, <3>2
      <4> HIDE DEF Chosen
      <4> QED
        BY <4>2, <4>3, <4>4
    <3> QED
      BY <3>1, <3>2
  <2>9. h \in [UpTo(S, n + 1) -> Int]
    BY <2>4, <2>8
  <2> HIDE DEF Sums
  <2>10. \E k \in [UpTo(S, n + 1) -> Int] : Sums(k, n + 1)
    BY <2>7, <2>9
  <2>11. n + 1 \in Nat
    OBVIOUS
  <2> QED
    BY <2>10, <2>11
<1>5. Cardinality(S) \in Nat /\ SUBSET S = UpTo(S, Cardinality(S))
  BY FS_CardinalityType, FS_Subset DEF UpTo
<1>6. Cardinality(S) \in P
  <2> HIDE DEF P
  <2> QED
    BY <1>3, <1>4, <1>5, SetInduction
<1>7. PICK g \in [SUBSET S -> Int] : Sums(g, Cardinality(S))
  BY <1>5, <1>6
<1>8. g = [s \in SUBSET S |-> g[s]]
  OBVIOUS
<1>9. IsSum(g, f, S)
  BY <1>5, <1>7, <1>8 DEF IsSum
<1> QED
  BY <1>9

(* The recursive function of SumFunction                                   *)
SumOn(f, S) == CHOOSE g : IsSum(g, f, S)

(* What holds of the empty set, and of a set when it holds of the set      *)
(* without the term taken next, holds of the whole set.                    *)
LEMMA SumInduction ==
  ASSUME NEW S, IsFiniteSet(S), NEW P, {} \in P,
         \A s \in SUBSET S : s # {} /\ s \ {Chosen(s)} \in P => s \in P
  PROVE  S \in P
<1> DEFINE N == {n \in Nat : \A s \in SUBSET S : Cardinality(s) = n => s \in P}
<1>1. ASSUME NEW s \in SUBSET S
      PROVE  /\ Cardinality(s) \in Nat
             /\ Cardinality(s) = 0 => s = {}
             /\ s # {} => Cardinality(s \ {Chosen(s)}) = Cardinality(s) - 1
  <2>1. IsFiniteSet(s)
    BY FS_Subset
  <2>2. s # {} => Chosen(s) \in s
    BY ChosenIsMember
  <2> QED
    BY <2>1, <2>2, FS_CardinalityType, FS_EmptySet, FS_RemoveElement
<1>2. 0 \in N
  BY <1>1
<1>3. ASSUME NEW n \in Nat, n \in N PROVE n + 1 \in N
  <2> SUFFICES ASSUME NEW s \in SUBSET S, Cardinality(s) = n + 1
               PROVE  s \in P
    OBVIOUS
  <2>1. s # {}
    BY FS_EmptySet
  <2>2. s \ {Chosen(s)} \in SUBSET S /\ Cardinality(s \ {Chosen(s)}) = n
    BY <1>1, <2>1
  <2>3. s \ {Chosen(s)} \in P
    BY <1>3, <2>2
  <2> QED
    BY <2>1, <2>3
<1>4. Cardinality(S) \in N
  <2> HIDE DEF N
  <2> QED
    BY <1>1, <1>2, <1>3, SetInduction
<1> QED
  BY <1>4

(* The recursive function of SumFunction obeys its equation.               *)
LEMMA SumOnSubsets ==
  ASSUME NEW S, IsFiniteSet(S), NEW f \in [S -> Int]
  PROVE  /\ \A s \in SUBSET S : SumOn(f, S)[s] \in Int
         /\ SumOn(f, S)[{}] = 0
         /\ \A s \in SUBSET S : s # {} =>
              /\ Chosen(s) \in s
              /\ SumOn(f, S)[s] = f[Chosen(s)] + SumOn(f, S)[s \ {Chosen(s)}]
<1>1. IsSum(SumOn(f, S), f, S)
  BY SumExists DEF SumOn
<1> DEFINE g == SumOn(f, S)
<1> HIDE DEF g
<1>2. g = [s \in SUBSET S |->
             IF s = {} THEN 0 ELSE f[Chosen(s)] + g[s \ {Chosen(s)}]]
  BY <1>1 DEF IsSum, g
<1>3. g[{}] = 0
  BY <1>2
<1>4. \A s \in SUBSET S : s # {} =>
        /\ Chosen(s) \in s
        /\ g[s] = f[Chosen(s)] + g[s \ {Chosen(s)}]
  BY <1>2, ChosenIsMember
<1>5. \A s \in SUBSET S : g[s] \in Int
  <2> SUFFICES ASSUME NEW s \in SUBSET S PROVE g[s] \in Int
    OBVIOUS
  <2> DEFINE P == {t \in SUBSET S : g[t] \in Int}
  <2>1. {} \in P
    BY <1>3
  <2>2. \A t \in SUBSET s : t # {} /\ t \ {Chosen(t)} \in P => t \in P
    BY <1>4
  <2>3. IsFiniteSet(s)
    BY FS_Subset
  <2> HIDE DEF P
  <2>4. s \in P
    BY <2>1, <2>2, <2>3, SumInduction
  <2> QED
    BY <2>4 DEF P
<1> QED
  BY <1>3, <1>4, <1>5 DEF g

(* SumFunction is its value for all terms.                                 *)
LEMMA SumIsSumOn ==
  ASSUME NEW S, NEW f \in [S -> Int]
  PROVE  SumFunction(f) = SumOn(f, S)[S]
<1>1. DOMAIN f = S
  OBVIOUS
<1> QED
  BY <1>1, SumChoice DEF SumOn

(* A sum of integers is an integer.                                        *)
LEMMA SumIsInt ==
  ASSUME NEW S, IsFiniteSet(S), NEW f \in [S -> Int]
  PROVE  SumFunction(f) \in Int
BY SumIsSumOn, SumOnSubsets

(* The sum of two functions' values is the sum of their sums.              *)
LEMMA SumAdds ==
  ASSUME NEW S, IsFiniteSet(S), NEW a \in [S -> Int], NEW b \in [S -> Int]
  PROVE  SumFunction([x \in S |-> a[x] + b[x]])
           = SumFunction(a) + SumFunction(b)
<1> DEFINE c == [x \in S |-> a[x] + b[x]]
           P == {s \in SUBSET S :
                   SumOn(c, S)[s] = SumOn(a, S)[s] + SumOn(b, S)[s]}
<1>1. c \in [S -> Int] /\ \A x \in S : c[x] = a[x] + b[x]
  OBVIOUS
<1> HIDE DEF c
<1>2. {} \in P
  BY <1>1, SumOnSubsets
<1>3. ASSUME NEW s \in SUBSET S, s # {}, s \ {Chosen(s)} \in P PROVE s \in P
  <2>1. /\ SumOn(a, S)[s] = a[Chosen(s)] + SumOn(a, S)[s \ {Chosen(s)}]
        /\ SumOn(b, S)[s] = b[Chosen(s)] + SumOn(b, S)[s \ {Chosen(s)}]
        /\ SumOn(c, S)[s] = c[Chosen(s)] + SumOn(c, S)[s \ {Chosen(s)}]
        /\ Chosen(s) \in S
    BY <1>1, <1>3, SumOnSubsets
  <2>2. \A t \in SUBSET S : SumOn(a, S)[t] \in Int /\ SumOn(b, S)[t] \in Int
    BY SumOnSubsets
  <2>3. /\ SumOn(a, S)[s \ {Chosen(s)}] \in Int
        /\ SumOn(b, S)[s \ {Chosen(s)}] \in Int
        /\ a[Chosen(s)] \in Int /\ b[Chosen(s)] \in Int
        /\ c[Chosen(s)] = a[Chosen(s)] + b[Chosen(s)]
    BY <1>1, <2>1, <2>2
  <2> QED
    BY <1>3, <2>1, <2>3
<1> HIDE DEF P
<1>4. S \in P
  BY <1>2, <1>3, SumInduction
<1> QED
  BY <1>1, <1>4, SumIsSumOn DEF P, c

(* A factor can be taken out of a sum.                                     *)
LEMMA SumScales ==
  ASSUME NEW S, IsFiniteSet(S), NEW a \in [S -> Int], NEW k \in Int
  PROVE  SumFunction([x \in S |-> a[x] * k]) = SumFunction(a) * k
<1> DEFINE c == [x \in S |-> a[x] * k]
           P == {s \in SUBSET S : SumOn(c, S)[s] = SumOn(a, S)[s] * k}
<1>1. c \in [S -> Int] /\ \A x \in S : c[x] = a[x] * k
  OBVIOUS
<1> HIDE DEF c
<1>2. {} \in P
  BY <1>1, SumOnSubsets
<1>3. ASSUME NEW s \in SUBSET S, s # {}, s \ {Chosen(s)} \in P PROVE s \in P
  <2>1. /\ SumOn(a, S)[s] = a[Chosen(s)] + SumOn(a, S)[s \ {Chosen(s)}]
        /\ SumOn(c, S)[s] = c[Chosen(s)] + SumOn(c, S)[s \ {Chosen(s)}]
        /\ Chosen(s) \in S
    BY <1>1, <1>3, SumOnSubsets
  <2>2. \A t \in SUBSET S : SumOn(a, S)[t] \in Int
    BY SumOnSubsets
  <2>3. /\ SumOn(a, S)[s \ {Chosen(s)}] \in Int
        /\ a[Chosen(s)] \in Int
        /\ c[Chosen(s)] = a[Chosen(s)] * k
    BY <1>1, <2>1, <2>2
  <2>4. SumOn(c, S)[s \ {Chosen(s)}] = SumOn(a, S)[s \ {Chosen(s)}] * k
    BY <1>3
  <2>5. \A u, v \in Int : u * k + v * k = (u + v) * k
    OBVIOUS
  <2> QED
    BY <2>1, <2>3, <2>4, <2>5
<1> HIDE DEF P
<1>4. S \in P
  BY <1>2, <1>3, SumInduction
<1> QED
  BY <1>1, <1>4, SumIsSumOn DEF P, c

(* A sum of terms within a bound is within the bound for each term.        *)
LEMMA SumIsBounded ==
  ASSUME NEW S, IsFiniteSet(S), NEW a \in [S -> Int], NEW bound \in Int,
         \A x \in S : -bound <= a[x] /\ a[x] <= bound
  PROVE  /\ -(bound * Cardinality(S)) <= SumFunction(a)
         /\ SumFunction(a) <= bound * Cardinality(S)
<1> DEFINE Bounded(v, n) == -(bound * n) <= v /\ v <= bound * n
           P == {s \in SUBSET S : Bounded(SumOn(a, S)[s], Cardinality(s))}
<1>1. {} \in P
  <2>1. SumOn(a, S)[{}] = 0 /\ Cardinality({}) = 0
    BY SumOnSubsets, FS_EmptySet
  <2>2. Bounded(0, 0)
    OBVIOUS
  <2> QED
    BY <2>1, <2>2
<1>2. ASSUME NEW s \in SUBSET S, s # {}, s \ {Chosen(s)} \in P PROVE s \in P
  <2> DEFINE rest == s \ {Chosen(s)}
  <2>1. /\ SumOn(a, S)[s] = a[Chosen(s)] + SumOn(a, S)[rest]
        /\ Chosen(s) \in s
    BY <1>2, SumOnSubsets
  <2>2. \A t \in SUBSET S : SumOn(a, S)[t] \in Int
    BY SumOnSubsets
  <2>3. IsFiniteSet(s)
    BY FS_Subset
  <2>4. Cardinality(s) \in Nat /\ Cardinality(rest) = Cardinality(s) - 1
    BY <2>1, <2>3, FS_CardinalityType, FS_RemoveElement
  <2>5. \A v, w \in Int, n \in Nat :
          /\ -bound <= w /\ w <= bound
          /\ Bounded(v, n - 1)
          => Bounded(w + v, n)
    <3> SUFFICES ASSUME NEW v \in Int, NEW w \in Int, NEW n \in Nat,
                        -bound <= w, w <= bound, Bounded(v, n - 1)
                 PROVE  Bounded(w + v, n)
      OBVIOUS
    <3>1. bound * n = bound * (n - 1) + bound
      OBVIOUS
    <3>2. bound * n \in Int /\ bound * (n - 1) \in Int
      OBVIOUS
    <3> QED
      BY <3>1, <3>2
  <2>6. a[Chosen(s)] \in Int /\ -bound <= a[Chosen(s)] /\ a[Chosen(s)] <= bound
    BY <2>1
  <2>7. Bounded(SumOn(a, S)[rest], Cardinality(s) - 1)
    BY <1>2, <2>4
  <2>8. SumOn(a, S)[rest] \in Int
    BY <2>2
  <2> HIDE DEF Bounded, rest
  <2>9. Bounded(SumOn(a, S)[s], Cardinality(s))
    BY <2>1, <2>4, <2>5, <2>6, <2>7, <2>8
  <2> QED
    BY <2>9
<1> HIDE DEF P
<1>3. S \in P
  BY <1>1, <1>2, SumInduction
<1> QED
  BY <1>3, SumIsSumOn DEF P

(* So are two sums weighed against each other, when their terms are.       *)
LEMMA WeighedSumIsBounded ==
  ASSUME NEW S, IsFiniteSet(S), NEW a \in [S -> Int], NEW b \in [S -> Int],
         NEW k \in Int, NEW l \in Int, NEW bound \in Int,
         \A x \in S : /\ -bound <= a[x] * k + b[x] * l
                      /\ a[x] * k + b[x] * l <= bound
  PROVE  /\ -(bound * Cardinality(S)) <= SumFunction(a) * k + SumFunction(b) * l
         /\ SumFunction(a) * k + SumFunction(b) * l <= bound * Cardinality(S)
<1>1. PICK c : c = [x \in S |-> a[x] * k] /\ c \in [S -> Int]
  <2>1. [x \in S |-> a[x] * k] \in [S -> Int]
    OBVIOUS
  <2> QED
    BY <2>1
<1>2. PICK d : d = [x \in S |-> b[x] * l] /\ d \in [S -> Int]
  <2>1. [x \in S |-> b[x] * l] \in [S -> Int]
    OBVIOUS
  <2> QED
    BY <2>1
<1>3. PICK e : e = [x \in S |-> c[x] + d[x]] /\ e \in [S -> Int]
  <2>1. [x \in S |-> c[x] + d[x]] \in [S -> Int]
    BY <1>1, <1>2
  <2> QED
    BY <2>1
<1>4. SumFunction(c) = SumFunction(a) * k /\ SumFunction(d) = SumFunction(b) * l
  BY <1>1, <1>2, SumScales
<1>5. SumFunction(e) = SumFunction(c) + SumFunction(d)
  BY <1>1, <1>2, <1>3, SumAdds
<1>6. e \in [S -> Int] /\ \A x \in S : -bound <= e[x] /\ e[x] <= bound
  BY <1>1, <1>2, <1>3
<1>7. /\ -(bound * Cardinality(S)) <= SumFunction(e)
      /\ SumFunction(e) <= bound * Cardinality(S)
  BY <1>6, SumIsBounded
<1> QED
  BY <1>4, <1>5, <1>7

(* The members of a set, counted class by class, are not more than the     *)
(* set has.                                                                *)
LEMMA ClassesFit ==
  ASSUME NEW S, IsFiniteSet(S), NEW T, IsFiniteSet(T), NEW class,
         NEW counts, counts = [t \in T |-> Cardinality({x \in S : class[x] = t})]
  PROVE  /\ counts \in [T -> Nat]
         /\ SumFunction(counts) <= Cardinality(S)
<1> DEFINE In(U) == {x \in S : class[x] \in U}
           P == {U \in SUBSET T : SumOn(counts, T)[U] = Cardinality(In(U))}
<1>1. \A U : In(U) \in SUBSET S
  OBVIOUS
<1>2. \A U : IsFiniteSet(In(U)) /\ Cardinality(In(U)) \in Nat
  BY <1>1, FS_Subset, FS_CardinalityType
<1>3. ASSUME NEW t \in T
      PROVE  /\ counts[t] = Cardinality(In({t}))
             /\ counts[t] \in Nat
  <2>1. In({t}) = {x \in S : class[x] = t}
    OBVIOUS
  <2> QED
    BY <1>2, <2>1
<1>4. counts \in [T -> Nat] /\ counts \in [T -> Int]
  BY <1>3
<1>5. {} \in P
  <2>1. In({}) = {}
    OBVIOUS
  <2>2. SumOn(counts, T)[{}] = 0
    BY <1>4, SumOnSubsets
  <2> QED
    BY <2>1, <2>2, FS_EmptySet
<1>6. ASSUME NEW U \in SUBSET T, U # {}, U \ {Chosen(U)} \in P PROVE U \in P
  <2>1. PICK t : t = Chosen(U)
    OBVIOUS
  <2>2. PICK rest : rest = U \ {t}
    OBVIOUS
  <2>3. t \in U /\ SumOn(counts, T)[U] = counts[t] + SumOn(counts, T)[rest]
    <3>1. /\ Chosen(U) \in U
          /\ SumOn(counts, T)[U]
               = counts[Chosen(U)] + SumOn(counts, T)[U \ {Chosen(U)}]
      BY <1>4, <1>6, SumOnSubsets
    <3> QED
      BY <2>1, <2>2, <3>1
  <2>4. SumOn(counts, T)[rest] = Cardinality(In(rest))
    BY <1>6, <2>1, <2>2
  <2>5. In(U) = In({t}) \cup In(rest) /\ In({t}) \cap In(rest) = {}
    BY <2>2, <2>3
  <2>6. Cardinality(In(U))
          = Cardinality(In({t})) + Cardinality(In(rest)) - Cardinality({})
    <3> HIDE DEF In
    <3> QED
      BY <1>2, <2>5, FS_Union
  <2>7. counts[t] = Cardinality(In({t}))
    BY <1>3, <2>3
  <2>8. Cardinality(In({t})) \in Nat /\ Cardinality(In(rest)) \in Nat
    BY <1>2
  <2> HIDE DEF In
  <2>9. SumOn(counts, T)[U] = Cardinality(In(U))
    BY <2>3, <2>4, <2>6, <2>7, <2>8, FS_EmptySet
  <2> QED
    BY <2>9
<1>7. T \in P
  <2> HIDE DEF P
  <2> QED
    BY <1>5, <1>6, SumInduction
<1>8. SumFunction(counts) = Cardinality(In(T))
  BY <1>4, <1>7, SumIsSumOn
<1>9. Cardinality(In(T)) <= Cardinality(S)
  BY <1>1, FS_Subset
<1> QED
  BY <1>4, <1>8, <1>9
=============================================================================
