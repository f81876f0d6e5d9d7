----------------------------- MODULE FoldTheorems -----------------------------
(***************************************************************************)
(* Lemmas about the folds of the community modules, at the operators that  *)
(* the models of this project fold: sums of functions, and filters of      *)
(* sequences.                                                              *)
(*                                                                         *)
(* A fold is defined as the value of a recursive function on subsets,      *)
(* which exists because every step goes to a smaller set (FoldExists).     *)
(* Inductions are stated about sets of values, not about predicates:       *)
(* InductionOnSets proves that a family of subsets contains the whole set. *)
(***************************************************************************)
EXTENDS SequencesExt, FiniteSetTheorems, SequenceTheorems, TLAPS

------------------------------------------------------------------------------
(* Induction *)

\* Every set of numbers has a least element.
LEMMA LeastNumber ==
  ASSUME NEW T, T \subseteq Nat, T # {}
  PROVE  \E x \in T : \A y \in T : x <= y
<1>1. PICK x \in T : \A y \in T : ~ (<<y, x>> \in OpToRel(<, Nat))
  BY WFMin, NatLessThanWellFounded
<1>2. \A y \in T : ~(y < x)
  BY <1>1 DEF OpToRel
<1> QED
  BY <1>2

\* A set that has 0, and the successor of each of its elements, has every number.
LEMMA InductionOnNumbers ==
  ASSUME NEW N, 0 \in N, \A n \in Nat : n \in N => n + 1 \in N
  PROVE  Nat \subseteq N
<1> SUFFICES ASSUME ~(Nat \subseteq N) PROVE FALSE
  OBVIOUS
<1> DEFINE T == Nat \ N
<1>1. PICK x \in T : \A y \in T : x <= y
  BY LeastNumber
<1>2. x # 0 /\ x - 1 \in Nat /\ x - 1 \notin T
  BY <1>1
<1> QED
  BY <1>1, <1>2

\* A family that has every subset all of whose elements can be removed without leaving
\* the family has every finite subset.
LEMMA InductionOnSets ==
  ASSUME NEW S, IsFiniteSet(S), NEW F,
         \A s \in SUBSET S : (\A x \in s : s \ {x} \in F) => s \in F
  PROVE  S \in F
<1> DEFINE N == {n \in Nat : \A s \in SUBSET S : Cardinality(s) = n => s \in F}
<1>1. \A s \in SUBSET S : IsFiniteSet(s) /\ Cardinality(s) \in Nat
  BY FS_Subset, FS_CardinalityType
<1>2. 0 \in N
  <2> SUFFICES ASSUME NEW s \in SUBSET S, Cardinality(s) = 0 PROVE s \in F
    OBVIOUS
  <2>1. s = {}
    BY <1>1, FS_EmptySet
  <2> QED
    BY <2>1
<1>3. ASSUME NEW n \in Nat, n \in N PROVE n + 1 \in N
  <2> SUFFICES ASSUME NEW s \in SUBSET S, Cardinality(s) = n + 1 PROVE s \in F
    OBVIOUS
  <2>1. ASSUME NEW x \in s PROVE s \ {x} \in F
    <3>1. Cardinality(s \ {x}) = n /\ s \ {x} \in SUBSET S
      <4>1. IsFiniteSet(s) /\ x \in s
        BY <1>1, <2>1
      <4>2. Cardinality(s \ {x}) = Cardinality(s) - 1
        BY <4>1, FS_RemoveElement
      <4> QED
        BY <4>2
    <3> QED
      BY <1>3, <3>1
  <2> QED
    BY <2>1
<1>4. Cardinality(S) \in N
  <2>1. Nat \subseteq N
    <3> HIDE DEF N
    <3> QED
      BY <1>2, <1>3, InductionOnNumbers
  <2> QED
    BY <1>1, <2>1
<1> QED
  BY <1>4

------------------------------------------------------------------------------
(* Recursion *)

\* g is the recursive function of a fold: it picks an element of a set and applies next
\* to the set and to the value of the rest.
IsFold(g, next, base, pick, D) ==
  \A s \in D : g[s] = IF s = {} THEN base ELSE next[<<s, g[s \ {pick[s]}]>>]

\* Recursion on the subsets of a finite set is well defined.
LEMMA FoldExists ==
  ASSUME NEW S, IsFiniteSet(S), NEW V, NEW base \in V,
         NEW next \in [(SUBSET S) \X V -> V],
         NEW pick, \A s \in SUBSET S : s # {} => pick[s] \in s
  PROVE  \E g \in [SUBSET S -> V] : IsFold(g, next, base, pick, SUBSET S)
<1> DEFINE D(n) == {s \in SUBSET S : Cardinality(s) <= n}
           N == {n \in Nat : \E g \in [D(n) -> V] : IsFold(g, next, base, pick, D(n))}
<1>1. \A s \in SUBSET S : /\ IsFiniteSet(s) /\ Cardinality(s) \in Nat
                          /\ Cardinality(s) <= Cardinality(S)
  BY FS_Subset, FS_CardinalityType
<1>2. \A s \in SUBSET S : s # {} =>
        s \ {pick[s]} \in SUBSET S /\ Cardinality(s \ {pick[s]}) = Cardinality(s) - 1
  BY <1>1, FS_RemoveElement
<1>3. 0 \in N
  <2>1. \A s \in D(0) : s = {}
    BY <1>1, FS_EmptySet
  <2> DEFINE g == [s \in D(0) |-> base]
  <2>2. g \in [D(0) -> V] /\ IsFold(g, next, base, pick, D(0))
    BY <2>1 DEF IsFold
  <2> QED
    BY <2>2
<1>4. ASSUME NEW n \in Nat, n \in N PROVE n + 1 \in N
  <2>1. PICK g \in [D(n) -> V] : IsFold(g, next, base, pick, D(n))
    BY <1>4
  <2> DEFINE h == [s \in D(n + 1) |-> IF s \in D(n) THEN g[s]
                                      ELSE next[<<s, g[s \ {pick[s]}]>>]]
  <2>2. \A s \in D(n + 1) : s # {} => s \ {pick[s]} \in D(n) /\ s \ {pick[s]} \in D(n + 1)
    BY <1>1, <1>2
  <2>3. \A s \in D(n) : s \in D(n + 1)
    BY <1>1
  <2>4. \A s \in D(n + 1) : s \notin D(n) => s # {}
    BY <1>1, FS_EmptySet
  <2>5. h \in [D(n + 1) -> V]
    <3> SUFFICES ASSUME NEW s \in D(n + 1)
                 PROVE  (IF s \in D(n) THEN g[s] ELSE next[<<s, g[s \ {pick[s]}]>>]) \in V
      OBVIOUS
    <3>1. CASE s \in D(n)
      BY <2>1, <3>1
    <3>2. CASE s \notin D(n)
      <4>1. g[s \ {pick[s]}] \in V /\ s \in SUBSET S
        BY <2>1, <2>2, <2>4, <3>2
      <4> QED
        BY <3>2, <4>1
    <3> QED
      BY <3>1, <3>2
  <2>6. IsFold(h, next, base, pick, D(n + 1))
    <3> SUFFICES ASSUME NEW s \in D(n + 1)
                 PROVE  h[s] = IF s = {} THEN base ELSE next[<<s, h[s \ {pick[s]}]>>]
      BY DEF IsFold
    <3>1. s # {} => h[s \ {pick[s]}] = g[s \ {pick[s]}]
      BY <2>2
    <3>2. CASE s \in D(n)
      <4>1. h[s] = g[s]
        BY <2>3, <3>2
      <4>2. g[s] = IF s = {} THEN base ELSE next[<<s, g[s \ {pick[s]}]>>]
        BY <2>1, <3>2 DEF IsFold
      <4> HIDE DEF h, D
      <4> QED
        BY <3>1, <4>1, <4>2
    <3>3. CASE s \notin D(n)
      <4>1. h[s] = next[<<s, g[s \ {pick[s]}]>>] /\ s # {}
        BY <2>4, <3>3
      <4> HIDE DEF h, D
      <4> QED
        BY <3>1, <4>1
    <3> QED
      BY <3>2, <3>3
  <2> HIDE DEF h, D
  <2>7. \E k \in [D(n + 1) -> V] : IsFold(k, next, base, pick, D(n + 1))
    BY <2>5, <2>6
  <2> QED
    BY <2>7
<1>5. Cardinality(S) \in N
  <2>1. Nat \subseteq N
    <3> HIDE DEF N
    <3> QED
      BY <1>3, <1>4, InductionOnNumbers
  <2> QED
    BY <1>1, <2>1
<1>6. D(Cardinality(S)) = SUBSET S
  BY <1>1
<1> QED
  BY <1>5, <1>6

------------------------------------------------------------------------------
(* Sums *)

\* The recursive function that SumFunctionOnSet defines.
IsSum(g, f, S) ==
  g = [s \in SUBSET S |-> IF s = {} THEN 0
                          ELSE LET x == CHOOSE x \in s : TRUE IN f[x] + g[s \ {x}]]

LEMMA SumDefinition == \A f, S : SumFunctionOnSet(f, S) = (CHOOSE g : IsSum(g, f, S))[S]
BY DEF SumFunctionOnSet, FoldFunctionOnSet, MapThenFoldSet, IsSum

\* f has an integer for each element of the finite set S.
Summable(f, S) == IsFiniteSet(S) /\ \A x \in S : f[x] \in Int

LEMMA SumIsDefined ==
  ASSUME NEW S, NEW f, Summable(f, S)
  PROVE  \E g \in [SUBSET S -> Int] : IsSum(g, f, S) /\ SumFunctionOnSet(f, S) = g[S]
<1> DEFINE pick == [s \in SUBSET S |-> CHOOSE x \in s : TRUE]
           next == [p \in (SUBSET S) \X Int |-> IF p[1] = {} THEN 0 ELSE f[pick[p[1]]] + p[2]]
<1>1. \A s \in SUBSET S : s # {} => pick[s] \in s
  OBVIOUS
<1>2. next \in [(SUBSET S) \X Int -> Int]
  <2> SUFFICES ASSUME NEW p \in (SUBSET S) \X Int
               PROVE  (IF p[1] = {} THEN 0 ELSE f[pick[p[1]]] + p[2]) \in Int
    OBVIOUS
  <2>1. CASE p[1] = {}
    BY <2>1
  <2>2. CASE p[1] # {}
    <3>1. f[pick[p[1]]] \in Int /\ p[2] \in Int
      BY <1>1, <2>2 DEF Summable
    <3> QED
      BY <2>2, <3>1
  <2> QED
    BY <2>1, <2>2
<1>3. PICK g \in [SUBSET S -> Int] : IsFold(g, next, 0, pick, SUBSET S)
  <2> HIDE DEF pick, next
  <2>1. IsFiniteSet(S) /\ 0 \in Int
    BY DEF Summable
  <2> QED
    BY <1>1, <1>2, <2>1, FoldExists
<1>4. ASSUME NEW s \in SUBSET S
      PROVE  g[s] = IF s = {} THEN 0 ELSE LET x == CHOOSE x \in s : TRUE IN f[x] + g[s \ {x}]
  <2>1. g[s] = IF s = {} THEN 0 ELSE next[<<s, g[s \ {pick[s]}]>>]
    BY <1>3 DEF IsFold
  <2>2. CASE s = {}
    BY <2>1, <2>2
  <2>3. CASE s # {}
    <3> DEFINE r == g[s \ {pick[s]}]
    <3>1. <<s, r>> \in (SUBSET S) \X Int
      OBVIOUS
    <3>2. next[<<s, r>>] = f[pick[s]] + r
      BY <2>3, <3>1
    <3> QED
      BY <2>1, <2>3, <3>2
  <2> QED
    BY <2>2, <2>3
<1>5. IsSum(g, f, S)
  BY <1>4 DEF IsSum
<1> DEFINE h == CHOOSE k : IsSum(k, f, S)
<1>6. IsSum(h, f, S)
  BY <1>5
<1>7. h = g
  <2> DEFINE F == {s \in SUBSET S : h[s] = g[s]}
  <2>1. ASSUME NEW s \in SUBSET S, \A x \in s : s \ {x} \in F
        PROVE  h[s] = g[s]
    <3>1. h[s] = IF s = {} THEN 0 ELSE LET x == CHOOSE x \in s : TRUE IN f[x] + h[s \ {x}]
      BY <1>6 DEF IsSum
    <3> HIDE DEF h
    <3> QED
      BY <1>4, <2>1, <3>1
  <2>2. ASSUME NEW s \in SUBSET S PROVE h[s] = g[s]
    <3>1. IsFiniteSet(s)
      BY FS_Subset DEF Summable
    <3>2. \A r \in SUBSET s : (\A x \in r : r \ {x} \in F) => r \in F
      BY <2>1
    <3> HIDE DEF F
    <3>3. s \in F
      BY <3>1, <3>2, InductionOnSets
    <3> QED
      BY <3>3 DEF F
  <2>3. h = [s \in SUBSET S |-> h[s]]
    BY <1>6 DEF IsSum
  <2> HIDE DEF h
  <2> QED
    BY <2>2, <2>3
<1> QED
  BY <1>5, <1>7, SumDefinition

\* The recursive functions of a set and of a larger one agree.
LEMMA SumsAgree ==
  ASSUME NEW f, NEW S, NEW T, T \subseteq S, IsFiniteSet(T),
         NEW g, IsSum(g, f, S), NEW h, IsSum(h, f, T)
  PROVE  g[T] = h[T]
<1> DEFINE F == {s \in SUBSET T : g[s] = h[s]}
<1>1. \A s \in SUBSET T :
        /\ g[s] = IF s = {} THEN 0 ELSE LET x == CHOOSE x \in s : TRUE IN f[x] + g[s \ {x}]
        /\ h[s] = IF s = {} THEN 0 ELSE LET x == CHOOSE x \in s : TRUE IN f[x] + h[s \ {x}]
  <2>1. \A s \in SUBSET T : s \in SUBSET S
    OBVIOUS
  <2>2. \A s \in SUBSET S :
          g[s] = IF s = {} THEN 0 ELSE LET x == CHOOSE x \in s : TRUE IN f[x] + g[s \ {x}]
    BY DEF IsSum
  <2>3. \A s \in SUBSET T :
          h[s] = IF s = {} THEN 0 ELSE LET x == CHOOSE x \in s : TRUE IN f[x] + h[s \ {x}]
    BY DEF IsSum
  <2> QED
    BY <2>1, <2>2, <2>3
<1>2. \A s \in SUBSET T : (\A x \in s : s \ {x} \in F) => s \in F
  BY <1>1
<1>3. T \in F
  <2> HIDE DEF F
  <2> QED
    BY <1>2, InductionOnSets
<1> QED
  BY <1>3

LEMMA SummableSubset ==
  ASSUME NEW f, NEW S, Summable(f, S), NEW T \in SUBSET S
  PROVE  Summable(f, T)
BY FS_Subset DEF Summable

LEMMA SumType ==
  ASSUME NEW f, NEW S, Summable(f, S)
  PROVE  SumFunctionOnSet(f, S) \in Int
<1>1. PICK g \in [SUBSET S -> Int] : IsSum(g, f, S) /\ SumFunctionOnSet(f, S) = g[S]
  BY SumIsDefined
<1> QED
  BY <1>1

LEMMA SumOfNothing == ASSUME NEW f PROVE SumFunctionOnSet(f, {}) = 0
<1>1. Summable(f, {})
  BY FS_EmptySet DEF Summable
<1>2. PICK g \in [SUBSET {} -> Int] : IsSum(g, f, {}) /\ SumFunctionOnSet(f, {}) = g[{}]
  BY <1>1, SumIsDefined
<1> QED
  BY <1>2 DEF IsSum

LEMMA SumChosen ==
  ASSUME NEW f, NEW S, Summable(f, S), S # {}
  PROVE  LET x == CHOOSE x \in S : TRUE
         IN  x \in S /\ SumFunctionOnSet(f, S) = f[x] + SumFunctionOnSet(f, S \ {x})
<1> DEFINE x == CHOOSE x \in S : TRUE
           T == S \ {x}
<1>1. x \in S /\ Summable(f, T)
  BY SummableSubset
<1>2. PICK g \in [SUBSET S -> Int] : IsSum(g, f, S) /\ SumFunctionOnSet(f, S) = g[S]
  BY SumIsDefined
<1>3. PICK h \in [SUBSET T -> Int] : IsSum(h, f, T) /\ SumFunctionOnSet(f, T) = h[T]
  <2> HIDE DEF T
  <2> QED
    BY <1>1, SumIsDefined
<1>4. g[S] = f[x] + g[T]
  BY <1>2 DEF IsSum
<1>5. g[T] = h[T]
  <2>1. T \subseteq S /\ IsFiniteSet(T)
    BY <1>1 DEF Summable
  <2> HIDE DEF T, x
  <2> QED
    BY <1>2, <1>3, <2>1, SumsAgree
<1> QED
  BY <1>1, <1>2, <1>3, <1>4, <1>5

\* A sum is any of its terms plus the sum of the others.
LEMMA SumRemove ==
  ASSUME NEW f, NEW S, Summable(f, S), NEW y \in S
  PROVE  SumFunctionOnSet(f, S) = f[y] + SumFunctionOnSet(f, S \ {y})
<1> DEFINE Sum(s) == SumFunctionOnSet(f, s)
           F == {s \in SUBSET S : \A x \in s : Sum(s) = f[x] + Sum(s \ {x})}
<1>1. \A s \in SUBSET S : Summable(f, s) /\ Sum(s) \in Int
  BY SummableSubset, SumType
<1>2. ASSUME NEW s \in SUBSET S, \A x \in s : s \ {x} \in F PROVE s \in F
  <2> SUFFICES ASSUME NEW x \in s PROVE Sum(s) = f[x] + Sum(s \ {x})
    OBVIOUS
  <2>1. PICK c \in s : Sum(s) = f[c] + Sum(s \ {c})
    BY <1>1, SumChosen
  <2>2. CASE x = c
    BY <2>1, <2>2
  <2>3. CASE x # c
    <3>1. x \in s \ {c} /\ c \in s \ {x} /\ (s \ {c}) \ {x} = (s \ {x}) \ {c}
      BY <2>3
    <3>2. Sum(s \ {c}) = f[x] + Sum((s \ {c}) \ {x})
      BY <1>2, <3>1
    <3>3. Sum(s \ {x}) = f[c] + Sum((s \ {x}) \ {c})
      BY <1>2, <3>1
    <3>4. f[x] \in Int /\ f[c] \in Int /\ Sum((s \ {x}) \ {c}) \in Int
      BY <1>1 DEF Summable
    <3>5. \A a, b, r \in Int : a + (b + r) = b + (a + r)
      OBVIOUS
    <3> HIDE DEF Sum
    <3>6. Sum(s) = f[c] + (f[x] + Sum((s \ {x}) \ {c}))
      BY <2>1, <3>1, <3>2
    <3> QED
      BY <3>3, <3>4, <3>5, <3>6
  <2> QED
    BY <2>2, <2>3
<1>3. S \in F
  <2> HIDE DEF F
  <2> QED
    BY <1>2, InductionOnSets DEF Summable
<1> QED
  BY <1>3

\* Functions with the same terms have the same sum.
LEMMA SumOfSame ==
  ASSUME NEW f, NEW S, Summable(f, S), NEW g, \A x \in S : g[x] = f[x]
  PROVE  Summable(g, S) /\ SumFunctionOnSet(g, S) = SumFunctionOnSet(f, S)
<1>1. Summable(g, S)
  BY DEF Summable
<1> DEFINE F == {s \in SUBSET S : SumFunctionOnSet(g, s) = SumFunctionOnSet(f, s)}
<1>2. ASSUME NEW s \in SUBSET S, \A x \in s : s \ {x} \in F PROVE s \in F
  <2>1. CASE s = {}
    BY <2>1, SumOfNothing
  <2>2. CASE s # {}
    <3>1. PICK x \in s : TRUE
      BY <2>2
    <3>2. Summable(f, s) /\ Summable(g, s)
      BY <1>1, SummableSubset
    <3>3. /\ SumFunctionOnSet(f, s) = f[x] + SumFunctionOnSet(f, s \ {x})
          /\ SumFunctionOnSet(g, s) = g[x] + SumFunctionOnSet(g, s \ {x})
      BY <3>2, SumRemove
    <3>4. SumFunctionOnSet(g, s \ {x}) = SumFunctionOnSet(f, s \ {x}) /\ g[x] = f[x]
      BY <1>2
    <3> QED
      BY <3>3, <3>4
  <2> QED
    BY <2>1, <2>2
<1>3. S \in F
  <2> HIDE DEF F
  <2> QED
    BY <1>2, InductionOnSets DEF Summable
<1> QED
  BY <1>1, <1>3

\* The sum of differences is the difference of the sums.
LEMMA SumOfDifferences ==
  ASSUME NEW S, NEW f, Summable(f, S), NEW k, Summable(k, S),
         NEW g, \A x \in S : g[x] = f[x] - k[x]
  PROVE  /\ Summable(g, S)
         /\ SumFunctionOnSet(g, S) = SumFunctionOnSet(f, S) - SumFunctionOnSet(k, S)
<1>1. Summable(g, S)
  BY DEF Summable
<1> DEFINE F == {s \in SUBSET S :
                   SumFunctionOnSet(g, s) = SumFunctionOnSet(f, s) - SumFunctionOnSet(k, s)}
<1>2. ASSUME NEW s \in SUBSET S, \A x \in s : s \ {x} \in F PROVE s \in F
  <2>1. CASE s = {}
    BY <2>1, SumOfNothing
  <2>2. CASE s # {}
    <3>1. PICK x \in s : TRUE
      BY <2>2
    <3>2. Summable(f, s) /\ Summable(g, s) /\ Summable(k, s)
      BY <1>1, SummableSubset
    <3>3. /\ SumFunctionOnSet(f, s) = f[x] + SumFunctionOnSet(f, s \ {x})
          /\ SumFunctionOnSet(g, s) = g[x] + SumFunctionOnSet(g, s \ {x})
          /\ SumFunctionOnSet(k, s) = k[x] + SumFunctionOnSet(k, s \ {x})
      BY <3>2, SumRemove
    <3>4. /\ SumFunctionOnSet(g, s \ {x}) = SumFunctionOnSet(f, s \ {x}) - SumFunctionOnSet(k, s \ {x})
          /\ g[x] = f[x] - k[x]
      BY <1>2
    <3>5. /\ SumFunctionOnSet(f, s \ {x}) \in Int /\ SumFunctionOnSet(k, s \ {x}) \in Int
          /\ f[x] \in Int /\ k[x] \in Int
      <4>1. Summable(f, s \ {x}) /\ Summable(k, s \ {x})
        BY SummableSubset
      <4> QED
        BY <4>1, SumType DEF Summable
    <3>6. \A a, b, c, d \in Int : (a - b) + (c - d) = (a + c) - (b + d)
      OBVIOUS
    <3>7. SumFunctionOnSet(g, s)
            = (f[x] + SumFunctionOnSet(f, s \ {x})) - (k[x] + SumFunctionOnSet(k, s \ {x}))
      BY <3>3, <3>4, <3>5, <3>6
    <3> QED
      BY <3>3, <3>7
  <2> QED
    BY <2>1, <2>2
<1>3. S \in F
  <2> HIDE DEF F
  <2> QED
    BY <1>2, InductionOnSets DEF Summable
<1> QED
  BY <1>1, <1>3

\* A sum of terms that are not negative is not negative.
LEMMA SumOfNaturals ==
  ASSUME NEW f, NEW S, Summable(f, S), \A x \in S : f[x] >= 0
  PROVE  SumFunctionOnSet(f, S) \in Nat
<1> DEFINE F == {s \in SUBSET S : SumFunctionOnSet(f, s) \in Nat}
<1>1. ASSUME NEW s \in SUBSET S, \A x \in s : s \ {x} \in F PROVE s \in F
  <2>1. CASE s = {}
    BY <2>1, SumOfNothing
  <2>2. CASE s # {}
    <3>1. PICK x \in s : TRUE
      BY <2>2
    <3>2. Summable(f, s)
      BY SummableSubset
    <3>3. SumFunctionOnSet(f, s) = f[x] + SumFunctionOnSet(f, s \ {x})
      BY <3>2, SumRemove
    <3>4. SumFunctionOnSet(f, s \ {x}) \in Nat /\ f[x] \in Nat
      BY <1>1 DEF Summable
    <3> QED
      BY <3>3, <3>4
  <2> QED
    BY <2>1, <2>2
<1>2. S \in F
  <2> HIDE DEF F
  <2> QED
    BY <1>1, InductionOnSets DEF Summable
<1> QED
  BY <1>2

\* A sum does not decrease when none of its terms does.
LEMMA SumIsMonotonic ==
  ASSUME NEW f, NEW S, Summable(f, S), NEW g, Summable(g, S), \A x \in S : f[x] <= g[x]
  PROVE  SumFunctionOnSet(f, S) <= SumFunctionOnSet(g, S)
<1> DEFINE d == [x \in S |-> g[x] - f[x]]
<1>1. \A x \in S : d[x] = g[x] - f[x]
  OBVIOUS
<1> HIDE DEF d
<1>2. Summable(d, S) /\ SumFunctionOnSet(d, S) = SumFunctionOnSet(g, S) - SumFunctionOnSet(f, S)
  BY <1>1, SumOfDifferences
<1>3. \A x \in S : d[x] >= 0
  BY <1>1 DEF Summable
<1>4. SumFunctionOnSet(d, S) \in Nat
  BY <1>2, <1>3, SumOfNaturals
<1>5. SumFunctionOnSet(f, S) \in Int /\ SumFunctionOnSet(g, S) \in Int
  BY SumType
<1> QED
  BY <1>2, <1>4, <1>5

\* What a change of one term does to a sum.
LEMMA SumOfUpdate ==
  ASSUME NEW f, NEW S, Summable(f, S), NEW y \in S, NEW g, g[y] \in Int,
         \A x \in S \ {y} : g[x] = f[x]
  PROVE  /\ Summable(g, S)
         /\ SumFunctionOnSet(g, S) = SumFunctionOnSet(f, S) - f[y] + g[y]
<1>1. Summable(g, S)
  BY DEF Summable
<1>2. /\ SumFunctionOnSet(f, S) = f[y] + SumFunctionOnSet(f, S \ {y})
      /\ SumFunctionOnSet(g, S) = g[y] + SumFunctionOnSet(g, S \ {y})
  BY <1>1, SumRemove
<1>3. Summable(f, S \ {y})
  BY SummableSubset
<1>4. SumFunctionOnSet(g, S \ {y}) = SumFunctionOnSet(f, S \ {y})
  BY <1>3, SumOfSame
<1>5. SumFunctionOnSet(f, S \ {y}) \in Int /\ f[y] \in Int
  BY <1>3, SumType DEF Summable
<1> QED
  BY <1>1, <1>2, <1>4, <1>5

\* Terms that are 0 may be left out.
LEMMA SumWithoutZeros ==
  ASSUME NEW f, NEW S, Summable(f, S), NEW T \in SUBSET S, \A x \in S \ T : f[x] = 0
  PROVE  SumFunctionOnSet(f, S) = SumFunctionOnSet(f, T)
<1> DEFINE F == {s \in SUBSET S : SumFunctionOnSet(f, s) = SumFunctionOnSet(f, s \cap T)}
<1>1. ASSUME NEW s \in SUBSET S, \A x \in s : s \ {x} \in F PROVE s \in F
  <2>1. CASE s \subseteq T
    <3>1. s \cap T = s
      BY <2>1
    <3> QED
      BY <3>1
  <2>2. CASE ~(s \subseteq T)
    <3>1. PICK x \in s : x \notin T
      BY <2>2
    <3>2. Summable(f, s) /\ Summable(f, s \ {x})
      BY SummableSubset
    <3>3. SumFunctionOnSet(f, s) = f[x] + SumFunctionOnSet(f, s \ {x})
      BY <3>2, SumRemove
    <3>4. (s \ {x}) \cap T = s \cap T /\ f[x] = 0
      BY <3>1
    <3>5. SumFunctionOnSet(f, s \ {x}) = SumFunctionOnSet(f, s \cap T)
      BY <1>1, <3>4
    <3>6. SumFunctionOnSet(f, s \ {x}) \in Int
      BY <3>2, SumType
    <3> QED
      BY <3>3, <3>4, <3>5, <3>6
  <2> QED
    BY <2>1, <2>2
<1>2. S \in F
  <2> HIDE DEF F
  <2> QED
    BY <1>1, InductionOnSets DEF Summable
<1>3. S \cap T = T
  OBVIOUS
<1> QED
  BY <1>2, <1>3

------------------------------------------------------------------------------
(* Folds of sequences *)

\* FoldLeft goes from a set of positions to the set without its largest element.
IsLeftFold(g, step, base, n) ==
  \A s \in SUBSET (1..n) :
    g[s] = IF s = {} THEN base ELSE step[<<Max(s), g[s \ {Max(s)}]>>]

LEMMA MaxOfPositions ==
  ASSUME NEW n \in Nat
  PROVE  /\ \A s \in SUBSET (1..n) : s # {} => Max(s) \in s
         /\ \A i \in 1..n : Max(1..i) = i /\ (1..i) \ {i} = 1..(i - 1)
<1>1. ASSUME NEW s \in SUBSET (1..n), s # {} PROVE Max(s) \in s
  <2> DEFINE T == {k \in Nat : \A x \in s : k >= x}
  <2>1. n \in T
    OBVIOUS
  <2>2. PICK k \in T : \A j \in T : k <= j
    BY <2>1, LeastNumber
  <2>3. k \in s
    <3> SUFFICES ASSUME k \notin s PROVE FALSE
      OBVIOUS
    <3>1. \A x \in s : x <= k - 1 /\ x \in 1..n
      BY <2>2
    <3>2. k - 1 \in Nat
      <4>1. PICK x \in s : x <= k - 1 /\ x \in 1..n
        BY <1>1, <3>1
      <4>2. k \in Nat
        BY <2>2
      <4> QED
        BY <4>1, <4>2
    <3>3. k - 1 \in T
      BY <3>1, <3>2
    <3> QED
      BY <2>2, <3>3
  <2>4. \E x \in s : \A y \in s : x >= y
    BY <2>2, <2>3
  <2> QED
    BY <2>4 DEF Max
<1>2. ASSUME NEW i \in 1..n PROVE Max(1..i) = i /\ (1..i) \ {i} = 1..(i - 1)
  <2>1. i \in 1..i /\ \A y \in 1..i : i >= y
    OBVIOUS
  <2>2. Max(1..i) \in 1..i /\ \A y \in 1..i : Max(1..i) >= y
    BY <2>1 DEF Max
  <2> QED
    BY <2>1, <2>2
<1> QED
  BY <1>1, <1>2

LEMMA LeftFoldExists ==
  ASSUME NEW n \in Nat, NEW V, NEW base \in V, NEW step \in [(1..n) \X V -> V]
  PROVE  \E g \in [SUBSET (1..n) -> V] : IsLeftFold(g, step, base, n)
<1> DEFINE S == 1..n
           pick == [s \in SUBSET S |-> Max(s)]
           next == [p \in (SUBSET S) \X V |-> IF p[1] = {} THEN base ELSE step[<<pick[p[1]], p[2]>>]]
<1>1. \A s \in SUBSET S : s # {} => pick[s] \in s
  BY MaxOfPositions
<1>2. next \in [(SUBSET S) \X V -> V]
  <2> SUFFICES ASSUME NEW p \in (SUBSET S) \X V
               PROVE  (IF p[1] = {} THEN base ELSE step[<<pick[p[1]], p[2]>>]) \in V
    OBVIOUS
  <2>1. CASE p[1] = {}
    BY <2>1
  <2>2. CASE p[1] # {}
    <3>1. pick[p[1]] \in S /\ p[2] \in V
      BY <1>1, <2>2
    <3>2. step[<<pick[p[1]], p[2]>>] \in V
      BY <3>1
    <3> QED
      BY <2>2, <3>2
  <2> QED
    BY <2>1, <2>2
<1>3. PICK g \in [SUBSET S -> V] : IsFold(g, next, base, pick, SUBSET S)
  <2>1. IsFiniteSet(S)
    BY FS_Interval
  <2> HIDE DEF S, pick, next
  <2> QED
    BY <1>1, <1>2, <2>1, FoldExists
<1>4. ASSUME NEW s \in SUBSET S
      PROVE  g[s] = IF s = {} THEN base ELSE step[<<Max(s), g[s \ {Max(s)}]>>]
  <2>1. g[s] = IF s = {} THEN base ELSE next[<<s, g[s \ {pick[s]}]>>]
    BY <1>3 DEF IsFold
  <2>2. CASE s = {}
    BY <2>1, <2>2
  <2>3. CASE s # {}
    <3> DEFINE r == g[s \ {pick[s]}]
    <3>1. <<s, r>> \in (SUBSET S) \X V
      OBVIOUS
    <3>2. next[<<s, r>>] = step[<<pick[s], r>>]
      BY <2>3, <3>1
    <3>3. pick[s] = Max(s)
      OBVIOUS
    <3> HIDE DEF next, pick
    <3> QED
      BY <2>1, <2>3, <3>2, <3>3
  <2> QED
    BY <2>2, <2>3
<1> QED
  BY <1>4 DEF IsLeftFold

\* h does the same on the sets whose rest has a value in V.
FoldsWithin(h, step, base, n, V) ==
  \A s \in SUBSET (1..n) :
    /\ s = {} => h[s] = base
    /\ s # {} /\ h[s \ {Max(s)}] \in V => h[s] = step[<<Max(s), h[s \ {Max(s)}]>>]

\* h holds the values of the fold g on the prefixes 1..i.
PrefixValues(h, g, step, base, n) ==
  /\ h[0] = base
  /\ h[n] = g[1..n]
  /\ \A i \in 1..n : h[i] = step[<<i, h[i - 1]>>]

\* h and g have one value on 1..n.
SameFold(h, g, n) == h[1..n] = g[1..n]

\* Two recursive functions with the same steps are one.
LEMMA LeftFoldUnique ==
  ASSUME NEW n \in Nat, NEW V, NEW base, NEW step,
         NEW g \in [SUBSET (1..n) -> V], IsLeftFold(g, step, base, n),
         NEW h, FoldsWithin(h, step, base, n, V)
  PROVE  SameFold(h, g, n)
<1> DEFINE S == 1..n
           F == {s \in SUBSET S : h[s] = g[s]}
<1>1. ASSUME NEW s \in SUBSET S, \A x \in s : s \ {x} \in F PROVE h[s] = g[s]
  <2>1. g[s] = IF s = {} THEN base ELSE step[<<Max(s), g[s \ {Max(s)}]>>]
    BY DEF IsLeftFold
  <2>2. CASE s = {}
    BY <2>1, <2>2 DEF FoldsWithin
  <2>3. CASE s # {}
    <3>1. h[s \ {Max(s)}] = g[s \ {Max(s)}] /\ g[s \ {Max(s)}] \in V
      BY <1>1, <2>3, MaxOfPositions
    <3> QED
      BY <2>1, <2>3, <3>1 DEF FoldsWithin
  <2> QED
    BY <2>2, <2>3
<1>2. \A s \in SUBSET S : (\A x \in s : s \ {x} \in F) => s \in F
  BY <1>1
<1>3. S \in F
  <2>1. IsFiniteSet(S)
    BY FS_Interval
  <2> HIDE DEF F, S
  <2> QED
    BY <1>2, <2>1, InductionOnSets
<1> QED
  BY <1>3 DEF SameFold

\* The values of a left fold on the prefixes of its sequence.
LEMMA LeftFoldByPrefix ==
  ASSUME NEW n \in Nat, NEW V, NEW base, NEW step,
         NEW g \in [SUBSET (1..n) -> V], IsLeftFold(g, step, base, n)
  PROVE  \E h \in [0..n -> V] : PrefixValues(h, g, step, base, n)
<1> DEFINE h == [i \in 0..n |-> g[1..i]]
<1>1. h \in [0..n -> V]
  OBVIOUS
<1>2. h[0] = base
  <2>1. 1..0 = {} /\ {} \in SUBSET (1..n) /\ 0 \in 0..n
    OBVIOUS
  <2>2. g[{}] = base
    BY <2>1 DEF IsLeftFold
  <2>3. h[0] = g[1..0]
    BY <2>1
  <2> QED
    BY <2>1, <2>2, <2>3
<1>3. ASSUME NEW i \in 1..n PROVE h[i] = step[<<i, h[i - 1]>>]
  <2>1. 1..i \in SUBSET (1..n) /\ 1..i # {} /\ i \in 0..n /\ i - 1 \in 0..n
    OBVIOUS
  <2>2. g[1..i] = step[<<Max(1..i), g[(1..i) \ {Max(1..i)}]>>]
    BY <2>1 DEF IsLeftFold
  <2>3. Max(1..i) = i /\ (1..i) \ {i} = 1..(i - 1)
    BY MaxOfPositions
  <2> QED
    BY <2>1, <2>2, <2>3
<1>4. h[n] = g[1..n]
  <2>1. n \in 0..n
    OBVIOUS
  <2> QED
    BY <2>1
<1> HIDE DEF h
<1> QED
  BY <1>1, <1>2, <1>3, <1>4 DEF PrefixValues

------------------------------------------------------------------------------
(* Recursive functions on numbers *)

IsRecursion(h, base, step, n) == h[0] = base /\ \A i \in 1..n : h[i] = step[<<i, h[i - 1]>>]

\* A value for 0 and a step from each number to the next determine a function.
LEMMA RecursionExists ==
  ASSUME NEW n \in Nat, NEW V, NEW base \in V, NEW step \in [(1..n) \X V -> V]
  PROVE  \E h \in [0..n -> V] : IsRecursion(h, base, step, n)
<1>1. PICK g \in [SUBSET (1..n) -> V] : IsLeftFold(g, step, base, n)
  BY LeftFoldExists
<1>2. PICK h \in [0..n -> V] : PrefixValues(h, g, step, base, n)
  BY <1>1, LeftFoldByPrefix
<1> QED
  BY <1>2 DEF PrefixValues, IsRecursion

------------------------------------------------------------------------------
(* Folds of operators that are closed on no set *)

\* g goes from the subsets of 1..m on to those of 1..(m + 1): a set that has m + 1 gets the
\* value that e has for the rest of the set.
Extension(g, e, m) ==
  [t \in SUBSET (1..(m + 1)) |-> IF m + 1 \in t THEN e[t \ {m + 1}] ELSE g[t]]

\* That is what h does, stated for a fold that takes the largest position off.
ExtendsBy(h, g, e, m) ==
  \A t \in SUBSET (1..(m + 1)) : LET rest == t \ {Max(t)} IN
    /\ m + 1 \in t => /\ Max(t) = m + 1 /\ rest \in SUBSET (1..m)
                      /\ h[t] = e[rest] /\ h[rest] = g[rest]
    /\ m + 1 \notin t => t \in SUBSET (1..m) /\ h[t] = g[t] /\ h[rest] = g[rest]

LEMMA ExtensionSteps ==
  ASSUME NEW m \in Nat, NEW g, NEW e, NEW h, h = Extension(g, e, m)
  PROVE  ExtendsBy(h, g, e, m)
<1> SUFFICES ASSUME NEW t \in SUBSET (1..(m + 1)), NEW rest, rest = t \ {Max(t)}
             PROVE  /\ m + 1 \in t => /\ Max(t) = m + 1 /\ rest \in SUBSET (1..m)
                                      /\ h[t] = e[rest] /\ h[rest] = g[rest]
                    /\ m + 1 \notin t => /\ t \in SUBSET (1..m) /\ h[t] = g[t]
                                         /\ h[rest] = g[rest]
  BY DEF ExtendsBy
<1>1. ASSUME NEW s \in SUBSET (1..(m + 1))
      PROVE  h[s] = IF m + 1 \in s THEN e[s \ {m + 1}] ELSE g[s]
  BY DEF Extension
<1>2. ASSUME m + 1 \in t
      PROVE  /\ Max(t) = m + 1 /\ rest \in SUBSET (1..m) /\ m + 1 \notin rest
             /\ rest = t \ {m + 1}
  <2>1. \A y \in t : m + 1 >= y
    OBVIOUS
  <2>2. Max(t) \in t /\ \A y \in t : Max(t) >= y
    BY <1>2, <2>1 DEF Max
  <2>3. PICK x : x = Max(t)
    OBVIOUS
  <2>4. x \in 1..(m + 1) /\ m + 1 >= x /\ x >= m + 1
    BY <1>2, <2>1, <2>2, <2>3
  <2>5. x = m + 1
    BY <2>4
  <2>6. rest = t \ {m + 1}
    BY <2>3, <2>5
  <2>7. \A y \in t \ {m + 1} : y \in 1..m
    OBVIOUS
  <2> QED
    BY <2>3, <2>5, <2>6, <2>7
<1>3. ASSUME m + 1 \notin t
      PROVE  t \in SUBSET (1..m) /\ rest \in SUBSET (1..m) /\ m + 1 \notin rest
  <2>1. \A y \in t : y \in 1..m
    BY <1>3
  <2> QED
    BY <1>3, <2>1
<1>4. \A s \in SUBSET (1..m) : s \in SUBSET (1..(m + 1))
  OBVIOUS
<1>5. ASSUME m + 1 \in t
      PROVE  h[t] = e[rest] /\ h[rest] = g[rest]
  BY <1>1, <1>2, <1>4, <1>5
<1>6. ASSUME m + 1 \notin t
      PROVE  h[t] = g[t] /\ h[rest] = g[rest]
  BY <1>1, <1>3, <1>4, <1>6
<1> QED
  BY <1>2, <1>3, <1>5, <1>6

------------------------------------------------------------------------------
(* The elements of a set as a sequence *)

LEMMA ElementsInSequence ==
  ASSUME NEW S, IsFiniteSet(S)
  PROVE  SetToSeq(S) \in Seq(S) /\ Len(SetToSeq(S)) = Cardinality(S)
<1> DEFINE n == Cardinality(S)
<1>1. n \in Nat
  BY FS_CardinalityType
<1>2. \E f \in [1..n -> S] : IsInjective(f)
  <2>1. PICK f : f \in Bijection(1..n, S)
    <3>1. ExistsBijection(1..n, S)
      BY FS_NatBijection, FS_CountingElements, FS_CardinalityType
    <3> QED
      BY <3>1 DEF ExistsBijection
  <2>2. f \in [1..n -> S] /\ \A a, b \in 1..n : f[a] = f[b] => a = b
    BY <2>1 DEF Bijection, Injection, IsInjective
  <2> QED
    BY <2>2 DEF IsInjective
<1>3. SetToSeq(S) \in [1..n -> S]
  BY <1>2 DEF SetToSeq
<1> QED
  BY <1>1, <1>3

------------------------------------------------------------------------------
(* Sequences of sequences *)

\* What FlattenSeq computes: f[i] is the first i sequences one after the other.
IsFlatten(f, s) == f = [i \in 1..Len(s) |-> IF i = 1 THEN s[i] ELSE f[i - 1] \o s[i]]

LEMMA FlattenDefinition ==
  ASSUME NEW s
  PROVE  FlattenSeq(s) = IF Len(s) = 0 THEN s ELSE (CHOOSE f : IsFlatten(f, s))[Len(s)]
  BY DEF FlattenSeq, IsFlatten

LEMMA FlattenExists ==
  ASSUME NEW S, NEW s \in Seq(Seq(S))
  PROVE  \E f \in [1..Len(s) -> Seq(S)] : IsFlatten(f, s)
<1> DEFINE n == Len(s)
           V == Seq(S)
           step == [p \in (1..n) \X V |-> IF p[1] = 1 THEN s[p[1]] ELSE p[2] \o s[p[1]]]
<1>1. n \in Nat /\ <<>> \in V /\ \A i \in 1..n : s[i] \in V
  OBVIOUS
<1>2. \A i \in 1..n, q \in V : step[<<i, q>>] = IF i = 1 THEN s[i] ELSE q \o s[i]
  OBVIOUS
<1>3. step \in [(1..n) \X V -> V]
  BY <1>1
<1> HIDE DEF step
<1>4. PICK h \in [0..n -> V] : IsRecursion(h, <<>>, step, n)
  <2> HIDE DEF n, V
  <2> QED
    BY <1>1, <1>3, RecursionExists
<1> DEFINE f == [i \in 1..n |-> h[i]]
<1>5. ASSUME NEW i \in 1..n PROVE f[i] = IF i = 1 THEN s[i] ELSE f[i - 1] \o s[i]
  <2>1. i \in 0..n /\ i - 1 \in 0..n /\ h[i - 1] \in V
    <3> HIDE DEF V, n
    <3>1. i \in 0..n /\ i - 1 \in 0..n
      BY <1>1
    <3> QED
      BY <1>4, <3>1
  <2>2. h[i] = step[<<i, h[i - 1]>>]
    BY <1>4 DEF IsRecursion
  <2>3. h[i] = IF i = 1 THEN s[i] ELSE h[i - 1] \o s[i]
    BY <1>2, <2>1, <2>2
  <2>4. i # 1 => f[i - 1] = h[i - 1]
    OBVIOUS
  <2> QED
    BY <2>3, <2>4
<1>6. f \in [1..n -> V] /\ f = [i \in 1..n |-> f[i]]
  OBVIOUS
<1> HIDE DEF f
<1>7. IsFlatten(f, s)
  BY <1>5, <1>6 DEF IsFlatten
<1> QED
  BY <1>6, <1>7

LEMMA FlattenSteps ==
  ASSUME NEW f, NEW s, IsFlatten(f, s), NEW i \in 1..Len(s)
  PROVE  f[i] = IF i = 1 THEN s[i] ELSE f[i - 1] \o s[i]
  BY DEF IsFlatten

\* A longer sequence of sequences begins with the same values.
LEMMA FlattensAgree ==
  ASSUME NEW S, NEW s \in Seq(Seq(S)), NEW t \in Seq(S), NEW f, IsFlatten(f, s),
         NEW g, IsFlatten(g, Append(s, t)), NEW i \in 1..Len(s)
  PROVE  g[i] = f[i]
<1> DEFINE u == Append(s, t)
           N == {k \in Nat : k \in 1..Len(s) => g[k] = f[k]}
<1>1. 0 \in N
  OBVIOUS
<1>2. Len(s) \in Nat /\ Len(u) = Len(s) + 1 /\ \A k \in 1..Len(s) : u[k] = s[k]
  OBVIOUS
<1>3. ASSUME NEW k \in Nat, k \in N PROVE k + 1 \in N
  <2> SUFFICES ASSUME k + 1 \in 1..Len(s) PROVE g[k + 1] = f[k + 1]
    OBVIOUS
  <2>1. k + 1 \in 1..Len(u) /\ (k + 1) - 1 = k
    BY <1>2
  <2>2. /\ f[k + 1] = IF k + 1 = 1 THEN s[k + 1] ELSE f[k] \o s[k + 1]
        /\ g[k + 1] = IF k + 1 = 1 THEN u[k + 1] ELSE g[k] \o u[k + 1]
    <3>1. IsFlatten(f, s) /\ IsFlatten(g, u)
      OBVIOUS
    <3> HIDE DEF u, N
    <3>2. f[k + 1] = IF k + 1 = 1 THEN s[k + 1] ELSE f[(k + 1) - 1] \o s[k + 1]
      BY <3>1, FlattenSteps
    <3>3. g[k + 1] = IF k + 1 = 1 THEN u[k + 1] ELSE g[(k + 1) - 1] \o u[k + 1]
      BY <2>1, <3>1, FlattenSteps
    <3> QED
      BY <2>1, <3>2, <3>3
  <2>3. u[k + 1] = s[k + 1]
    BY <1>2
  <2>4. k + 1 # 1 => g[k] = f[k]
    BY <1>3
  <2> HIDE DEF u, N
  <2> QED
    BY <2>2, <2>3, <2>4
<1>4. Nat \subseteq N
  <2> HIDE DEF N
  <2> QED
    BY <1>1, <1>3, InductionOnNumbers
<1> QED
  BY <1>4

LEMMA FlattenType ==
  ASSUME NEW S, NEW s \in Seq(Seq(S))
  PROVE  FlattenSeq(s) \in Seq(S)
<1>1. PICK f \in [1..Len(s) -> Seq(S)] : IsFlatten(f, s)
  BY FlattenExists
<1> DEFINE k == CHOOSE h : IsFlatten(h, s)
<1>2. IsFlatten(k, s)
  BY <1>1
<1>3. FlattenSeq(s) = IF Len(s) = 0 THEN s ELSE k[Len(s)]
  BY FlattenDefinition
<1> HIDE DEF k
<1> DEFINE N == {j \in Nat : j \in 1..Len(s) => k[j] \in Seq(S)}
<1>4. 0 \in N
  OBVIOUS
<1>5. ASSUME NEW j \in Nat, j \in N PROVE j + 1 \in N
  <2> SUFFICES ASSUME j + 1 \in 1..Len(s) PROVE k[j + 1] \in Seq(S)
    OBVIOUS
  <2>1. k[j + 1] = IF j + 1 = 1 THEN s[j + 1] ELSE k[j] \o s[j + 1]
    <3>1. (j + 1) - 1 = j
      OBVIOUS
    <3> QED
      BY <1>2, <3>1, FlattenSteps
  <2>2. s[j + 1] \in Seq(S)
    OBVIOUS
  <2>3. j + 1 # 1 => k[j] \in Seq(S)
    BY <1>5
  <2> HIDE DEF N
  <2> QED
    BY <2>1, <2>2, <2>3
<1>6. Nat \subseteq N
  <2> HIDE DEF N
  <2> QED
    BY <1>4, <1>5, InductionOnNumbers
<1>7. Len(s) \in Nat /\ (Len(s) = 0 => s \in Seq(S))
  OBVIOUS
<1> QED
  BY <1>3, <1>6, <1>7

\* One more sequence at the end.
LEMMA FlattenAppend ==
  ASSUME NEW S, NEW s \in Seq(Seq(S)), NEW t \in Seq(S)
  PROVE  FlattenSeq(Append(s, t)) = FlattenSeq(s) \o t
<1> DEFINE u == Append(s, t)
           f == CHOOSE h : IsFlatten(h, s)
           g == CHOOSE h : IsFlatten(h, u)
<1>1. u \in Seq(Seq(S)) /\ Len(u) = Len(s) + 1 /\ u[Len(u)] = t /\ Len(s) \in Nat
  OBVIOUS
<1> HIDE DEF u
<1>2. IsFlatten(f, s) /\ IsFlatten(g, u)
  BY <1>1, FlattenExists
<1>3. /\ FlattenSeq(s) = IF Len(s) = 0 THEN s ELSE f[Len(s)]
      /\ FlattenSeq(u) = IF Len(u) = 0 THEN u ELSE g[Len(u)]
  BY FlattenDefinition
<1> HIDE DEF f, g
<1>4. g[Len(u)] = IF Len(u) = 1 THEN t ELSE g[Len(s)] \o t
  <2>1. Len(u) \in 1..Len(u) /\ Len(u) - 1 = Len(s)
    BY <1>1
  <2> QED
    BY <1>1, <1>2, <2>1, FlattenSteps
<1>5. CASE Len(s) = 0
  <2>1. s = <<>> /\ <<>> \o t = t
    BY <1>5
  <2> QED
    BY <1>1, <1>3, <1>4, <1>5, <2>1 DEF u
<1>6. CASE Len(s) # 0
  <2>1. Len(s) \in 1..Len(s)
    BY <1>1, <1>6
  <2>2. g[Len(s)] = f[Len(s)]
    BY <1>2, <2>1, FlattensAgree DEF u
  <2> QED
    BY <1>1, <1>3, <1>4, <1>6, <2>2 DEF u
<1> QED
  BY <1>5, <1>6
------------------------------------------------------------------------------
(* Sequences in order *)

Sorts(s, S) ==
  /\ s \in [1..Cardinality(S) -> S]
  /\ ToSet(s) = S
  /\ \A i, j \in DOMAIN s : i < j => s[i] < s[j]

LEMMA SomethingSorts ==
  ASSUME NEW S, IsFiniteSet(S), S \subseteq Nat
  PROVE  \E s : Sorts(s, S)
<1> DEFINE F == {T \in SUBSET S : \E s : Sorts(s, T)}
<1>1. ASSUME NEW T \in SUBSET S, \A x \in T : T \ {x} \in F PROVE T \in F
  <2>1. IsFiniteSet(T) /\ T \subseteq Nat
    BY FS_Subset
  <2>2. CASE T = {}
    <3>1. Cardinality(T) = 0
      BY <2>2, FS_EmptySet
    <3>2. PICK s : s = [i \in 1..0 |-> 0]
      OBVIOUS
    <3>3. 1..0 = {}
      OBVIOUS
    <3>4. DOMAIN s = {} /\ s \in [1..0 -> T]
      BY <3>2, <3>3
    <3>5. ToSet(s) = {}
      BY <3>4 DEF ToSet
    <3>6. Sorts(s, T)
      BY <2>2, <3>1, <3>4, <3>5 DEF Sorts
    <3> QED
      BY <3>6
  <2>3. CASE T # {}
    <3>1. PICK x \in T : \A y \in T : x <= y
      BY <2>1, <2>3, LeastNumber
    <3>2. PICK t : Sorts(t, T \ {x})
      BY <1>1, <3>1
    <3>3. PICK n \in Nat : n = Cardinality(T \ {x})
      BY <2>1, FS_RemoveElement, FS_CardinalityType
    <3>4. Cardinality(T) = n + 1
      <4>1. Cardinality(T \ {x}) = Cardinality(T) - 1 /\ Cardinality(T) \in Nat
        BY <2>1, <3>1, FS_RemoveElement, FS_CardinalityType
      <4> QED
        BY <3>3, <4>1
    <3>5. /\ t \in [1..n -> T \ {x}] /\ DOMAIN t = 1..n
          /\ \A i, j \in 1..n : i < j => t[i] < t[j]
      BY <3>2, <3>3 DEF Sorts
    <3>6. \A y \in T \ {x} : \E i \in 1..n : t[i] = y
      BY <3>2, <3>5 DEF Sorts, ToSet
    <3>7. PICK s : s = [i \in 1..(n + 1) |-> IF i = 1 THEN x ELSE t[i - 1]]
      OBVIOUS
    <3>8. /\ DOMAIN s = 1..(n + 1) /\ s[1] = x
          /\ \A i \in 1..(n + 1) : i # 1 => i - 1 \in 1..n /\ s[i] = t[i - 1]
      BY <3>7
    <3>9. s \in [1..(n + 1) -> T]
      <4> SUFFICES ASSUME NEW i \in 1..(n + 1)
                   PROVE  (IF i = 1 THEN x ELSE t[i - 1]) \in T
        BY <3>7
      <4>1. CASE i = 1
        BY <4>1
      <4>2. CASE i # 1
        BY <3>5, <3>8, <4>2
      <4> QED
        BY <4>1, <4>2
    <3>10. ToSet(s) = T
      <4>1. \A y \in T : \E i \in 1..(n + 1) : s[i] = y
        <5> SUFFICES ASSUME NEW y \in T PROVE \E i \in 1..(n + 1) : s[i] = y
          OBVIOUS
        <5>1. CASE y = x
          BY <3>8, <5>1
        <5>2. CASE y # x
          <6>1. PICK i \in 1..n : t[i] = y
            BY <3>6, <5>2
          <6>2. i + 1 \in 1..(n + 1) /\ i + 1 # 1 /\ (i + 1) - 1 = i
            OBVIOUS
          <6>3. s[i + 1] = y
            BY <3>8, <6>1, <6>2
          <6> QED
            BY <6>2, <6>3
        <5> QED
          BY <5>1, <5>2
      <4>2. \A i \in 1..(n + 1) : s[i] \in T
        BY <3>9
      <4>3. ToSet(s) = {s[i] : i \in 1..(n + 1)}
        BY <3>8 DEF ToSet
      <4> QED
        BY <4>1, <4>2, <4>3
    <3>11. ASSUME NEW i \in 1..(n + 1), NEW j \in 1..(n + 1), i < j PROVE s[i] < s[j]
      <4>1. j # 1 /\ s[j] = t[j - 1] /\ j - 1 \in 1..n /\ t[j - 1] \in T \ {x}
        BY <3>5, <3>8, <3>11
      <4>2. CASE i = 1
        <5>1. s[i] = x /\ x <= t[j - 1] /\ x # t[j - 1] /\ x \in Nat /\ t[j - 1] \in Nat
          BY <2>1, <3>1, <3>8, <4>1, <4>2
        <5> QED
          BY <4>1, <5>1
      <4>3. CASE i # 1
        <5>1. s[i] = t[i - 1] /\ i - 1 \in 1..n /\ i - 1 < j - 1
          BY <3>8, <3>11, <4>3
        <5> QED
          BY <3>5, <4>1, <5>1
      <4> QED
        BY <4>2, <4>3
    <3>12. Sorts(s, T)
      BY <3>4, <3>8, <3>9, <3>10, <3>11 DEF Sorts
    <3> QED
      BY <3>12
  <2> QED
    BY <2>2, <2>3
<1>2. S \in F
  <2> HIDE DEF F
  <2> QED
    BY <1>1, InductionOnSets
<1> QED
  BY <1>2

\* A sequence in order has every element once.
LEMMA SortedElements ==
  ASSUME NEW S, IsFiniteSet(S), S \subseteq Nat, NEW s, Sorts(s, S)
  PROVE  /\ s \in Seq(S) /\ Len(s) = Cardinality(S) /\ Cardinality(S) \in Nat
         /\ \A x \in S : \E i \in 1..Len(s) : s[i] = x
         /\ \A i, j \in 1..Len(s) : s[i] = s[j] => i = j
<1>1. Cardinality(S) \in Nat
  BY FS_CardinalityType
<1>2. s \in [1..Cardinality(S) -> S] /\ DOMAIN s = 1..Cardinality(S)
  BY DEF Sorts
<1>3. s \in Seq(S) /\ Len(s) = Cardinality(S)
  BY <1>1, <1>2
<1>4. ASSUME NEW x \in S PROVE \E i \in 1..Len(s) : s[i] = x
  BY <1>2, <1>3 DEF Sorts, ToSet
<1>5. ASSUME NEW i \in 1..Len(s), NEW j \in 1..Len(s), s[i] = s[j] PROVE i = j
  <2>1. s[i] \in Nat /\ s[j] \in Nat /\ i \in Nat /\ j \in Nat
    <3>1. i \in 1..Cardinality(S) /\ j \in 1..Cardinality(S)
      BY <1>3, <1>5
    <3>2. s[i] \in S /\ s[j] \in S
      BY <1>2, <3>1
    <3>3. s[i] \in Nat /\ s[j] \in Nat
      BY <3>2
    <3>4. i \in Nat /\ j \in Nat
      BY <1>1, <3>1
    <3> QED
      BY <3>3, <3>4
  <2>2. i < j => s[i] < s[j]
    BY <1>2, <1>3 DEF Sorts
  <2>3. j < i => s[j] < s[i]
    BY <1>2, <1>3 DEF Sorts
  <2> QED
    BY <1>5, <2>1, <2>2, <2>3
<1> QED
  BY <1>1, <1>3, <1>4, <1>5
==============================================================================
