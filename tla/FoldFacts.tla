------------------------------ MODULE FoldFacts ------------------------------
(***************************************************************************)
(* Facts about the folds of the community modules that the models compute  *)
(* with.                                                                   *)
(*                                                                         *)
(* The provers cannot instantiate an induction principle that is stated    *)
(* over a predicate P(_); here induction is over a set T, the numbers that *)
(* have the property: a set of numbers that holds 0 and the successor of   *)
(* each of its elements holds them all.  A fold is, by its definition, a   *)
(* CHOOSE of a function that satisfies a recursive equation; FoldExists    *)
(* says that there is such a function, for a step that is itself a         *)
(* function, so each fold of a model satisfies the equation of its step.   *)
(***************************************************************************)
EXTENDS Naturals, SequencesExt, FiniteSetTheorems, WellFoundedInduction, TLAPS

Less == {ss \in Nat \X Nat : ss[1] < ss[2]}

LEMMA LeastNumber ==
  ASSUME NEW T, T \subseteq Nat, T # {}
  PROVE  \E n \in T : \A m \in T : n <= m
<1>1. IsWellFoundedOn(Less, Nat)
  BY NatLessThanWellFounded DEF OpToRel, Less
<1>2. PICK n \in T : \A m \in T : ~(<<m, n>> \in Less)
  BY <1>1, WFMin
<1>3. ASSUME NEW m \in T PROVE n <= m
  <2>1. m \in Nat /\ n \in Nat
    OBVIOUS
  <2>2. m < n => <<m, n>> \in Less
    BY <2>1 DEF Less
  <2>. QED
    BY <1>2, <2>1, <2>2
<1>. QED
  BY <1>3

LEMMA NaturalInduction ==
  ASSUME NEW T, 0 \in T, \A n \in Nat : n \in T => n + 1 \in T
  PROVE  \A n \in Nat : n \in T
<1>. SUFFICES ASSUME NEW k \in Nat, k \notin T PROVE FALSE
  OBVIOUS
<1>1. PICK n \in Nat \ T : \A m \in Nat \ T : n <= m
  <2>1. Nat \ T \subseteq Nat /\ Nat \ T # {}
    OBVIOUS
  <2>. QED
    BY <2>1, LeastNumber
<1>2. n # 0 /\ n - 1 \in Nat /\ n = (n - 1) + 1
  BY <1>1
<1>3. n - 1 \notin Nat \ T
  BY <1>1, <1>2
<1>. QED
  BY <1>1, <1>2, <1>3

\* Numbers up to n alone.
LEMMA BoundedInduction ==
  ASSUME NEW n \in Nat, NEW T, 0 \in T, \A k \in 1 .. n : k - 1 \in T => k \in T
  PROVE  \A k \in 0 .. n : k \in T
<1>. DEFINE U == {k \in Nat : k <= n => k \in T}
<1>1. 0 \in U
  OBVIOUS
<1>2. \A k \in Nat : k \in U => k + 1 \in U
  <2>. SUFFICES ASSUME NEW k \in Nat, k \in U, k + 1 <= n PROVE k + 1 \in T
    OBVIOUS
  <2>1. k \in T /\ k + 1 \in 1 .. n /\ (k + 1) - 1 = k
    OBVIOUS
  <2>. QED
    BY <2>1
<1>3. \A k \in Nat : k \in U
  <2>. HIDE DEF U
  <2>. QED
    BY <1>1, <1>2, NaturalInduction
<1>. QED
  BY <1>3

(***************************************************************************)
(* Recursion over the subsets of a finite set, an element at a time.       *)
(***************************************************************************)
\* g is the fold of each subset of S: an element after another, in the order of choice.
IsFold(g, S, V, base, choice, step) ==
  /\ g \in [SUBSET S -> V]
  /\ g = [t \in SUBSET S |-> IF t = {} THEN base
                             ELSE step[<<choice[t], g[t \ {choice[t]}]>>]]

LEMMA FoldExists ==
  ASSUME NEW S, IsFiniteSet(S), NEW V, NEW base \in V,
         NEW choice, \A t \in SUBSET S : t # {} => choice[t] \in t,
         NEW step, \A x \in S, v \in V : step[<<x, v>>] \in V
  PROVE  \E g : IsFold(g, S, V, base, choice, step)
<1>. DEFINE Upto(n) == {t \in SUBSET S : Cardinality(t) <= n}
            Body(g, t) == IF t = {} THEN base ELSE step[<<choice[t], g[t \ {choice[t]}]>>]
            Recurses(g, n) == g \in [Upto(n) -> V] /\ \A t \in Upto(n) : g[t] = Body(g, t)
            T == {n \in Nat : \E g : Recurses(g, n)}
<1>1. \A t \in SUBSET S : /\ IsFiniteSet(t)
                          /\ Cardinality(t) \in Nat
                          /\ Cardinality(t) = 0 <=> t = {}
                          /\ t # {} => Cardinality(t \ {choice[t]}) = Cardinality(t) - 1
  BY FS_Subset, FS_CardinalityType, FS_EmptySet, FS_RemoveElement
<1>2. 0 \in T
  <2>. DEFINE g == [t \in Upto(0) |-> base]
  <2>1. ASSUME NEW t \in Upto(0) PROVE t = {}
    <3>1. Cardinality(t) \in Nat /\ (Cardinality(t) = 0 <=> t = {})
      BY <1>1
    <3>2. Cardinality(t) <= 0
      OBVIOUS
    <3>3. Cardinality(t) = 0
      <4>. HIDE DEF Upto
      <4>. DEFINE k == Cardinality(t)
      <4>. HIDE DEF k
      <4>. QED
        BY <3>1, <3>2 DEF k
    <3>. QED
      BY <3>1, <3>3
  <2>2. Recurses(g, 0)
    BY <2>1
  <2>. QED
    BY <2>2
<1>3. ASSUME NEW n \in Nat, n \in T PROVE n + 1 \in T
  <2>1. PICK g : Recurses(g, n)
    BY <1>3
  <2>. DEFINE h == [t \in Upto(n + 1) |-> Body(g, t)]
  <2>2. ASSUME NEW t \in Upto(n + 1), t # {}
        PROVE  t \ {choice[t]} \in Upto(n) /\ choice[t] \in S
    <3>1. /\ Cardinality(t) \in Nat /\ Cardinality(t) <= n + 1
          /\ Cardinality(t \ {choice[t]}) = Cardinality(t) - 1
      BY <1>1, <2>2
    <3>2. t \ {choice[t]} \in SUBSET S /\ Cardinality(t \ {choice[t]}) <= n
      BY <3>1
    <3>. QED
      BY <2>2, <3>2
  <2>3. ASSUME NEW t \in Upto(n) PROVE t \in Upto(n + 1) /\ h[t] = g[t]
    <3>1. Cardinality(t) \in Nat /\ Cardinality(t) <= n
      BY <1>1
    <3>2. t \in Upto(n + 1)
      BY <3>1
    <3>. QED
      BY <2>1, <3>2
  <2>4. h \in [Upto(n + 1) -> V]
    <3>1. \A t \in Upto(n) : g[t] \in V
      BY <2>1
    <3>2. ASSUME NEW t \in Upto(n + 1) PROVE Body(g, t) \in V
      BY <2>2, <3>1
    <3>. QED
      BY <3>2
  <2>5. ASSUME NEW t \in Upto(n + 1) PROVE h[t] = Body(h, t)
    BY <2>2, <2>3
  <2>. HIDE DEF h, Body, Upto
  <2>6. Recurses(h, n + 1)
    BY <2>4, <2>5
  <2>. QED
    BY <2>6
<1>4. Cardinality(S) \in T
  <2>. HIDE DEF T
  <2>. QED
    BY <1>2, <1>3, FS_CardinalityType, NaturalInduction
<1>5. PICK g : Recurses(g, Cardinality(S))
  BY <1>4
<1>6. Upto(Cardinality(S)) = SUBSET S
  BY FS_Subset
<1>7. g \in [SUBSET S -> V] /\ \A t \in SUBSET S : g[t] = Body(g, t)
  BY <1>5, <1>6
<1>. QED
  BY <1>7 DEF IsFold

\* Induction over the subsets of a finite set.
LEMMA SubsetInduction ==
  ASSUME NEW S, IsFiniteSet(S), NEW T, {} \in T,
         \A t \in SUBSET S : t # {} /\ (\A x \in t : t \ {x} \in T) => t \in T
  PROVE  \A t \in SUBSET S : t \in T
<1>. DEFINE U == {n \in Nat : \A t \in SUBSET S : Cardinality(t) = n => t \in T}
<1>1. \A t \in SUBSET S : /\ Cardinality(t) \in Nat
                          /\ Cardinality(t) = 0 <=> t = {}
                          /\ \A x \in t : Cardinality(t \ {x}) = Cardinality(t) - 1
  BY FS_Subset, FS_CardinalityType, FS_EmptySet, FS_RemoveElement
<1>2. 0 \in U
  BY <1>1
<1>3. ASSUME NEW n \in Nat, n \in U PROVE n + 1 \in U
  <2>. SUFFICES ASSUME NEW t \in SUBSET S, Cardinality(t) = n + 1 PROVE t \in T
    OBVIOUS
  <2>1. t # {}
    BY <1>1
  <2>2. \A x \in t : t \ {x} \in SUBSET S /\ Cardinality(t \ {x}) = n
    BY <1>1
  <2>3. \A x \in t : t \ {x} \in T
    BY <1>3, <2>2
  <2>. QED
    BY <2>1, <2>3
<1>4. \A n \in Nat : n \in U
  <2>. HIDE DEF U
  <2>. QED
    BY <1>2, <1>3, NaturalInduction
<1>. QED
  BY <1>1, <1>4

\* What satisfies the equation of the fold wherever it is in V is the fold.
LEMMA FoldIs ==
  ASSUME NEW S, IsFiniteSet(S), NEW V, NEW base \in V,
         NEW choice, \A t \in SUBSET S : t # {} => choice[t] \in t,
         NEW step, \A x \in S, v \in V : step[<<x, v>>] \in V,
         NEW h, h = [t \in SUBSET S |-> h[t]], h[{}] = base,
         \A t \in SUBSET S : t # {} /\ h[t \ {choice[t]}] \in V =>
           h[t] = step[<<choice[t], h[t \ {choice[t]}]>>]
  PROVE  IsFold(h, S, V, base, choice, step)
<1>. DEFINE T == {t \in SUBSET S : h[t] \in V}
<1>1. {} \in T
  OBVIOUS
<1>2. ASSUME NEW t \in SUBSET S, t # {}, \A x \in t : t \ {x} \in T PROVE t \in T
  <2>1. choice[t] \in t /\ choice[t] \in S
    BY <1>2
  <2>2. h[t \ {choice[t]}] \in V
    BY <1>2, <2>1
  <2>3. h[t] = step[<<choice[t], h[t \ {choice[t]}]>>]
    BY <1>2, <2>2
  <2>. QED
    BY <2>1, <2>2, <2>3
<1>3. \A t \in SUBSET S : t \in T
  <2>1. \A t \in SUBSET S : t # {} /\ (\A x \in t : t \ {x} \in T) => t \in T
    <3>. SUFFICES ASSUME NEW t \in SUBSET S, t # {}, \A x \in t : t \ {x} \in T PROVE t \in T
      OBVIOUS
    <3>. QED
      BY <1>2
  <2>. HIDE DEF T
  <2>. QED
    BY <1>1, <2>1, SubsetInduction
<1>4. h \in [SUBSET S -> V]
  BY <1>3
<1>5. ASSUME NEW t \in SUBSET S
      PROVE  h[t] = IF t = {} THEN base ELSE step[<<choice[t], h[t \ {choice[t]}]>>]
  <2>1. CASE t = {}
    BY <2>1
  <2>2. CASE t # {}
    <3>1. t \ {choice[t]} \in SUBSET S
      OBVIOUS
    <3>2. h[t \ {choice[t]}] \in V
      BY <1>3, <3>1
    <3>. QED
      BY <2>2, <3>2
  <2>. QED
    BY <2>1, <2>2
<1>. QED
  BY <1>4, <1>5 DEF IsFold

(***************************************************************************)
(* Folds of sequences.                                                     *)
(***************************************************************************)
LEMMA Maximum ==
  ASSUME NEW n \in Nat
  PROVE  /\ \A t \in SUBSET (1 .. n) : t # {} => Max(t) \in t
         /\ \A k \in 1 .. n : Max(1 .. k) = k
<1>1. ASSUME NEW t \in SUBSET (1 .. n), t # {} PROVE Max(t) \in t
  <2>. DEFINE T == {n - x : x \in t}
  <2>1. T \subseteq Nat /\ T # {}
    <3>1. ASSUME NEW x \in t PROVE n - x \in Nat
      <4>1. x \in 1 .. n
        OBVIOUS
      <4>. QED
        BY <4>1
    <3>. QED
      BY <1>1, <3>1
  <2>2. PICK m \in T : \A y \in T : m <= y
    <3>. HIDE DEF T
    <3>. QED
      BY <2>1, LeastNumber
  <2>3. PICK x \in t : m = n - x
    BY <2>2
  <2>4. ASSUME NEW y \in t PROVE x >= y
    <3>1. n - y \in T /\ x \in Nat /\ y \in Nat
      OBVIOUS
    <3>2. n - x <= n - y
      BY <2>2, <2>3, <3>1
    <3>. QED
      BY <3>1, <3>2
  <2>. QED
    BY <2>4 DEF Max
<1>2. ASSUME NEW k \in 1 .. n PROVE Max(1 .. k) = k
  <2>. DEFINE m == Max(1 .. k)
  <2>1. k \in 1 .. k /\ \A y \in 1 .. k : k >= y
    OBVIOUS
  <2>2. m \in 1 .. k /\ \A y \in 1 .. k : m >= y
    BY <2>1 DEF Max
  <2>3. m >= k /\ m <= k /\ m \in Nat
    BY <2>1, <2>2
  <2>. HIDE DEF m
  <2>4. m = k
    BY <2>3
  <2>. QED
    BY <2>4 DEF m
<1>. QED
  BY <1>1, <1>2

\* acc[k] is the fold of the first k elements of a sequence of n, by a step that is
\* given the place of an element and the fold of those before it.
Accumulates(acc, n, V, base, step) ==
  /\ acc \in [0 .. n -> V]
  /\ acc[0] = base
  /\ \A k \in 1 .. n : acc[k] = step[<<k, acc[k - 1]>>]

Largest(n) == [t \in SUBSET (1 .. n) |-> Max(t)]

LEMMA FoldOfSequence ==
  ASSUME NEW n \in Nat, NEW V, NEW base, NEW step, NEW g, IsFold(g, 1 .. n, V, base, Largest(n), step)
  PROVE  \E acc : Accumulates(acc, n, V, base, step) /\ acc[n] = g[1 .. n]
<1>. DEFINE acc == [k \in 0 .. n |-> g[1 .. k]]
<1>1. \A k \in 0 .. n : 1 .. k \in SUBSET (1 .. n)
  OBVIOUS
<1>2. acc \in [0 .. n -> V]
  BY <1>1 DEF IsFold
<1>3. acc[0] = base
  <2>1. 1 .. 0 = {} /\ acc[0] = g[1 .. 0]
    OBVIOUS
  <2>. QED
    BY <2>1 DEF IsFold
<1>4. ASSUME NEW k \in 1 .. n PROVE acc[k] = step[<<k, acc[k - 1]>>]
  <2>1. 1 .. k # {} /\ (1 .. k) \ {k} = 1 .. k - 1
    OBVIOUS
  <2>2. acc[k] = g[1 .. k] /\ acc[k - 1] = g[1 .. k - 1]
    OBVIOUS
  <2>3. 1 .. k \in SUBSET (1 .. n)
    OBVIOUS
  <2>4. Largest(n)[1 .. k] = k
    BY <2>3, Maximum DEF Largest
  <2>. HIDE DEF acc
  <2>5. g[1 .. k] = step[<<k, g[(1 .. k) \ {k}]>>]
    BY <2>1, <2>3, <2>4 DEF IsFold
  <2>. QED
    BY <2>1, <2>2, <2>5
<1>5. acc[n] = g[1 .. n]
  OBVIOUS
<1>6. Accumulates(acc, n, V, base, step)
  BY <1>2, <1>3, <1>4 DEF Accumulates
<1>. QED
  BY <1>5, <1>6

\* The n steps lead from V to V.
StaysWithin(step, n, V) == \A k \in 1 .. n, v \in V : step[<<k, v>>] \in V

\* A step within V has such a fold, and what satisfies its equation wherever it is in V
\* is that fold.
LEMMA SequenceFoldExists ==
  ASSUME NEW n \in Nat, NEW V, NEW base \in V,
         NEW step, StaysWithin(step, n, V)
  PROVE  \E g : IsFold(g, 1 .. n, V, base, Largest(n), step)
<1>1. IsFiniteSet(1 .. n)
  BY FS_Interval
<1>2. \A t \in SUBSET (1 .. n) : t # {} => Largest(n)[t] \in t
  BY Maximum DEF Largest
<1>. QED
  BY <1>1, <1>2, FoldExists DEF StaysWithin

FoldsWithin(h, n, V, base, step) ==
  /\ h = [t \in SUBSET (1 .. n) |-> h[t]]
  /\ h[{}] = base
  /\ \A t \in SUBSET (1 .. n) : t # {} /\ h[t \ {Max(t)}] \in V =>
       h[t] = step[<<Max(t), h[t \ {Max(t)}]>>]

LEMMA SequenceFoldIs ==
  ASSUME NEW n \in Nat, NEW V, NEW base \in V,
         NEW step, StaysWithin(step, n, V),
         NEW h, FoldsWithin(h, n, V, base, step)
  PROVE  \E acc : Accumulates(acc, n, V, base, step) /\ acc[n] = h[1 .. n]
<1>1. IsFiniteSet(1 .. n)
  BY FS_Interval
<1>2. \A t \in SUBSET (1 .. n) : t # {} => Largest(n)[t] \in t
  BY Maximum DEF Largest
<1>3. \A t \in SUBSET (1 .. n) : t # {} /\ h[t \ {Largest(n)[t]}] \in V =>
        h[t] = step[<<Largest(n)[t], h[t \ {Largest(n)[t]}]>>]
  BY DEF FoldsWithin, Largest
<1>4. IsFold(h, 1 .. n, V, base, Largest(n), step)
  <2>1. h = [t \in SUBSET (1 .. n) |-> h[t]] /\ h[{}] = base
    BY DEF FoldsWithin
  <2>. QED
    BY <1>1, <1>2, <1>3, <2>1, FoldIs DEF StaysWithin
<1>. QED
  BY <1>4, FoldOfSequence

(***************************************************************************)
(* Sums.                                                                   *)
(***************************************************************************)
\* g[t] is the sum of f over t, for the subsets of S.
IsSum(g, f, S) ==
  /\ g \in [SUBSET S -> Nat]
  /\ g[{}] = 0
  /\ \A t \in SUBSET S : t # {} =>
       g[t] = f[CHOOSE x \in t : TRUE] + g[t \ {CHOOSE x \in t : TRUE}]

LEMMA SumRecurses ==
  ASSUME NEW S, IsFiniteSet(S), NEW f, \A x \in S : f[x] \in Nat
  PROVE  \E g : IsSum(g, f, S) /\ SumFunctionOnSet(f, S) = g[S]
<1>. DEFINE choice == [t \in SUBSET S |-> CHOOSE x \in t : TRUE]
            step == [xv \in S \X Nat |-> f[xv[1]] + xv[2]]
            Sums(g) == g = [t \in SUBSET S |->
                              IF t = {} THEN 0
                              ELSE f[CHOOSE x \in t : TRUE] + g[t \ {CHOOSE x \in t : TRUE}]]
            iter == CHOOSE g : Sums(g)
<1>1. SumFunctionOnSet(f, S) = iter[S]
  BY DEF SumFunctionOnSet, FoldFunctionOnSet, MapThenFoldSet
<1>2. \A t \in SUBSET S : t # {} => choice[t] \in t
  OBVIOUS
<1>3. \A x \in S, v \in Nat : step[<<x, v>>] \in Nat
  OBVIOUS
<1>4. PICK g : IsFold(g, S, Nat, 0, choice, step)
  <2>1. 0 \in Nat
    OBVIOUS
  <2>. HIDE DEF choice, step
  <2>. QED
    BY <1>2, <1>3, <2>1, FoldExists
<1>5. Sums(g)
  <2>1. ASSUME NEW t \in SUBSET S, t # {}
        PROVE  step[<<choice[t], g[t \ {choice[t]}]>>]
                 = f[CHOOSE x \in t : TRUE] + g[t \ {CHOOSE x \in t : TRUE}]
    <3>. DEFINE c == choice[t]
    <3>1. c \in S /\ g[t \ {c}] \in Nat
      <4>1. c \in t
        BY <1>2, <2>1
      <4>. HIDE DEF c, choice, step
      <4>. QED
        BY <1>4, <4>1 DEF IsFold
    <3>2. c = CHOOSE x \in t : TRUE
      OBVIOUS
    <3>. HIDE DEF c, choice
    <3>3. step[<<c, g[t \ {c}]>>] = f[c] + g[t \ {c}]
      BY <3>1
    <3>. QED
      BY <3>2, <3>3 DEF c
  <2>. HIDE DEF step, choice
  <2>. QED
    BY <1>4, <2>1 DEF IsFold
<1>6. Sums(iter)
  BY <1>5
<1>. HIDE DEF iter
<1>7. iter[{}] = 0 /\ \A t \in SUBSET S : t # {} =>
        iter[t] = f[CHOOSE x \in t : TRUE] + iter[t \ {CHOOSE x \in t : TRUE}]
  BY <1>6
<1>8. \A t \in SUBSET S : t \in {u \in SUBSET S : iter[u] \in Nat}
  <2>. DEFINE T == {u \in SUBSET S : iter[u] \in Nat}
  <2>1. {} \in T
    BY <1>7
  <2>2. ASSUME NEW t \in SUBSET S, t # {}, \A x \in t : t \ {x} \in T PROVE t \in T
    <3>. DEFINE c == CHOOSE x \in t : TRUE
    <3>1. c \in t
      BY <2>2
    <3>2. iter[t] = f[c] + iter[t \ {c}]
      BY <1>7, <2>2
    <3>3. iter[t \ {c}] \in Nat /\ f[c] \in Nat
      BY <2>2, <3>1
    <3>. QED
      BY <3>2, <3>3
  <2>. HIDE DEF T
  <2>3. \A t \in SUBSET S : t \in T
    BY <2>1, <2>2, SubsetInduction
  <2>. QED
    BY <2>3 DEF T
<1>9. iter \in [SUBSET S -> Nat]
  BY <1>6, <1>8
<1>10. IsSum(iter, f, S)
  BY <1>7, <1>9 DEF IsSum
<1>. QED
  BY <1>1, <1>10

LEMMA SumOfSubset ==
  ASSUME NEW S, IsFiniteSet(S), NEW f, NEW g, IsSum(g, f, S),
         NEW R \in SUBSET S, \A x \in R : f[x] \in Nat
  PROVE  SumFunctionOnSet(f, R) = g[R]
<1>1. IsFiniteSet(R)
  BY FS_Subset
<1>2. PICK h : IsSum(h, f, R) /\ SumFunctionOnSet(f, R) = h[R]
  BY <1>1, SumRecurses
<1>. DEFINE T == {t \in SUBSET R : h[t] = g[t]}
<1>3. {} \in T
  BY <1>2 DEF IsSum
<1>4. ASSUME NEW t \in SUBSET R, t # {}, \A x \in t : t \ {x} \in T PROVE t \in T
  <2>. DEFINE c == CHOOSE x \in t : TRUE
  <2>1. c \in t
    BY <1>4
  <2>2. h[t \ {c}] = g[t \ {c}]
    BY <1>4, <2>1
  <2>3. h[t] = f[c] + h[t \ {c}] /\ g[t] = f[c] + g[t \ {c}]
    BY <1>2, <1>4 DEF IsSum
  <2>. QED
    BY <2>2, <2>3
<1>5. R \in T
  <2>1. \A t \in SUBSET R : t # {} /\ (\A x \in t : t \ {x} \in T) => t \in T
    <3>. SUFFICES ASSUME NEW t \in SUBSET R, t # {}, \A x \in t : t \ {x} \in T PROVE t \in T
      OBVIOUS
    <3>. QED
      BY <1>4
  <2>. HIDE DEF T
  <2>. QED
    BY <1>1, <1>3, <2>1, SubsetInduction
<1>. QED
  BY <1>2, <1>5

\* A sum is a number, nothing adds up to 0, and any element may be taken out first.
LEMMA SumElement ==
  ASSUME NEW S, IsFiniteSet(S), NEW f, \A x \in S : f[x] \in Nat
  PROVE  /\ SumFunctionOnSet(f, S) \in Nat
         /\ S = {} => SumFunctionOnSet(f, S) = 0
         /\ \A x \in S : SumFunctionOnSet(f, S) = f[x] + SumFunctionOnSet(f, S \ {x})
<1>1. PICK g : IsSum(g, f, S) /\ SumFunctionOnSet(f, S) = g[S]
  BY SumRecurses
<1>. USE DEF IsSum
<1>. DEFINE T == {t \in SUBSET S : \A x \in t : g[t] = f[x] + g[t \ {x}]}
<1>2. {} \in T
  OBVIOUS
<1>3. ASSUME NEW t \in SUBSET S, t # {}, \A x \in t : t \ {x} \in T, NEW x \in t
      PROVE  g[t] = f[x] + g[t \ {x}]
  <2>. DEFINE c == CHOOSE y \in t : TRUE
  <2>1. c \in t /\ g[t] = f[c] + g[t \ {c}]
    BY <1>1, <1>3
  <2>. HIDE DEF c
  <2>2. CASE x = c
    BY <2>1, <2>2
  <2>3. CASE x # c
    <3>. DEFINE u == (t \ {c}) \ {x}
    <3>1. u = (t \ {x}) \ {c} /\ x \in t \ {c} /\ c \in t \ {x}
      BY <2>1, <2>3
    <3>2. t \ {c} \in T /\ t \ {x} \in T
      BY <1>3, <2>1
    <3>3. g[t \ {c}] = f[x] + g[u] /\ g[t \ {x}] = f[c] + g[u]
      BY <3>1, <3>2
    <3>4. g[u] \in Nat /\ f[x] \in Nat /\ f[c] \in Nat
      <4>1. u \in SUBSET S /\ x \in S /\ c \in S
        BY <2>1
      <4>. HIDE DEF u
      <4>. QED
        BY <1>1, <4>1
    <3>. HIDE DEF u
    <3>. QED
      BY <2>1, <3>3, <3>4
  <2>. QED
    BY <2>2, <2>3
<1>4. S \in T
  <2>1. \A t \in SUBSET S : t # {} /\ (\A x \in t : t \ {x} \in T) => t \in T
    <3>. SUFFICES ASSUME NEW t \in SUBSET S, t # {}, \A x \in t : t \ {x} \in T PROVE t \in T
      OBVIOUS
    <3>. QED
      BY <1>3
  <2>2. {} \in T
    BY <1>2
  <2>. HIDE DEF T, IsSum
  <2>3. \A t \in SUBSET S : t \in T
    BY <2>1, <2>2, SubsetInduction, Zenon
  <2>. QED
    BY <2>3
<1>. HIDE DEF IsSum
<1>5. ASSUME NEW x \in S PROVE SumFunctionOnSet(f, S \ {x}) = g[S \ {x}]
  <2>1. S \ {x} \in SUBSET S /\ \A y \in S \ {x} : f[y] \in Nat
    OBVIOUS
  <2>. QED
    BY <1>1, <2>1, SumOfSubset
<1>6. g[S] \in Nat /\ g[{}] = 0
  BY <1>1 DEF IsSum
<1>7. \A x \in S : g[S] = f[x] + g[S \ {x}]
  BY <1>4
<1>. QED
  BY <1>1, <1>5, <1>6, <1>7

LEMMA SumType ==
  ASSUME NEW S, IsFiniteSet(S), NEW f, \A x \in S : f[x] \in Nat
  PROVE  SumFunctionOnSet(f, S) \in Nat /\ \A x \in S : f[x] <= SumFunctionOnSet(f, S)
<1>1. SumFunctionOnSet(f, S) \in Nat
  BY SumElement
<1>2. ASSUME NEW x \in S PROVE f[x] <= SumFunctionOnSet(f, S)
  <2>1. IsFiniteSet(S \ {x})
    BY FS_RemoveElement
  <2>2. SumFunctionOnSet(f, S \ {x}) \in Nat
    BY <2>1, SumElement
  <2>3. SumFunctionOnSet(f, S) = f[x] + SumFunctionOnSet(f, S \ {x}) /\ f[x] \in Nat
    BY SumElement
  <2>. QED
    BY <2>2, <2>3
<1>. QED
  BY <1>1, <1>2

\* A sum over more elements, of values that are not smaller, is not smaller.
LEMMA SumMonotone ==
  ASSUME NEW S, IsFiniteSet(S), NEW R \in SUBSET S, NEW e, NEW f,
         \A x \in R : e[x] \in Nat /\ e[x] <= f[x],
         \A x \in S : f[x] \in Nat
  PROVE  SumFunctionOnSet(e, R) <= SumFunctionOnSet(f, S)
<1>. DEFINE T == {t \in SUBSET S : SumFunctionOnSet(e, t \cap R) <= SumFunctionOnSet(f, t)}
<1>1. \A t \in SUBSET S : IsFiniteSet(t) /\ IsFiniteSet(t \cap R)
  BY FS_Subset
<1>2. {} \in T
  <2>1. SumFunctionOnSet(e, {}) = 0 /\ SumFunctionOnSet(f, {}) = 0
    BY FS_EmptySet, SumElement
  <2>. QED
    BY <2>1
<1>3. ASSUME NEW t \in SUBSET S, t # {}, \A x \in t : t \ {x} \in T PROVE t \in T
  <2>1. PICK x \in t : TRUE
    BY <1>3
  <2>2. /\ SumFunctionOnSet(f, t) = f[x] + SumFunctionOnSet(f, t \ {x})
        /\ SumFunctionOnSet(f, t \ {x}) \in Nat /\ f[x] \in Nat
    <3>1. \A y \in t : f[y] \in Nat
      OBVIOUS
    <3>. QED
      BY <1>1, <3>1, SumElement
  <2>3. \A y \in t \cap R : e[y] \in Nat
    OBVIOUS
  <2>4. SumFunctionOnSet(e, (t \ {x}) \cap R) <= SumFunctionOnSet(f, t \ {x})
    BY <1>3
  <2>5. SumFunctionOnSet(e, (t \ {x}) \cap R) \in Nat
    BY <1>1, <2>3, SumElement
  <2>6. CASE x \in R
    <3>1. (t \ {x}) \cap R = (t \cap R) \ {x} /\ x \in t \cap R
      BY <2>6
    <3>2. SumFunctionOnSet(e, t \cap R) = e[x] + SumFunctionOnSet(e, (t \cap R) \ {x})
      BY <1>1, <2>3, <3>1, SumElement
    <3>3. e[x] \in Nat /\ e[x] <= f[x]
      BY <2>6
    <3>4. SumFunctionOnSet(e, t \cap R) <= SumFunctionOnSet(f, t)
      <4>. DEFINE p == SumFunctionOnSet(e, (t \cap R) \ {x})
                  q == SumFunctionOnSet(f, t \ {x})
      <4>1. p <= q /\ p \in Nat
        BY <2>4, <2>5, <3>1
      <4>. HIDE DEF p, q
      <4>. QED
        BY <2>2, <3>2, <3>3, <4>1 DEF p, q
    <3>. QED
      BY <3>4
  <2>7. CASE x \notin R
    <3>1. (t \ {x}) \cap R = t \cap R
      BY <2>7
    <3>2. SumFunctionOnSet(e, t \cap R) <= SumFunctionOnSet(f, t)
      <4>. DEFINE p == SumFunctionOnSet(e, t \cap R)
                  q == SumFunctionOnSet(f, t \ {x})
      <4>1. p <= q /\ p \in Nat
        BY <2>4, <2>5, <3>1
      <4>. HIDE DEF p, q
      <4>. QED
        BY <2>2, <4>1 DEF p, q
    <3>. QED
      BY <3>2
  <2>. QED
    BY <2>6, <2>7
<1>4. S \in T
  <2>. HIDE DEF T
  <2>. QED
    BY <1>2, <1>3, SubsetInduction
<1>5. S \cap R = R
  OBVIOUS
<1>. QED
  BY <1>4, <1>5

\* A sum changes by as much as the one value that does.
LEMMA SumChange ==
  ASSUME NEW S, IsFiniteSet(S), NEW e, NEW f, NEW r \in S,
         \A x \in S : e[x] \in Nat /\ f[x] \in Nat,
         \A x \in S \ {r} : e[x] = f[x]
  PROVE  SumFunctionOnSet(e, S) + f[r] = SumFunctionOnSet(f, S) + e[r]
<1>. DEFINE R == S \ {r}
<1>1. IsFiniteSet(R) /\ R \in SUBSET S
  BY FS_RemoveElement
<1>2. \A x \in R : e[x] \in Nat /\ f[x] \in Nat /\ e[x] <= f[x] /\ f[x] <= e[x]
  OBVIOUS
<1>3. /\ SumFunctionOnSet(e, S) = e[r] + SumFunctionOnSet(e, R)
      /\ SumFunctionOnSet(f, S) = f[r] + SumFunctionOnSet(f, R)
  BY SumElement
<1>. HIDE DEF R
<1>4. SumFunctionOnSet(e, R) <= SumFunctionOnSet(f, R) /\ SumFunctionOnSet(f, R) <= SumFunctionOnSet(e, R)
  BY <1>1, <1>2, SumMonotone
<1>5. SumFunctionOnSet(e, R) \in Nat /\ SumFunctionOnSet(f, R) \in Nat
  BY <1>1, <1>2, SumElement
<1>6. e[r] \in Nat /\ f[r] \in Nat
  OBVIOUS
<1>. QED
  BY <1>3, <1>4, <1>5, <1>6

==============================================================================
