--------------------------- MODULE CitationProofs ----------------------------
(***************************************************************************)
(* Proofs about CitationStream, for replies of any length and however they *)
(* are cut into tokens: the stream is the one-shot scrub.                  *)
(***************************************************************************)
EXTENDS CitationStream, FoldFacts, SequenceTheorems, TLAPS

Texts == Seq(Symbols)

(***************************************************************************)
(* What is left of a text.                                                 *)
(***************************************************************************)
LeftAfter(left, x, out) == IF out THEN left ELSE Append(left, x)

\* acc[k] is what is left of the first k symbols of xs without D.
Leaves(acc, xs, D) ==
  /\ acc \in [0 .. Len(xs) -> Texts]
  /\ acc[0] = << >>
  /\ \A k \in 1 .. Len(xs) : acc[k] = LeftAfter(acc[k - 1], xs[k], k \in D)

LEMMA WithoutAccumulates ==
  ASSUME NEW xs \in Texts, NEW D
  PROVE  \E acc : Leaves(acc, xs, D) /\ Without(xs, D) = acc[Len(xs)]
<1>. DEFINE n == Len(xs)
            at == [i \in DOMAIN xs |-> i]
            step == [kv \in (1 .. n) \X Texts |-> LeftAfter(kv[2], xs[kv[1]], kv[1] \in D)]
            Folds(g) == g = [t \in SUBSET (1 .. n) |->
                               IF t = {} THEN << >>
                               ELSE LeftAfter(g[t \ {Max(t)}], xs[at[Max(t)]], at[Max(t)] \in D)]
            iter == CHOOSE g : Folds(g)
<1>1. n \in Nat /\ DOMAIN xs = 1 .. n /\ DOMAIN at = 1 .. n /\ \A i \in 1 .. n : xs[i] \in Symbols
  BY ElementOfSeq, LenProperties DEF Texts
<1>2. Without(xs, D) = iter[1 .. n]
  <2>. HIDE DEF n
  <2>. QED
    BY <1>1 DEF Without, FoldLeft, MapThenFoldSet, LeftAfter
<1>3. \A k \in 1 .. n, v \in Texts : step[<<k, v>>] = LeftAfter(v, xs[k], k \in D)
  OBVIOUS
<1>4. StaysWithin(step, n, Texts)
  <2>1. ASSUME NEW k \in 1 .. n, NEW v \in Texts PROVE LeftAfter(v, xs[k], k \in D) \in Texts
    <3>. HIDE DEF n
    <3>. QED
      BY <1>1, AppendProperties DEF LeftAfter, Texts
  <2>. HIDE DEF step, n
  <2>. QED
    BY <1>3, <2>1 DEF StaysWithin
<1>. HIDE DEF step, n
<1>5. << >> \in Texts
  BY DEF Texts
<1>6. PICK g : IsFold(g, 1 .. n, Texts, << >>, Largest(n), step)
  BY <1>1, <1>4, <1>5, SequenceFoldExists
<1>7. Folds(g)
  <2>1. ASSUME NEW t \in SUBSET (1 .. n), t # {}
        PROVE  step[<<Max(t), g[t \ {Max(t)}]>>]
                 = LeftAfter(g[t \ {Max(t)}], xs[at[Max(t)]], at[Max(t)] \in D)
    <3>1. Max(t) \in 1 .. n
      BY <1>1, <2>1, Maximum
    <3>2. at[Max(t)] = Max(t)
      BY <1>1, <3>1
    <3>3. g[t \ {Max(t)}] \in Texts
      BY <1>6 DEF IsFold
    <3>. QED
      BY <1>3, <3>1, <3>2, <3>3
  <2>. HIDE DEF at
  <2>. QED
    BY <1>6, <2>1 DEF IsFold, Largest
<1>8. Folds(iter)
  BY <1>7
<1>. HIDE DEF iter
<1>9. FoldsWithin(iter, n, Texts, << >>, step)
  <2>1. iter = [t \in SUBSET (1 .. n) |-> iter[t]]
    BY <1>8
  <2>2. iter[{}] = << >>
    BY <1>8
  <2>3. ASSUME NEW t \in SUBSET (1 .. n), t # {}, iter[t \ {Max(t)}] \in Texts
        PROVE  iter[t] = step[<<Max(t), iter[t \ {Max(t)}]>>]
    <3>1. Max(t) \in 1 .. n
      BY <1>1, <2>3, Maximum
    <3>2. at[Max(t)] = Max(t)
      BY <1>1, <3>1
    <3>3. iter[t] = LeftAfter(iter[t \ {Max(t)}], xs[at[Max(t)]], at[Max(t)] \in D)
      <4>. HIDE DEF at
      <4>. QED
        BY <1>8, <2>3
    <3>. QED
      BY <1>3, <2>3, <3>1, <3>2, <3>3
  <2>. QED
    BY <2>1, <2>2, <2>3 DEF FoldsWithin
<1>10. PICK acc : Accumulates(acc, n, Texts, << >>, step) /\ acc[n] = iter[1 .. n]
  BY <1>1, <1>4, <1>5, <1>9, SequenceFoldIs
<1>11. \A k \in 1 .. n : acc[k] = LeftAfter(acc[k - 1], xs[k], k \in D)
  <2>. SUFFICES ASSUME NEW k \in 1 .. n PROVE acc[k] = LeftAfter(acc[k - 1], xs[k], k \in D)
    OBVIOUS
  <2>1. k - 1 \in 0 .. n
    BY <1>1
  <2>2. acc[k - 1] \in Texts /\ acc[k] = step[<<k, acc[k - 1]>>]
    BY <1>10, <2>1 DEF Accumulates
  <2>. QED
    BY <1>3, <2>2
<1>12. Leaves(acc, xs, D)
  BY <1>10, <1>11 DEF Accumulates, Leaves, n
<1>. QED
  BY <1>2, <1>10, <1>12 DEF n

LEMMA TextFacts ==
  ASSUME NEW xs \in Texts
  PROVE  /\ Len(xs) \in Nat
         /\ DOMAIN xs = 1 .. Len(xs)
         /\ \A i \in 1 .. Len(xs) : xs[i] \in Symbols
         /\ Len(xs) = 0 => xs = << >>
  BY ElementOfSeq, LenProperties, EmptySeq DEF Texts

LEMMA JoinFacts ==
  ASSUME NEW a \in Texts, NEW b \in Texts
  PROVE  /\ a \o b \in Texts
         /\ Len(a \o b) = Len(a) + Len(b)
         /\ \A i \in 1 .. Len(a) : (a \o b)[i] = a[i]
         /\ \A i \in 1 .. Len(b) : (a \o b)[Len(a) + i] = b[i]
<1>1. Len(a) \in Nat /\ Len(b) \in Nat
  BY TextFacts
<1>2. /\ a \o b \in Texts
      /\ Len(a \o b) = Len(a) + Len(b)
      /\ \A i \in 1 .. Len(a) + Len(b) : (a \o b)[i] = IF i <= Len(a) THEN a[i] ELSE b[i - Len(a)]
  BY ConcatProperties DEF Texts
<1>3. ASSUME NEW i \in 1 .. Len(b) PROVE (a \o b)[Len(a) + i] = b[i]
  <2>1. Len(a) + i \in 1 .. Len(a) + Len(b) /\ ~(Len(a) + i <= Len(a)) /\ (Len(a) + i) - Len(a) = i
    BY <1>1
  <2>. QED
    BY <1>2, <2>1
<1>. QED
  BY <1>1, <1>2, <1>3

LEMMA JoinAssociative ==
  ASSUME NEW a \in Texts, NEW b \in Texts, NEW c \in Texts
  PROVE  (a \o b) \o c = a \o (b \o c)
  BY ConcatAssociative DEF Texts

LEMMA JoinEmpty ==
  ASSUME NEW a \in Texts
  PROVE  a \o << >> = a /\ << >> \o a = a
  BY ConcatEmptySeq DEF Texts

LEMMA AppendToJoin ==
  ASSUME NEW a \in Texts, NEW b \in Texts, NEW x \in Symbols
  PROVE  Append(a \o b, x) = a \o Append(b, x)
<1>1. <<x>> \in Texts
  BY DEF Texts
<1>2. a \o b \in Texts
  BY JoinFacts
<1>3. Append(a \o b, x) = (a \o b) \o <<x>> /\ Append(b, x) = b \o <<x>>
  BY <1>2, AppendIsConcat DEF Texts
<1>4. (a \o b) \o <<x>> = a \o (b \o <<x>>)
  BY <1>1, JoinAssociative
<1>. QED
  BY <1>3, <1>4

LEMMA LeftOverIsText ==
  ASSUME NEW xs \in Texts, NEW D
  PROVE  Without(xs, D) \in Texts
<1>1. PICK acc : Leaves(acc, xs, D) /\ Without(xs, D) = acc[Len(xs)]
  BY WithoutAccumulates
<1>2. Len(xs) \in 0 .. Len(xs)
  BY TextFacts
<1>. QED
  BY <1>1, <1>2 DEF Leaves

\* A text may be cut anywhere, and D with it.
LEMMA WithoutJoin ==
  ASSUME NEW a \in Texts, NEW b \in Texts, NEW D, NEW Da, NEW Db,
         \A k \in 1 .. Len(a) : k \in D <=> k \in Da,
         \A k \in 1 .. Len(b) : Len(a) + k \in D <=> k \in Db
  PROVE  Without(a \o b, D) = Without(a, Da) \o Without(b, Db)
<1>. DEFINE xs == a \o b
            n == Len(a)
            m == Len(b)
<1>1. /\ xs \in Texts /\ Len(xs) = n + m /\ n \in Nat /\ m \in Nat
      /\ \A i \in 1 .. n : xs[i] = a[i]
      /\ \A i \in 1 .. m : xs[n + i] = b[i]
      /\ \A i \in 1 .. m : b[i] \in Symbols
  BY JoinFacts, TextFacts
<1>2. PICK acc : Leaves(acc, xs, D) /\ Without(xs, D) = acc[Len(xs)]
  BY <1>1, WithoutAccumulates
<1>3. PICK aa : Leaves(aa, a, Da) /\ Without(a, Da) = aa[n]
  BY WithoutAccumulates
<1>4. PICK bb : Leaves(bb, b, Db) /\ Without(b, Db) = bb[m]
  BY WithoutAccumulates
<1>. HIDE DEF xs, n, m
<1>5. acc[n] = aa[n]
  <2>. DEFINE T == {k \in 0 .. n : acc[k] = aa[k]}
  <2>1. 0 \in T
    BY <1>1, <1>2, <1>3 DEF Leaves
  <2>2. ASSUME NEW k \in 1 .. n, k - 1 \in T PROVE k \in T
    <3>1. acc[k] = LeftAfter(acc[k - 1], xs[k], k \in D)
      <4>1. k \in 1 .. Len(xs)
        BY <1>1
      <4>. QED
        BY <1>2, <4>1 DEF Leaves
    <3>2. aa[k] = LeftAfter(aa[k - 1], a[k], k \in Da)
      BY <1>3 DEF Leaves, n
    <3>3. (k \in D) <=> (k \in Da)
      BY DEF n
    <3>4. xs[k] = a[k] /\ acc[k - 1] = aa[k - 1] /\ k \in 0 .. n
      BY <1>1, <2>2
    <3>. QED
      BY <3>1, <3>2, <3>3, <3>4 DEF LeftAfter
  <2>3. \A k \in 0 .. n : k \in T
    <3>. HIDE DEF T
    <3>. QED
      BY <1>1, <2>1, <2>2, BoundedInduction
  <2>. QED
    BY <1>1, <2>3
<1>6. aa[n] \in Texts
  BY <1>1, <1>3 DEF Leaves, n
<1>7. acc[n + m] = aa[n] \o bb[m]
  <2>. DEFINE Joined(k) == aa[n] \o bb[k]
              T == {k \in 0 .. m : acc[n + k] = Joined(k)}
  <2>1. Joined(0) = acc[n]
    <3>1. bb[0] = << >>
      BY <1>4 DEF Leaves
    <3>2. aa[n] \o << >> = aa[n]
      BY <1>6, JoinEmpty
    <3>. QED
      BY <1>5, <3>1, <3>2
  <2>2. ASSUME NEW k \in 1 .. m
        PROVE  Joined(k) = LeftAfter(Joined(k - 1), b[k], k \in Db)
    <3>1. bb[k] = LeftAfter(bb[k - 1], b[k], k \in Db) /\ bb[k - 1] \in Texts
      <4>1. k - 1 \in 0 .. Len(b)
        BY <1>1 DEF m
      <4>. QED
        BY <1>4, <4>1 DEF Leaves, m
    <3>2. Append(aa[n] \o bb[k - 1], b[k]) = aa[n] \o Append(bb[k - 1], b[k])
      BY <1>1, <1>6, <3>1, AppendToJoin
    <3>. QED
      BY <3>1, <3>2 DEF LeftAfter
  <2>. HIDE DEF Joined
  <2>3. 0 \in T
    BY <1>1, <2>1
  <2>4. ASSUME NEW k \in 1 .. m, k - 1 \in T PROVE k \in T
    <3>1. acc[n + k] = LeftAfter(acc[(n + k) - 1], xs[n + k], n + k \in D)
      <4>1. n + k \in 1 .. Len(xs)
        BY <1>1
      <4>2. \A j \in 1 .. Len(xs) : acc[j] = LeftAfter(acc[j - 1], xs[j], j \in D)
        BY <1>2 DEF Leaves
      <4>. QED
        BY <4>1, <4>2
    <3>2. (n + k \in D) <=> (k \in Db)
      BY DEF n, m
    <3>3. xs[n + k] = b[k]
      BY <1>1
    <3>4. acc[(n + k) - 1] = Joined(k - 1)
      <4>1. n + (k - 1) = (n + k) - 1
        BY <1>1
      <4>. QED
        BY <2>4, <4>1
    <3>5. acc[n + k] = Joined(k)
      BY <2>2, <3>1, <3>2, <3>3, <3>4 DEF LeftAfter
    <3>. QED
      BY <1>1, <3>5
  <2>5. \A k \in 0 .. m : k \in T
    <3>. HIDE DEF T
    <3>. QED
      BY <1>1, <2>3, <2>4, BoundedInduction
  <2>6. acc[n + m] = Joined(m)
    BY <1>1, <2>5
  <2>. QED
    BY <2>6 DEF Joined
<1>. QED
  BY <1>1, <1>2, <1>3, <1>4, <1>7 DEF xs, n, m

LEMMA WithoutNothing ==
  ASSUME NEW xs \in Texts, NEW D, \A k \in 1 .. Len(xs) : k \notin D
  PROVE  Without(xs, D) = xs
<1>. DEFINE n == Len(xs)
<1>1. n \in Nat /\ \A i \in 1 .. n : xs[i] \in Symbols
  BY TextFacts
<1>2. PICK acc : Leaves(acc, xs, D) /\ Without(xs, D) = acc[n]
  BY WithoutAccumulates
<1>. HIDE DEF n
<1>. DEFINE T == {k \in 0 .. n : acc[k] = SubSeq(xs, 1, k)}
<1>3. 0 \in T
  <2>1. SubSeq(xs, 1, 0) = << >>
    BY SubSeqEmpty
  <2>2. acc[0] = SubSeq(xs, 1, 0)
    BY <1>2, <2>1 DEF Leaves
  <2>. QED
    BY <1>1, <2>2
<1>4. ASSUME NEW k \in 1 .. n, k - 1 \in T PROVE k \in T
  <2>1. acc[k] = Append(acc[k - 1], xs[k])
    BY <1>2 DEF Leaves, LeftAfter, n
  <2>2. acc[k - 1] = SubSeq(xs, 1, k - 1) /\ acc[k - 1] \in Texts
    <3>1. k - 1 \in 0 .. n
      BY <1>1
    <3>. QED
      BY <1>2, <1>4, <3>1 DEF Leaves, n
  <2>3. SubSeq(xs, 1, k) = SubSeq(xs, 1, k - 1) \o <<xs[k]>>
    <3>1. 1 \in 1 .. n /\ k \in 1 .. n
      BY <1>1
    <3>. QED
      BY <3>1, SubSeqRecursiveSecond DEF Texts, n
  <2>4. Append(acc[k - 1], xs[k]) = acc[k - 1] \o <<xs[k]>>
    BY <1>1, <2>2, AppendIsConcat DEF Texts
  <2>5. acc[k] = SubSeq(xs, 1, k)
    BY <2>1, <2>2, <2>3, <2>4
  <2>. QED
    BY <1>1, <2>5
<1>5. \A k \in 0 .. n : k \in T
  <2>. HIDE DEF T
  <2>. QED
    BY <1>1, <1>3, <1>4, BoundedInduction
<1>6. acc[n] = SubSeq(xs, 1, n)
  BY <1>1, <1>5
<1>. QED
  BY <1>2, <1>6, SubSeqFull DEF n, Texts

LEMMA WithoutAll ==
  ASSUME NEW xs \in Texts, NEW D, \A k \in 1 .. Len(xs) : k \in D
  PROVE  Without(xs, D) = << >>
<1>. DEFINE n == Len(xs)
<1>1. n \in Nat
  BY TextFacts
<1>2. PICK acc : Leaves(acc, xs, D) /\ Without(xs, D) = acc[n]
  BY WithoutAccumulates
<1>. HIDE DEF n
<1>. DEFINE T == {k \in 0 .. n : acc[k] = << >>}
<1>3. 0 \in T
  BY <1>1, <1>2 DEF Leaves
<1>4. ASSUME NEW k \in 1 .. n, k - 1 \in T PROVE k \in T
  BY <1>1, <1>2, <1>4 DEF Leaves, LeftAfter, n
<1>5. \A k \in 0 .. n : k \in T
  <2>. HIDE DEF T
  <2>. QED
    BY <1>1, <1>3, <1>4, BoundedInduction
<1>. QED
  BY <1>1, <1>2, <1>5

(***************************************************************************)
(* Texts without their spaces.                                             *)
(***************************************************************************)
LEMMA SpacesJoin ==
  ASSUME NEW a \in Texts, NEW b \in Texts
  PROVE  WithoutSpaces(a \o b) = WithoutSpaces(a) \o WithoutSpaces(b)
<1>. DEFINE xs == a \o b
            D  == {i \in DOMAIN xs : xs[i] = Space}
            Da == {i \in DOMAIN a : a[i] = Space}
            Db == {i \in DOMAIN b : b[i] = Space}
            n  == Len(a)
            m  == Len(b)
<1>1. /\ n \in Nat /\ m \in Nat /\ DOMAIN a = 1 .. n /\ DOMAIN b = 1 .. m
      /\ DOMAIN xs = 1 .. n + m
      /\ \A i \in 1 .. n : xs[i] = a[i]
      /\ \A i \in 1 .. m : xs[n + i] = b[i]
  <2>1. xs \in Texts /\ Len(xs) = n + m
    BY JoinFacts
  <2>. HIDE DEF xs
  <2>. QED
    BY <2>1, JoinFacts, TextFacts DEF xs
<1>. HIDE DEF xs, n, m
<1>2. \A k \in 1 .. n : k \in D <=> k \in Da
  BY <1>1
<1>3. \A k \in 1 .. m : n + k \in D <=> k \in Db
  BY <1>1
<1>. HIDE DEF D, Da, Db
<1>4. Without(a \o b, D) = Without(a, Da) \o Without(b, Db)
  BY <1>2, <1>3, WithoutJoin DEF n, m
<1>. QED
  BY <1>4 DEF WithoutSpaces, D, Da, Db, xs

LEMMA SpacesOfSymbol ==
  ASSUME NEW x \in Symbols
  PROVE  WithoutSpaces(<<x>>) = IF x = Space THEN << >> ELSE <<x>>
<1>. DEFINE xs == <<x>>
            D == {i \in DOMAIN xs : xs[i] = Space}
<1>1. xs \in Texts /\ Len(xs) = 1 /\ xs[1] = x /\ DOMAIN xs = 1 .. 1
  BY DEF Texts
<1>. HIDE DEF xs
<1>2. CASE x = Space
  <2>1. \A k \in 1 .. Len(xs) : k \in D
    BY <1>1, <1>2
  <2>. HIDE DEF D
  <2>2. Without(xs, D) = << >>
    BY <1>1, <2>1, WithoutAll
  <2>. QED
    BY <1>2, <2>2 DEF WithoutSpaces, D, xs
<1>3. CASE x # Space
  <2>1. \A k \in 1 .. Len(xs) : k \notin D
    BY <1>1, <1>3
  <2>. HIDE DEF D
  <2>2. Without(xs, D) = xs
    BY <1>1, <2>1, WithoutNothing
  <2>. QED
    BY <1>3, <2>2 DEF WithoutSpaces, D, xs
<1>. QED
  BY <1>2, <1>3

LEMMA SpacesOfText ==
  ASSUME NEW xs \in Texts
  PROVE  WithoutSpaces(xs) \in Texts
  BY LeftOverIsText DEF WithoutSpaces

\* Taking out D and then the spaces is taking out both.
LEMMA SpacesOfRest ==
  ASSUME NEW xs \in Texts, NEW D
  PROVE  WithoutSpaces(Without(xs, D)) = Without(xs, D \cup {i \in DOMAIN xs : xs[i] = Space})
<1>. DEFINE E == D \cup {i \in DOMAIN xs : xs[i] = Space}
            n == Len(xs)
<1>1. n \in Nat /\ DOMAIN xs = 1 .. n /\ \A i \in 1 .. n : xs[i] \in Symbols
  BY TextFacts
<1>2. \A k \in 1 .. n : k \in E <=> k \in D \/ xs[k] = Space
  BY <1>1
<1>. HIDE DEF E
<1>3. PICK acc : Leaves(acc, xs, D) /\ Without(xs, D) = acc[n]
  BY WithoutAccumulates
<1>4. PICK ee : Leaves(ee, xs, E) /\ Without(xs, E) = ee[n]
  BY WithoutAccumulates
<1>. HIDE DEF n
<1>. DEFINE T == {k \in 0 .. n : WithoutSpaces(acc[k]) = ee[k]}
<1>5. 0 \in T
  <2>1. << >> \in Texts /\ Len(<< >>) = 0
    BY DEF Texts
  <2>2. Without(<< >>, {i \in DOMAIN << >> : << >>[i] = Space}) = << >>
    BY <2>1, WithoutNothing
  <2>3. acc[0] = << >> /\ ee[0] = << >>
    BY <1>3, <1>4 DEF Leaves
  <2>4. WithoutSpaces(acc[0]) = ee[0]
    BY <2>2, <2>3 DEF WithoutSpaces
  <2>. QED
    BY <1>1, <2>4
<1>6. ASSUME NEW k \in 1 .. n, k - 1 \in T PROVE k \in T
  <2>1. acc[k] = LeftAfter(acc[k - 1], xs[k], k \in D) /\ acc[k - 1] \in Texts
    <3>1. k - 1 \in 0 .. n
      BY <1>1
    <3>. QED
      BY <1>3, <3>1 DEF Leaves, n
  <2>2. ee[k] = LeftAfter(ee[k - 1], xs[k], k \in E) /\ ee[k - 1] \in Texts
    <3>1. k - 1 \in 0 .. n
      BY <1>1
    <3>. QED
      BY <1>4, <3>1 DEF Leaves, n
  <2>3. WithoutSpaces(acc[k - 1]) = ee[k - 1] /\ xs[k] \in Symbols
    BY <1>1, <1>6
  <2>4. k \in E <=> k \in D \/ xs[k] = Space
    BY <1>2
  <2>5. WithoutSpaces(acc[k]) = ee[k]
    <3>1. CASE k \in D
      BY <2>1, <2>2, <2>3, <2>4, <3>1 DEF LeftAfter
    <3>2. CASE k \notin D
      <4>1. <<xs[k]>> \in Texts
        BY <2>3 DEF Texts
      <4>2. acc[k] = acc[k - 1] \o <<xs[k]>>
        BY <2>1, <2>3, <3>2, AppendIsConcat DEF LeftAfter, Texts
      <4>3. WithoutSpaces(acc[k]) = WithoutSpaces(acc[k - 1]) \o WithoutSpaces(<<xs[k]>>)
        BY <2>1, <4>1, <4>2, SpacesJoin
      <4>4. CASE xs[k] = Space
        <5>1. WithoutSpaces(acc[k]) = ee[k - 1] \o << >>
          BY <2>3, <4>3, <4>4, SpacesOfSymbol
        <5>2. ee[k] = ee[k - 1]
          BY <2>2, <2>4, <4>4 DEF LeftAfter
        <5>. QED
          BY <2>2, <5>1, <5>2, JoinEmpty
      <4>5. CASE xs[k] # Space
        <5>1. WithoutSpaces(acc[k]) = ee[k - 1] \o <<xs[k]>>
          BY <2>3, <4>3, <4>5, SpacesOfSymbol
        <5>2. ee[k] = Append(ee[k - 1], xs[k])
          BY <2>2, <2>4, <3>2, <4>5 DEF LeftAfter
        <5>3. Append(ee[k - 1], xs[k]) = ee[k - 1] \o <<xs[k]>>
          BY <2>2, <2>3, AppendIsConcat DEF Texts
        <5>. QED
          BY <5>1, <5>2, <5>3
      <4>. QED
        BY <4>4, <4>5
    <3>. QED
      BY <3>1, <3>2
  <2>. QED
    BY <1>1, <2>5
<1>7. \A k \in 0 .. n : k \in T
  <2>. HIDE DEF T
  <2>. QED
    BY <1>1, <1>5, <1>6, BoundedInduction
<1>8. WithoutSpaces(acc[n]) = ee[n]
  BY <1>1, <1>7
<1>. QED
  BY <1>3, <1>4, <1>8 DEF E

(***************************************************************************)
(* Brackets and citations.                                                 *)
(***************************************************************************)
LEMMA Brackets ==
  /\ Open # Close /\ Open # Space /\ Close # Space
  /\ \A x \in Filenames : x # Open /\ x # Close /\ x # Space
  /\ Retrieved \in Filenames
  BY DEF Open, Close, Space, Filenames, Retrieved, MadeUp

LEMMA Minimum ==
  ASSUME NEW T \in SUBSET Nat, T # {}
  PROVE  Min(T) \in T /\ \A m \in T : Min(T) <= m
<1>1. \E n \in T : \A m \in T : n <= m
  BY LeastNumber
<1>. QED
  BY <1>1 DEF Min

\* The next x after i is where it says, if there is one.
LEMMA NextAtIs ==
  ASSUME NEW xs \in Texts, NEW x, NEW i \in 0 .. Len(xs)
  PROVE  /\ NextAt(xs, x, i) \in i + 1 .. Len(xs) + 1
         /\ NextAt(xs, x, i) <= Len(xs) => xs[NextAt(xs, x, i)] = x
         /\ \A j \in 1 .. Len(xs) : i < j /\ j < NextAt(xs, x, i) => xs[j] # x
<1>. DEFINE T == {j \in DOMAIN xs : j > i /\ xs[j] = x} \cup {Len(xs) + 1}
            n == Len(xs)
<1>1. n \in Nat /\ DOMAIN xs = 1 .. n
  BY TextFacts
<1>2. T \in SUBSET Nat /\ T # {}
  BY <1>1
<1>3. Min(T) \in T /\ \A m \in T : Min(T) <= m
  <2>. HIDE DEF T
  <2>. QED
    BY <1>2, Minimum
<1>4. NextAt(xs, x, i) = Min(T)
  BY DEF NextAt
<1>. DEFINE e == Min(T)
<1>. HIDE DEF e, n
<1>5. e \in T /\ \A m \in T : e <= m
  BY <1>3 DEF e
<1>6. e \in i + 1 .. n + 1 /\ (e <= n => xs[e] = x)
  BY <1>1, <1>5 DEF n
<1>7. ASSUME NEW j \in 1 .. n, i < j, j < e PROVE xs[j] # x
  BY <1>1, <1>5, <1>6, <1>7
<1>. QED
  BY <1>4, <1>6, <1>7 DEF e, n

\* A citation from its bracket at i to its bracket at e, and whether a retrieved file is
\* the one it names: what lies between decides.
Cites(xs, i, e) ==
  /\ i < e /\ xs[i] = Open /\ xs[e] = Close
  /\ \A k \in i + 1 .. e - 1 : xs[k] # Open /\ xs[k] # Close
  /\ \E j \in i + 1 .. e - 1 : xs[j] \in Filenames

Named(xs, i, e) ==
  \E j \in i + 1 .. e - 1 : xs[j] = Retrieved /\ \A k \in i + 1 .. j - 1 : xs[k] = Space

LEMMA CitationEnds ==
  ASSUME NEW xs \in Texts, NEW i \in 1 .. Len(xs), NEW e \in 1 .. Len(xs), Cites(xs, i, e)
  PROVE  /\ NextAt(xs, Close, i) = e
         /\ IsCitation(xs, i)
         /\ IsAllowed(xs, i) <=> Named(xs, i, e)
<1>. DEFINE n == Len(xs)
            c == NextAt(xs, Close, i)
            o == NextAt(xs, Open, i)
<1>1. n \in Nat /\ DOMAIN xs = 1 .. n /\ i \in 0 .. n
  BY TextFacts
<1>2. /\ c \in i + 1 .. n + 1 /\ (c <= n => xs[c] = Close)
      /\ \A j \in 1 .. n : i < j /\ j < c => xs[j] # Close
  BY <1>1, NextAtIs
<1>3. /\ o \in i + 1 .. n + 1 /\ (o <= n => xs[o] = Open)
      /\ \A j \in 1 .. n : i < j /\ j < o => xs[j] # Open
  BY <1>1, NextAtIs
<1>. HIDE DEF c, o, n
<1>4. i \in 1 .. n /\ e \in 1 .. n
  BY DEF n
<1>5. c = e
  <2>1. c <= e
    BY <1>1, <1>2, <1>4 DEF Cites
  <2>2. c \in i + 1 .. e - 1 => FALSE
    BY <1>1, <1>2, <1>4, <2>1 DEF Cites
  <2>. QED
    BY <1>1, <1>2, <1>4, <2>1, <2>2
<1>6. o > e
  <2>1. o \in i + 1 .. e - 1 => FALSE
    BY <1>1, <1>3, <1>4 DEF Cites
  <2>2. o # e
    BY <1>3, <1>4, Brackets DEF Cites
  <2>. QED
    BY <1>1, <1>3, <1>4, <2>1, <2>2
<1>7. IsCitation(xs, i)
  BY <1>1, <1>4, <1>5, <1>6 DEF IsCitation, Cites, c, o, n
<1>8. IsAllowed(xs, i) => Named(xs, i, e)
  <2>. SUFFICES ASSUME IsAllowed(xs, i) PROVE Named(xs, i, e)
    OBVIOUS
  <2>1. PICK j \in 1 .. n : j > i /\ xs[j] = Retrieved /\ \A k \in i + 1 .. j - 1 : xs[k] = Space
    BY <1>1 DEF IsAllowed
  <2>2. xs[e] = Close /\ Close # Space /\ Close # Retrieved /\ i < e
    BY Brackets DEF Cites
  <2>3. j # e
    BY <2>1, <2>2
  <2>4. ~(e < j)
    BY <1>4, <2>1, <2>2
  <2>5. j \in i + 1 .. e - 1
    BY <1>4, <2>1, <2>3, <2>4
  <2>. QED
    BY <2>1, <2>5 DEF Named
<1>9. Named(xs, i, e) => IsAllowed(xs, i)
  <2>. SUFFICES ASSUME Named(xs, i, e) PROVE IsAllowed(xs, i)
    OBVIOUS
  <2>1. PICK j \in i + 1 .. e - 1 : xs[j] = Retrieved /\ \A k \in i + 1 .. j - 1 : xs[k] = Space
    BY DEF Named
  <2>2. j \in DOMAIN xs /\ j > i
    BY <1>1, <1>4
  <2>. QED
    BY <2>1, <2>2 DEF IsAllowed
<1>. QED
  BY <1>5, <1>7, <1>8, <1>9 DEF c

LEMMA CitationIs ==
  ASSUME NEW xs \in Texts, NEW i \in 1 .. Len(xs), IsCitation(xs, i)
  PROVE  NextAt(xs, Close, i) \in 1 .. Len(xs) /\ Cites(xs, i, NextAt(xs, Close, i))
<1>. DEFINE n == Len(xs)
            c == NextAt(xs, Close, i)
            o == NextAt(xs, Open, i)
<1>1. n \in Nat /\ DOMAIN xs = 1 .. n /\ i \in 0 .. n
  BY TextFacts
<1>2. /\ c \in i + 1 .. n + 1 /\ (c <= n => xs[c] = Close)
      /\ \A j \in 1 .. n : i < j /\ j < c => xs[j] # Close
  BY <1>1, NextAtIs
<1>3. /\ o \in i + 1 .. n + 1 /\ (o <= n => xs[o] = Open)
      /\ \A j \in 1 .. n : i < j /\ j < o => xs[j] # Open
  BY <1>1, NextAtIs
<1>4. xs[i] = Open /\ c <= n /\ o > c /\ \E j \in i + 1 .. c - 1 : xs[j] \in Filenames
  BY DEF IsCitation, c, o, n
<1>. HIDE DEF c, o, n
<1>5. i \in 1 .. n
  BY DEF n
<1>6. c \in 1 .. n /\ i < c
  BY <1>1, <1>2, <1>4, <1>5
<1>7. ASSUME NEW k \in i + 1 .. c - 1 PROVE xs[k] # Open /\ xs[k] # Close
  <2>1. k \in 1 .. n /\ i < k /\ k < c /\ k < o
    BY <1>1, <1>3, <1>4, <1>5, <1>6
  <2>. QED
    BY <1>2, <1>3, <2>1
<1>8. Cites(xs, i, c)
  BY <1>2, <1>4, <1>6, <1>7 DEF Cites
<1>. QED
  BY <1>6, <1>8 DEF c, n

\* A made-up citation, and what goes with it.
Bad(xs, i, e) == Cites(xs, i, e) /\ ~Named(xs, i, e)

LEMMA DroppedIs ==
  ASSUME NEW xs \in Texts, NEW k
  PROVE  k \in Dropped(xs) <=>
           \E i, e \in 1 .. Len(xs) : Bad(xs, i, e) /\ (k \in SpacesBefore(xs, i) \/ k \in i .. e)
<1>1. DOMAIN xs = 1 .. Len(xs)
  BY TextFacts
<1>2. k \in Dropped(xs) <=>
        \E i \in 1 .. Len(xs) : /\ IsCitation(xs, i) /\ ~IsAllowed(xs, i)
                                /\ k \in SpacesBefore(xs, i) \cup i .. NextAt(xs, Close, i)
  BY <1>1 DEF Dropped
<1>3. ASSUME NEW i \in 1 .. Len(xs), IsCitation(xs, i), ~IsAllowed(xs, i),
             k \in SpacesBefore(xs, i) \cup i .. NextAt(xs, Close, i)
      PROVE  \E e \in 1 .. Len(xs) : Bad(xs, i, e) /\ (k \in SpacesBefore(xs, i) \/ k \in i .. e)
  <2>. DEFINE c == NextAt(xs, Close, i)
  <2>1. c \in 1 .. Len(xs) /\ Cites(xs, i, c)
    BY <1>3, CitationIs
  <2>2. Bad(xs, i, c)
    BY <1>3, <2>1, CitationEnds DEF Bad
  <2>. QED
    BY <1>3, <2>1, <2>2
<1>4. ASSUME NEW i \in 1 .. Len(xs), NEW e \in 1 .. Len(xs), Bad(xs, i, e),
             k \in SpacesBefore(xs, i) \/ k \in i .. e
      PROVE  /\ IsCitation(xs, i) /\ ~IsAllowed(xs, i)
             /\ k \in SpacesBefore(xs, i) \cup i .. NextAt(xs, Close, i)
  BY <1>4, CitationEnds DEF Bad
<1>. QED
  BY <1>2, <1>3, <1>4

\* Whether there is a citation is said by its symbols alone, wherever they stand.
LEMMA CitesElsewhere ==
  ASSUME NEW xs, NEW ys, NEW d \in Nat, NEW i \in Nat, NEW e \in Nat,
         \A k \in i .. e : xs[d + k] = ys[k]
  PROVE  /\ Cites(xs, d + i, d + e) <=> Cites(ys, i, e)
         /\ Bad(xs, d + i, d + e) <=> Bad(ys, i, e)
<1>1. \A k \in i + 1 .. e - 1 : xs[d + k] = ys[k] /\ d + k \in d + i + 1 .. d + e - 1
  OBVIOUS
<1>2. \A k \in d + i + 1 .. d + e - 1 : k - d \in i + 1 .. e - 1 /\ xs[k] = ys[k - d]
  <2>. SUFFICES ASSUME NEW k \in d + i + 1 .. d + e - 1
                PROVE  k - d \in i + 1 .. e - 1 /\ xs[k] = ys[k - d]
    OBVIOUS
  <2>1. k - d \in i + 1 .. e - 1 /\ d + (k - d) = k
    OBVIOUS
  <2>. QED
    BY <1>1, <2>1
<1>3. i < e => xs[d + i] = ys[i] /\ xs[d + e] = ys[e]
  <2>1. i < e => i \in i .. e /\ e \in i .. e
    OBVIOUS
  <2>. QED
    BY <2>1
<1>4. (d + i < d + e) <=> (i < e)
  OBVIOUS
<1>5. Cites(xs, d + i, d + e) => Cites(ys, i, e)
  <2>. SUFFICES ASSUME Cites(xs, d + i, d + e) PROVE Cites(ys, i, e)
    OBVIOUS
  <2>1. i < e /\ ys[i] = Open /\ ys[e] = Close
    BY <1>3, <1>4 DEF Cites
  <2>2. \A k \in i + 1 .. e - 1 : ys[k] # Open /\ ys[k] # Close
    BY <1>1 DEF Cites
  <2>3. PICK j \in d + i + 1 .. d + e - 1 : xs[j] \in Filenames
    BY DEF Cites
  <2>4. j - d \in i + 1 .. e - 1 /\ ys[j - d] \in Filenames
    BY <1>2, <2>3
  <2>. QED
    BY <2>1, <2>2, <2>4 DEF Cites
<1>6. Cites(ys, i, e) => Cites(xs, d + i, d + e)
  <2>. SUFFICES ASSUME Cites(ys, i, e) PROVE Cites(xs, d + i, d + e)
    OBVIOUS
  <2>1. d + i < d + e /\ xs[d + i] = Open /\ xs[d + e] = Close
    BY <1>3, <1>4 DEF Cites
  <2>2. \A k \in d + i + 1 .. d + e - 1 : xs[k] # Open /\ xs[k] # Close
    BY <1>2 DEF Cites
  <2>3. PICK j \in i + 1 .. e - 1 : ys[j] \in Filenames
    BY DEF Cites
  <2>4. d + j \in d + i + 1 .. d + e - 1 /\ xs[d + j] \in Filenames
    BY <1>1, <2>3
  <2>. QED
    BY <2>1, <2>2, <2>4 DEF Cites
<1>7. Named(xs, d + i, d + e) => Named(ys, i, e)
  <2>. SUFFICES ASSUME Named(xs, d + i, d + e) PROVE Named(ys, i, e)
    OBVIOUS
  <2>1. PICK j \in d + i + 1 .. d + e - 1 :
               xs[j] = Retrieved /\ \A k \in d + i + 1 .. j - 1 : xs[k] = Space
    BY DEF Named
  <2>2. j - d \in i + 1 .. e - 1 /\ ys[j - d] = Retrieved
    BY <1>2, <2>1
  <2>3. ASSUME NEW k \in i + 1 .. (j - d) - 1 PROVE ys[k] = Space
    <3>1. k \in i + 1 .. e - 1 /\ d + k \in d + i + 1 .. j - 1
      OBVIOUS
    <3>. QED
      BY <1>1, <2>1, <3>1
  <2>. QED
    BY <2>2, <2>3 DEF Named
<1>8. Named(ys, i, e) => Named(xs, d + i, d + e)
  <2>. SUFFICES ASSUME Named(ys, i, e) PROVE Named(xs, d + i, d + e)
    OBVIOUS
  <2>1. PICK j \in i + 1 .. e - 1 : ys[j] = Retrieved /\ \A k \in i + 1 .. j - 1 : ys[k] = Space
    BY DEF Named
  <2>2. d + j \in d + i + 1 .. d + e - 1 /\ xs[d + j] = Retrieved
    BY <1>1, <2>1
  <2>3. ASSUME NEW k \in d + i + 1 .. (d + j) - 1 PROVE xs[k] = Space
    <3>1. k \in d + i + 1 .. d + e - 1 /\ k - d \in i + 1 .. j - 1
      OBVIOUS
    <3>. QED
      BY <1>2, <2>1, <3>1
  <2>. QED
    BY <2>2, <2>3 DEF Named
<1>. QED
  BY <1>5, <1>6, <1>7, <1>8 DEF Bad

(***************************************************************************)
(* A reply may be cut where no bracket is open: what is made of it is made *)
(* of the two parts.                                                       *)
(***************************************************************************)
\* Every opening bracket has a closing one after it.
AllClosed(xs) ==
  \A i \in 1 .. Len(xs) : xs[i] = Open => \E j \in i + 1 .. Len(xs) : xs[j] = Close

LEMMA BadJoin ==
  ASSUME NEW a \in Texts, NEW b \in Texts, AllClosed(a)
  PROVE  /\ \A i, e \in 1 .. Len(a \o b) : Bad(a \o b, i, e) /\ i <= Len(a) => e <= Len(a)
         /\ \A i, e \in 1 .. Len(a) : Bad(a \o b, i, e) <=> Bad(a, i, e)
         /\ \A i, e \in 1 .. Len(b) : Bad(a \o b, Len(a) + i, Len(a) + e) <=> Bad(b, i, e)
<1>. DEFINE xs == a \o b
            n  == Len(a)
            m  == Len(b)
<1>1. /\ n \in Nat /\ m \in Nat /\ Len(xs) = n + m
      /\ \A i \in 1 .. n : xs[i] = a[i]
      /\ \A i \in 1 .. m : xs[n + i] = b[i]
  BY JoinFacts, TextFacts
<1>. HIDE DEF xs, n, m
<1>2. ASSUME NEW i \in 1 .. Len(xs), NEW e \in 1 .. Len(xs), Bad(xs, i, e), i <= n PROVE e <= n
  <2>1. i \in 1 .. n /\ a[i] = Open
    BY <1>1, <1>2 DEF Bad, Cites
  <2>2. PICK j \in i + 1 .. n : a[j] = Close
    BY <2>1 DEF AllClosed, n
  <2>3. xs[j] = Close
    BY <1>1, <2>1, <2>2
  <2>4. j \in i + 1 .. e - 1 => xs[j] # Close
    BY <1>2 DEF Bad, Cites
  <2>. QED
    BY <1>1, <2>1, <2>2, <2>3, <2>4
<1>3. ASSUME NEW i \in 1 .. n, NEW e \in 1 .. n PROVE Bad(xs, i, e) <=> Bad(a, i, e)
  <2>1. \A k \in i .. e : xs[0 + k] = a[k]
    BY <1>1
  <2>2. 0 + i = i /\ 0 + e = e /\ i \in Nat /\ e \in Nat /\ 0 \in Nat
    BY <1>1
  <2>3. Bad(xs, 0 + i, 0 + e) <=> Bad(a, i, e)
    BY <2>1, <2>2, CitesElsewhere
  <2>. QED
    BY <2>2, <2>3
<1>4. ASSUME NEW i \in 1 .. m, NEW e \in 1 .. m PROVE Bad(xs, n + i, n + e) <=> Bad(b, i, e)
  <2>1. \A k \in i .. e : xs[n + k] = b[k]
    BY <1>1
  <2>2. n \in Nat /\ i \in Nat /\ e \in Nat
    BY <1>1
  <2>. QED
    BY <2>1, <2>2, CitesElsewhere
<1>. QED
  BY <1>2, <1>3, <1>4 DEF xs, n, m

\* But for spaces, what is dropped lies between brackets.
LEMMA DroppedButSpaces ==
  ASSUME NEW xs \in Texts, NEW k \in 1 .. Len(xs)
  PROVE  k \in Dropped(xs) \/ xs[k] = Space <=>
           xs[k] = Space \/ \E i, e \in 1 .. Len(xs) : Bad(xs, i, e) /\ k \in i .. e
<1>1. ASSUME NEW i \in 1 .. Len(xs), k \in SpacesBefore(xs, i) PROVE xs[k] = Space
  <2>1. Len(xs) \in Nat
    BY TextFacts
  <2>2. k \in 1 .. i - 1 /\ \A l \in k .. i - 1 : xs[l] = Space
    BY <1>1 DEF SpacesBefore
  <2>. QED
    BY <2>1, <2>2
<1>. QED
  BY <1>1, DroppedIs

LEMMA ScrubSpacesIs ==
  ASSUME NEW xs \in Texts
  PROVE  WithoutSpaces(ScrubCitations(xs))
           = Without(xs, Dropped(xs) \cup {i \in DOMAIN xs : xs[i] = Space})
  BY SpacesOfRest DEF ScrubCitations

LEMMA ScrubSpacesJoin ==
  ASSUME NEW a \in Texts, NEW b \in Texts, AllClosed(a)
  PROVE  WithoutSpaces(ScrubCitations(a \o b))
           = WithoutSpaces(ScrubCitations(a)) \o WithoutSpaces(ScrubCitations(b))
<1>. DEFINE xs == a \o b
            n  == Len(a)
            m  == Len(b)
            D(t) == Dropped(t) \cup {i \in DOMAIN t : t[i] = Space}
<1>1. /\ n \in Nat /\ m \in Nat /\ Len(xs) = n + m /\ xs \in Texts
      /\ \A i \in 1 .. n : xs[i] = a[i]
      /\ \A i \in 1 .. m : xs[n + i] = b[i]
  BY JoinFacts, TextFacts
<1>. HIDE DEF xs, n, m
<1>2. /\ \A i, e \in 1 .. n + m : Bad(xs, i, e) /\ i <= n => e <= n
      /\ \A i, e \in 1 .. n : Bad(xs, i, e) <=> Bad(a, i, e)
      /\ \A i, e \in 1 .. m : Bad(xs, n + i, n + e) <=> Bad(b, i, e)
  <2>1. /\ \A i, e \in 1 .. Len(xs) : Bad(xs, i, e) /\ i <= n => e <= n
        /\ \A i, e \in 1 .. n : Bad(xs, i, e) <=> Bad(a, i, e)
        /\ \A i, e \in 1 .. m : Bad(xs, n + i, n + e) <=> Bad(b, i, e)
    BY BadJoin DEF xs, n, m
  <2>. QED
    BY <1>1, <2>1
<1>3. ASSUME NEW t \in Texts, NEW k \in 1 .. Len(t)
      PROVE  k \in D(t) <=> t[k] = Space \/ \E i, e \in 1 .. Len(t) : Bad(t, i, e) /\ k \in i .. e
  <2>1. k \in D(t) <=> k \in Dropped(t) \/ t[k] = Space
    BY <1>3, TextFacts
  <2>. QED
    BY <1>3, <2>1, DroppedButSpaces
<1>. HIDE DEF D
<1>4. ASSUME NEW k \in 1 .. n PROVE k \in D(xs) <=> k \in D(a)
  <2>1. k \in D(xs) <=> xs[k] = Space \/ \E i, e \in 1 .. n + m : Bad(xs, i, e) /\ k \in i .. e
    <3>1. k \in 1 .. Len(xs)
      BY <1>1
    <3>. QED
      BY <1>1, <1>3, <3>1
  <2>2. k \in D(a) <=> a[k] = Space \/ \E i, e \in 1 .. n : Bad(a, i, e) /\ k \in i .. e
    BY <1>3 DEF n
  <2>3. ASSUME NEW i \in 1 .. n + m, NEW e \in 1 .. n + m, Bad(xs, i, e), k \in i .. e
        PROVE  \E i1, e1 \in 1 .. n : Bad(a, i1, e1) /\ k \in i1 .. e1
    <3>1. i <= n
      BY <1>1, <2>3
    <3>2. e <= n
      BY <1>2, <2>3, <3>1
    <3>3. i \in 1 .. n /\ e \in 1 .. n
      BY <1>1, <3>1, <3>2
    <3>. QED
      BY <1>2, <2>3, <3>3
  <2>4. ASSUME NEW i \in 1 .. n, NEW e \in 1 .. n, Bad(a, i, e), k \in i .. e
        PROVE  \E i1, e1 \in 1 .. n + m : Bad(xs, i1, e1) /\ k \in i1 .. e1
    <3>1. i \in 1 .. n + m /\ e \in 1 .. n + m
      BY <1>1
    <3>. QED
      BY <1>2, <2>4, <3>1
  <2>5. xs[k] = a[k]
    BY <1>1
  <2>. QED
    BY <2>1, <2>2, <2>3, <2>4, <2>5
<1>5. ASSUME NEW k \in 1 .. m PROVE n + k \in D(xs) <=> k \in D(b)
  <2>1. n + k \in D(xs) <=>
          xs[n + k] = Space \/ \E i, e \in 1 .. n + m : Bad(xs, i, e) /\ n + k \in i .. e
    <3>1. n + k \in 1 .. Len(xs)
      BY <1>1
    <3>. QED
      BY <1>1, <1>3, <3>1
  <2>2. k \in D(b) <=> b[k] = Space \/ \E i, e \in 1 .. m : Bad(b, i, e) /\ k \in i .. e
    BY <1>3 DEF m
  <2>3. ASSUME NEW i \in 1 .. n + m, NEW e \in 1 .. n + m, Bad(xs, i, e), n + k \in i .. e
        PROVE  \E i1, e1 \in 1 .. m : Bad(b, i1, e1) /\ k \in i1 .. e1
    <3>1. ~(i <= n)
      <4>1. i <= n => e <= n
        BY <1>2, <2>3
      <4>. QED
        BY <1>1, <2>3, <4>1
    <3>2. i - n \in 1 .. m /\ e - n \in 1 .. m /\ n + (i - n) = i /\ n + (e - n) = e
          /\ k \in i - n .. e - n
      BY <1>1, <2>3, <3>1
    <3>3. Bad(b, i - n, e - n)
      BY <1>2, <2>3, <3>2
    <3>. QED
      BY <3>2, <3>3
  <2>4. ASSUME NEW i \in 1 .. m, NEW e \in 1 .. m, Bad(b, i, e), k \in i .. e
        PROVE  \E i1, e1 \in 1 .. n + m : Bad(xs, i1, e1) /\ n + k \in i1 .. e1
    <3>1. n + i \in 1 .. n + m /\ n + e \in 1 .. n + m /\ n + k \in n + i .. n + e
      BY <1>1, <2>4
    <3>2. Bad(xs, n + i, n + e)
      BY <1>2, <2>4
    <3>. QED
      BY <3>1, <3>2
  <2>5. xs[n + k] = b[k]
    BY <1>1
  <2>. QED
    BY <2>1, <2>2, <2>3, <2>4, <2>5
<1>6. Without(a \o b, D(xs)) = Without(a, D(a)) \o Without(b, D(b))
  <2>. DEFINE Dx == D(xs)
              Da == D(a)
              Db == D(b)
  <2>1. \A k \in 1 .. Len(a) : k \in Dx <=> k \in Da
    BY <1>4 DEF n
  <2>2. \A k \in 1 .. Len(b) : Len(a) + k \in Dx <=> k \in Db
    BY <1>5 DEF n, m
  <2>. HIDE DEF Dx, Da, Db
  <2>3. Without(a \o b, Dx) = Without(a, Da) \o Without(b, Db)
    BY <2>1, <2>2, WithoutJoin
  <2>. QED
    BY <2>3 DEF Dx, Da, Db
<1>7. \A t \in Texts : WithoutSpaces(ScrubCitations(t)) = Without(t, D(t))
  BY ScrubSpacesIs DEF D
<1>. QED
  BY <1>1, <1>6, <1>7 DEF xs

\* Spaces and all, where the first part does not end in a space.
EndsSolid(xs) == Len(xs) = 0 \/ xs[Len(xs)] # Space

LEMMA ScrubJoin ==
  ASSUME NEW a \in Texts, NEW b \in Texts, AllClosed(a), EndsSolid(a)
  PROVE  ScrubCitations(a \o b) = ScrubCitations(a) \o ScrubCitations(b)
<1>. DEFINE xs == a \o b
            n  == Len(a)
            m  == Len(b)
            Goes(t, k, i, e) == Bad(t, i, e) /\ (k \in SpacesBefore(t, i) \/ k \in i .. e)
<1>1. /\ n \in Nat /\ m \in Nat /\ Len(xs) = n + m /\ xs \in Texts
      /\ \A i \in 1 .. n : xs[i] = a[i]
      /\ \A i \in 1 .. m : xs[n + i] = b[i]
  BY JoinFacts, TextFacts
<1>. HIDE DEF xs, n, m
<1>2. /\ \A i, e \in 1 .. n + m : Bad(xs, i, e) /\ i <= n => e <= n
      /\ \A i, e \in 1 .. n : Bad(xs, i, e) <=> Bad(a, i, e)
      /\ \A i, e \in 1 .. m : Bad(xs, n + i, n + e) <=> Bad(b, i, e)
  <2>1. /\ \A i, e \in 1 .. Len(xs) : Bad(xs, i, e) /\ i <= n => e <= n
        /\ \A i, e \in 1 .. n : Bad(xs, i, e) <=> Bad(a, i, e)
        /\ \A i, e \in 1 .. m : Bad(xs, n + i, n + e) <=> Bad(b, i, e)
    BY BadJoin DEF xs, n, m
  <2>. QED
    BY <1>1, <2>1
<1>3. \A i \in 1 .. n, k \in 1 .. n + m :
        k \in SpacesBefore(xs, i) <=> k \in SpacesBefore(a, i)
  <2>. SUFFICES ASSUME NEW i \in 1 .. n, NEW k \in 1 .. i - 1
                PROVE  (\A l \in k .. i - 1 : xs[l] = Space) <=> (\A l \in k .. i - 1 : a[l] = Space)
    BY DEF SpacesBefore
  <2>1. \A l \in k .. i - 1 : xs[l] = a[l]
    BY <1>1
  <2>. QED
    BY <2>1
<1>4. ASSUME NEW i \in n + 1 .. n + m, NEW k \in 1 .. n PROVE k \notin SpacesBefore(xs, i)
  <2>1. n \in k .. i - 1 /\ n \in 1 .. n
    BY <1>1
  <2>2. xs[n] # Space
    BY <1>1, <2>1 DEF EndsSolid, n
  <2>. QED
    BY <2>1, <2>2 DEF SpacesBefore
<1>5. ASSUME NEW i \in 1 .. m, NEW k \in 1 .. m
      PROVE  n + k \in SpacesBefore(xs, n + i) <=> k \in SpacesBefore(b, i)
  <2>1. ASSUME n + k \in SpacesBefore(xs, n + i) PROVE k \in SpacesBefore(b, i)
    <3>1. n + k \in 1 .. (n + i) - 1 /\ \A l \in n + k .. (n + i) - 1 : xs[l] = Space
      BY <2>1 DEF SpacesBefore
    <3>2. ASSUME NEW l \in k .. i - 1 PROVE b[l] = Space
      <4>1. n + l \in n + k .. (n + i) - 1 /\ l \in 1 .. m
        BY <1>1
      <4>. QED
        BY <1>1, <3>1, <4>1
    <3>3. k \in 1 .. i - 1
      BY <1>1, <3>1
    <3>. QED
      BY <3>2, <3>3 DEF SpacesBefore
  <2>2. ASSUME k \in SpacesBefore(b, i) PROVE n + k \in SpacesBefore(xs, n + i)
    <3>1. k \in 1 .. i - 1 /\ \A l \in k .. i - 1 : b[l] = Space
      BY <2>2 DEF SpacesBefore
    <3>2. ASSUME NEW l \in n + k .. (n + i) - 1 PROVE xs[l] = Space
      <4>1. l - n \in k .. i - 1 /\ l - n \in 1 .. m /\ n + (l - n) = l
        BY <1>1
      <4>. QED
        BY <1>1, <3>1, <4>1
    <3>3. n + k \in 1 .. (n + i) - 1
      BY <1>1, <3>1
    <3>. QED
      BY <3>2, <3>3 DEF SpacesBefore
  <2>. QED
    BY <2>1, <2>2
<1>6. \A t \in Texts : \A k : k \in Dropped(t) <=> \E i, e \in 1 .. Len(t) : Goes(t, k, i, e)
  BY DroppedIs
<1>7. ASSUME NEW k \in 1 .. n PROVE k \in Dropped(xs) <=> k \in Dropped(a)
  <2>1. k \in Dropped(xs) <=> \E i, e \in 1 .. n + m : Goes(xs, k, i, e)
    BY <1>1, <1>6
  <2>2. k \in Dropped(a) <=> \E i, e \in 1 .. n : Goes(a, k, i, e)
    BY <1>6 DEF n
  <2>3. ASSUME NEW i \in 1 .. n + m, NEW e \in 1 .. n + m, Goes(xs, k, i, e)
        PROVE  \E i1, e1 \in 1 .. n : Goes(a, k, i1, e1)
    <3>1. i <= n
      <4>1. CASE k \in i .. e
        BY <1>1, <4>1
      <4>2. CASE k \in SpacesBefore(xs, i)
        <5>1. i \notin n + 1 .. n + m
          BY <1>4, <4>2
        <5>. QED
          BY <1>1, <5>1
      <4>. QED
        BY <2>3, <4>1, <4>2
    <3>2. e <= n
      BY <1>2, <2>3, <3>1
    <3>3. i \in 1 .. n /\ e \in 1 .. n /\ k \in 1 .. n + m
      BY <1>1, <3>1, <3>2
    <3>4. Goes(a, k, i, e)
      BY <1>2, <1>3, <2>3, <3>3
    <3>. QED
      BY <3>3, <3>4
  <2>4. ASSUME NEW i \in 1 .. n, NEW e \in 1 .. n, Goes(a, k, i, e)
        PROVE  \E i1, e1 \in 1 .. n + m : Goes(xs, k, i1, e1)
    <3>1. i \in 1 .. n + m /\ e \in 1 .. n + m /\ k \in 1 .. n + m
      BY <1>1
    <3>2. Goes(xs, k, i, e)
      BY <1>2, <1>3, <2>4, <3>1
    <3>. QED
      BY <3>1, <3>2
  <2>. QED
    BY <2>1, <2>2, <2>3, <2>4
<1>8. ASSUME NEW k \in 1 .. m PROVE n + k \in Dropped(xs) <=> k \in Dropped(b)
  <2>1. n + k \in Dropped(xs) <=> \E i, e \in 1 .. n + m : Goes(xs, n + k, i, e)
    BY <1>1, <1>6
  <2>2. k \in Dropped(b) <=> \E i, e \in 1 .. m : Goes(b, k, i, e)
    BY <1>6 DEF m
  <2>3. ASSUME NEW i \in 1 .. n + m, NEW e \in 1 .. n + m, Goes(xs, n + k, i, e)
        PROVE  \E i1, e1 \in 1 .. m : Goes(b, k, i1, e1)
    <3>1. ~(i <= n)
      <4>. SUFFICES ASSUME i <= n PROVE FALSE
        OBVIOUS
      <4>1. e <= n
        BY <1>2, <2>3
      <4>2. n + k \notin i .. e
        BY <1>1, <4>1
      <4>3. n + k \notin SpacesBefore(xs, i)
        BY <1>1 DEF SpacesBefore
      <4>. QED
        BY <2>3, <4>2, <4>3
    <3>2. i < e
      BY <2>3 DEF Bad, Cites
    <3>3. i - n \in 1 .. m /\ e - n \in 1 .. m /\ n + (i - n) = i /\ n + (e - n) = e
      BY <1>1, <3>1, <3>2
    <3>4. Bad(b, i - n, e - n)
      BY <1>2, <2>3, <3>3
    <3>5. n + k \in i .. e => k \in i - n .. e - n
      BY <1>1
    <3>6. n + k \in SpacesBefore(xs, i) => k \in SpacesBefore(b, i - n)
      BY <1>5, <3>3
    <3>7. Goes(b, k, i - n, e - n)
      BY <2>3, <3>4, <3>5, <3>6
    <3>. QED
      BY <3>3, <3>7
  <2>4. ASSUME NEW i \in 1 .. m, NEW e \in 1 .. m, Goes(b, k, i, e)
        PROVE  \E i1, e1 \in 1 .. n + m : Goes(xs, n + k, i1, e1)
    <3>1. n + i \in 1 .. n + m /\ n + e \in 1 .. n + m
          /\ (k \in i .. e => n + k \in n + i .. n + e)
      BY <1>1
    <3>2. Goes(xs, n + k, n + i, n + e)
      BY <1>2, <1>5, <2>4, <3>1
    <3>. QED
      BY <3>1, <3>2
  <2>. QED
    BY <2>1, <2>2, <2>3, <2>4
<1>9. Without(a \o b, Dropped(xs)) = Without(a, Dropped(a)) \o Without(b, Dropped(b))
  <2>. DEFINE D  == Dropped(xs)
              Da == Dropped(a)
              Db == Dropped(b)
  <2>1. \A k \in 1 .. Len(a) : k \in D <=> k \in Da
    BY <1>7 DEF n
  <2>2. \A k \in 1 .. Len(b) : Len(a) + k \in D <=> k \in Db
    BY <1>8 DEF n, m
  <2>. HIDE DEF D, Da, Db
  <2>3. Without(a \o b, D) = Without(a, Da) \o Without(b, Db)
    BY <2>1, <2>2, WithoutJoin
  <2>. QED
    BY <2>3 DEF D, Da, Db
<1>. QED
  BY <1>9 DEF ScrubCitations, xs

(***************************************************************************)
(* Pieces of a text.                                                       *)
(***************************************************************************)
\* What is after p, up to q.
Piece(xs, p, q) == SubSeq(xs, p + 1, q)

LEMMA PieceFacts ==
  ASSUME NEW xs \in Texts, NEW q \in 0 .. Len(xs), NEW p \in 0 .. q
  PROVE  /\ Piece(xs, p, q) \in Texts
         /\ Len(Piece(xs, p, q)) = q - p
         /\ \A k \in 1 .. q - p : Piece(xs, p, q)[k] = xs[p + k]
<1>1. Len(xs) \in Nat /\ \A i \in 1 .. Len(xs) : xs[i] \in Symbols
  BY TextFacts
<1>2. p + 1 \in Int /\ q \in Int /\ \A i \in p + 1 .. q : xs[i] \in Symbols
  BY <1>1
<1>3. /\ SubSeq(xs, p + 1, q) \in Seq(Symbols)
      /\ Len(SubSeq(xs, p + 1, q)) = IF p + 1 <= q THEN q - (p + 1) + 1 ELSE 0
      /\ \A i \in 1 .. q - (p + 1) + 1 : SubSeq(xs, p + 1, q)[i] = xs[p + 1 + i - 1]
  BY <1>2, SubSeqProperties
<1>. DEFINE ys == SubSeq(xs, p + 1, q)
<1>. HIDE DEF ys
<1>4. ys \in Texts /\ Len(ys) = q - p /\ \A k \in 1 .. q - p : ys[k] = xs[p + k]
  <2>1. ys \in Texts
    BY <1>3 DEF ys, Texts
  <2>2. Len(ys) = q - p
    BY <1>1, <1>3 DEF ys
  <2>3. ASSUME NEW k \in 1 .. q - p PROVE ys[k] = xs[p + k]
    <3>1. k \in 1 .. q - (p + 1) + 1 /\ p + 1 + k - 1 = p + k
      BY <1>1
    <3>. QED
      BY <1>3, <3>1 DEF ys
  <2>. QED
    BY <2>1, <2>2, <2>3
<1>. QED
  BY <1>4 DEF ys, Piece

LEMMA PieceOfPiece ==
  ASSUME NEW xs \in Texts, NEW q \in 0 .. Len(xs), NEW p \in 0 .. q,
         NEW j \in 0 .. q - p, NEW i \in 0 .. j
  PROVE  Piece(Piece(xs, p, q), i, j) = Piece(xs, p + i, p + j)
<1>. DEFINE ys == Piece(xs, p, q)
            l  == Piece(ys, i, j)
            r  == Piece(xs, p + i, p + j)
<1>1. Len(xs) \in Nat
  BY TextFacts
<1>2. ys \in Texts /\ Len(ys) = q - p /\ \A k \in 1 .. q - p : ys[k] = xs[p + k]
  BY PieceFacts
<1>. HIDE DEF ys
<1>3. l \in Texts /\ Len(l) = j - i /\ \A k \in 1 .. j - i : l[k] = ys[i + k]
  <2>1. j \in 0 .. Len(ys) /\ i \in 0 .. j
    BY <1>2
  <2>. QED
    BY <1>2, <2>1, PieceFacts
<1>4. r \in Texts /\ Len(r) = j - i /\ \A k \in 1 .. j - i : r[k] = xs[p + i + k]
  <2>1. p + j \in 0 .. Len(xs) /\ p + i \in 0 .. p + j /\ (p + j) - (p + i) = j - i
    BY <1>1
  <2>2. /\ r \in Texts /\ Len(r) = (p + j) - (p + i)
        /\ \A k \in 1 .. (p + j) - (p + i) : r[k] = xs[(p + i) + k]
    BY <2>1, PieceFacts
  <2>. HIDE DEF r
  <2>. QED
    BY <2>1, <2>2
<1>. HIDE DEF l, r
<1>5. ASSUME NEW k \in 1 .. j - i PROVE l[k] = r[k]
  <2>1. i + k \in 1 .. q - p /\ p + (i + k) = p + i + k
    BY <1>1
  <2>. QED
    BY <1>2, <1>3, <1>4, <2>1
<1>6. l = r
  <2>1. Len(l) = Len(r) /\ \A k \in 1 .. Len(l) : l[k] = r[k]
    BY <1>3, <1>4, <1>5
  <2>. QED
    BY <1>3, <1>4, <2>1, SeqEqual DEF Texts
<1>. QED
  BY <1>6 DEF l, r, ys

LEMMA PieceJoin ==
  ASSUME NEW xs \in Texts, NEW q \in 0 .. Len(xs), NEW p \in 0 .. q, NEW i \in p .. q
  PROVE  Piece(xs, p, i) \o Piece(xs, i, q) = Piece(xs, p, q)
<1>1. Len(xs) \in Nat
  BY TextFacts
<1>2. p + 1 \in 1 .. Len(xs) + 1 /\ i \in (p + 1) - 1 .. Len(xs) /\ q \in i .. Len(xs)
  BY <1>1
<1>. QED
  BY <1>2, ConcatAdjacentSubSeq DEF Piece, Texts

LEMMA PieceAll ==
  ASSUME NEW xs \in Texts
  PROVE  Piece(xs, 0, Len(xs)) = xs
<1>1. 0 + 1 = 1
  OBVIOUS
<1>2. SubSeq(xs, 1, Len(xs)) = xs
  BY SubSeqFull DEF Texts
<1>. QED
  BY <1>1, <1>2 DEF Piece

LEMMA PieceNone ==
  ASSUME NEW xs \in Texts, NEW p \in 0 .. Len(xs)
  PROVE  Piece(xs, p, p) = << >>
<1>1. Len(xs) \in Nat
  BY TextFacts
<1>2. Piece(xs, p, p) \in Texts /\ Len(Piece(xs, p, p)) = p - p
  BY <1>1, PieceFacts
<1>3. p - p = 0
  BY <1>1
<1>. QED
  BY <1>2, <1>3, TextFacts

(***************************************************************************)
(* What the scrub makes of a piece.                                        *)
(***************************************************************************)
\* The citations of a text are of retrieved files.
OnlyRetrieved(xs) == \A i \in DOMAIN xs : IsCitation(xs, i) => IsAllowed(xs, i)

LEMMA OnlyRetrievedIs ==
  ASSUME NEW xs \in Texts
  PROVE  OnlyRetrieved(xs) <=> \A i, e \in 1 .. Len(xs) : ~Bad(xs, i, e)
<1>1. DOMAIN xs = 1 .. Len(xs)
  BY TextFacts
<1>2. ASSUME OnlyRetrieved(xs), NEW i \in 1 .. Len(xs), NEW e \in 1 .. Len(xs) PROVE ~Bad(xs, i, e)
  BY <1>1, <1>2, CitationEnds DEF OnlyRetrieved, Bad
<1>3. ASSUME \A i, e \in 1 .. Len(xs) : ~Bad(xs, i, e), NEW i \in 1 .. Len(xs), IsCitation(xs, i)
      PROVE  IsAllowed(xs, i)
  BY <1>3, CitationIs, CitationEnds DEF Bad
<1>. QED
  BY <1>1, <1>2, <1>3 DEF OnlyRetrieved

\* Then a made-up file is named only behind a retrieved one.
LEMMA RetrievedLeads ==
  ASSUME NEW xs \in Texts, OnlyRetrieved(xs)
  PROVE  LedByRetrieved(xs)
<1>1. DOMAIN xs = 1 .. Len(xs) /\ Len(xs) \in Nat
  BY TextFacts
<1>. SUFFICES ASSUME NEW i \in 1 .. Len(xs), NEW j \in 1 .. Len(xs), NEW e \in 1 .. Len(xs),
                     i < j, j < e, xs[i] = Open, xs[j] = MadeUp, xs[e] = Close,
                     \A k \in i + 1 .. e - 1 : xs[k] \notin {Open, Close}
              PROVE  \E k \in i + 1 .. j - 1 : xs[k] = Retrieved
  BY <1>1 DEF LedByRetrieved
<1>2. j \in i + 1 .. e - 1 /\ xs[j] \in Filenames
  BY DEF Filenames
<1>3. Cites(xs, i, e)
  BY <1>2 DEF Cites
<1>4. Named(xs, i, e)
  BY <1>3, OnlyRetrievedIs DEF Bad
<1>5. PICK m \in i + 1 .. e - 1 : xs[m] = Retrieved /\ \A k \in i + 1 .. m - 1 : xs[k] = Space
  BY <1>4 DEF Named
<1>6. MadeUp # Retrieved /\ MadeUp # Space
  BY DEF MadeUp, Retrieved, Space
<1>7. m < j
  <2>1. m # j
    BY <1>5, <1>6
  <2>2. ~(j < m)
    BY <1>2, <1>5, <1>6
  <2>. QED
    BY <1>2, <1>5, <2>1, <2>2
<1>. QED
  BY <1>5, <1>7

LEMMA ScrubIsText ==
  ASSUME NEW xs \in Texts
  PROVE  ScrubCitations(xs) \in Texts
  BY LeftOverIsText DEF ScrubCitations

\* No whole bracket, nothing to scrub.
LEMMA ScrubPlain ==
  ASSUME NEW xs \in Texts,
         \A i, e \in 1 .. Len(xs) : i < e => ~(xs[i] = Open /\ xs[e] = Close)
  PROVE  ScrubCitations(xs) = xs /\ OnlyRetrieved(xs)
<1>1. \A i, e \in 1 .. Len(xs) : ~Bad(xs, i, e)
  BY DEF Bad, Cites
<1>2. \A k \in 1 .. Len(xs) : k \notin Dropped(xs)
  BY <1>1, DroppedIs
<1>3. Without(xs, Dropped(xs)) = xs
  <2>. DEFINE D == Dropped(xs)
  <2>1. \A k \in 1 .. Len(xs) : k \notin D
    BY <1>2
  <2>. HIDE DEF D
  <2>2. Without(xs, D) = xs
    BY <2>1, WithoutNothing
  <2>. QED
    BY <2>2 DEF D
<1>. QED
  BY <1>1, <1>3, OnlyRetrievedIs DEF ScrubCitations

\* A single pair of brackets after spaces stays or goes as a whole.
LEMMA ScrubSpan ==
  ASSUME NEW xs \in Texts, NEW s \in 1 .. Len(xs), s < Len(xs), xs[s] = Open, xs[Len(xs)] = Close,
         \A k \in 1 .. s - 1 : xs[k] = Space,
         \A k \in s + 1 .. Len(xs) - 1 : xs[k] # Open /\ xs[k] # Close
  PROVE  OnlyRetrieved(ScrubCitations(xs)) /\ AllClosed(ScrubCitations(xs))
<1>. DEFINE n == Len(xs)
<1>0. n \in Nat
  BY TextFacts
<1>. HIDE DEF n
<1>a. /\ s \in 1 .. n /\ s < n /\ xs[s] = Open /\ xs[n] = Close
      /\ \A k \in s + 1 .. n - 1 : xs[k] # Open /\ xs[k] # Close
  BY DEF n
<1>1. ASSUME NEW i \in 1 .. n, xs[i] = Open PROVE i = s
  <2>1. i \in 1 .. s - 1 => FALSE
    BY <1>1, Brackets
  <2>2. i \in s + 1 .. n - 1 => FALSE
    BY <1>a, <1>1
  <2>3. i # n
    BY <1>a, <1>1, Brackets
  <2>. QED
    BY <1>0, <1>a, <2>1, <2>2, <2>3
<1>2. AllClosed(xs)
  BY <1>0, <1>a, <1>1 DEF AllClosed, n
<1>3. CASE Bad(xs, s, n)
  <2>1. ASSUME NEW k \in 1 .. n PROVE k \in Dropped(xs)
    <3>1. k \in SpacesBefore(xs, s) \/ k \in s .. n
      <4>1. CASE k < s
        <5>1. k \in 1 .. s - 1 /\ \A l \in k .. s - 1 : l \in 1 .. s - 1
          BY <1>0, <1>a, <4>1
        <5>. QED
          BY <5>1 DEF SpacesBefore
      <4>2. CASE ~(k < s)
        BY <1>0, <1>a, <4>2
      <4>. QED
        BY <4>1, <4>2
    <3>2. s \in 1 .. n /\ n \in 1 .. n
      BY <1>0, <1>a
    <3>. QED
      BY <1>3, <3>1, <3>2, DroppedIs DEF n
  <2>2. ScrubCitations(xs) = << >>
    <3>. DEFINE D == Dropped(xs)
    <3>1. \A k \in 1 .. Len(xs) : k \in D
      BY <2>1 DEF n
    <3>. HIDE DEF D
    <3>2. Without(xs, D) = << >>
      BY <3>1, WithoutAll
    <3>. QED
      BY <3>2 DEF D, ScrubCitations
  <2>3. DOMAIN << >> = {} /\ Len(<< >>) = 0
    OBVIOUS
  <2>4. 1 .. 0 = {}
    OBVIOUS
  <2>5. OnlyRetrieved(<< >>) /\ AllClosed(<< >>)
    BY <2>3, <2>4 DEF OnlyRetrieved, AllClosed
  <2>. QED
    BY <2>2, <2>5
<1>4. CASE ~Bad(xs, s, n)
  <2>1. ASSUME NEW i \in 1 .. n, NEW e \in 1 .. n PROVE ~Bad(xs, i, e)
    <3>. SUFFICES ASSUME Bad(xs, i, e) PROVE FALSE
      OBVIOUS
    <3>1. i = s /\ i < e /\ xs[e] = Close
      BY <1>1 DEF Bad, Cites
    <3>2. e \in s + 1 .. n - 1 => FALSE
      BY <1>a, <3>1
    <3>3. e = n
      BY <1>0, <1>a, <3>1, <3>2
    <3>. QED
      BY <1>4, <3>1, <3>3
  <2>2. \A k \in 1 .. n : k \notin Dropped(xs)
    BY <2>1, DroppedIs DEF n
  <2>3. ScrubCitations(xs) = xs
    <3>. DEFINE D == Dropped(xs)
    <3>1. \A k \in 1 .. Len(xs) : k \notin D
      BY <2>2 DEF n
    <3>. HIDE DEF D
    <3>2. Without(xs, D) = xs
      BY <3>1, WithoutNothing
    <3>. QED
      BY <3>2 DEF D, ScrubCitations
  <2>4. OnlyRetrieved(xs)
    BY <2>1, OnlyRetrievedIs DEF n
  <2>. QED
    BY <1>2, <2>3, <2>4
<1>. QED
  BY <1>3, <1>4

LEMMA ClosedJoin ==
  ASSUME NEW a \in Texts, NEW b \in Texts, AllClosed(a)
  PROVE  /\ AllClosed(b) => AllClosed(a \o b)
         /\ OnlyRetrieved(a) /\ OnlyRetrieved(b) => OnlyRetrieved(a \o b)
<1>. DEFINE xs == a \o b
            n  == Len(a)
            m  == Len(b)
<1>1. /\ n \in Nat /\ m \in Nat /\ Len(xs) = n + m /\ xs \in Texts
      /\ \A i \in 1 .. n : xs[i] = a[i]
      /\ \A i \in 1 .. m : xs[n + i] = b[i]
  BY JoinFacts, TextFacts
<1>2. /\ \A i, e \in 1 .. Len(xs) : Bad(xs, i, e) /\ i <= n => e <= n
      /\ \A i, e \in 1 .. n : Bad(xs, i, e) <=> Bad(a, i, e)
      /\ \A i, e \in 1 .. m : Bad(xs, n + i, n + e) <=> Bad(b, i, e)
  BY BadJoin
<1>. HIDE DEF xs, n, m
<1>3. ASSUME AllClosed(b) PROVE AllClosed(xs)
  <2>1. SUFFICES ASSUME NEW i \in 1 .. n + m, xs[i] = Open
                 PROVE  \E j \in i + 1 .. n + m : xs[j] = Close
    BY <1>1 DEF AllClosed
  <2>2. CASE i <= n
    <3>1. i \in 1 .. n /\ a[i] = Open
      BY <1>1, <2>1, <2>2
    <3>2. PICK j \in i + 1 .. n : a[j] = Close
      BY <3>1 DEF AllClosed, n
    <3>3. j \in i + 1 .. n + m /\ xs[j] = Close
      BY <1>1, <3>1, <3>2
    <3>. QED
      BY <3>3
  <2>3. CASE ~(i <= n)
    <3>1. i - n \in 1 .. m /\ n + (i - n) = i
      BY <1>1, <2>3
    <3>2. b[i - n] = Open
      BY <1>1, <2>1, <3>1
    <3>3. PICK j \in (i - n) + 1 .. m : b[j] = Close
      BY <1>3, <3>1, <3>2 DEF AllClosed, m
    <3>4. n + j \in i + 1 .. n + m /\ j \in 1 .. m
      BY <1>1, <3>1
    <3>5. xs[n + j] = Close
      BY <1>1, <3>3, <3>4
    <3>. QED
      BY <3>4, <3>5
  <2>. QED
    BY <2>2, <2>3
<1>4. ASSUME OnlyRetrieved(a), OnlyRetrieved(b) PROVE OnlyRetrieved(xs)
  <2>1. \A i, e \in 1 .. n : ~Bad(a, i, e)
    BY <1>4, OnlyRetrievedIs DEF n
  <2>2. \A i, e \in 1 .. m : ~Bad(b, i, e)
    BY <1>4, OnlyRetrievedIs DEF m
  <2>3. SUFFICES ASSUME NEW i \in 1 .. n + m, NEW e \in 1 .. n + m, Bad(xs, i, e) PROVE FALSE
    BY <1>1, OnlyRetrievedIs
  <2>4. CASE i <= n
    <3>1. e <= n
      BY <1>1, <1>2, <2>3, <2>4
    <3>2. i \in 1 .. n /\ e \in 1 .. n
      BY <1>1, <2>4, <3>1
    <3>. QED
      BY <1>2, <2>1, <2>3, <3>2
  <2>5. CASE ~(i <= n)
    <3>1. i < e
      BY <2>3 DEF Bad, Cites
    <3>2. i - n \in 1 .. m /\ e - n \in 1 .. m /\ n + (i - n) = i /\ n + (e - n) = e
      BY <1>1, <2>5, <3>1
    <3>. QED
      BY <1>2, <2>2, <2>3, <3>2
  <2>. QED
    BY <2>4, <2>5
<1>. QED
  BY <1>3, <1>4 DEF xs

(***************************************************************************)
(* The scrubber on its way through a reply R: everything up to q has been  *)
(* sent, as out, and what it was made of has no bracket open.              *)
(***************************************************************************)
\* "exact" says that spaces count.
Follows(R, q, out, exact) ==
  /\ out \in Texts
  /\ AllClosed(Piece(R, 0, q))
  /\ WithoutSpaces(out) = WithoutSpaces(ScrubCitations(Piece(R, 0, q)))
  /\ exact => EndsSolid(Piece(R, 0, q)) /\ out = ScrubCitations(Piece(R, 0, q))
  /\ Flat(R) => OnlyRetrieved(out) /\ AllClosed(out)

\* What is held back of the n symbols received is nothing, or a bracket that is not
\* closed with the spaces before it.
Held(R, q, n) ==
  \/ q = n
  \/ \E s \in q + 1 .. n : /\ R[s] = Open
                           /\ \A k \in q + 1 .. s - 1 : R[k] = Space
                           /\ \A k \in s + 1 .. n : R[k] # Close

\* Another piece that has no bracket open is scrubbed and sent.
LEMMA PieceFollows ==
  ASSUME NEW R \in Texts, NEW q \in 0 .. Len(R), NEW p \in 0 .. q, NEW out, NEW exact \in BOOLEAN,
         Follows(R, p, out, exact),
         AllClosed(Piece(R, p, q)),
         exact => EndsSolid(Piece(R, 0, q)),
         Flat(R) => /\ OnlyRetrieved(ScrubCitations(Piece(R, p, q)))
                    /\ AllClosed(ScrubCitations(Piece(R, p, q)))
  PROVE  Follows(R, q, out \o ScrubCitations(Piece(R, p, q)), exact)
<1>. DEFINE a == Piece(R, 0, p)
            b == Piece(R, p, q)
            c == Piece(R, 0, q)
            left == ScrubCitations(b)
<1>1. Len(R) \in Nat
  BY TextFacts
<1>2. a \in Texts /\ b \in Texts /\ c = a \o b
  <2>1. 0 \in 0 .. p /\ p \in 0 .. Len(R) /\ 0 \in 0 .. q /\ p \in 0 .. q
    BY <1>1
  <2>2. a \in Texts
    BY <2>1, PieceFacts
  <2>3. b \in Texts
    BY <2>1, PieceFacts
  <2>4. c = a \o b
    BY <2>1, PieceJoin
  <2>. QED
    BY <2>2, <2>3, <2>4
<1>3. /\ out \in Texts /\ AllClosed(a) /\ WithoutSpaces(out) = WithoutSpaces(ScrubCitations(a))
      /\ exact => EndsSolid(a) /\ out = ScrubCitations(a)
      /\ Flat(R) => OnlyRetrieved(out) /\ AllClosed(out)
  BY DEF Follows
<1>4. /\ AllClosed(b) /\ (exact => EndsSolid(c))
      /\ Flat(R) => OnlyRetrieved(left) /\ AllClosed(left)
  OBVIOUS
<1>. HIDE DEF a, b, c
<1>5. left \in Texts
  BY <1>2, ScrubIsText
<1>. HIDE DEF left
<1>6. out \o left \in Texts
  BY <1>3, <1>5, JoinFacts
<1>7. AllClosed(c)
  BY <1>2, <1>3, <1>4, ClosedJoin
<1>8. WithoutSpaces(out \o left) = WithoutSpaces(ScrubCitations(c))
  <2>1. WithoutSpaces(out \o left) = WithoutSpaces(out) \o WithoutSpaces(left)
    BY <1>3, <1>5, SpacesJoin
  <2>2. WithoutSpaces(ScrubCitations(a \o b))
          = WithoutSpaces(ScrubCitations(a)) \o WithoutSpaces(ScrubCitations(b))
    BY <1>2, <1>3, ScrubSpacesJoin
  <2>. QED
    BY <1>2, <1>3, <2>1, <2>2 DEF left
<1>9. exact => EndsSolid(c) /\ out \o left = ScrubCitations(c)
  BY <1>2, <1>3, <1>4, ScrubJoin DEF left
<1>10. Flat(R) => OnlyRetrieved(out \o left) /\ AllClosed(out \o left)
  BY <1>3, <1>4, <1>5, ClosedJoin
<1>. QED
  BY <1>6, <1>7, <1>8, <1>9, <1>10 DEF Follows, left, b, c

\* A piece without a bracket is sent as it is.
LEMMA PlainFollows ==
  ASSUME NEW R \in Texts, NEW q \in 0 .. Len(R), NEW p \in 0 .. q, NEW out, NEW exact \in BOOLEAN,
         Follows(R, p, out, exact),
         \A k \in p + 1 .. q : R[k] # Open,
         exact /\ p < q => R[q] # Space
  PROVE  Follows(R, q, out \o Piece(R, p, q), exact)
<1>. DEFINE b == Piece(R, p, q)
            c == Piece(R, 0, q)
<1>1. Len(R) \in Nat
  BY TextFacts
<1>2. b \in Texts /\ Len(b) = q - p /\ \A k \in 1 .. q - p : b[k] = R[p + k]
  BY PieceFacts
<1>3. c \in Texts /\ Len(c) = q /\ \A k \in 1 .. q : c[k] = R[k]
  <2>1. 0 \in 0 .. q /\ q - 0 = q
    BY <1>1
  <2>2. c \in Texts /\ Len(c) = q - 0 /\ \A k \in 1 .. q - 0 : c[k] = R[0 + k]
    BY <2>1, PieceFacts
  <2>. HIDE DEF c
  <2>. QED
    BY <1>1, <2>1, <2>2
<1>4. exact => EndsSolid(c)
  <2>1. CASE p < q
    <3>1. exact => c[q] # Space
      BY <1>1, <1>3, <2>1
    <3>. QED
      BY <1>3, <3>1 DEF EndsSolid
  <2>2. CASE ~(p < q)
    <3>1. p = q
      BY <1>1, <2>2
    <3>. QED
      BY <3>1 DEF Follows
  <2>. QED
    BY <2>1, <2>2
<1>. HIDE DEF b, c
<1>5. \A k \in 1 .. Len(b) : b[k] # Open
  <2>1. \A k \in 1 .. q - p : p + k \in p + 1 .. q
    BY <1>1
  <2>. QED
    BY <1>2, <2>1
<1>6. ScrubCitations(b) = b /\ OnlyRetrieved(b) /\ AllClosed(b)
  BY <1>2, <1>5, ScrubPlain DEF AllClosed
<1>. QED
  BY <1>4, <1>6, PieceFollows DEF b, c

\* A bracket and its closing one are sent or not.
LEMMA SpanFollows ==
  ASSUME NEW R \in Texts, NEW q \in 0 .. Len(R), NEW p \in 0 .. q, NEW out, NEW exact \in BOOLEAN,
         Follows(R, p, out, exact),
         NEW s \in p + 1 .. q, s < q, R[s] = Open, R[q] = Close,
         \A k \in p + 1 .. s - 1 : R[k] = Space,
         \A k \in s + 1 .. q - 1 : R[k] # Close
  PROVE  Follows(R, q, out \o ScrubCitations(Piece(R, p, q)), exact)
<1>. DEFINE b == Piece(R, p, q)
            c == Piece(R, 0, q)
            n == Len(b)
<1>1. Len(R) \in Nat
  BY TextFacts
<1>2. b \in Texts /\ Len(b) = q - p /\ \A k \in 1 .. q - p : b[k] = R[p + k]
  BY PieceFacts
<1>3. c \in Texts /\ Len(c) = q /\ \A k \in 1 .. q : c[k] = R[k]
  <2>1. 0 \in 0 .. q /\ q - 0 = q
    BY <1>1
  <2>2. c \in Texts /\ Len(c) = q - 0 /\ \A k \in 1 .. q - 0 : c[k] = R[0 + k]
    BY <2>1, PieceFacts
  <2>. HIDE DEF c
  <2>. QED
    BY <1>1, <2>1, <2>2
<1>. HIDE DEF b, c
<1>4. EndsSolid(c)
  <2>1. c[q] = Close
    BY <1>1, <1>3
  <2>. QED
    BY <1>3, <2>1, Brackets DEF EndsSolid
<1>5. /\ s - p \in 1 .. n /\ s - p < n /\ b[s - p] = Open /\ b[n] = Close
      /\ n = q - p /\ p + n = q /\ p + (s - p) = s
  <2>1. s - p \in 1 .. q - p /\ s - p < q - p /\ p + (s - p) = s /\ q - p \in 1 .. q - p
        /\ p + (q - p) = q
    BY <1>1
  <2>. QED
    BY <1>2, <2>1
<1>6. AllClosed(b)
  <2>. SUFFICES ASSUME NEW i \in 1 .. n, b[i] = Open PROVE \E j \in i + 1 .. n : b[j] = Close
    BY DEF AllClosed
  <2>1. i # n
    BY <1>5, Brackets
  <2>2. n \in i + 1 .. n
    BY <1>1, <1>5, <2>1
  <2>. QED
    BY <1>5, <2>2
<1>7. ASSUME Flat(R) PROVE OnlyRetrieved(ScrubCitations(b)) /\ AllClosed(ScrubCitations(b))
  <2>1. \A k \in 1 .. (s - p) - 1 : b[k] = Space
    <3>1. \A k \in 1 .. (s - p) - 1 : p + k \in p + 1 .. s - 1 /\ k \in 1 .. q - p
      BY <1>1
    <3>. QED
      BY <1>2, <3>1
  <2>2. ASSUME NEW k \in s + 1 .. q - 1 PROVE R[k] # Open
    <3>. SUFFICES ASSUME R[k] = Open PROVE FALSE
      OBVIOUS
    <3>. DEFINE e == NextAt(R, Close, s)
    <3>1. s \in DOMAIN R /\ k \in DOMAIN R /\ s < k /\ s \in 0 .. Len(R)
      BY <1>1, TextFacts
    <3>2. e < k
      BY <1>7, <3>1 DEF Flat
    <3>3. e \in s + 1 .. Len(R) + 1 /\ (e <= Len(R) => R[e] = Close)
      BY <3>1, NextAtIs
    <3>. HIDE DEF e
    <3>4. e \in s + 1 .. q - 1 /\ e <= Len(R)
      BY <1>1, <3>2, <3>3
    <3>. QED
      BY <3>3, <3>4
  <2>3. \A k \in (s - p) + 1 .. n - 1 : b[k] # Open /\ b[k] # Close
    <3>1. \A k \in (s - p) + 1 .. (q - p) - 1 : p + k \in s + 1 .. q - 1 /\ k \in 1 .. q - p
      BY <1>1
    <3>. QED
      BY <1>2, <1>5, <2>2, <3>1
  <2>. QED
    BY <1>2, <1>5, <2>1, <2>3, ScrubSpan
<1>. QED
  BY <1>4, <1>6, <1>7, PieceFollows DEF b, c

(***************************************************************************)
(* The loop of feed.                                                       *)
(***************************************************************************)
LEMMA WsStartIs ==
  ASSUME NEW xs \in Texts, NEW start \in 1 .. Len(xs)
  PROVE  /\ WsStart(xs, start) \in 1 .. start
         /\ \A k \in WsStart(xs, start) .. start - 1 : xs[k] = Space
         /\ WsStart(xs, start) = 1 \/ xs[WsStart(xs, start) - 1] # Space
<1>. DEFINE T == SpacesBefore(xs, start) \cup {start}
            w == WsStart(xs, start)
<1>1. Len(xs) \in Nat
  BY TextFacts
<1>2. T \in SUBSET Nat /\ T # {}
  BY <1>1 DEF SpacesBefore
<1>3. \A k : k \in T <=> k = start \/ k \in SpacesBefore(xs, start)
  OBVIOUS
<1>4. w \in T /\ \A m \in T : w <= m
  <2>. HIDE DEF T
  <2>1. w = Min(T)
    BY DEF WsStart, T
  <2>. QED
    BY <1>2, <2>1, Minimum
<1>. HIDE DEF T, w
<1>5. w \in 1 .. start /\ \A k \in w .. start - 1 : xs[k] = Space
  BY <1>1, <1>3, <1>4 DEF SpacesBefore
<1>6. ASSUME w # 1, xs[w - 1] = Space PROVE FALSE
  <2>1. w - 1 \in 1 .. start - 1
    BY <1>1, <1>5, <1>6
  <2>2. \A k \in w - 1 .. start - 1 : xs[k] = Space
    BY <1>1, <1>5, <1>6
  <2>3. w - 1 \in T
    BY <1>3, <2>1, <2>2 DEF SpacesBefore
  <2>. QED
    BY <1>4, <1>5, <2>1, <2>3
<1>. QED
  BY <1>5, <1>6 DEF w

\* A pass sends more of the reply, and when none is left to be sent it changes nothing.
Proceeds(R, n, p, sofar, exact, loop) ==
  /\ loop.out \in Texts
  /\ loop.buf = Piece(R, p, n)
  /\ Follows(R, p, sofar \o loop.out, exact)

LEMMA PassFollows ==
  ASSUME NEW R \in Texts, NEW n \in 0 .. Len(R), NEW p \in 0 .. n, NEW sofar \in Texts,
         NEW exact \in BOOLEAN, NEW loop, Proceeds(R, n, p, sofar, exact, loop),
         exact /\ 0 < n => R[n] # Space
  PROVE  \E q \in p .. n : /\ Proceeds(R, n, q, sofar, exact, Pass(loop))
                           /\ Held(R, p, n) => Held(R, q, n)
                           /\ Held(R, q, n) \/ p < q
<1>. DEFINE xs    == loop.buf
            out   == loop.out
            m     == Len(xs)
            start == NextAt(xs, Open, 0)
            w     == WsStart(xs, start)
            end   == NextAt(xs, Close, start)
            out2  == out \o SubSeq(xs, 1, w - 1)
            buf2  == SubSeq(xs, w, m)
            out3  == out \o SubSeq(xs, 1, w - 1) \o ScrubCitations(SubSeq(xs, w, end))
            buf3  == SubSeq(xs, end + 1, m)
<1>1. Len(R) \in Nat
  BY TextFacts
<1>2. xs \in Texts /\ m = n - p /\ \A k \in 1 .. n - p : xs[k] = R[p + k]
  BY PieceFacts DEF Proceeds
<1>3. out \in Texts /\ xs = Piece(R, p, n) /\ Follows(R, p, sofar \o out, exact)
  BY DEF Proceeds
<1>4. Pass(loop) =
        IF start > m THEN [out |-> out \o xs, buf |-> << >>]
        ELSE IF end > m THEN [out |-> out2, buf |-> buf2] ELSE [out |-> out3, buf |-> buf3]
  BY DEF Pass
<1>5. /\ start \in 1 .. m + 1 /\ (start <= m => xs[start] = Open)
      /\ \A j \in 1 .. m : j < start => xs[j] # Open
  <2>1. 0 \in 0 .. Len(xs)
    BY <1>1, <1>2
  <2>. HIDE DEF xs
  <2>2. /\ NextAt(xs, Open, 0) \in 0 + 1 .. Len(xs) + 1
        /\ NextAt(xs, Open, 0) <= Len(xs) => xs[NextAt(xs, Open, 0)] = Open
        /\ \A j \in 1 .. Len(xs) : 0 < j /\ j < NextAt(xs, Open, 0) => xs[j] # Open
    BY <1>2, <2>1, NextAtIs
  <2>. HIDE DEF start, m
  <2>3. m \in Nat
    BY <1>1, <1>2 DEF m
  <2>. QED
    BY <2>2, <2>3 DEF start, m
<1>6. m \in Nat /\ p + m = n
  BY <1>1, <1>2
<1>. HIDE DEF xs, out, start, end, w, m, out2, buf2, out3, buf3
<1>7. CASE start > m
  <2>1. Pass(loop).out = out \o xs /\ Pass(loop).buf = << >>
    BY <1>4, <1>7
  <2>2. ASSUME NEW k \in p + 1 .. n PROVE R[k] # Open
    <3>1. k - p \in 1 .. m /\ k - p < start /\ p + (k - p) = k
      BY <1>1, <1>2, <1>5, <1>6, <1>7
    <3>. QED
      BY <1>2, <1>5, <1>6, <3>1
  <2>3. Follows(R, n, (sofar \o out) \o xs, exact)
    <3>1. exact /\ p < n => R[n] # Space
      BY <1>1
    <3>. QED
      BY <1>3, <2>2, <3>1, PlainFollows
  <2>4. (sofar \o out) \o xs = sofar \o (out \o xs) /\ out \o xs \in Texts
    BY <1>2, <1>3, JoinAssociative, JoinFacts
  <2>5. Piece(R, n, n) = << >>
    BY PieceNone
  <2>6. Proceeds(R, n, n, sofar, exact, Pass(loop))
    BY <2>1, <2>3, <2>4, <2>5 DEF Proceeds
  <2>7. Held(R, n, n) /\ n \in p .. n
    BY <1>1 DEF Held
  <2>. QED
    BY <2>6, <2>7
<1>8. ASSUME ~(start > m)
      PROVE  /\ start \in 1 .. m
             /\ w \in 1 .. start
             /\ p + (w - 1) \in p .. n
             /\ SubSeq(xs, 1, w - 1) = Piece(R, p, p + (w - 1))
             /\ SubSeq(xs, 1, w - 1) \in Texts
             /\ R[p + start] = Open
             /\ \A k \in p + (w - 1) + 1 .. p + start - 1 : R[k] = Space
             /\ Follows(R, p + (w - 1), (sofar \o out) \o SubSeq(xs, 1, w - 1), exact)
  <2>1. start \in 1 .. m
    BY <1>5, <1>6, <1>8
  <2>2. /\ w \in 1 .. start
        /\ \A k \in w .. start - 1 : xs[k] = Space
        /\ w = 1 \/ xs[w - 1] # Space
    BY <1>2, <2>1, WsStartIs DEF w, m
  <2>3. p + (w - 1) \in p .. n /\ w - 1 \in 0 .. n - p /\ 0 \in 0 .. w - 1 /\ p + 0 = p
    BY <1>1, <1>2, <1>6, <2>1, <2>2
  <2>4. SubSeq(xs, 1, w - 1) = Piece(R, p, p + (w - 1))
    <3>1. SubSeq(xs, 1, w - 1) = Piece(xs, 0, w - 1)
      <4>1. 0 + 1 = 1
        OBVIOUS
      <4>. QED
        BY <4>1 DEF Piece
    <3>2. Piece(Piece(R, p, n), 0, w - 1) = Piece(R, p + 0, p + (w - 1))
      BY <2>3, PieceOfPiece
    <3>. QED
      BY <1>3, <2>3, <3>1, <3>2
  <2>5. Piece(R, p, p + (w - 1)) \in Texts
    <3>1. p + (w - 1) \in 0 .. Len(R) /\ p \in 0 .. p + (w - 1)
      BY <1>1, <2>3
    <3>. QED
      BY <3>1, PieceFacts
  <2>6. R[p + start] = Open
    BY <1>2, <1>5, <1>6, <2>1
  <2>7. ASSUME NEW k \in p + (w - 1) + 1 .. p + start - 1 PROVE R[k] = Space
    <3>1. k - p \in w .. start - 1 /\ k - p \in 1 .. n - p /\ p + (k - p) = k
      BY <1>1, <1>2, <1>6, <2>1, <2>2
    <3>. QED
      BY <1>2, <2>2, <3>1
  <2>8. Follows(R, p + (w - 1), (sofar \o out) \o Piece(R, p, p + (w - 1)), exact)
    <3>1. ASSUME NEW k \in p + 1 .. p + (w - 1) PROVE R[k] # Open
      <4>1. k - p \in 1 .. m /\ k - p < start /\ p + (k - p) = k /\ k - p \in 1 .. n - p
        BY <1>1, <1>2, <1>6, <2>1, <2>2
      <4>. QED
        BY <1>2, <1>5, <4>1
    <3>2. ASSUME p < p + (w - 1) PROVE R[p + (w - 1)] # Space
      <4>1. w # 1 /\ w - 1 \in 1 .. n - p
        BY <1>1, <2>3, <3>2
      <4>. QED
        BY <1>2, <2>2, <4>1
    <3>3. p + (w - 1) \in 0 .. Len(R) /\ p \in 0 .. p + (w - 1)
      BY <1>1, <2>3
    <3>. QED
      BY <1>3, <3>1, <3>2, <3>3, PlainFollows
  <2>. QED
    BY <2>1, <2>2, <2>3, <2>4, <2>5, <2>6, <2>7, <2>8
<1>9. ASSUME ~(start > m)
      PROVE  /\ end \in start + 1 .. m + 1 /\ (end <= m => xs[end] = Close)
             /\ \A j \in 1 .. m : start < j /\ j < end => xs[j] # Close
  <2>1. start \in 0 .. m
    BY <1>5, <1>6, <1>9
  <2>. QED
    BY <1>2, <2>1, NextAtIs DEF end, m
<1>10. CASE ~(start > m) /\ end > m
  <2>. DEFINE before == SubSeq(xs, 1, w - 1)
              q == p + (w - 1)
  <2>1. Pass(loop).out = out \o before /\ Pass(loop).buf = SubSeq(xs, w, m)
    <3>1. Pass(loop).out = out2 /\ Pass(loop).buf = buf2
      BY <1>4, <1>10
    <3>. QED
      BY <3>1 DEF out2, buf2
  <2>2. /\ start \in 1 .. m /\ w \in 1 .. start /\ q \in p .. n /\ before \in Texts
        /\ R[p + start] = Open
        /\ \A k \in q + 1 .. p + start - 1 : R[k] = Space
        /\ Follows(R, q, (sofar \o out) \o before, exact)
    BY <1>8, <1>10
  <2>3. SubSeq(xs, w, m) = Piece(R, q, n)
    <3>1. (w - 1) + 1 = w /\ m \in 0 .. n - p /\ w - 1 \in 0 .. m
      BY <1>1, <1>2, <1>6, <2>2
    <3>2. Piece(xs, w - 1, m) = SubSeq(xs, w, m)
      BY <3>1 DEF Piece
    <3>3. Piece(Piece(R, p, n), w - 1, m) = Piece(R, p + (w - 1), p + m)
      BY <3>1, PieceOfPiece
    <3>. QED
      BY <1>3, <1>6, <3>2, <3>3
  <2>. HIDE DEF before, q
  <2>4. (sofar \o out) \o before = sofar \o (out \o before) /\ out \o before \in Texts
    BY <1>3, <2>2, JoinAssociative, JoinFacts
  <2>5. Proceeds(R, n, q, sofar, exact, Pass(loop))
    BY <2>1, <2>2, <2>3, <2>4 DEF Proceeds
  <2>6. Held(R, q, n)
    <3>1. p + start \in q + 1 .. n
      BY <1>1, <1>2, <1>6, <2>2 DEF q
    <3>2. ASSUME NEW k \in p + start + 1 .. n PROVE R[k] # Close
      <4>1. k - p \in 1 .. m /\ start < k - p /\ k - p < end /\ p + (k - p) = k
        BY <1>1, <1>6, <1>9, <1>10, <2>2
      <4>. QED
        BY <1>2, <1>6, <1>9, <1>10, <4>1
    <3>. QED
      BY <2>2, <3>1, <3>2 DEF Held
  <2>. QED
    BY <2>2, <2>5, <2>6
<1>11. CASE ~(start > m) /\ ~(end > m)
  <2>. DEFINE before == SubSeq(xs, 1, w - 1)
              left == ScrubCitations(SubSeq(xs, w, end))
              i == p + (w - 1)
              q == p + end
  <2>1. Pass(loop).out = (out \o before) \o left /\ Pass(loop).buf = SubSeq(xs, end + 1, m)
    <3>1. Pass(loop).out = out3 /\ Pass(loop).buf = buf3
      BY <1>4, <1>11
    <3>. QED
      BY <3>1 DEF out3, buf3
  <2>2. /\ start \in 1 .. m /\ w \in 1 .. start /\ i \in p .. n /\ before \in Texts
        /\ R[p + start] = Open
        /\ \A k \in i + 1 .. p + start - 1 : R[k] = Space
        /\ Follows(R, i, (sofar \o out) \o before, exact)
    BY <1>8, <1>11
  <2>3. /\ end \in start + 1 .. m /\ xs[end] = Close
        /\ \A j \in 1 .. m : start < j /\ j < end => xs[j] # Close
    BY <1>6, <1>9, <1>11
  <2>4. /\ q \in 0 .. Len(R) /\ i \in 0 .. q /\ q \in p .. n /\ p < q
        /\ p + start \in i + 1 .. q /\ p + start < q /\ end \in 1 .. n - p
    BY <1>1, <1>2, <1>6, <2>2, <2>3
  <2>5. SubSeq(xs, w, end) = Piece(R, i, q)
    <3>1. (w - 1) + 1 = w /\ end \in 0 .. n - p /\ w - 1 \in 0 .. end
      BY <1>1, <1>2, <1>6, <2>2, <2>3
    <3>2. Piece(xs, w - 1, end) = SubSeq(xs, w, end)
      BY <3>1 DEF Piece
    <3>3. Piece(Piece(R, p, n), w - 1, end) = Piece(R, p + (w - 1), p + end)
      BY <3>1, PieceOfPiece
    <3>. QED
      BY <1>3, <3>2, <3>3
  <2>6. SubSeq(xs, end + 1, m) = Piece(R, q, n)
    <3>1. m \in 0 .. n - p /\ end \in 0 .. m
      BY <1>1, <1>2, <1>6, <2>2, <2>3
    <3>2. Piece(xs, end, m) = SubSeq(xs, end + 1, m)
      BY DEF Piece
    <3>3. Piece(Piece(R, p, n), end, m) = Piece(R, p + end, p + m)
      BY <3>1, PieceOfPiece
    <3>. QED
      BY <1>3, <1>6, <3>2, <3>3
  <2>7. left = ScrubCitations(Piece(R, i, q)) /\ left \in Texts
    <3>1. Piece(R, i, q) \in Texts
      BY <2>4, PieceFacts
    <3>. QED
      BY <2>5, <3>1, ScrubIsText
  <2>8. R[q] = Close
    BY <1>2, <2>3, <2>4
  <2>9. ASSUME NEW k \in p + start + 1 .. q - 1 PROVE R[k] # Close
    <3>1. k - p \in 1 .. m /\ start < k - p /\ k - p < end /\ p + (k - p) = k
      BY <1>1, <1>6, <2>2, <2>3
    <3>. QED
      BY <1>2, <1>6, <2>3, <3>1
  <2>. HIDE DEF before, left, i, q
  <2>10. Follows(R, q, ((sofar \o out) \o before) \o left, exact)
    BY <2>2, <2>4, <2>7, <2>8, <2>9, SpanFollows
  <2>11. /\ ((sofar \o out) \o before) \o left = sofar \o ((out \o before) \o left)
         /\ (out \o before) \o left \in Texts
    <3>1. out \o before \in Texts /\ (sofar \o out) \o before = sofar \o (out \o before)
      BY <1>3, <2>2, JoinAssociative, JoinFacts
    <3>2. (sofar \o (out \o before)) \o left = sofar \o ((out \o before) \o left)
      BY <2>7, <3>1, JoinAssociative
    <3>. QED
      BY <2>7, <3>1, <3>2, JoinFacts
  <2>12. Proceeds(R, n, q, sofar, exact, Pass(loop))
    BY <2>1, <2>6, <2>10, <2>11 DEF Proceeds
  <2>13. ~Held(R, p, n)
    <3>. SUFFICES ASSUME Held(R, p, n) PROVE FALSE
      OBVIOUS
    <3>1. p # n
      BY <1>1, <2>4
    <3>2. PICK s \in p + 1 .. n : /\ R[s] = Open
                                  /\ \A k \in p + 1 .. s - 1 : R[k] = Space
                                  /\ \A k \in s + 1 .. n : R[k] # Close
      BY <3>1 DEF Held
    <3>3. ~(q > s)
      BY <1>1, <2>4, <2>8, <3>2
    <3>4. p + start \in p + 1 .. s - 1
      BY <1>1, <1>6, <2>2, <2>4, <3>2, <3>3
    <3>. QED
      BY <2>2, <3>2, <3>4, Brackets
  <2>. QED
    BY <2>4, <2>12, <2>13
<1>. QED
  BY <1>7, <1>10, <1>11

LEMMA PassIsLoop ==
  ASSUME NEW loop, Pass(loop).out \in Texts, Pass(loop).buf \in Texts
  PROVE  Pass(loop) \in [out : Texts, buf : Texts]
<1>1. \E o, b : Pass(loop) = [out |-> o, buf |-> b]
  <2>. DEFINE xs    == loop.buf
              start == NextAt(xs, Open, 0)
              w     == WsStart(xs, start)
              end   == NextAt(xs, Close, start)
              out1  == loop.out \o xs
              out2  == loop.out \o SubSeq(xs, 1, w - 1)
              buf2  == SubSeq(xs, w, Len(xs))
              out3  == out2 \o ScrubCitations(SubSeq(xs, w, end))
              buf3  == SubSeq(xs, end + 1, Len(xs))
  <2>1. Pass(loop) =
          IF start > Len(xs) THEN [out |-> out1, buf |-> << >>]
          ELSE IF end > Len(xs) THEN [out |-> out2, buf |-> buf2] ELSE [out |-> out3, buf |-> buf3]
    BY DEF Pass
  <2>. HIDE DEF xs, start, w, end, out1, out2, buf2, out3, buf3
  <2>. QED
    BY <2>1
<1>2. PICK o, b : Pass(loop) = [out |-> o, buf |-> b]
  BY <1>1
<1>. QED
  BY <1>2

\* acc[k] is the loop after k passes over n symbols.
Passes(acc, n, V, base) ==
  /\ acc \in [0 .. n -> V]
  /\ acc[0] = base
  /\ \A k \in 1 .. n : acc[k] = Pass(acc[k - 1])

LEMMA DrainPasses ==
  ASSUME NEW xs \in Texts, NEW V, [out |-> << >>, buf |-> xs] \in V, \A v \in V : Pass(v) \in V
  PROVE  \E acc : Passes(acc, Len(xs), V, [out |-> << >>, buf |-> xs]) /\ Drain(xs) = acc[Len(xs)]
<1>. DEFINE n == Len(xs)
            base == [out |-> << >>, buf |-> xs]
            step == [kv \in (1 .. n) \X V |-> Pass(kv[2])]
            Folds(g) == g = [t \in SUBSET (1 .. n) |-> IF t = {} THEN base ELSE Pass(g[t \ {Max(t)}])]
            iter == CHOOSE g : Folds(g)
<1>1. n \in Nat /\ DOMAIN xs = 1 .. n
  BY TextFacts
<1>2. Drain(xs) = iter[1 .. n]
  <2>. HIDE DEF n
  <2>. QED
    BY <1>1 DEF Drain, FoldLeft, MapThenFoldSet
<1>3. \A k \in 1 .. n, v \in V : step[<<k, v>>] = Pass(v)
  OBVIOUS
<1>. HIDE DEF step, n
<1>4. StaysWithin(step, n, V)
  BY <1>3 DEF StaysWithin
<1>5. base \in V
  OBVIOUS
<1>. HIDE DEF base
<1>6. PICK g : IsFold(g, 1 .. n, V, base, Largest(n), step)
  BY <1>1, <1>4, <1>5, SequenceFoldExists
<1>7. Folds(g)
  <2>1. ASSUME NEW t \in SUBSET (1 .. n), t # {}
        PROVE  step[<<Max(t), g[t \ {Max(t)}]>>] = Pass(g[t \ {Max(t)}])
    <3>1. Max(t) \in 1 .. n
      BY <1>1, <2>1, Maximum
    <3>2. g[t \ {Max(t)}] \in V
      BY <1>6 DEF IsFold
    <3>. QED
      BY <1>3, <3>1, <3>2
  <2>. QED
    BY <1>6, <2>1 DEF IsFold, Largest
<1>8. Folds(iter)
  BY <1>7
<1>. HIDE DEF iter
<1>9. FoldsWithin(iter, n, V, base, step)
  <2>1. iter = [t \in SUBSET (1 .. n) |-> iter[t]]
    BY <1>8
  <2>2. iter[{}] = base
    BY <1>8
  <2>3. ASSUME NEW t \in SUBSET (1 .. n), t # {}, iter[t \ {Max(t)}] \in V
        PROVE  iter[t] = step[<<Max(t), iter[t \ {Max(t)}]>>]
    <3>1. Max(t) \in 1 .. n
      BY <1>1, <2>3, Maximum
    <3>2. iter[t] = Pass(iter[t \ {Max(t)}])
      BY <1>8, <2>3
    <3>. QED
      BY <1>3, <2>3, <3>1, <3>2
  <2>. QED
    BY <2>1, <2>2, <2>3 DEF FoldsWithin
<1>10. PICK acc : Accumulates(acc, n, V, base, step) /\ acc[n] = iter[1 .. n]
  BY <1>1, <1>4, <1>5, <1>9, SequenceFoldIs
<1>11. \A k \in 1 .. n : acc[k] = Pass(acc[k - 1])
  <2>. SUFFICES ASSUME NEW k \in 1 .. n PROVE acc[k] = Pass(acc[k - 1])
    OBVIOUS
  <2>1. k - 1 \in 0 .. n
    BY <1>1
  <2>2. acc[k - 1] \in V /\ acc[k] = step[<<k, acc[k - 1]>>]
    BY <1>10, <2>1 DEF Accumulates
  <2>. QED
    BY <1>3, <2>2
<1>12. Passes(acc, n, V, base)
  BY <1>10, <1>11 DEF Accumulates, Passes
<1>. QED
  BY <1>2, <1>10, <1>12 DEF n, base

\* A token leaves the scrubber following the reply, with no whole bracket held back.
LEMMA DrainFollows ==
  ASSUME NEW R \in Texts, NEW n \in 1 .. Len(R), NEW p \in 0 .. n, NEW sofar \in Texts,
         NEW exact \in BOOLEAN, Follows(R, p, sofar, exact), exact => R[n] # Space
  PROVE  \E q \in p .. n :
           Proceeds(R, n, q, sofar, exact, Drain(Piece(R, p, n))) /\ Held(R, q, n)
<1>. DEFINE xs == Piece(R, p, n)
            m == Len(xs)
            base == [out |-> << >>, buf |-> xs]
            Goes(v, q) == Proceeds(R, n, q, sofar, exact, v)
            V == {v \in [out : Texts, buf : Texts] : \E q \in p .. n : Goes(v, q)}
<1>1. Len(R) \in Nat /\ n \in 0 .. Len(R) /\ 0 < n
  BY TextFacts
<1>2. xs \in Texts /\ m = n - p
  BY <1>1, PieceFacts
<1>3. Goes(base, p)
  <2>1. << >> \in Texts
    BY DEF Texts
  <2>2. sofar \o << >> = sofar
    BY JoinEmpty
  <2>3. base.out = << >> /\ base.buf = xs
    OBVIOUS
  <2>. HIDE DEF base
  <2>. QED
    BY <2>1, <2>2, <2>3 DEF Proceeds
<1>4. base \in V
  <2>1. << >> \in Texts /\ p \in p .. n
    BY <1>1 DEF Texts
  <2>. HIDE DEF xs, Goes
  <2>. QED
    BY <1>2, <1>3, <2>1
<1>5. ASSUME NEW v, NEW q \in p .. n, Goes(v, q)
      PROVE  \E r \in q .. n : /\ Goes(Pass(v), r)
                               /\ Held(R, q, n) => Held(R, r, n)
                               /\ Held(R, r, n) \/ q < r
  <2>1. q \in 0 .. n
    BY <1>1
  <2>. QED
    BY <1>1, <1>5, <2>1, PassFollows
<1>6. ASSUME NEW v \in V PROVE Pass(v) \in V
  <2>1. PICK q \in p .. n : Goes(v, q)
    OBVIOUS
  <2>2. PICK r \in q .. n : Goes(Pass(v), r)
    BY <1>5, <2>1
  <2>3. r \in p .. n /\ r \in 0 .. n
    BY <1>1
  <2>4. Pass(v).out \in Texts /\ Pass(v).buf = Piece(R, r, n)
    BY <2>2 DEF Proceeds
  <2>5. Pass(v).buf \in Texts
    BY <1>1, <2>3, <2>4, PieceFacts
  <2>6. Pass(v) \in [out : Texts, buf : Texts]
    BY <2>4, <2>5, PassIsLoop
  <2>. HIDE DEF Goes
  <2>. QED
    BY <2>2, <2>3, <2>6
<1>7. PICK acc : Passes(acc, m, V, base) /\ Drain(xs) = acc[m]
  <2>. HIDE DEF V, xs
  <2>. QED
    BY <1>2, <1>4, <1>6, DrainPasses
<1>. HIDE DEF base, Goes, V, xs, m
<1>. DEFINE T == {k \in 0 .. m : \E q \in p .. n : Goes(acc[k], q) /\ (Held(R, q, n) \/ q - p >= k)}
<1>8. 0 \in T
  <2>1. acc[0] = base /\ p \in p .. n /\ p - p >= 0 /\ 0 \in 0 .. m
    BY <1>1, <1>2, <1>7 DEF Passes
  <2>. QED
    BY <1>3, <2>1
<1>9. ASSUME NEW k \in 1 .. m, k - 1 \in T PROVE k \in T
  <2>1. PICK q \in p .. n : Goes(acc[k - 1], q) /\ (Held(R, q, n) \/ q - p >= k - 1)
    BY <1>9
  <2>2. acc[k] = Pass(acc[k - 1])
    BY <1>7 DEF Passes
  <2>3. PICK r \in q .. n : /\ Goes(acc[k], r)
                            /\ Held(R, q, n) => Held(R, r, n)
                            /\ Held(R, r, n) \/ q < r
    BY <1>5, <2>1, <2>2
  <2>4. r \in p .. n /\ (Held(R, r, n) \/ r - p >= k)
    BY <1>1, <1>2, <2>1, <2>3
  <2>5. k \in 0 .. m
    BY <1>1, <1>2
  <2>. QED
    BY <2>3, <2>4, <2>5
<1>10. \A k \in 0 .. m : k \in T
  <2>. HIDE DEF T
  <2>1. m \in Nat
    BY <1>1, <1>2
  <2>. QED
    BY <1>8, <1>9, <2>1, BoundedInduction
<1>11. PICK q \in p .. n : Goes(acc[m], q) /\ (Held(R, q, n) \/ q - p >= m)
  <2>1. m \in 0 .. m
    BY <1>1, <1>2
  <2>. QED
    BY <1>10, <2>1
<1>12. Held(R, q, n)
  <2>1. CASE Held(R, q, n)
    BY <2>1
  <2>2. CASE q - p >= m
    <3>1. q = n
      BY <1>1, <1>2, <2>2
    <3>. QED
      BY <3>1 DEF Held
  <2>. QED
    BY <1>11, <2>1, <2>2
<1>. QED
  BY <1>7, <1>11, <1>12 DEF Goes, xs

(***************************************************************************)
(* The invariant: what has been shown follows the reply up to a place q,   *)
(* and what came after it is held back.                                    *)
(***************************************************************************)
NoTokenEndsInSpace == \A n \in cuts : reply[n] # Space

StreamInv ==
  /\ reply \in Texts
  /\ sent \in 0 .. Len(reply)
  /\ cuts \subseteq 1 .. sent
  /\ flushed \in BOOLEAN
  /\ ~flushed => \E q \in 0 .. sent : /\ buf = Piece(reply, q, sent)
                                      /\ Follows(reply, q, shown, NoTokenEndsInSpace)
                                      /\ Held(reply, q, sent)
  /\ flushed => FollowsScrubbedReply /\ ExactUnlessCutAtSpace /\ MadeUpNeverLeads

LEMMA InitFollows ==
  ASSUME Init
  PROVE  StreamInv
<1>1. reply \in Texts
  <2>1. PICK n \in 0 .. MaxLength : reply \in [1 .. n -> Symbols]
    BY DEF Init
  <2>2. n \in Nat
    BY LengthAssumption
  <2>. QED
    BY <2>1, <2>2 DEF Texts
<1>2. sent = 0 /\ buf = << >> /\ shown = << >> /\ flushed = FALSE /\ cuts = {}
  BY DEF Init
<1>3. Len(reply) \in Nat /\ 0 \in 0 .. Len(reply)
  BY <1>1, TextFacts
<1>4. Piece(reply, 0, 0) = << >> /\ << >> \in Texts /\ Len(<< >>) = 0
  BY <1>1, <1>3, PieceNone DEF Texts
<1>5. ScrubCitations(<< >>) = << >> /\ OnlyRetrieved(<< >>)
  BY <1>4, ScrubPlain
<1>6. AllClosed(<< >>) /\ EndsSolid(<< >>)
  BY <1>4 DEF AllClosed, EndsSolid
<1>7. Follows(reply, 0, << >>, NoTokenEndsInSpace)
  BY <1>4, <1>5, <1>6 DEF Follows
<1>8. Held(reply, 0, 0)
  BY DEF Held
<1>9. 0 \in 0 .. 0 /\ {} \subseteq 1 .. 0
  OBVIOUS
<1>. QED
  BY <1>1, <1>2, <1>3, <1>4, <1>7, <1>8, <1>9 DEF StreamInv

LEMMA StartIsPrefix ==
  ASSUME NEW s \in Texts, NEW t \in Texts
  PROVE  IsPrefix(s, s \o t) /\ IsPrefix(s, s)
<1>1. Len(s) \in Nat /\ Len(t) \in Nat /\ Len(s \o t) = Len(s) + Len(t) /\ s \o t \in Texts
  BY TextFacts, JoinFacts
<1>2. SubSeq(s \o t, 1, Len(s)) = SubSeq(s, 1, Len(s))
  <2>1. CASE Len(s) = 0
    BY <2>1, SubSeqEmpty
  <2>2. CASE Len(s) # 0
    <3>1. 1 \in 1 .. Len(s) /\ Len(s) \in 1 .. Len(s)
      BY <1>1, <2>2
    <3>. QED
      BY <3>1, SubSeqOfConcat1 DEF Texts
  <2>. QED
    BY <2>1, <2>2
<1>3. Len(s) <= Len(s) + Len(t) /\ Len(s) <= Len(s)
  BY <1>1
<1>4. SubSeq(s, 1, Len(s)) = s
  BY SubSeqFull DEF Texts
<1>. QED
  BY <1>1, <1>2, <1>3, <1>4 DEF IsPrefix

LEMMA PiecesOfReply ==
  ASSUME NEW R \in Texts, NEW q \in 0 .. Len(R)
  PROVE  /\ Piece(R, 0, q) \in Texts
         /\ Piece(R, q, Len(R)) \in Texts
         /\ R = Piece(R, 0, q) \o Piece(R, q, Len(R))
<1>1. Len(R) \in 0 .. Len(R) /\ 0 \in 0 .. q /\ 0 \in 0 .. Len(R) /\ q \in 0 .. Len(R)
  BY TextFacts
<1>2. Piece(R, 0, q) \in Texts
  BY <1>1, PieceFacts
<1>3. Piece(R, q, Len(R)) \in Texts
  BY <1>1, PieceFacts
<1>4. Piece(R, 0, q) \o Piece(R, q, Len(R)) = R
  BY <1>1, PieceJoin, PieceAll
<1>. QED
  BY <1>2, <1>3, <1>4

\* While the stream lasts.
LEMMA FollowsIsSafe ==
  ASSUME StreamInv
  PROVE  FollowsScrubbedReply /\ ExactUnlessCutAtSpace /\ MadeUpNeverLeads
<1>1. CASE flushed
  BY <1>1 DEF StreamInv
<1>2. CASE ~flushed
  <2>1. PICK q \in 0 .. sent : Follows(reply, q, shown, NoTokenEndsInSpace)
    BY <1>2 DEF StreamInv
  <2>2. reply \in Texts /\ sent \in 0 .. Len(reply) /\ Len(reply) \in Nat
    BY TextFacts DEF StreamInv
  <2>3. q \in 0 .. Len(reply)
    BY <2>2
  <2>. DEFINE a == Piece(reply, 0, q)
              b == Piece(reply, q, Len(reply))
  <2>4. a \in Texts /\ b \in Texts /\ reply = a \o b
    BY <2>2, <2>3, PiecesOfReply
  <2>5. /\ shown \in Texts
        /\ AllClosed(a) /\ WithoutSpaces(shown) = WithoutSpaces(ScrubCitations(a))
        /\ Flat(reply) => OnlyRetrieved(shown)
    BY <2>1 DEF Follows
  <2>. HIDE DEF a, b
  <2>6. WithoutSpaces(ScrubCitations(a \o b))
          = WithoutSpaces(ScrubCitations(a)) \o WithoutSpaces(ScrubCitations(b))
    BY <2>4, <2>5, ScrubSpacesJoin
  <2>7. WithoutSpaces(ScrubCitations(a)) \in Texts /\ WithoutSpaces(ScrubCitations(b)) \in Texts
    BY <2>4, ScrubIsText, SpacesOfText
  <2>8. IsPrefix(WithoutSpaces(shown), WithoutSpaces(ScrubCitations(reply)))
    BY <2>4, <2>5, <2>6, <2>7, StartIsPrefix
  <2>9. FollowsScrubbedReply
    BY <1>2, <2>8 DEF FollowsScrubbedReply
  <2>10. ExactUnlessCutAtSpace
    BY <1>2 DEF ExactUnlessCutAtSpace
  <2>11. MadeUpNeverLeads
    BY <2>5, RetrievedLeads DEF MadeUpNeverLeads
  <2>. QED
    BY <2>9, <2>10, <2>11
<1>3. flushed \in BOOLEAN
  BY DEF StreamInv
<1>. QED
  BY <1>1, <1>2, <1>3

LEMMA FeedStep ==
  ASSUME StreamInv, NEW n \in sent + 1 .. Len(reply), Feed(n)
  PROVE  StreamInv'
<1>. DEFINE exact == \A k \in cuts \cup {n} : reply[k] # Space
            xs == buf \o SubSeq(reply, sent + 1, n)
<1>1. /\ reply \in Texts /\ Len(reply) \in Nat /\ sent \in 0 .. Len(reply) /\ cuts \subseteq 1 .. sent
      /\ n \in 1 .. Len(reply) /\ n \in 0 .. Len(reply) /\ sent \in 0 .. n
  <2>1. reply \in Texts /\ sent \in 0 .. Len(reply) /\ cuts \subseteq 1 .. sent
    BY DEF StreamInv
  <2>. QED
    BY <2>1, TextFacts
<1>2. ~flushed /\ reply' = reply /\ flushed' = flushed /\ sent' = n /\ cuts' = cuts \cup {n}
  BY DEF Feed
<1>3. shown' = shown \o Drain(xs).out /\ buf' = Drain(xs).buf
  BY DEF Feed
<1>4. PICK q \in 0 .. sent : /\ buf = Piece(reply, q, sent)
                             /\ Follows(reply, q, shown, NoTokenEndsInSpace)
  BY <1>2 DEF StreamInv
<1>5. xs = Piece(reply, q, n) /\ q \in 0 .. n
  <2>1. q \in 0 .. n /\ sent \in q .. n
    BY <1>1
  <2>2. Piece(reply, q, sent) \o Piece(reply, sent, n) = Piece(reply, q, n)
    BY <1>1, <2>1, PieceJoin
  <2>. QED
    BY <1>4, <2>1, <2>2 DEF Piece
<1>6. exact \in BOOLEAN /\ (exact => NoTokenEndsInSpace) /\ (exact => reply[n] # Space)
  BY DEF NoTokenEndsInSpace
<1>7. (NoTokenEndsInSpace)' <=> exact
  BY <1>2 DEF NoTokenEndsInSpace
<1>. HIDE DEF exact, xs
<1>8. Follows(reply, q, shown, exact) /\ shown \in Texts
  BY <1>4, <1>6 DEF Follows
<1>9. PICK r \in q .. n : Proceeds(reply, n, r, shown, exact, Drain(xs)) /\ Held(reply, r, n)
  <2>1. \E r \in q .. n :
          Proceeds(reply, n, r, shown, exact, Drain(Piece(reply, q, n))) /\ Held(reply, r, n)
    BY <1>1, <1>5, <1>6, <1>8, DrainFollows
  <2>. QED
    BY <1>5, <2>1
<1>10. r \in 0 .. n /\ buf' = Piece(reply, r, n) /\ Follows(reply, r, shown', exact)
  <2>1. r \in 0 .. n
    BY <1>1, <1>5
  <2>. QED
    BY <1>3, <1>9, <2>1 DEF Proceeds
<1>11. Follows(reply, r, shown', (NoTokenEndsInSpace)')
  BY <1>7, <1>10 DEF Follows
<1>12. cuts' \subseteq 1 .. n
  BY <1>1, <1>2
<1>13. flushed' \in BOOLEAN
  BY <1>2 DEF StreamInv
<1>. QED
  BY <1>1, <1>2, <1>9, <1>10, <1>11, <1>12, <1>13 DEF StreamInv

\* A bracket that is held back to the end is no citation.
LEMMA FlushStep ==
  ASSUME StreamInv, Flush
  PROVE  StreamInv'
<1>1. /\ reply \in Texts /\ Len(reply) \in Nat /\ sent = Len(reply) /\ ~flushed
      /\ cuts \subseteq 1 .. sent
  BY TextFacts DEF StreamInv, Flush
<1>2. /\ reply' = reply /\ sent' = sent /\ cuts' = cuts /\ flushed' = TRUE
      /\ shown' = shown \o buf
  BY DEF Flush
<1>3. PICK q \in 0 .. sent : /\ buf = Piece(reply, q, sent)
                             /\ Follows(reply, q, shown, NoTokenEndsInSpace)
                             /\ Held(reply, q, sent)
  BY <1>1 DEF StreamInv
<1>. DEFINE a == Piece(reply, 0, q)
<1>4. a \in Texts /\ buf \in Texts /\ reply = a \o buf
  BY <1>1, <1>3, PiecesOfReply
<1>5. /\ shown \in Texts /\ AllClosed(a)
      /\ WithoutSpaces(shown) = WithoutSpaces(ScrubCitations(a))
      /\ NoTokenEndsInSpace => EndsSolid(a) /\ shown = ScrubCitations(a)
      /\ Flat(reply) => OnlyRetrieved(shown) /\ AllClosed(shown)
  BY <1>3 DEF Follows
<1>6. ScrubCitations(buf) = buf /\ OnlyRetrieved(buf)
  <2>1. Len(buf) = sent - q /\ \A k \in 1 .. sent - q : buf[k] = reply[q + k]
    <3>1. sent \in 0 .. Len(reply)
      BY <1>1
    <3>. QED
      BY <1>1, <1>3, <3>1, PieceFacts
  <2>2. ASSUME NEW i \in 1 .. Len(buf), NEW e \in 1 .. Len(buf), i < e, buf[i] = Open, buf[e] = Close
        PROVE  FALSE
    <3>1. q + i \in q + 1 .. sent /\ q + e \in q + 1 .. sent /\ q + i < q + e /\ q # sent
      BY <1>1, <2>1, <2>2
    <3>2. reply[q + i] = Open /\ reply[q + e] = Close
      BY <2>1, <2>2
    <3>3. PICK s \in q + 1 .. sent : /\ reply[s] = Open
                                     /\ \A k \in q + 1 .. s - 1 : reply[k] = Space
                                     /\ \A k \in s + 1 .. sent : reply[k] # Close
      BY <1>3, <3>1 DEF Held
    <3>4. ~(q + i < s)
      <4>1. q + i < s => q + i \in q + 1 .. s - 1
        BY <1>1, <3>1
      <4>. QED
        BY <3>2, <3>3, <4>1, Brackets
    <3>5. q + e \in s + 1 .. sent
      BY <1>1, <3>1, <3>3, <3>4
    <3>. QED
      BY <3>2, <3>3, <3>5
  <2>. QED
    BY <1>4, <2>2, ScrubPlain
<1>. HIDE DEF a
<1>7. WithoutSpaces(shown \o buf) = WithoutSpaces(ScrubCitations(reply))
  <2>1. WithoutSpaces(shown \o buf) = WithoutSpaces(shown) \o WithoutSpaces(buf)
    BY <1>4, <1>5, SpacesJoin
  <2>2. WithoutSpaces(ScrubCitations(a \o buf))
          = WithoutSpaces(ScrubCitations(a)) \o WithoutSpaces(ScrubCitations(buf))
    BY <1>4, <1>5, ScrubSpacesJoin
  <2>. QED
    BY <1>4, <1>5, <1>6, <2>1, <2>2
<1>8. FollowsScrubbedReply'
  <2>1. WithoutSpaces(shown \o buf) \in Texts
    BY <1>4, <1>5, JoinFacts, SpacesOfText
  <2>2. IsPrefix(WithoutSpaces(shown \o buf), WithoutSpaces(shown \o buf))
    BY <2>1, StartIsPrefix
  <2>3. IsPrefix(WithoutSpaces(shown \o buf), WithoutSpaces(ScrubCitations(reply)))
    BY <1>7, <2>2
  <2>. QED
    BY <1>2, <1>7, <2>3 DEF FollowsScrubbedReply
<1>9. ExactUnlessCutAtSpace'
  <2>1. ASSUME NoTokenEndsInSpace PROVE shown \o buf = ScrubCitations(reply)
    <3>1. ScrubCitations(a \o buf) = ScrubCitations(a) \o ScrubCitations(buf)
      BY <1>4, <1>5, <2>1, ScrubJoin
    <3>. QED
      BY <1>4, <1>5, <1>6, <2>1, <3>1
  <2>. QED
    BY <1>2, <2>1 DEF ExactUnlessCutAtSpace, NoTokenEndsInSpace
<1>10. MadeUpNeverLeads'
  <2>1. Flat(reply) => OnlyRetrieved(shown \o buf)
    BY <1>4, <1>5, <1>6, ClosedJoin
  <2>2. shown \o buf \in Texts
    BY <1>4, <1>5, JoinFacts
  <2>. QED
    BY <1>2, <2>1, <2>2, RetrievedLeads DEF MadeUpNeverLeads
<1>11. sent' \in 0 .. Len(reply') /\ cuts' \subseteq 1 .. sent' /\ reply' \in Texts
  BY <1>1, <1>2
<1>. QED
  BY <1>2, <1>8, <1>9, <1>10, <1>11 DEF StreamInv

LEMMA StreamStep ==
  ASSUME StreamInv, [Next]_vars
  PROVE  StreamInv'
<1>1. CASE Flush
  BY <1>1, FlushStep
<1>2. CASE \E n \in sent + 1 .. Len(reply) : Feed(n)
  BY <1>2, FeedStep
<1>3. CASE UNCHANGED vars
  <2>1. /\ reply' = reply /\ sent' = sent /\ buf' = buf /\ shown' = shown
        /\ flushed' = flushed /\ cuts' = cuts
    BY <1>3 DEF vars
  <2>2. (NoTokenEndsInSpace)' <=> NoTokenEndsInSpace
    BY <2>1 DEF NoTokenEndsInSpace
  <2>3. FollowsScrubbedReply' <=> FollowsScrubbedReply
    BY <2>1 DEF FollowsScrubbedReply
  <2>4. ExactUnlessCutAtSpace' <=> ExactUnlessCutAtSpace
    BY <2>1 DEF ExactUnlessCutAtSpace
  <2>5. MadeUpNeverLeads' <=> MadeUpNeverLeads
    BY <2>1 DEF MadeUpNeverLeads
  <2>6. \A q : Follows(reply, q, shown, NoTokenEndsInSpace)
                 <=> Follows(reply, q, shown, (NoTokenEndsInSpace)')
    BY <2>2 DEF Follows
  <2>. QED
    BY <2>1, <2>3, <2>4, <2>5, <2>6 DEF StreamInv
<1>. QED
  BY <1>1, <1>2, <1>3 DEF Next

THEOREM StreamInvariant == Spec => []StreamInv
<1>1. Init => StreamInv
  BY InitFollows
<1>2. StreamInv /\ [Next]_vars => StreamInv'
  BY StreamStep
<1>. QED
  BY <1>1, <1>2, PTL DEF Spec

\* What the client has seen is the beginning of the scrubbed reply, and at the end all
\* of it, but for spaces: for replies of any length, cut into tokens anywhere
\* (CitationScrubber.feed and flush against scrub_citations).
THEOREM StreamFollowsReply == Spec => []FollowsScrubbedReply
<1>1. StreamInv => FollowsScrubbedReply
  BY FollowsIsSafe
<1>. QED
  BY <1>1, StreamInvariant, PTL

\* When no token ends in a space, the stream shows exactly what scrub_citations makes
\* of the whole reply.
THEOREM StreamIsExact == Spec => []ExactUnlessCutAtSpace
<1>1. StreamInv => ExactUnlessCutAtSpace
  BY FollowsIsSafe
<1>. QED
  BY <1>1, StreamInvariant, PTL

\* At any moment of the stream of a reply whose brackets do not nest, a citation that the
\* client has been shown names a made-up file only behind a retrieved one.
THEOREM StreamCitesRetrieved == Spec => []MadeUpNeverLeads
<1>1. StreamInv => MadeUpNeverLeads
  BY FollowsIsSafe
<1>. QED
  BY <1>1, StreamInvariant, PTL
==============================================================================
