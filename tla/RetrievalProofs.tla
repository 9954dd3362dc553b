--------------------------- MODULE RetrievalProofs ---------------------------
(***************************************************************************)
(* Proofs about Retrieval, for any chunks, words, questions and settings.  *)
(***************************************************************************)
EXTENDS Retrieval, FoldFacts, TLAPS

(***************************************************************************)
(* Arithmetic.                                                             *)
(***************************************************************************)
LEMMA Product ==
  ASSUME NEW x \in Nat, NEW y \in Nat
  PROVE  x * y \in Nat /\ (x > 0 /\ y > 0 => x * y > 0)
  OBVIOUS

LEMMA ProductMonotone ==
  ASSUME NEW x \in Nat, NEW y \in Nat, NEW z \in Nat, x <= y
  PROVE  x * z <= y * z
  OBVIOUS

LEMMA Quotient ==
  ASSUME NEW x \in Nat, NEW b \in Nat \ {0}
  PROVE  x \div b \in Nat /\ b * (x \div b) <= x /\ x < b * (x \div b) + b
  OBVIOUS

LEMMA QuotientMonotone ==
  ASSUME NEW x \in Nat, NEW y \in Nat, NEW b \in Nat \ {0}, x <= y
  PROVE  x \div b <= y \div b
<1>. DEFINE p == x \div b
            q == y \div b
<1>1. p \in Nat /\ q \in Nat /\ b * p <= x /\ y < b * q + b
  BY Quotient
<1>2. b * p < b * (q + 1)
  BY <1>1
<1>. HIDE DEF p, q
<1>3. q + 1 <= p => b * (q + 1) <= b * p
  BY <1>1
<1>. QED
  BY <1>1, <1>2, <1>3 DEF p, q

\* A share of at least the whole is 100 percent at least.
LEMMA FullShare ==
  ASSUME NEW x \in Nat, NEW b \in Nat \ {0}, b <= x
  PROVE  (100 * x) \div b >= 100
<1>. DEFINE q == (100 * x) \div b
<1>1. q \in Nat /\ 100 * x < b * q + b
  BY Quotient
<1>. HIDE DEF q
<1>2. q < 100 => b * (q + 1) <= b * 100
  BY <1>1
<1>3. b * 100 <= 100 * x
  OBVIOUS
<1>. QED
  BY <1>1, <1>2, <1>3 DEF q

(***************************************************************************)
(* Words and keyword scores.                                               *)
(***************************************************************************)
\* What a search is given: data of the right kinds.
Given ==
  /\ semantic \in [Chunks -> SemanticScores]
  /\ said \in Corpora
  /\ asked \in Questions
  /\ searched \in Searches
  /\ mentioned \subseteq Files
  /\ broad \in BOOLEAN

LEMMA Settings ==
  /\ CandidateK \in Nat \ {0} /\ TopK \in Nat \ {0} /\ BroadTopK \in Nat \ {0}
  /\ MaxPerSection \in Nat \ {0}
  /\ SemanticFloor \in Nat /\ MinScore \in Nat /\ FilenameBoost \in Nat
  /\ KeywordMinScore \in 0 .. 100 /\ RelativeCutoff \in 0 .. 100 /\ BroadRelativeCutoff \in 0 .. 100
  /\ SemanticWeight \in Nat /\ KeywordWeight \in Nat
  /\ SemanticFloor <= MinScore
  BY SettingsAssumption DEF Percentages

LEMMA ScoresAreNumbers == Given => \A c \in Chunks : semantic[c] \in Nat
<1>1. Given => \A c \in Chunks : semantic[c] \in 0 .. 100
  BY ChunksAssumption DEF Given, Percentages
<1>2. \A k \in 0 .. 100 : k \in Nat
  OBVIOUS
<1>. QED
  BY <1>1, <1>2, Zenon

\* The words of the question and those it implies are of the vocabulary, and finite.
LEMMA WordSets ==
  ASSUME Given
  PROVE  /\ Terms \subseteq Vocabulary /\ Implied \subseteq Vocabulary
         /\ IsFiniteSet(Terms) /\ IsFiniteSet(Terms \cup Implied)
<1>1. asked \subseteq Vocabulary
  BY WordsAssumption DEF Given
<1>2. Terms \subseteq Vocabulary
  BY <1>1, WordsAssumption DEF Terms, Informative
<1>3. \A w \in asked : Expansions[w] \subseteq Vocabulary
  BY <1>1, WordsAssumption
<1>4. Implied \subseteq Vocabulary
  BY <1>3, WordsAssumption DEF Implied
<1>5. IsFiniteSet(Terms) /\ IsFiniteSet(Terms \cup Implied)
  <2>1. Terms \cup Implied \subseteq Vocabulary
    BY <1>2, <1>4
  <2>. QED
    BY <1>2, <2>1, WordsAssumption, FS_Subset
<1>. QED
  BY <1>2, <1>4, <1>5

\* No word is without weight (_keyword_scores: the logarithm is of 1 or more, plus 1).
LEMMA Weights ==
  ASSUME NEW hits \in SUBSET Chunks, hits # {}, NEW s
  PROVE  Weight(s, hits) \in Nat \ {0}
<1>. DEFINE n  == Cardinality(hits)
            df == Cardinality({c \in hits : s \in Body(c)})
<1>1. IsFiniteSet(hits) /\ IsFiniteSet(Chunks)
  BY ChunksAssumption, FS_Subset
<1>2. n \in 1 .. Cardinality(Chunks)
  <2>1. n \in Nat /\ n # 0 /\ n <= Cardinality(Chunks) /\ Cardinality(Chunks) \in Nat
    BY <1>1, FS_CardinalityType, FS_EmptySet, FS_Subset
  <2>. HIDE DEF n
  <2>. QED
    BY <2>1
<1>3. df \in 0 .. n
  <2>1. {c \in hits : s \in Body(c)} \in SUBSET hits
    OBVIOUS
  <2>2. IsFiniteSet({c \in hits : s \in Body(c)})
    BY <1>1, <2>1, FS_Subset
  <2>3. df \in Nat /\ df <= n /\ n \in Nat
    BY <1>1, <2>1, <2>2, FS_CardinalityType, FS_Subset
  <2>. HIDE DEF df, n
  <2>. QED
    BY <2>3
<1>. HIDE DEF n, df
<1>4. Rarity[n][df] \in Nat \ {0}
  BY <1>2, <1>3, RarityAssumption
<1>. DEFINE technical == \E w \in Informative : Stem[w] = s /\ w \in Technical
            form == IF technical THEN 3 ELSE 2
            kind == IF s \in Implied THEN 1 ELSE 2
<1>5. Weight(s, hits) = Rarity[n][df] * form * kind
  BY DEF Weight, n, df
<1>6. form \in {2, 3} /\ kind \in {1, 2}
  OBVIOUS
<1>. HIDE DEF form, kind
<1>7. Rarity[n][df] * form * kind \in Nat \ {0}
  BY <1>4, <1>6
<1>. QED
  BY <1>5, <1>7

\* What a word adds to Bar and to Got.
Share(c, hits) ==
  [s \in (Terms \cup Implied) \cap Body(c) |-> (IF s \in Heading(c) THEN 5 ELSE 4) * Weight(s, hits)]

LEMMA Shares ==
  ASSUME NEW hits \in SUBSET Chunks, hits # {}, NEW c
  PROVE  \A s \in (Terms \cup Implied) \cap Body(c) :
           /\ Share(c, hits)[s] \in Nat
           /\ 4 * Weight(s, hits) <= Share(c, hits)[s]
<1>. SUFFICES ASSUME NEW s \in (Terms \cup Implied) \cap Body(c)
              PROVE  Share(c, hits)[s] \in Nat /\ 4 * Weight(s, hits) <= Share(c, hits)[s]
  OBVIOUS
<1>. DEFINE w == Weight(s, hits)
            f == IF s \in Heading(c) THEN 5 ELSE 4
<1>1. w \in Nat
  BY Weights
<1>2. Share(c, hits)[s] = f * w
  BY DEF Share
<1>3. f \in {4, 5}
  OBVIOUS
<1>. HIDE DEF w, f
<1>4. f * w \in Nat /\ 4 * w <= f * w
  BY <1>1, <1>3
<1>. QED
  BY <1>2, <1>4 DEF w

LEMMA Bars ==
  ASSUME Given, NEW hits \in SUBSET Chunks, hits # {}
  PROVE  Bar(hits) \in Nat /\ (Terms # {} => Bar(hits) # 0)
<1>. DEFINE f == [s \in Terms |-> 4 * Weight(s, hits)]
<1>1. \A s \in Terms : f[s] \in Nat /\ f[s] # 0
  <2>. SUFFICES ASSUME NEW s \in Terms PROVE 4 * Weight(s, hits) \in Nat \ {0}
    OBVIOUS
  <2>. DEFINE w == Weight(s, hits)
  <2>1. w \in Nat \ {0}
    BY Weights
  <2>. HIDE DEF w
  <2>2. 4 * w \in Nat \ {0}
    BY <2>1
  <2>. QED
    BY <2>2 DEF w
<1>2. Bar(hits) = SumFunctionOnSet(f, Terms)
  BY DEF Bar
<1>. HIDE DEF f
<1>3. IsFiniteSet(Terms)
  BY WordSets
<1>4. SumFunctionOnSet(f, Terms) \in Nat /\ \A s \in Terms : f[s] <= SumFunctionOnSet(f, Terms)
  BY <1>1, <1>3, SumType
<1>. QED
  BY <1>1, <1>2, <1>4

LEMMA Gots ==
  ASSUME Given, NEW hits \in SUBSET Chunks, hits # {}, NEW c
  PROVE  /\ Got(c, hits) = SumFunctionOnSet(Share(c, hits), (Terms \cup Implied) \cap Body(c))
         /\ IsFiniteSet((Terms \cup Implied) \cap Body(c))
         /\ Got(c, hits) \in Nat
<1>1. Got(c, hits) = SumFunctionOnSet(Share(c, hits), (Terms \cup Implied) \cap Body(c))
  BY DEF Got, Share
<1>2. IsFiniteSet((Terms \cup Implied) \cap Body(c))
  <2>1. (Terms \cup Implied) \cap Body(c) \in SUBSET (Terms \cup Implied)
    OBVIOUS
  <2>. QED
    BY <2>1, WordSets, FS_Subset
<1>3. \A s \in (Terms \cup Implied) \cap Body(c) : Share(c, hits)[s] \in Nat
  BY Shares
<1>4. SumFunctionOnSet(Share(c, hits), (Terms \cup Implied) \cap Body(c)) \in Nat
  BY <1>2, <1>3, SumType
<1>. QED
  BY <1>1, <1>2, <1>4

LEMMA KeywordScores ==
  ASSUME Given, NEW hits \in SUBSET Chunks, NEW c \in hits
  PROVE  KeywordScore(c, hits) \in Percentages
<1>1. CASE Terms = {}
  BY <1>1 DEF KeywordScore, Percentages
<1>2. CASE Terms # {}
  <2>. DEFINE b == Bar(hits)
              g == Got(c, hits)
              q == (100 * g) \div b
  <2>1. b \in Nat \ {0} /\ g \in Nat
    BY <1>2, Bars, Gots
  <2>2. q \in Nat
    <3>. HIDE DEF b, g
    <3>1. 100 * g \in Nat
      BY <2>1
    <3>. QED
      BY <2>1, <3>1, Quotient
  <2>3. KeywordScore(c, hits) = Fewest(100, q)
    BY <1>2 DEF KeywordScore
  <2>. HIDE DEF q
  <2>. QED
    BY <2>2, <2>3 DEF Fewest, Percentages
<1>. QED
  BY <1>1, <1>2

\* A candidate with every word of the question scores in full; words that are only
\* implied do not raise what its score is a share of.
LEMMA AllWordsScoreInFull ==
  ASSUME Given, NEW hits \in SUBSET Chunks, NEW c \in hits, Terms # {}, Terms \subseteq Body(c)
  PROVE  KeywordScore(c, hits) = 100
<1>. DEFINE f == [s \in Terms |-> 4 * Weight(s, hits)]
            had == (Terms \cup Implied) \cap Body(c)
            b == Bar(hits)
            g == Got(c, hits)
            q == (100 * g) \div b
<1>1. Terms \in SUBSET had
  OBVIOUS
<1>2. \A s \in had : Share(c, hits)[s] \in Nat /\ 4 * Weight(s, hits) <= Share(c, hits)[s]
  BY Shares
<1>3. \A s \in Terms : f[s] \in Nat /\ f[s] <= Share(c, hits)[s]
  <2>. SUFFICES ASSUME NEW s \in Terms
                PROVE  4 * Weight(s, hits) \in Nat /\ 4 * Weight(s, hits) <= Share(c, hits)[s]
    OBVIOUS
  <2>. DEFINE w == Weight(s, hits)
  <2>1. w \in Nat
    BY Weights
  <2>2. 4 * w <= Share(c, hits)[s]
    BY <1>1, <1>2
  <2>. HIDE DEF w
  <2>3. 4 * w \in Nat
    BY <2>1
  <2>. QED
    BY <2>2, <2>3 DEF w
<1>4. b = SumFunctionOnSet(f, Terms) /\ g = SumFunctionOnSet(Share(c, hits), had) /\ IsFiniteSet(had)
  BY Gots DEF Bar
<1>5. b \in Nat \ {0} /\ g \in Nat
  BY Bars, Gots
<1>6. b <= g
  <2>. HIDE DEF f, had, b, g
  <2>. QED
    BY <1>1, <1>2, <1>3, <1>4, SumMonotone
<1>7. q >= 100 /\ q \in Nat
  <2>. HIDE DEF b, g
  <2>1. 100 * g \in Nat
    BY <1>5
  <2>. QED
    BY <1>5, <1>6, <2>1, FullShare, Quotient
<1>8. KeywordScore(c, hits) = Fewest(100, q)
  BY DEF KeywordScore
<1>. HIDE DEF q
<1>. QED
  BY <1>7, <1>8 DEF Fewest

\* One with none of the words, of either kind, scores nothing.
LEMMA NoWordsScoreNothing ==
  ASSUME Given, NEW hits \in SUBSET Chunks, NEW c \in hits, (Terms \cup Implied) \cap Body(c) = {}
  PROVE  KeywordScore(c, hits) = 0
<1>1. Terms # {} => Bar(hits) \in Nat \ {0}
  BY Bars
<1>2. Got(c, hits) = 0
  <2>1. Got(c, hits) = SumFunctionOnSet(Share(c, hits), {})
    BY Gots
  <2>2. SumFunctionOnSet(Share(c, hits), {}) = 0
    BY FS_EmptySet, SumElement
  <2>. QED
    BY <2>1, <2>2
<1>3. CASE Terms # {}
  <2>. DEFINE b == Bar(hits)
  <2>1. KeywordScore(c, hits) = Fewest(100, (100 * 0) \div b)
    BY <1>2, <1>3 DEF KeywordScore
  <2>2. (100 * 0) \div b = 0
    <3>1. b \in Nat \ {0}
      BY <1>1, <1>3
    <3>. HIDE DEF b
    <3>. QED
      BY <3>1
  <2>. QED
    BY <2>1, <2>2 DEF Fewest
<1>4. CASE Terms = {}
  BY <1>4 DEF KeywordScore
<1>. QED
  BY <1>3, <1>4

\* Having more of the words, in the text or the heading, never costs a candidate.
LEMMA MoreWordsScoreMore ==
  ASSUME Given, NEW hits \in SUBSET Chunks, NEW c \in hits, NEW d \in hits,
         Body(d) \subseteq Body(c), Heading(d) \subseteq Heading(c)
  PROVE  KeywordScore(d, hits) <= KeywordScore(c, hits)
<1>. DEFINE hadC == (Terms \cup Implied) \cap Body(c)
            hadD == (Terms \cup Implied) \cap Body(d)
<1>1. hadD \in SUBSET hadC
  OBVIOUS
<1>2. \A s \in hadC : Share(c, hits)[s] \in Nat
  BY Shares
<1>3. ASSUME NEW s \in hadD
      PROVE  Share(d, hits)[s] \in Nat /\ Share(d, hits)[s] <= Share(c, hits)[s]
  <2>. DEFINE w == Weight(s, hits)
              fc == IF s \in Heading(c) THEN 5 ELSE 4
              fd == IF s \in Heading(d) THEN 5 ELSE 4
  <2>1. w \in Nat
    BY Weights
  <2>2. Share(c, hits)[s] = fc * w /\ Share(d, hits)[s] = fd * w
    BY <1>1 DEF Share
  <2>3. fc \in {4, 5} /\ fd \in {4, 5} /\ fd <= fc
    OBVIOUS
  <2>. HIDE DEF w, fc, fd
  <2>4. fd * w \in Nat /\ fd * w <= fc * w
    BY <2>1, <2>3
  <2>. QED
    BY <2>2, <2>4
<1>4. /\ Got(c, hits) = SumFunctionOnSet(Share(c, hits), hadC) /\ IsFiniteSet(hadC)
      /\ Got(d, hits) = SumFunctionOnSet(Share(d, hits), hadD)
      /\ Got(c, hits) \in Nat /\ Got(d, hits) \in Nat
  BY Gots
<1>. HIDE DEF hadC, hadD
<1>5. Got(d, hits) <= Got(c, hits)
  BY <1>1, <1>2, <1>3, <1>4, SumMonotone
<1>6. CASE Terms = {}
  BY <1>6 DEF KeywordScore
<1>7. CASE Terms # {}
  <2>. DEFINE b == Bar(hits)
              x == 100 * Got(d, hits)
              y == 100 * Got(c, hits)
  <2>1. b \in Nat \ {0}
    BY <1>7, Bars
  <2>2. x \in Nat /\ y \in Nat /\ x <= y
    BY <1>4, <1>5
  <2>3. KeywordScore(d, hits) = Fewest(100, x \div b) /\ KeywordScore(c, hits) = Fewest(100, y \div b)
    BY <1>7 DEF KeywordScore
  <2>. HIDE DEF b, x, y
  <2>4. x \div b <= y \div b /\ x \div b \in Nat /\ y \div b \in Nat
    BY <2>1, <2>2, QuotientMonotone, Quotient
  <2>. QED
    BY <2>3, <2>4 DEF Fewest
<1>. QED
  BY <1>6, <1>7

(***************************************************************************)
(* The pools of candidates.                                                *)
(***************************************************************************)
NamedChunks == {c \in Chunks : Named(c)}

\* No chunk of pool is more like the question than all candidates that are of pool.
Covered(pool, candidates) ==
  \A d \in pool : \E c \in candidates \cap pool : semantic[c] >= semantic[d]

LEMMA NearestCovers ==
  ASSUME Given, NEW pool \in SUBSET Chunks, NEW S \in Nearest(pool)
  PROVE  S \subseteq pool /\ Covered(pool, S)
<1>1. S \in SUBSET pool /\ Cardinality(S) = Fewest(CandidateK, Cardinality(pool))
  BY DEF Nearest, kSubset
<1>2. \A c \in S, d \in pool \ S : semantic[c] >= semantic[d]
  BY DEF Nearest
<1>3. pool # {} => S # {}
  <2>. SUFFICES ASSUME pool # {}, S = {} PROVE FALSE
    OBVIOUS
  <2>1. IsFiniteSet(pool)
    BY ChunksAssumption, FS_Subset
  <2>2. Cardinality(pool) \in Nat /\ Cardinality(pool) # 0 /\ Cardinality(S) = 0
    BY <2>1, FS_CardinalityType, FS_EmptySet
  <2>. QED
    BY <1>1, <2>2, Settings DEF Fewest
<1>4. ASSUME NEW d \in pool PROVE \E c \in S \cap pool : semantic[c] >= semantic[d]
  <2>1. CASE d \in S
    <3>1. semantic[d] >= semantic[d]
      BY ScoresAreNumbers
    <3>. QED
      BY <2>1, <3>1
  <2>2. CASE d \notin S
    BY <1>1, <1>2, <1>3, <2>2
  <2>. QED
    BY <2>1, <2>2
<1>. QED
  BY <1>1, <1>4 DEF Covered

\* The headings all fit in their pool if there are no more of them than it has place for.
LEMMA HeadingsFit ==
  ASSUME Cardinality(Headed) <= CandidateK,
         NEW S \in kSubset(Fewest(CandidateK, Cardinality(Headed)), Headed)
  PROVE  S = Headed
<1>1. IsFiniteSet(Headed)
  BY ChunksAssumption, FS_Subset DEF Headed
<1>2. Cardinality(Headed) \in Nat
  BY <1>1, FS_CardinalityType
<1>3. S \in SUBSET Headed /\ Cardinality(S) = Cardinality(Headed)
  BY <1>2, Settings DEF kSubset, Fewest
<1>. QED
  BY <1>1, <1>3, FS_Subset

(***************************************************************************)
(* The selection: the loop of select_context over n ranked candidates.     *)
(***************************************************************************)
Picked(picked, c) == IF Picks(picked, c) THEN Append(picked, c) ELSE picked

\* acc[k] is what has been picked of the first k candidates.
SelectsInOrder(acc, n) ==
  /\ acc \in [0 .. n -> Seq(Chunks)]
  /\ acc[0] = << >>
  /\ \A k \in 1 .. n : acc[k] = Picked(acc[k - 1], ranked[k])
  /\ SelectContext = acc[n]

LEMMA SelectAccumulates ==
  ASSUME NEW n \in Nat, DOMAIN ranked = 1 .. n, \A i \in 1 .. n : ranked[i] \in Chunks
  PROVE  \E acc : SelectsInOrder(acc, n)
<1>. DEFINE V == Seq(Chunks)
            step == [kv \in (1 .. n) \X V |-> Picked(kv[2], ranked[kv[1]])]
            Folds(g) == g = [t \in SUBSET (1 .. n) |->
                               IF t = {} THEN << >> ELSE Picked(g[t \ {Max(t)}], ranked[Max(t)])]
            iter == CHOOSE g : Folds(g)
<1>1. SelectContext = iter[1 .. n]
  BY DEF SelectContext, FoldLeft, MapThenFoldSet, Picked
<1>2. \A k \in 1 .. n, v \in V : step[<<k, v>>] = Picked(v, ranked[k])
  OBVIOUS
<1>3. StaysWithin(step, n, V)
  <2>1. ASSUME NEW k \in 1 .. n, NEW v \in V PROVE Picked(v, ranked[k]) \in V
    BY DEF Picked
  <2>. HIDE DEF step
  <2>. QED
    BY <1>2, <2>1 DEF StaysWithin
<1>. HIDE DEF step
<1>4. << >> \in V
  OBVIOUS
<1>5. PICK g : IsFold(g, 1 .. n, V, << >>, Largest(n), step)
  <2>. HIDE DEF V
  <2>. QED
    BY <1>3, <1>4, SequenceFoldExists
<1>6. Folds(g)
  <2>1. ASSUME NEW t \in SUBSET (1 .. n), t # {}
        PROVE  step[<<Max(t), g[t \ {Max(t)}]>>] = Picked(g[t \ {Max(t)}], ranked[Max(t)])
    <3>1. Max(t) \in 1 .. n
      BY <2>1, Maximum
    <3>2. g[t \ {Max(t)}] \in V
      BY <1>5 DEF IsFold
    <3>. HIDE DEF V
    <3>. QED
      BY <1>2, <3>1, <3>2
  <2>. HIDE DEF V
  <2>. QED
    BY <1>5, <2>1 DEF IsFold, Largest
<1>7. Folds(iter)
  BY <1>6
<1>. HIDE DEF iter
<1>8. /\ iter = [t \in SUBSET (1 .. n) |-> iter[t]]
      /\ iter[{}] = << >>
      /\ \A t \in SUBSET (1 .. n) : t # {} => iter[t] = Picked(iter[t \ {Max(t)}], ranked[Max(t)])
  BY <1>7
<1>. HIDE DEF V
<1>9. ASSUME NEW t \in SUBSET (1 .. n), t # {}, iter[t \ {Max(t)}] \in V
      PROVE  iter[t] = step[<<Max(t), iter[t \ {Max(t)}]>>]
  <2>1. Max(t) \in 1 .. n
    BY <1>9, Maximum
  <2>. QED
    BY <1>2, <1>8, <1>9, <2>1
<1>10. FoldsWithin(iter, n, V, << >>, step)
  BY <1>8, <1>9 DEF FoldsWithin
<1>11. PICK acc : Accumulates(acc, n, V, << >>, step) /\ acc[n] = iter[1 .. n]
  <2>. DEFINE base == << >>
  <2>1. base \in V /\ FoldsWithin(iter, n, V, base, step)
    BY <1>4, <1>10
  <2>. HIDE DEF base
  <2>2. \E acc : Accumulates(acc, n, V, base, step) /\ acc[n] = iter[1 .. n]
    BY <1>3, <2>1, SequenceFoldIs
  <2>. QED
    BY <2>2 DEF base
<1>12. ASSUME NEW k \in 1 .. n PROVE acc[k] = Picked(acc[k - 1], ranked[k])
  <2>1. k - 1 \in 0 .. n
    OBVIOUS
  <2>2. acc[k - 1] \in V /\ acc[k] = step[<<k, acc[k - 1]>>]
    BY <1>11, <2>1 DEF Accumulates
  <2>. QED
    BY <1>2, <2>2
<1>. QED
  BY <1>1, <1>11, <1>12 DEF Accumulates, SelectsInOrder, V

\* What one more chunk changes.
LEMMA OneMorePicked ==
  ASSUME NEW s \in Seq(Chunks), NEW d \in Chunks
  PROVE  LET e == Append(s, d) IN
         /\ Len(e) = Len(s) + 1
         /\ ToSet(e) = ToSet(s) \cup {d}
         /\ IsInjective(s) /\ d \notin ToSet(s) => IsInjective(e)
         /\ \A c : OfSection(e, c) = OfSection(s, c) + (IF SameSection(c, d) THEN 1 ELSE 0)
<1>. DEFINE e == Append(s, d)
            n == Len(s)
<1>1. n \in Nat /\ DOMAIN s = 1 .. n
  OBVIOUS
<1>2. /\ Len(e) = n + 1 /\ DOMAIN e = 1 .. n + 1
      /\ e[n + 1] = d /\ \A i \in 1 .. n : e[i] = s[i]
  OBVIOUS
<1>. HIDE DEF e, n
<1>3. 1 .. n + 1 = (1 .. n) \cup {n + 1}
  BY <1>1
<1>4. ToSet(e) = ToSet(s) \cup {d}
  BY <1>1, <1>2, <1>3 DEF ToSet
<1>5. IsInjective(s) /\ d \notin ToSet(s) => IsInjective(e)
  <2>. SUFFICES ASSUME IsInjective(s), d \notin ToSet(s), NEW i \in 1 .. n + 1, NEW j \in 1 .. n + 1, e[i] = e[j]
                PROVE  i = j
    BY <1>2 DEF IsInjective
  <2>1. \A m \in 1 .. n : s[m] # d
    BY <1>1 DEF ToSet
  <2>2. CASE i \in 1 .. n /\ j \in 1 .. n
    BY <1>1, <1>2, <2>2 DEF IsInjective
  <2>3. CASE i = n + 1 \/ j = n + 1
    BY <1>2, <1>3, <2>1, <2>3
  <2>. QED
    BY <1>3, <2>2, <2>3
<1>6. ASSUME NEW c PROVE OfSection(e, c) = OfSection(s, c) + (IF SameSection(c, d) THEN 1 ELSE 0)
  <2>. DEFINE X == {i \in 1 .. n : SameSection(c, s[i])}
  <2>1. IsFiniteSet(X) /\ n + 1 \notin X
    <3>1. IsFiniteSet(1 .. n) /\ X \in SUBSET (1 .. n)
      BY <1>1, FS_Interval
    <3>. QED
      BY <1>1, <3>1, FS_Subset
  <2>2. Cardinality(X) \in Nat /\ Cardinality(X \cup {n + 1}) = Cardinality(X) + 1
    BY <2>1, FS_CardinalityType, FS_AddElement
  <2>3. OfSection(s, c) = Cardinality(X)
    BY <1>1 DEF OfSection
  <2>4. {i \in DOMAIN e : SameSection(c, e[i])} = IF SameSection(c, d) THEN X \cup {n + 1} ELSE X
    BY <1>2, <1>3
  <2>5. OfSection(e, c) = Cardinality(IF SameSection(c, d) THEN X \cup {n + 1} ELSE X)
    BY <2>4 DEF OfSection
  <2>. HIDE DEF X
  <2>. QED
    BY <2>2, <2>3, <2>5
<1>. QED
  BY <1>2, <1>4, <1>5, <1>6 DEF e, n

\* The places of ranked at which the loop picks, and those of them before the next.
Places(acc, n) == {k \in 1 .. n : Picks(acc[k - 1], ranked[k])}
Before(acc, n, k) == {j \in Places(acc, n) : j <= k}

\* What has been picked after k candidates are the chunks at those places.
PickedSoFar(acc, n, k) ==
  LET places == Before(acc, n, k) IN
  /\ Len(acc[k]) = Cardinality(places)
  /\ Len(acc[k]) <= K
  /\ ToSet(acc[k]) = {ranked[j] : j \in places}
  /\ IsInjective(acc[k])
  /\ \A c : OfSection(acc[k], c) = Cardinality({j \in places : SameSection(c, ranked[j])})

LEMMA SelectionPlaces ==
  ASSUME Given, NEW n \in Nat, DOMAIN ranked = 1 .. n, \A i \in 1 .. n : ranked[i] \in Chunks,
         IsInjective(ranked), NEW acc, SelectsInOrder(acc, n)
  PROVE  \A k \in 0 .. n : PickedSoFar(acc, n, k)
<1>. DEFINE T == {k \in 0 .. n : PickedSoFar(acc, n, k)}
<1>1. 0 \in T
  <2>1. Before(acc, n, 0) = {}
    BY DEF Before, Places
  <2>2. acc[0] = << >>
    BY DEF SelectsInOrder
  <2>3. Cardinality({}) = 0 /\ Len(<< >>) = 0 /\ ToSet(<< >>) = {} /\ IsInjective(<< >>)
    BY FS_EmptySet DEF ToSet, IsInjective
  <2>4. \A c : OfSection(<< >>, c) = 0
    <3>1. \A c : {i \in DOMAIN << >> : SameSection(c, << >>[i])} = {}
      OBVIOUS
    <3>. QED
      BY <2>3, <3>1 DEF OfSection
  <2>5. K \in Nat
    BY Settings DEF K
  <2>6. \A c : {j \in {} : SameSection(c, ranked[j])} = {}
    OBVIOUS
  <2>7. {ranked[j] : j \in {}} = {}
    OBVIOUS
  <2>8. Len(acc[0]) = Cardinality({}) /\ Len(acc[0]) <= K
    BY <2>2, <2>3, <2>5
  <2>9. ToSet(acc[0]) = {ranked[j] : j \in {}} /\ IsInjective(acc[0])
    BY <2>2, <2>3, <2>7
  <2>10. ASSUME NEW c PROVE OfSection(acc[0], c) = Cardinality({j \in {} : SameSection(c, ranked[j])})
    BY <2>2, <2>3, <2>4, <2>6
  <2>11. PickedSoFar(acc, n, 0)
    BY <2>1, <2>8, <2>9, <2>10, Zenon DEF PickedSoFar
  <2>. QED
    BY <2>11
<1>2. ASSUME NEW k \in 1 .. n, k - 1 \in T PROVE k \in T
  <2>. DEFINE s == acc[k - 1]
              d == ranked[k]
              old == Before(acc, n, k - 1)
              new == Before(acc, n, k)
  <2>1. /\ PickedSoFar(acc, n, k - 1)
        /\ s \in Seq(Chunks) /\ d \in Chunks
        /\ acc[k] = IF Picks(s, d) THEN Append(s, d) ELSE s
    BY <1>2 DEF SelectsInOrder, Picked
  <2>2. IsFiniteSet(old) /\ k \notin old
    <3>1. IsFiniteSet(1 .. n) /\ old \in SUBSET (1 .. n)
      BY FS_Interval DEF Before, Places
    <3>2. k \notin old
      BY DEF Before
    <3>. QED
      BY <3>1, <3>2, FS_Subset
  <2>3. new = IF Picks(s, d) THEN old \cup {k} ELSE old
    <3>1. \A j \in 1 .. n : j <= k <=> j <= k - 1 \/ j = k
      OBVIOUS
    <3>2. new = {j \in Places(acc, n) : j <= k - 1} \cup {j \in Places(acc, n) : j = k}
      BY <3>1 DEF Before, Places
    <3>3. k \in Places(acc, n) <=> Picks(s, d)
      BY DEF Places
    <3>4. {j \in Places(acc, n) : j = k} = IF Picks(s, d) THEN {k} ELSE {}
      BY <3>3
    <3>. QED
      BY <3>2, <3>4 DEF Before
  <2>4. d \notin ToSet(s)
    <3>1. old \subseteq 1 .. n
      BY DEF Before, Places
    <3>2. \A j \in old : ranked[j] # d
      BY <2>2, <3>1 DEF IsInjective
    <3>. QED
      BY <2>1, <3>2 DEF PickedSoFar
  <2>. HIDE DEF s, d, old, new
  <2>5. CASE ~Picks(s, d)
    <3>1. acc[k] = s /\ new = old
      BY <2>1, <2>3, <2>5
    <3>2. PickedSoFar(acc, n, k)
      BY <2>1, <3>1 DEF PickedSoFar, s, old, new
    <3>. QED
      BY <3>2
  <2>6. CASE Picks(s, d)
    <3>1. acc[k] = Append(s, d) /\ new = old \cup {k}
      BY <2>1, <2>3, <2>6
    <3>2. /\ Len(acc[k]) = Len(s) + 1
          /\ ToSet(acc[k]) = ToSet(s) \cup {d}
          /\ IsInjective(s) /\ d \notin ToSet(s) => IsInjective(acc[k])
          /\ \A c : OfSection(acc[k], c) = OfSection(s, c) + (IF SameSection(c, d) THEN 1 ELSE 0)
      BY <2>1, <3>1, OneMorePicked
    <3>3. Cardinality(old) \in Nat /\ Cardinality(new) = Cardinality(old) + 1
      BY <2>2, <3>1, FS_CardinalityType, FS_AddElement
    <3>4. /\ Len(s) = Cardinality(old)
          /\ ToSet(s) = {ranked[j] : j \in old}
          /\ IsInjective(s)
          /\ \A c : OfSection(s, c) = Cardinality({j \in old : SameSection(c, ranked[j])})
      BY <2>1 DEF PickedSoFar, s, old
    <3>5. Len(acc[k]) = Cardinality(new)
      BY <3>2, <3>3, <3>4
    <3>6. Len(acc[k]) <= K
      <4>1. Len(s) < K /\ Len(s) \in Nat /\ K \in Nat
        BY <2>1, <2>6, Settings DEF Picks, K
      <4>. QED
        BY <3>2, <4>1
    <3>7. ToSet(acc[k]) = {ranked[j] : j \in new}
      BY <3>1, <3>2, <3>4 DEF d
    <3>8. IsInjective(acc[k])
      BY <2>4, <3>2, <3>4
    <3>9. ASSUME NEW c PROVE OfSection(acc[k], c) = Cardinality({j \in new : SameSection(c, ranked[j])})
      <4>. DEFINE X == {j \in old : SameSection(c, ranked[j])}
      <4>1. IsFiniteSet(X) /\ k \notin X
        <5>1. X \in SUBSET old
          OBVIOUS
        <5>. QED
          BY <2>2, <5>1, FS_Subset
      <4>2. Cardinality(X) \in Nat /\ Cardinality(X \cup {k}) = Cardinality(X) + 1
        BY <4>1, FS_CardinalityType, FS_AddElement
      <4>3. {j \in new : SameSection(c, ranked[j])} = IF SameSection(c, d) THEN X \cup {k} ELSE X
        BY <3>1 DEF d
      <4>4. OfSection(s, c) = Cardinality(X)
        BY <3>4
      <4>5. OfSection(acc[k], c) = OfSection(s, c) + (IF SameSection(c, d) THEN 1 ELSE 0)
        BY <3>2
      <4>6. Cardinality({j \in new : SameSection(c, ranked[j])})
              = Cardinality(IF SameSection(c, d) THEN X \cup {k} ELSE X)
        BY <4>3
      <4>. HIDE DEF X
      <4>. QED
        BY <4>2, <4>4, <4>5, <4>6
    <3>10. PickedSoFar(acc, n, k)
      BY <3>5, <3>6, <3>7, <3>8, <3>9 DEF PickedSoFar, new
    <3>. QED
      BY <3>10
  <2>. QED
    BY <2>5, <2>6
<1>3. \A k \in 0 .. n : k \in T
  <2>. HIDE DEF T
  <2>1. \A k \in 1 .. n : k - 1 \in T => k \in T
    BY <1>2
  <2>. QED
    BY <1>1, <2>1, BoundedInduction
<1>. QED
  BY <1>3

\* What ContextIsBest says of a selection, and what the other properties need of it.
Selected(ctx) ==
  /\ ctx \in Seq(Chunks) /\ IsInjective(ctx) /\ Len(ctx) <= K
  /\ ToSet(ctx) \subseteq ToSet(ranked)
  /\ ranked # << >> => ctx # << >>
  /\ \A i \in DOMAIN ranked :
       LET better == {j \in 1 .. i - 1 : ranked[j] \in ToSet(ctx)} IN
       ranked[i] \in ToSet(ctx) <=>
         /\ NearBest(ranked[i], ranked[1])
         /\ Cardinality(better) < K
         /\ Cardinality({j \in better : SameSection(ranked[i], ranked[j])}) < MaxPerSection

\* The best candidate is near itself.
LEMMA BestIsNearBest ==
  ASSUME score \in [Chunks -> Percentages], NEW c \in Chunks
  PROVE  NearBest(c, c)
<1>. DEFINE x == score[c]
            cutoff == IF broad THEN BroadRelativeCutoff ELSE RelativeCutoff
<1>1. x \in Nat
  BY DEF Percentages
<1>2. cutoff \in Nat /\ cutoff <= 100
  BY Settings
<1>. HIDE DEF x, cutoff
<1>3. cutoff * x <= 100 * x
  BY <1>1, <1>2, ProductMonotone
<1>4. x * 100 >= x * cutoff
  BY <1>1, <1>2, <1>3
<1>. QED
  BY <1>4 DEF NearBest, x, cutoff

LEMMA SelectContextSelects ==
  ASSUME Given, score \in [Chunks -> Percentages],
         NEW n \in Nat, ranked \in [1 .. n -> Chunks], IsInjective(ranked)
  PROVE  Selected(SelectContext)
<1>. DOMAIN ranked = 1 .. n /\ \A i \in 1 .. n : ranked[i] \in Chunks
  OBVIOUS
<1>1. PICK acc : SelectsInOrder(acc, n)
  BY SelectAccumulates
<1>2. \A k \in 0 .. n : PickedSoFar(acc, n, k)
  BY <1>1, SelectionPlaces
<1>. DEFINE ctx == acc[n]
            P == Places(acc, n)
<1>3. SelectContext = ctx /\ ctx \in Seq(Chunks)
  BY <1>1 DEF SelectsInOrder
<1>4. P = Before(acc, n, n) /\ P \subseteq 1 .. n
  BY DEF Before, Places
<1>5. ToSet(ctx) = {ranked[j] : j \in P} /\ IsInjective(ctx) /\ Len(ctx) <= K
  <2>1. n \in 0 .. n
    OBVIOUS
  <2>2. PickedSoFar(acc, n, n)
    BY <1>2, <2>1
  <2>. HIDE DEF ctx, P
  <2>. QED
    BY <1>4, <2>2 DEF PickedSoFar, ctx
<1>6. ToSet(ctx) \subseteq ToSet(ranked)
  BY <1>4, <1>5 DEF ToSet
<1>7. \A i \in 1 .. n : ranked[i] \in ToSet(ctx) <=> i \in P
  BY <1>4, <1>5 DEF IsInjective
<1>8. \A i \in 1 .. n : i \in P <=> Picks(acc[i - 1], ranked[i])
  BY DEF Places
<1>9. ASSUME NEW i \in 1 .. n
      PROVE  LET better == {j \in 1 .. i - 1 : ranked[j] \in ToSet(ctx)} IN
             ranked[i] \in ToSet(ctx) <=>
               /\ NearBest(ranked[i], ranked[1])
               /\ Cardinality(better) < K
               /\ Cardinality({j \in better : SameSection(ranked[i], ranked[j])}) < MaxPerSection
  <2>. DEFINE better == {j \in 1 .. i - 1 : ranked[j] \in ToSet(ctx)}
              b == Before(acc, n, i - 1)
  <2>1. better = b
    <3>1. \A j \in 1 .. n : j \in 1 .. i - 1 <=> j <= i - 1
      OBVIOUS
    <3>2. 1 .. i - 1 \subseteq 1 .. n
      OBVIOUS
    <3>3. better = {j \in 1 .. i - 1 : j \in P}
      BY <1>7, <3>2
    <3>4. b = {j \in P : j <= i - 1}
      BY DEF Before
    <3>. HIDE DEF P
    <3>. QED
      BY <1>4, <3>1, <3>2, <3>3, <3>4
  <2>2. i - 1 \in 0 .. n
    OBVIOUS
  <2>3. /\ Len(acc[i - 1]) = Cardinality(b)
        /\ OfSection(acc[i - 1], ranked[i]) = Cardinality({j \in b : SameSection(ranked[i], ranked[j])})
    BY <1>2, <2>2 DEF PickedSoFar
  <2>4. ranked[i] \in ToSet(ctx) <=>
          /\ NearBest(ranked[i], ranked[1])
          /\ Cardinality(b) < K
          /\ Cardinality({j \in b : SameSection(ranked[i], ranked[j])}) < MaxPerSection
    BY <1>7, <1>8, <2>3 DEF Picks
  <2>. HIDE DEF b, better
  <2>. QED
    BY <2>1, <2>4 DEF better
<1>10. ranked # << >> => ctx # << >>
  <2>. SUFFICES ASSUME ranked # << >> PROVE ctx # << >>
    OBVIOUS
  <2>1. n # 0
    <3>. SUFFICES ASSUME n = 0 PROVE ranked = << >>
      OBVIOUS
    <3>1. ranked \in Seq(Chunks) /\ Len(ranked) = 0
      OBVIOUS
    <3>. QED
      BY <3>1
  <2>2. 1 \in 1 .. n
    BY <2>1
  <2>3. {j \in 1 .. 1 - 1 : ranked[j] \in ToSet(ctx)} = {}
    OBVIOUS
  <2>4. Cardinality({}) = 0 /\ {j \in {} : SameSection(ranked[1], ranked[j])} = {}
    BY FS_EmptySet
  <2>5. K \in Nat \ {0}
    BY Settings DEF K
  <2>6. NearBest(ranked[1], ranked[1])
    BY <2>2, BestIsNearBest
  <2>7. ranked[1] \in ToSet(ctx)
    BY <1>9, <2>2, <2>3, <2>4, <2>5, <2>6, Settings
  <2>. QED
    BY <2>7 DEF ToSet
<1>. QED
  BY <1>3, <1>5, <1>6, <1>9, <1>10 DEF Selected

(***************************************************************************)
(* The inductive invariant: what each call has brought, and what has been  *)
(* computed from it.                                                       *)
(***************************************************************************)
Relevants(hits) == {c \in hits : Relevant(c, keyword[c])}

RankedFrom(hits) ==
  /\ keyword = [c \in Chunks |-> IF c \in hits THEN KeywordScore(c, hits) ELSE 0]
  /\ score = [c \in Chunks |-> IF c \in hits THEN FinalScore(c, keyword[c]) ELSE 0]
  /\ ranked \in SetToSeqs(Relevants(hits))

RankedBest == \E hits \in SUBSET Chunks : hits = Considered(points) /\ RankedFrom(hits)

Unranked ==
  /\ keyword = [c \in Chunks |-> 0] /\ score = [c \in Chunks |-> 0]
  /\ ranked = << >>

SearchInv ==
  /\ Given
  /\ pc \in Labels
  /\ points \subseteq Chunks
  /\ pc # "query" => Covered(Chunks, points)
  /\ pc \notin {"query", "query_named"} => Covered(NamedChunks, points)
  /\ pc \in {"rank", "select", "done"} /\ Cardinality(Headed) <= CandidateK => Headed \subseteq points
  /\ IF pc \in {"select", "done"} THEN RankedBest ELSE Unranked
  /\ IF pc = "done" THEN Selected(context) ELSE context = << >>

LEMMA CoveredByMore ==
  ASSUME NEW pool, NEW S, Covered(pool, S), NEW more
  PROVE  Covered(pool, S \cup more) /\ Covered(pool, more \cup S)
  BY DEF Covered

LEMMA InitSearch == Init => SearchInv
  BY DEF Init, SearchInv, Given, Labels, Unranked

\* Scores depend on the question and the chunks alone, and those stay.
LEMMA ScoresStay ==
  ASSUME UNCHANGED query, NEW hits, NEW c
  PROVE  KeywordScore(c, hits)' = KeywordScore(c, hits)
<1>1. semantic' = semantic /\ said' = said /\ asked' = asked /\ mentioned' = mentioned
  BY DEF query
<1>2. Informative' = Informative
  BY <1>1 DEF Informative
<1>3. Terms' = Terms
  BY <1>2 DEF Terms
<1>4. Implied' = Implied
  BY <1>1, <1>3 DEF Implied
<1>5. ASSUME NEW d PROVE Heading(d)' = Heading(d) /\ Body(d)' = Body(d)
  BY <1>1 DEF Heading, Body
<1>6. ASSUME NEW s PROVE Weight(s, hits)' = Weight(s, hits)
  <2>1. {d \in hits : s \in Body(d)}' = {d \in hits : s \in Body(d)}
    BY <1>5
  <2>. QED
    BY <1>2, <1>4, <2>1 DEF Weight
<1>7. Bar(hits)' = Bar(hits)
  <2>1. [s \in Terms |-> 4 * Weight(s, hits)]' = [s \in Terms |-> 4 * Weight(s, hits)]
    BY <1>3, <1>6
  <2>. QED
    BY <1>3, <2>1 DEF Bar
<1>8. Got(c, hits)' = Got(c, hits)
  <2>1. ((Terms \cup Implied) \cap Body(c))' = (Terms \cup Implied) \cap Body(c)
    BY <1>3, <1>4, <1>5
  <2>2. Share(c, hits)' = Share(c, hits)
    BY <1>5, <1>6, <2>1 DEF Share
  <2>. QED
    BY <2>1, <2>2 DEF Got, Share
<1>. QED
  BY <1>3, <1>7, <1>8 DEF KeywordScore

\* What a ranking is: scores are percentages, and the relevant candidates are in a row.
LEMMA RankingFacts ==
  ASSUME Given, NEW hits \in SUBSET Chunks, RankedFrom(hits)
  PROVE  /\ keyword \in [Chunks -> Percentages]
         /\ score \in [Chunks -> Percentages]
         /\ \E n \in Nat : ranked \in [1 .. n -> Chunks]
         /\ IsInjective(ranked)
         /\ ToSet(ranked) \subseteq Relevants(hits)
         /\ ranked = << >> => Relevants(hits) = {}
<1>1. keyword \in [Chunks -> Percentages]
  <2>1. \A c \in hits : KeywordScore(c, hits) \in Percentages
    BY KeywordScores
  <2>2. 0 \in Percentages
    BY DEF Percentages
  <2>. QED
    BY <2>1, <2>2 DEF RankedFrom
<1>2. score \in [Chunks -> Percentages]
  <2>1. ASSUME NEW c \in Chunks PROVE FinalScore(c, keyword[c]) \in Percentages
    <3>. DEFINE x == SemanticWeight * semantic[c] + KeywordWeight * keyword[c]
                boost == IF Named(c) THEN FilenameBoost ELSE 0
    <3>1. x \in Nat
      <4>1. semantic[c] \in Nat /\ keyword[c] \in Nat
        BY <1>1, ScoresAreNumbers DEF Percentages
      <4>2. SemanticWeight * semantic[c] \in Nat /\ KeywordWeight * keyword[c] \in Nat
        BY <4>1, Settings, Product
      <4>. QED
        BY <4>2
    <3>2. boost \in Nat
      BY Settings
    <3>3. FinalScore(c, keyword[c]) = Fewest(100, x \div 100 + boost)
      BY DEF FinalScore
    <3>. HIDE DEF x, boost
    <3>4. x \div 100 + boost \in Nat
      BY <3>1, <3>2
    <3>. QED
      BY <3>3, <3>4 DEF Fewest, Percentages
  <2>2. 0 \in Percentages
    BY DEF Percentages
  <2>. QED
    BY <2>1, <2>2 DEF RankedFrom
<1>. DEFINE R == Relevants(hits)
            n == Cardinality(R)
<1>3. IsFiniteSet(R) /\ R \subseteq Chunks
  BY ChunksAssumption, FS_Subset DEF Relevants
<1>4. n \in Nat /\ (n = 0 <=> R = {})
  BY <1>3, FS_CardinalityType, FS_EmptySet
<1>5. ranked \in [1 .. n -> R] /\ \A i, j \in 1 .. n : i # j => ranked[i] # ranked[j]
  BY DEF RankedFrom, SetToSeqs
<1>. HIDE DEF R, n
<1>6. ranked \in [1 .. n -> Chunks] /\ IsInjective(ranked) /\ ToSet(ranked) \subseteq R
  BY <1>3, <1>5 DEF IsInjective, ToSet
<1>7. ranked = << >> => n = 0
  <2>. SUFFICES ASSUME ranked = << >> PROVE n = 0
    OBVIOUS
  <2>1. DOMAIN ranked = 1 .. n /\ Len(ranked) = 0 /\ DOMAIN ranked = {}
    BY <1>5
  <2>. QED
    BY <1>4, <2>1
<1>. QED
  BY <1>1, <1>2, <1>4, <1>6, <1>7 DEF R

\* What a ranking and a selection are depends on nothing else.
LEMMA RankingStays ==
  ASSUME UNCHANGED <<query, keyword, score, ranked, points>>, RankedBest
  PROVE  RankedBest'
<1>1. PICK hits \in SUBSET Chunks : hits = Considered(points) /\ RankedFrom(hits)
  BY DEF RankedBest
<1>2. Considered(points)' = Considered(points)
  BY DEF Considered, Named, query
<1>3. \A c : KeywordScore(c, hits)' = KeywordScore(c, hits)
  BY ScoresStay
<1>4. \A c : FinalScore(c, keyword[c])' = FinalScore(c, keyword[c])
  BY DEF FinalScore, Named, query
<1>5. Relevants(hits)' = Relevants(hits)
  BY DEF Relevants, Relevant, Named, query
<1>6. RankedFrom(hits)'
  BY <1>1, <1>3, <1>4, <1>5 DEF RankedFrom
<1>. QED
  BY <1>1, <1>2, <1>6 DEF RankedBest

LEMMA SelectionStays ==
  ASSUME UNCHANGED <<query, score, ranked>>, NEW ctx, Selected(ctx)
  PROVE  Selected(ctx)'
<1>1. K' = K
  BY DEF K, query
<1>2. \A c, d : NearBest(c, d)' = NearBest(c, d)
  BY DEF NearBest, query
<1>. QED
  BY <1>1, <1>2 DEF Selected, SameSection

\* Every step keeps the invariant.
LEMMA StepSearch == SearchInv /\ [Next]_vars => SearchInv'
<1>. SUFFICES ASSUME SearchInv, [Next]_vars PROVE SearchInv'
  OBVIOUS
<1>1. UNCHANGED query
  BY DEF Next, Query, QueryNamed, ScrollHeadings, Rank, Select, vars
<1>2. Given' /\ Headed' = Headed /\ NamedChunks' = NamedChunks
  <2>1. Given'
    BY <1>1 DEF SearchInv, Given, Searches, Searchable, Informative, Terms, query
  <2>2. Headed' = Headed
    BY <1>1 DEF Headed, query
  <2>3. NamedChunks' = NamedChunks
    BY <1>1 DEF NamedChunks, Named, query
  <2>. QED
    BY <2>1, <2>2, <2>3
<1>3. semantic' = semantic
  BY <1>1 DEF query
<1>4. CASE Query
  <2>1. points' \subseteq Chunks /\ Covered(Chunks, points')
    BY <1>4, NearestCovers DEF Query, SearchInv
  <2>2. Covered(Chunks, points)'
    BY <1>3, <2>1 DEF Covered
  <2>3. pc' = "query_named" /\ UNCHANGED <<keyword, score, ranked, context>> /\ pc = "query"
    BY <1>4 DEF Query, GoTo
  <2>4. Unranked'
    BY <2>3 DEF SearchInv, Unranked
  <2>. QED
    BY <1>2, <2>1, <2>2, <2>3, <2>4 DEF SearchInv, Labels
<1>5. CASE QueryNamed
  <2>1. PICK S \in Nearest(NamedChunks) : points' = points \cup S
    BY <1>5 DEF QueryNamed, NamedChunks, Named
  <2>2. S \subseteq NamedChunks /\ Covered(NamedChunks, S)
    BY NearestCovers DEF SearchInv, NamedChunks
  <2>3. pc' = "scroll_headings" /\ UNCHANGED <<keyword, score, ranked, context>> /\ pc = "query_named"
    BY <1>5 DEF QueryNamed, GoTo
  <2>4. Covered(Chunks, points') /\ Covered(NamedChunks, points')
    BY <2>1, <2>2, <2>3, CoveredByMore DEF SearchInv
  <2>5. Covered(Chunks, points)' /\ Covered(NamedChunks, points)'
    BY <1>2, <1>3, <2>4 DEF Covered
  <2>6. Unranked'
    BY <2>3 DEF SearchInv, Unranked
  <2>7. points' \subseteq Chunks
    BY <2>1, <2>2 DEF SearchInv, NamedChunks
  <2>. QED
    BY <1>2, <2>3, <2>5, <2>6, <2>7 DEF SearchInv, Labels
<1>6. CASE ScrollHeadings
  <2>1. PICK S \in kSubset(Fewest(CandidateK, Cardinality(Headed)), Headed) : points' = points \cup S
    BY <1>6 DEF ScrollHeadings
  <2>2. S \subseteq Chunks
    BY DEF kSubset, Headed
  <2>3. Cardinality(Headed) <= CandidateK => S = Headed
    BY HeadingsFit
  <2>4. pc' = "rank" /\ UNCHANGED <<keyword, score, ranked, context>> /\ pc = "scroll_headings"
    BY <1>6 DEF ScrollHeadings, GoTo
  <2>5. Covered(Chunks, points') /\ Covered(NamedChunks, points')
    BY <2>1, <2>4, CoveredByMore DEF SearchInv
  <2>6. Covered(Chunks, points)' /\ Covered(NamedChunks, points)'
    BY <1>2, <1>3, <2>5 DEF Covered
  <2>7. Unranked'
    BY <2>4 DEF SearchInv, Unranked
  <2>8. points' \subseteq Chunks /\ (Cardinality(Headed) <= CandidateK => Headed \subseteq points')
    BY <2>1, <2>2, <2>3 DEF SearchInv
  <2>. QED
    BY <1>2, <2>4, <2>6, <2>7, <2>8 DEF SearchInv, Labels
<1>7. CASE Rank
  <2>1. pc' = "select" /\ UNCHANGED <<points, context>> /\ pc = "rank"
    BY <1>7 DEF Rank, GoTo
  <2>2. RankedBest'
    <3>1. PICK hits \in SUBSET Chunks : hits = Considered(points)
      BY DEF SearchInv, Considered
    <3>2. Considered(points)' = hits
      BY <1>1, <2>1, <3>1 DEF Considered, Named, query
    <3>3. \A c : KeywordScore(c, hits)' = KeywordScore(c, hits)
      BY <1>1, ScoresStay
    <3>4. keyword' = [c \in Chunks |-> IF c \in hits THEN KeywordScore(c, hits) ELSE 0]
      BY <1>7, <3>1 DEF Rank
    <3>5. score' = [c \in Chunks |-> IF c \in hits THEN FinalScore(c, keyword'[c]) ELSE 0]
      BY <1>7, <3>1 DEF Rank
    <3>6. ranked' \in SetToSeqs({c \in hits : Relevant(c, keyword'[c])})
      BY <1>7, <3>1 DEF Rank
    <3>7. \A c : FinalScore(c, keyword[c])' = FinalScore(c, keyword'[c])
      BY <1>1 DEF FinalScore, Named, query
    <3>8. Relevants(hits)' = {c \in hits : Relevant(c, keyword'[c])}
      BY <1>1 DEF Relevants, Relevant, Named, query
    <3>9. RankedFrom(hits)'
      BY <3>3, <3>4, <3>5, <3>6, <3>7, <3>8 DEF RankedFrom
    <3>. QED
      BY <3>2, <3>9 DEF RankedBest
  <2>3. Covered(Chunks, points)' /\ Covered(NamedChunks, points)'
    BY <1>2, <1>3, <2>1 DEF Covered, SearchInv
  <2>. QED
    BY <1>2, <2>1, <2>2, <2>3 DEF SearchInv, Labels
<1>8. CASE Select
  <2>1. pc' = "done" /\ UNCHANGED <<points, keyword, score, ranked>> /\ pc = "select"
    BY <1>8 DEF Select, GoTo
  <2>2. RankedBest'
    BY <1>1, <2>1, RankingStays DEF SearchInv
  <2>3. Selected(SelectContext)
    <3>1. PICK hits \in SUBSET Chunks : RankedFrom(hits)
      BY <2>1 DEF SearchInv, RankedBest
    <3>2. Given
      BY DEF SearchInv
    <3>. QED
      BY <3>1, <3>2, RankingFacts, SelectContextSelects
  <2>4. PICK ctx : ctx = SelectContext
    OBVIOUS
  <2>5. Selected(ctx)'
    BY <1>1, <2>1, <2>3, <2>4, SelectionStays
  <2>6. context' = ctx
    BY <1>8, <2>4 DEF Select
  <2>7. Selected(context)'
    BY <2>5, <2>6 DEF Selected
  <2>8. Covered(Chunks, points)' /\ Covered(NamedChunks, points)'
    BY <1>2, <1>3, <2>1 DEF Covered, SearchInv
  <2>. QED
    BY <1>2, <2>1, <2>2, <2>7, <2>8 DEF SearchInv, Labels
<1>9. CASE UNCHANGED vars
  <2>1. UNCHANGED <<pc, points, keyword, score, ranked, context>>
    BY <1>9 DEF vars
  <2>2. RankedBest => RankedBest'
    BY <1>1, <2>1, RankingStays
  <2>3. Unranked' = Unranked
    BY <2>1 DEF Unranked
  <2>4. Selected(context) => Selected(context)'
    <3>1. PICK ctx : ctx = context
      OBVIOUS
    <3>2. Selected(ctx) => Selected(ctx)'
      BY <1>1, <2>1, SelectionStays
    <3>. QED
      BY <2>1, <3>1, <3>2 DEF Selected
  <2>5. Covered(Chunks, points)' = Covered(Chunks, points)
        /\ Covered(NamedChunks, points)' = Covered(NamedChunks, points)
    BY <1>2, <1>3, <2>1 DEF Covered
  <2>. QED
    BY <1>2, <2>1, <2>2, <2>3, <2>4, <2>5 DEF SearchInv
<1>. QED
  BY <1>4, <1>5, <1>6, <1>7, <1>8, <1>9 DEF Next

LEMMA SearchInvariant == Spec => []SearchInv
  BY InitSearch, StepSearch, PTL DEF Spec

(***************************************************************************)
(* The properties.                                                         *)
(***************************************************************************)
\* A search in any state has the data and scores of its place: for any chunks, words
\* and settings, scores are percentages (divisions by the bar are of no 0), no chunk
\* is twice in a ranking or a context, and a context has at most K chunks.
THEOREM TypeCorrect == Spec => []TypeOK
<1>1. SearchInv => TypeOK
  <2>. SUFFICES ASSUME SearchInv PROVE TypeOK
    OBVIOUS
  <2>1. Given /\ pc \in Labels /\ points \subseteq Chunks
    BY DEF SearchInv
  <2>2. /\ keyword \in [Chunks -> Percentages] /\ score \in [Chunks -> Percentages]
        /\ ranked \in Seq(Chunks) /\ IsInjective(ranked)
    <3>1. CASE pc \in {"select", "done"}
      <4>1. PICK hits \in SUBSET Chunks : RankedFrom(hits)
        BY <3>1 DEF SearchInv, RankedBest
      <4>2. PICK n \in Nat : ranked \in [1 .. n -> Chunks]
        BY <2>1, <4>1, RankingFacts
      <4>3. ranked \in Seq(Chunks)
        BY <4>2
      <4>. QED
        BY <2>1, <4>1, <4>3, RankingFacts
    <3>2. CASE pc \notin {"select", "done"}
      <4>1. Unranked
        BY <3>2 DEF SearchInv
      <4>. QED
        BY <4>1 DEF Unranked, Percentages, IsInjective
    <3>. QED
      BY <3>1, <3>2
  <2>3. context \in Seq(Chunks) /\ IsInjective(context) /\ Len(context) <= K
    <3>1. CASE pc = "done"
      BY <3>1 DEF SearchInv, Selected
    <3>2. CASE pc # "done"
      <4>1. context = << >> /\ K \in Nat
        BY <3>2, Settings DEF SearchInv, K
      <4>2. << >> \in Seq(Chunks) /\ IsInjective(<< >>) /\ Len(<< >>) = 0
        BY DEF IsInjective
      <4>. QED
        BY <4>1, <4>2
    <3>. QED
      BY <3>1, <3>2
  <2>. QED
    BY <2>1, <2>2, <2>3 DEF TypeOK, Given, K
<1>. QED
  BY <1>1, SearchInvariant, PTL

\* For any ranking and any settings: the loop of select_context leaves a relevant
\* candidate out exactly if it is too far from the best one, if K better ones are in,
\* or if as many of its own section as are allowed are in and better.
THEOREM SelectionIsBest == Spec => []ContextIsBest
<1>1. SearchInv => ContextIsBest
  BY DEF SearchInv, Selected, ContextIsBest, Context
<1>. QED
  BY <1>1, SearchInvariant, PTL

\* The candidates are the named documents' where there are such documents.
LEMMA NamedAreConsidered ==
  ASSUME SearchInv, pc \in {"select", "done"}
  PROVE  /\ Considered(points) \subseteq points
         /\ NamedChunks # {} => Considered(points) = points \cap NamedChunks
         /\ NamedChunks = {} => Considered(points) = points
<1>1. Covered(NamedChunks, points) /\ points \subseteq Chunks
  BY DEF SearchInv
<1>2. NamedChunks # {} => \E c \in points : Named(c)
  BY <1>1 DEF Covered, NamedChunks
<1>. QED
  BY <1>1, <1>2 DEF Considered, NamedChunks

\* Whatever Qdrant returns and however it is scored: no chunk is sent to the model
\* without evidence for it, and when the question names a document of the index, no
\* chunk of another (rank_candidates, is_relevant).
THEOREM EvidenceForAll == Spec => []OnlyEvidence
<1>1. SearchInv => OnlyEvidence
  <2>. SUFFICES ASSUME SearchInv, NEW c \in Context
                PROVE  /\ semantic[c] >= SemanticFloor
                       /\ (\E d \in Chunks : Named(d)) => Named(c)
                       /\ Named(c) \/ semantic[c] >= MinScore \/ keyword[c] >= KeywordMinScore
    BY DEF OnlyEvidence
  <2>1. pc = "done"
    <3>. SUFFICES ASSUME pc # "done" PROVE FALSE
      OBVIOUS
    <3>1. context = << >>
      BY DEF SearchInv
    <3>. QED
      BY <3>1 DEF Context, ToSet
  <2>2. PICK hits \in SUBSET Chunks : hits = Considered(points) /\ RankedFrom(hits)
    BY <2>1 DEF SearchInv, RankedBest
  <2>3. c \in Relevants(hits)
    <3>1. Given /\ Selected(context)
      BY <2>1 DEF SearchInv
    <3>2. ToSet(context) \subseteq ToSet(ranked)
      BY <3>1 DEF Selected
    <3>3. ToSet(ranked) \subseteq Relevants(hits)
      BY <2>2, <3>1, RankingFacts
    <3>. QED
      BY <3>2, <3>3 DEF Context
  <2>4. (\E d \in Chunks : Named(d)) => Named(c)
    BY <2>1, <2>2, <2>3, NamedAreConsidered DEF NamedChunks, Relevants
  <2>. QED
    BY <2>3, <2>4 DEF Relevants, Relevant
<1>. QED
  BY <1>1, SearchInvariant, PTL

\* For any words of any chunks: words that the question only implies never raise the
\* bar; a candidate with every word of the question scores in full, one with none
\* nothing, and having more of them never costs a candidate (keyword_scores).
THEOREM WordsCountAsTheyShould == Spec => []WordsCount
<1>1. SearchInv => WordsCount
  <2>. SUFFICES ASSUME SearchInv, pc \in {"select", "done"}, NEW c \in Considered(points)
                PROVE  /\ Terms # {} /\ Terms \subseteq Body(c) => keyword[c] = 100
                       /\ keyword[c] > 0 => (Terms \cup Implied) \cap Body(c) # {}
                       /\ \A d \in Considered(points) :
                            Body(d) \subseteq Body(c) /\ Heading(d) \subseteq Heading(c) =>
                              keyword[d] <= keyword[c]
    BY DEF WordsCount
  <2>1. PICK hits \in SUBSET Chunks : hits = Considered(points) /\ RankedFrom(hits)
    BY DEF SearchInv, RankedBest
  <2>2. \A d \in hits : keyword[d] = KeywordScore(d, hits)
    BY <2>1 DEF RankedFrom
  <2>3. Given
    BY DEF SearchInv
  <2>4. Terms # {} /\ Terms \subseteq Body(c) => keyword[c] = 100
    BY <2>1, <2>2, <2>3, AllWordsScoreInFull
  <2>5. keyword[c] > 0 => (Terms \cup Implied) \cap Body(c) # {}
    <3>1. (Terms \cup Implied) \cap Body(c) = {} => KeywordScore(c, hits) = 0
      BY <2>1, <2>3, NoWordsScoreNothing
    <3>. QED
      BY <2>1, <2>2, <3>1
  <2>6. ASSUME NEW d \in Considered(points), Body(d) \subseteq Body(c), Heading(d) \subseteq Heading(c)
        PROVE  keyword[d] <= keyword[c]
    <3>1. KeywordScore(d, hits) <= KeywordScore(c, hits)
      BY <2>1, <2>3, <2>6, MoreWordsScoreMore
    <3>. QED
      BY <2>1, <2>2, <3>1
  <2>. QED
    BY <2>4, <2>5, <2>6
<1>. QED
  BY <1>1, SearchInvariant, PTL

\* The canned "nothing relevant" is true of the whole index, however many chunks crowd
\* the pools: no chunk is like the question, of the named documents' where there are
\* any, and none with a word of it in its heading has all of its words, but for
\* headings in the plural only, for words beyond those that headings are searched for
\* and for chunks beyond the size of a pool (VectorStore.search).
THEOREM EmptyIsTrueOfTheIndex == Spec => []EmptyMeansNothing
<1>1. SearchInv => EmptyMeansNothing
  <2>. SUFFICES ASSUME SearchInv, pc = "done", context = << >>
                PROVE  IF NamedChunks # {} THEN \A c \in NamedChunks : semantic[c] < SemanticFloor
                       ELSE /\ \A c \in Chunks : semantic[c] < MinScore
                            /\ Cardinality(Headed) <= CandidateK =>
                                 \A c \in Headed : semantic[c] < SemanticFloor \/ ~(Terms \subseteq Body(c))
    BY DEF EmptyMeansNothing, NamedChunks
  <2>1. Given /\ points \subseteq Chunks /\ Covered(Chunks, points) /\ Covered(NamedChunks, points)
    BY DEF SearchInv
  <2>2. PICK hits \in SUBSET Chunks : hits = Considered(points) /\ RankedFrom(hits)
    BY DEF SearchInv, RankedBest
  <2>3. Relevants(hits) = {}
    <3>1. ranked = << >>
      BY DEF SearchInv, Selected
    <3>. QED
      BY <2>1, <2>2, <3>1, RankingFacts
  <2>4. \A c \in Chunks : semantic[c] \in Nat
    BY <2>1, ScoresAreNumbers, Zenon
  <2>5. \A c \in hits : ~Relevant(c, keyword[c])
    BY <2>3 DEF Relevants
  <2>6. CASE NamedChunks # {}
    <3>1. hits = points \cap NamedChunks
      BY <2>2, <2>6, NamedAreConsidered
    <3>2. \A c \in hits : semantic[c] < SemanticFloor
      <4>1. \A c \in hits : Named(c) /\ semantic[c] \in Nat
        BY <2>4, <3>1 DEF NamedChunks
      <4>. QED
        BY <2>5, <4>1, Settings DEF Relevant
    <3>3. ASSUME NEW d \in NamedChunks PROVE semantic[d] < SemanticFloor
      <4>1. PICK c \in points \cap NamedChunks : semantic[c] >= semantic[d]
        BY <2>1 DEF Covered
      <4>2. semantic[c] < SemanticFloor /\ semantic[c] \in Nat /\ semantic[d] \in Nat
        BY <2>4, <3>1, <3>2 DEF NamedChunks
      <4>. QED
        BY <4>1, <4>2, Settings
    <3>. QED
      BY <2>6, <3>3
  <2>7. CASE NamedChunks = {}
    <3>1. hits = points
      BY <2>2, <2>7, NamedAreConsidered
    <3>2. \A c \in hits : semantic[c] < MinScore
      BY <2>4, <2>5, Settings DEF Relevant
    <3>3. ASSUME NEW d \in Chunks PROVE semantic[d] < MinScore
      <4>1. PICK c \in points \cap Chunks : semantic[c] >= semantic[d]
        BY <2>1 DEF Covered
      <4>2. semantic[c] < MinScore /\ semantic[c] \in Nat /\ semantic[d] \in Nat
        BY <2>4, <3>1, <3>2
      <4>. QED
        BY <4>1, <4>2, Settings
    <3>4. ASSUME Cardinality(Headed) <= CandidateK, NEW c \in Headed,
                 Terms \subseteq Body(c)
          PROVE  semantic[c] < SemanticFloor
      <4>1. c \in hits
        BY <3>1, <3>4 DEF SearchInv
      <4>2. Terms # {}
        BY <2>1 DEF Given, Headed, Searches, Searchable, kSubset, Terms
      <4>3. keyword[c] = 100
        <5>1. KeywordScore(c, hits) = 100
          BY <2>1, <3>4, <4>1, <4>2, AllWordsScoreInFull
        <5>. QED
          BY <2>2, <4>1, <5>1 DEF RankedFrom
      <4>4. keyword[c] >= KeywordMinScore
        BY <4>3, Settings
      <4>5. semantic[c] \in Nat
        BY <2>4, <4>1
      <4>. QED
        BY <2>5, <4>1, <4>4, <4>5, Settings DEF Relevant
    <3>. QED
      BY <2>7, <3>3, <3>4
  <2>. QED
    BY <2>6, <2>7
<1>. QED
  BY <1>1, SearchInvariant, PTL

==============================================================================
