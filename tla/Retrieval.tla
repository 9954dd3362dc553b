------------------------------ MODULE Retrieval -------------------------------
(***************************************************************************)
(* VectorStore.search and the ranking of app/repository/retrieval.py: the  *)
(* chunks of the index that become the context of an answer.               *)
(*                                                                         *)
(* A search makes up to three calls to Qdrant, one for each pool of        *)
(* candidates, scores the candidates and selects a few.  How like a chunk  *)
(* is to the question, by its embedding, is arbitrary data; how many of    *)
(* the question's words it has is computed from the words of both.         *)
(* Scores are whole percentages; the logarithm that weighs a word by its   *)
(* rarity is a table.                                                      *)
(***************************************************************************)
EXTENDS Naturals, SequencesExt

CONSTANTS
  Chunks, Files,
  FileOf,           \* FileOf[c] = the document of a chunk
  SectionOf,        \* SectionOf[c] = its section, or NoValue
  NoValue,
  Corpora,          \* what the chunks may say: texts and headings as sets of words
  Vocabulary,       \* the words of questions and headings
  Stem,             \* Stem[w] = the word without its plural s
  Stopwords, Short, \* words without weight, words of fewer than three letters
  Technical,        \* words that _is_technical recognises
  Expansions,       \* Expansions[w] = the words that a vague word implies
  Rarity,           \* Rarity[n][m] = the weight of a word that m of n candidates have
  Questions,        \* sets of words
  CandidateK,       \* settings.retrieval_candidate_k
  MaxSearched,      \* how many words heading_search_terms returns
  TopK, BroadTopK,
  MaxPerSection,    \* settings.max_chunks_per_section
  SemanticScores,
  SemanticFloor, MinScore, KeywordMinScore,
  SemanticWeight, KeywordWeight, FilenameBoost,
  RelativeCutoff, BroadRelativeCutoff

Percentages == 0 .. 100

ASSUME ChunksAssumption ==
  /\ IsFiniteSet(Chunks)
  /\ FileOf \in [Chunks -> Files]
  /\ DOMAIN SectionOf = Chunks
  /\ SemanticScores \subseteq Percentages

ASSUME WordsAssumption ==
  /\ IsFiniteSet(Vocabulary)
  /\ Stem \in [Vocabulary -> Vocabulary]
  /\ \A w \in Vocabulary : Stem[Stem[w]] = Stem[w]
  /\ Stopwords \cup Short \cup Technical \subseteq Vocabulary
  /\ Expansions \in [Vocabulary -> SUBSET (Vocabulary \ Stopwords)]
  /\ Questions \subseteq SUBSET Vocabulary
  /\ Corpora \subseteq [Chunks -> [text : SUBSET Vocabulary, heading : SUBSET Vocabulary]]

\* A word is the heavier the fewer candidates have it, and none is without weight.
ASSUME RarityAssumption ==
  \A n \in 1 .. Cardinality(Chunks) : \A m \in 0 .. n :
    /\ Rarity[n][m] \in Nat \ {0}
    /\ m < n => Rarity[n][m] > Rarity[n][m + 1]

ASSUME SettingsAssumption ==
  /\ {CandidateK, MaxSearched, TopK, BroadTopK, MaxPerSection} \subseteq Nat \ {0}
  /\ {SemanticFloor, MinScore, KeywordMinScore, FilenameBoost, RelativeCutoff,
      BroadRelativeCutoff} \subseteq Percentages
  /\ SemanticWeight \in Percentages /\ KeywordWeight = 100 - SemanticWeight
  /\ SemanticFloor <= MinScore /\ BroadRelativeCutoff <= RelativeCutoff

Labels == {"query", "query_named", "scroll_headings", "rank", "select", "done"}

VARIABLES
  semantic,          \* the score of each chunk
  said,              \* what each chunk says
  asked,             \* the words of the question
  searched,          \* those that headings are searched for
  mentioned,         \* the filenames that the question names
  broad,             \* the question is a broad one
  pc,
  points,            \* the candidates
  keyword, score,    \* the scores of the candidates
  ranked,            \* those that are relevant, best first
  context            \* what the search returns

query == <<semantic, said, asked, searched, mentioned, broad>>
vars  == <<query, pc, points, keyword, score, ranked, context>>

Fewest(m, n) == IF m < n THEN m ELSE n

(***************************************************************************)
(* Words.                                                                  *)
(***************************************************************************)
\* The raw words that query_terms returns; no question has one in two forms.
Informative == asked \ Stopwords

Terms   == {Stem[w] : w \in Informative}
Implied == {Stem[v] : v \in UNION {Expansions[w] : w \in asked}} \ Terms

Heading(c) == {Stem[w] : w \in said[c].heading}
Body(c)    == {Stem[w] : w \in said[c].text} \cup Heading(c)

\* Words worth looking for in headings: as asked, and in the singular.
Searchable == {w \in Informative \cup Terms : w \notin Short}

\* heading_search_terms: the first of them in the question, which as a set has no order.
Searches == kSubset(Fewest(MaxSearched, Cardinality(Searchable)), Searchable)

\* The word index on headings matches whole words, in the form they have.
Headed == {c \in Chunks : said[c].heading \cap searched # {}}

TypeOK ==
  /\ semantic \in [Chunks -> SemanticScores]
  /\ said \in Corpora
  /\ asked \in Questions
  /\ searched \in Searches
  /\ mentioned \subseteq Files
  /\ broad \in BOOLEAN
  /\ pc \in Labels
  /\ points \subseteq Chunks
  /\ keyword \in [Chunks -> Percentages]
  /\ score \in [Chunks -> Percentages]
  /\ ranked \in Seq(Chunks) /\ IsInjective(ranked)
  /\ context \in Seq(Chunks) /\ IsInjective(context)
  /\ Len(context) <= IF broad THEN BroadTopK ELSE TopK

\* A name of mentioned may be one that the filename cache still has and the index not.
Init ==
  /\ semantic \in [Chunks -> SemanticScores]
  /\ said \in Corpora
  /\ asked \in Questions
  /\ searched \in Searches
  /\ mentioned \in SUBSET Files
  /\ broad \in BOOLEAN
  /\ pc = "query"
  /\ points = {}
  /\ keyword = [c \in Chunks |-> 0] /\ score = [c \in Chunks |-> 0]
  /\ ranked = << >> /\ context = << >>

GoTo(from, to) == pc = from /\ pc' = to

(***************************************************************************)
(* The score for words.                                                    *)
(***************************************************************************)
\* The weight of word s among the candidates, in quarters.
Weight(s, hits) ==
  LET df        == Cardinality({c \in hits : s \in Body(c)})
      technical == \E w \in Informative : Stem[w] = s /\ w \in Technical
  IN Rarity[Cardinality(hits)][df] * (IF technical THEN 3 ELSE 2) * (IF s \in Implied THEN 1 ELSE 2)

\* Mutant of Bar: implied words raise it.
BarWithImplied(hits) ==
  SumFunctionOnSet([s \in Terms \cup Implied |-> 4 * Weight(s, hits)], Terms \cup Implied)

\* What the score is a share of.
Bar(hits) == SumFunctionOnSet([s \in Terms |-> 4 * Weight(s, hits)], Terms)

\* What the words of a candidate add up to; one in its heading counts for more.
Got(c, hits) ==
  LET had == (Terms \cup Implied) \cap Body(c) IN
  SumFunctionOnSet([s \in had |-> (IF s \in Heading(c) THEN 5 ELSE 4) * Weight(s, hits)], had)

KeywordScore(c, hits) ==
  IF Terms = {} THEN 0 ELSE Fewest(100, (100 * Got(c, hits)) \div Bar(hits))

(***************************************************************************)
(* The pools of candidates.                                                *)
(***************************************************************************)
\* The sets of chunks that Qdrant may return as the best CandidateK of pool.
Nearest(pool) ==
  {S \in kSubset(Fewest(CandidateK, Cardinality(pool)), pool) :
     \A c \in S, d \in pool \ S : semantic[c] >= semantic[d]}

Query ==
  /\ GoTo("query", "query_named")
  /\ points' \in Nearest(Chunks)
  /\ UNCHANGED <<query, keyword, score, ranked, context>>

QueryNamed ==
  /\ GoTo("query_named", "scroll_headings")
  /\ \E S \in Nearest({c \in Chunks : FileOf[c] \in mentioned}) : points' = points \cup S
  /\ UNCHANGED <<query, keyword, score, ranked, context>>

\* Mutant of ScrollHeadings: what the embedding ranks low is not looked for.
ScrollNothing ==
  /\ GoTo("scroll_headings", "rank")
  /\ UNCHANGED <<query, points, keyword, score, ranked, context>>

\* At most CandidateK chunks by their heading, whichever come first.
ScrollHeadings ==
  /\ GoTo("scroll_headings", "rank")
  /\ \E S \in kSubset(Fewest(CandidateK, Cardinality(Headed)), Headed) : points' = points \cup S
  /\ UNCHANGED <<query, keyword, score, ranked, context>>

(***************************************************************************)
(* Ranking.                                                                *)
(***************************************************************************)
Named(c) == FileOf[c] \in mentioned

\* The named documents' candidates, if there are any; all of them otherwise.
Considered(S) == IF \E c \in S : Named(c) THEN {c \in S : Named(c)} ELSE S

\* Mutant of Relevant: a named document's chunks need no likeness at all.
RelevantIfNamed(c, kw) == Named(c) \/ semantic[c] >= MinScore

Relevant(c, kw) ==
  /\ semantic[c] >= SemanticFloor
  /\ semantic[c] >= MinScore \/ kw >= KeywordMinScore \/ Named(c)

FinalScore(c, kw) ==
  Fewest(100, (SemanticWeight * semantic[c] + KeywordWeight * kw) \div 100
                + (IF Named(c) THEN FilenameBoost ELSE 0))

\* rank_candidates; of equal scores, any may come first.
Rank ==
  LET hits == Considered(points) IN
  /\ GoTo("rank", "select")
  /\ keyword' = [c \in Chunks |-> IF c \in hits THEN KeywordScore(c, hits) ELSE 0]
  /\ score' = [c \in Chunks |-> IF c \in hits THEN FinalScore(c, keyword'[c]) ELSE 0]
  /\ ranked' \in {xs \in SetToSeqs({c \in hits : Relevant(c, keyword'[c])}) :
                    \A i, j \in DOMAIN xs : i < j => score'[xs[i]] >= score'[xs[j]]}
  /\ UNCHANGED <<query, points, context>>

(***************************************************************************)
(* Selection.                                                              *)
(***************************************************************************)
K == IF broad THEN BroadTopK ELSE TopK

\* The score is within the cutoff of the best one.
NearBest(c, best) ==
  score[c] * 100 >= score[best] * (IF broad THEN BroadRelativeCutoff ELSE RelativeCutoff)

\* A chunk without a section is a section of its own.
SameSection(c, d) ==
  c = d \/ (FileOf[c] = FileOf[d] /\ SectionOf[c] = SectionOf[d] /\ SectionOf[c] # NoValue)

\* How many of the chunks picked are of the section of c.
OfSection(picked, c) == Cardinality({i \in DOMAIN picked : SameSection(c, picked[i])})

\* Mutant of Picks: sections of two documents that bear the same name are one.
PicksByName(picked, c) ==
  /\ NearBest(c, ranked[1])
  /\ Len(picked) < K
  /\ Cardinality({i \in DOMAIN picked : SectionOf[c] = SectionOf[picked[i]]}) < MaxPerSection

Picks(picked, c) ==
  /\ NearBest(c, ranked[1])
  /\ Len(picked) < K
  /\ OfSection(picked, c) < MaxPerSection

\* select_context: the loop over the ranked candidates.
SelectContext ==
  FoldLeft(LAMBDA picked, c : IF Picks(picked, c) THEN Append(picked, c) ELSE picked, << >>, ranked)

\* Mutant of Select: the best ones, wherever they come from, and one too many.
SelectFirst ==
  /\ GoTo("select", "done")
  /\ context' = SubSeq(ranked, 1, Fewest(K + 1, Len(ranked)))
  /\ UNCHANGED <<query, points, keyword, score, ranked>>

Select ==
  /\ GoTo("select", "done")
  /\ context' = SelectContext
  /\ UNCHANGED <<query, points, keyword, score, ranked>>

Next == Query \/ QueryNamed \/ ScrollHeadings \/ Rank \/ Select

Spec == Init /\ [][Next]_vars

(***************************************************************************)
(* Properties.                                                             *)
(***************************************************************************)
Context == ToSet(context)

\* The loop returns what a reader of its docstring expects: a relevant candidate is
\* left out exactly if it is too far from the best one, if K better ones are in, or
\* if as many of its own section as are allowed are in and better.
ContextIsBest ==
  pc = "done" =>
    \A i \in DOMAIN ranked :
      LET better == {j \in 1 .. i - 1 : ranked[j] \in Context} IN
      ranked[i] \in Context <=>
        /\ NearBest(ranked[i], ranked[1])
        /\ Cardinality(better) < K
        /\ Cardinality({j \in better : SameSection(ranked[i], ranked[j])}) < MaxPerSection

\* No chunk is in the context without evidence, and when the question names a
\* document of the index, no other document is: "low-evidence chunks are never sent
\* to the LLM".
OnlyEvidence ==
  \A c \in Context :
    /\ semantic[c] >= SemanticFloor
    /\ (\E d \in Chunks : Named(d)) => Named(c)
    /\ Named(c) \/ semantic[c] >= MinScore \/ keyword[c] >= KeywordMinScore

\* The canned "nothing relevant" is true of the whole index and not of a pool of
\* it, however many chunks crowd the pools: an empty context means that no chunk is
\* like the question, or, where documents are named, none of theirs is; and that no
\* chunk with a word of the question in its heading has all of its words, unless the
\* heading has it in the plural only, or the word is not among the MaxSearched that
\* headings are searched for, or more chunks have such headings than fit a pool.
EmptyMeansNothing ==
  pc = "done" /\ context = << >> =>
    LET named == {c \in Chunks : Named(c)} IN
    IF named # {} THEN \A c \in named : semantic[c] < SemanticFloor
    ELSE /\ \A c \in Chunks : semantic[c] < MinScore
         /\ Cardinality(Headed) <= CandidateK =>
              \A c \in Headed : semantic[c] < SemanticFloor \/ ~(Terms \subseteq Body(c))

\* Words that the question only implies "add credit (they can stand in for a missing
\* literal term); they never raise the bar": a candidate with every word of the
\* question scores in full whatever else is a candidate, one with none of either kind
\* scores nothing, and having more of the words never costs a candidate.
WordsCount ==
  pc \in {"select", "done"} =>
    \A c \in Considered(points) :
      /\ Terms # {} /\ Terms \subseteq Body(c) => keyword[c] = 100
      /\ keyword[c] > 0 => (Terms \cup Implied) \cap Body(c) # {}
      /\ \A d \in Considered(points) :
           Body(d) \subseteq Body(c) /\ Heading(d) \subseteq Heading(c) =>
             keyword[d] <= keyword[c]
==============================================================================
