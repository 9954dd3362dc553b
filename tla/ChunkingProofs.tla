---------------------------- MODULE ChunkingProofs ----------------------------
(***************************************************************************)
(* Theorems about Chunking, for files of any size, any levels of headings  *)
(* and any lengths of pieces.                                              *)
(***************************************************************************)
EXTENDS Chunking, FoldFacts, SequenceTheorems, TLAPS

(***************************************************************************)
(* Sets of numbers and their elements in order.                            *)
(***************************************************************************)
\* xs has exactly the elements of S, the least first.
Lists(xs, S) ==
  /\ xs \in Seq(S)
  /\ \A p, q \in 1 .. Len(xs) : p < q => xs[p] < xs[q]
  /\ \A i \in S : \E p \in 1 .. Len(xs) : xs[p] = i

Rank(S, i) == Cardinality({j \in S : j <= i})

LEMMA Greatest ==
  ASSUME NEW n \in Nat, NEW S \in SUBSET (0 .. n), S # {}
  PROVE  Max(S) \in S /\ \A y \in S : y <= Max(S)
<1>. DEFINE T == {n - x : x \in S}
<1>0. \A x \in S : x \in 0 .. n
  OBVIOUS
<1>1. \A x \in S : n - x \in Nat
  BY <1>0
<1>2. T \subseteq Nat /\ T # {}
  BY <1>1
<1>3. PICK m \in T : \A y \in T : m <= y
  <2>. HIDE DEF T
  <2>. QED
    BY <1>2, LeastNumber
<1>4. PICK x \in S : m = n - x
  BY <1>3
<1>5. ASSUME NEW y \in S PROVE x >= y
  <2>1. n - y \in T /\ x \in 0 .. n /\ y \in 0 .. n
    BY <1>0
  <2>2. n - x <= n - y
    BY <1>3, <1>4, <2>1
  <2>. QED
    BY <2>1, <2>2
<1>6. Max(S) \in S /\ \A y \in S : Max(S) >= y
  BY <1>5 DEF Max
<1>. DEFINE greatest == Max(S)
<1>. HIDE DEF greatest
<1>7. greatest \in S /\ \A y \in S : greatest >= y
  BY <1>6 DEF greatest
<1>8. \A y \in S : y <= greatest
  BY <1>0, <1>7
<1>. QED
  BY <1>7, <1>8 DEF greatest

LEMMA Smallest ==
  ASSUME NEW S \in SUBSET Nat, S # {}
  PROVE  Min(S) \in S /\ \A y \in S : Min(S) <= y
<1>1. PICK x \in S : \A y \in S : x <= y
  BY LeastNumber
<1>. QED
  BY <1>1 DEF Min

\* The greatest element, when it is known.
LEMMA MaxIs ==
  ASSUME NEW n \in Nat, NEW S \in SUBSET (0 .. n), NEW x \in S, \A y \in S : y <= x
  PROVE  Max(S) = x
<1>. DEFINE m == Max(S)
<1>1. m \in S /\ \A y \in S : y <= m
  BY Greatest
<1>2. x \in 0 .. n /\ m \in 0 .. n
  BY <1>1
<1>3. x <= m /\ m <= x
  BY <1>1
<1>. HIDE DEF m
<1>4. m = x
  BY <1>2, <1>3
<1>. QED
  BY <1>4 DEF m

LEMMA RankFacts ==
  ASSUME NEW n \in Nat, NEW S \in SUBSET (1 .. n)
  PROVE  /\ IsFiniteSet(S) /\ Cardinality(S) \in Nat
         /\ \A i \in S : Rank(S, i) \in 1 .. Cardinality(S)
         /\ \A i, j \in S : i < j => Rank(S, i) < Rank(S, j)
<1>1. IsFiniteSet(S) /\ Cardinality(S) \in Nat
  <2>1. IsFiniteSet(1 .. n)
    BY FS_Interval
  <2>. QED
    BY <2>1, FS_Subset, FS_CardinalityType
<1>0. \A i \in S : i \in 1 .. n
  OBVIOUS
<1>2. ASSUME NEW i \in S PROVE Rank(S, i) \in 1 .. Cardinality(S)
  <2>. DEFINE T == {j \in S : j <= i}
  <2>1. T \in SUBSET S /\ i \in T
    BY <1>0
  <2>2. IsFiniteSet(T) /\ Cardinality(T) <= Cardinality(S) /\ Cardinality(T) \in Nat
    BY <1>1, <2>1, FS_Subset, FS_CardinalityType
  <2>3. Cardinality(T) # 0
    BY <2>1, <2>2, FS_EmptySet
  <2>. QED
    BY <1>1, <2>2, <2>3 DEF Rank
<1>3. ASSUME NEW i \in S, NEW j \in S, i < j PROVE Rank(S, i) < Rank(S, j)
  <2>. DEFINE T == {k \in S : k <= i}
              U == {k \in S : k <= j}
  <2>1. T \in SUBSET U /\ U \in SUBSET S /\ j \in U /\ j \notin T
    <3>1. i \in 1 .. n /\ j \in 1 .. n /\ i < j
      BY <1>0, <1>3
    <3>2. j <= j /\ ~(j <= i)
      BY <3>1
    <3>3. \A k \in S : k <= i => k <= j
      BY <1>0, <3>1
    <3>. QED
      BY <3>2, <3>3
  <2>2. IsFiniteSet(U) /\ Cardinality(U) \in Nat
    BY <1>1, <2>1, FS_Subset, FS_CardinalityType
  <2>3. IsFiniteSet(T) /\ Cardinality(T) \in Nat /\ Cardinality(T) <= Cardinality(U) /\ Cardinality(T) # Cardinality(U)
    BY <2>1, <2>2, FS_Subset, FS_CardinalityType
  <2>. QED
    BY <2>2, <2>3 DEF Rank
<1>. QED
  BY <1>1, <1>2, <1>3

\* InOrder lists its set, and no other sequence does.
LEMMA InOrderLists ==
  ASSUME NEW n \in Nat, NEW S \in SUBSET (1 .. n)
  PROVE  Lists(InOrder(S), S)
<1>. DEFINE c == Cardinality(S)
            rank == [i \in S |-> Rank(S, i)]
            xs == InOrder(S)
<1>1. /\ IsFiniteSet(S) /\ c \in Nat
      /\ \A i \in S : Rank(S, i) \in 1 .. c
      /\ \A i, j \in S : i < j => Rank(S, i) < Rank(S, j)
  BY RankFacts
<1>2. xs = [m \in 1 .. c |-> CHOOSE i \in S : Rank(S, i) = m]
  BY DEF InOrder, Rank
<1>3. \A i, j \in S : Rank(S, i) = Rank(S, j) => i = j
  <2>. SUFFICES ASSUME NEW i \in S, NEW j \in S, Rank(S, i) = Rank(S, j), i # j PROVE FALSE
    OBVIOUS
  <2>1. i < j \/ j < i
    OBVIOUS
  <2>. QED
    BY <1>1, <2>1
<1>4. rank \in Injection(S, 1 .. c)
  <2>1. rank \in [S -> 1 .. c]
    BY <1>1
  <2>. QED
    BY <1>3, <2>1 DEF Injection, IsInjective
<1>5. Cardinality(1 .. c) = c /\ IsFiniteSet(1 .. c)
  BY <1>1, FS_Interval
<1>6. rank \in Surjection(S, 1 .. c)
  BY <1>4, <1>5, FS_Injection
<1>7. \A m \in 1 .. c : \E i \in S : Rank(S, i) = m
  BY <1>6 DEF Surjection
<1>8. \A m \in 1 .. c : xs[m] \in S /\ Rank(S, xs[m]) = m
  BY <1>2, <1>7
<1>9. xs \in Seq(S) /\ Len(xs) = c
  <2>1. xs \in [1 .. c -> S]
    BY <1>2, <1>7
  <2>. QED
    BY <1>1, <2>1
<1>10. ASSUME NEW p \in 1 .. c, NEW q \in 1 .. c, p < q PROVE xs[p] < xs[q]
  <2>1. xs[p] \in S /\ xs[q] \in S /\ Rank(S, xs[p]) = p /\ Rank(S, xs[q]) = q
    BY <1>8
  <2>. HIDE DEF xs
  <2>2. xs[p] \in 1 .. n /\ xs[q] \in 1 .. n /\ p \in 1 .. c /\ q \in 1 .. c
    BY <2>1
  <2>3. xs[p] < xs[q] \/ xs[p] = xs[q] \/ xs[q] < xs[p]
    BY <2>2
  <2>4. ~(xs[p] = xs[q])
    BY <1>10, <2>1, <2>2
  <2>5. ~(xs[q] < xs[p])
    <3>1. SUFFICES ASSUME xs[q] < xs[p] PROVE FALSE
      OBVIOUS
    <3>2. q < p
      BY <1>1, <2>1, <3>1
    <3>. QED
      BY <1>1, <1>10, <2>2, <3>2
  <2>. QED
    BY <2>3, <2>4, <2>5
<1>11. ASSUME NEW i \in S PROVE \E p \in 1 .. c : xs[p] = i
  BY <1>1, <1>3, <1>8
<1>. HIDE DEF c, xs
<1>12. Lists(xs, S)
  BY <1>1, <1>9, <1>10, <1>11 DEF Lists
<1>. QED
  BY <1>12 DEF xs

LEMMA RankListed ==
  ASSUME NEW n \in Nat, NEW S \in SUBSET (1 .. n), NEW xs, Lists(xs, S)
  PROVE  Len(xs) = Cardinality(S) /\ \A p \in 1 .. Len(xs) : Rank(S, xs[p]) = p
<1>1. /\ xs \in Seq(S) /\ Len(xs) \in Nat /\ DOMAIN xs = 1 .. Len(xs)
      /\ \A p \in 1 .. Len(xs) : xs[p] \in S /\ xs[p] \in 1 .. n
  BY LenProperties DEF Lists
<1>2. /\ \A p, q \in 1 .. Len(xs) : p < q => xs[p] < xs[q]
      /\ \A i \in S : \E p \in 1 .. Len(xs) : xs[p] = i
  BY DEF Lists
<1>3. \A p, q \in 1 .. Len(xs) : xs[p] <= xs[q] <=> p <= q
  <2>. SUFFICES ASSUME NEW p \in 1 .. Len(xs), NEW q \in 1 .. Len(xs) PROVE xs[p] <= xs[q] <=> p <= q
    OBVIOUS
  <2>1. xs[p] \in 1 .. n /\ xs[q] \in 1 .. n
    BY <1>1
  <2>2. p < q => xs[p] < xs[q]
    BY <1>2
  <2>3. q < p => xs[q] < xs[p]
    BY <1>2
  <2>4. p < q \/ p = q \/ q < p
    BY <1>1
  <2>5. CASE p = q
    BY <1>1, <2>1, <2>5
  <2>6. CASE p < q
    BY <1>1, <2>1, <2>2, <2>6
  <2>7. CASE q < p
    BY <1>1, <2>1, <2>3, <2>7
  <2>. QED
    BY <2>4, <2>5, <2>6, <2>7
<1>4. ASSUME NEW m \in 0 .. Len(xs), NEW T, T = {i \in S : \E p \in 1 .. m : xs[p] = i} PROVE Cardinality(T) = m
  <2>. DEFINE f == [p \in 1 .. m |-> xs[p]]
  <2>1. f \in [1 .. m -> T]
    BY <1>1, <1>4
  <2>2. f \in Surjection(1 .. m, T)
    BY <1>4, <2>1 DEF Surjection
  <2>3. \A p, q \in 1 .. m : f[p] = f[q] => p = q
    <3>. SUFFICES ASSUME NEW p \in 1 .. m, NEW q \in 1 .. m, xs[p] = xs[q] PROVE p = q
      OBVIOUS
    <3>1. p \in 1 .. Len(xs) /\ q \in 1 .. Len(xs)
      BY <1>1
    <3>2. xs[p] <= xs[q] /\ xs[q] <= xs[p]
      BY <1>1, <3>1
    <3>3. p <= q /\ q <= p
      BY <1>3, <3>1, <3>2
    <3>. QED
      BY <1>1, <3>3
  <2>4. f \in Injection(1 .. m, T)
    BY <2>1, <2>3 DEF Injection, IsInjective
  <2>5. IsFiniteSet(1 .. m) /\ Cardinality(1 .. m) = m
    BY <1>1, FS_Interval
  <2>. QED
    BY <2>2, <2>4, <2>5, FS_Surjection
<1>5. Len(xs) = Cardinality(S)
  <2>1. S = {i \in S : \E p \in 1 .. Len(xs) : xs[p] = i}
    BY <1>2
  <2>. QED
    BY <1>1, <1>4, <2>1
<1>6. ASSUME NEW p \in 1 .. Len(xs) PROVE Rank(S, xs[p]) = p
  <2>. DEFINE T == {j \in S : j <= xs[p]}
  <2>1. \A j \in S : j <= xs[p] <=> \E q \in 1 .. p : xs[q] = j
    <3>1. ASSUME NEW j \in S, j <= xs[p] PROVE \E q \in 1 .. p : xs[q] = j
      <4>1. PICK q \in 1 .. Len(xs) : xs[q] = j
        BY <1>2
      <4>2. q <= p
        BY <1>3, <3>1, <4>1
      <4>. QED
        BY <1>1, <4>1, <4>2
    <3>2. ASSUME NEW q \in 1 .. p PROVE xs[q] <= xs[p]
      <4>1. q \in 1 .. Len(xs) /\ q <= p
        BY <1>1
      <4>. QED
        BY <1>3, <4>1
    <3>. QED
      BY <3>1, <3>2
  <2>2. T = {j \in S : \E q \in 1 .. p : xs[q] = j}
    BY <2>1
  <2>. HIDE DEF T
  <2>3. Cardinality(T) = p
    BY <1>1, <1>4, <2>2
  <2>. QED
    BY <2>3 DEF T, Rank
<1>. QED
  BY <1>5, <1>6

LEMMA ListsAlike ==
  ASSUME NEW n \in Nat, NEW S \in SUBSET (1 .. n), NEW xs, Lists(xs, S)
  PROVE  xs = InOrder(S)
<1>. DEFINE ys == InOrder(S)
<1>1. Lists(ys, S)
  BY InOrderLists
<1>. HIDE DEF ys
<1>2. /\ xs \in Seq(S) /\ Len(xs) \in Nat /\ ys \in Seq(S)
      /\ \A p \in 1 .. Len(xs) : xs[p] \in S
      /\ \A p \in 1 .. Len(ys) : ys[p] \in S
  BY <1>1, LenProperties DEF Lists
<1>3. /\ Len(xs) = Len(ys)
      /\ \A p \in 1 .. Len(xs) : Rank(S, xs[p]) = p /\ Rank(S, ys[p]) = p
  BY <1>1, RankListed
<1>4. \A p \in 1 .. Len(xs) : xs[p] = ys[p]
  <2>. SUFFICES ASSUME NEW p \in 1 .. Len(xs) PROVE xs[p] = ys[p]
    OBVIOUS
  <2>1. xs[p] \in S /\ ys[p] \in S /\ Rank(S, xs[p]) = p /\ Rank(S, ys[p]) = p
    BY <1>2, <1>3
  <2>2. xs[p] \in 1 .. n /\ ys[p] \in 1 .. n
    BY <2>1
  <2>3. xs[p] < ys[p] => p < p
    BY <2>1, RankFacts
  <2>4. ys[p] < xs[p] => p < p
    BY <2>1, RankFacts
  <2>. QED
    BY <1>2, <2>2, <2>3, <2>4
<1>5. xs = ys
  BY <1>2, <1>3, <1>4, SeqEqual
<1>. QED
  BY <1>5 DEF ys

(***************************************************************************)
(* The blocks of a document and the order in which they are read.          *)
(***************************************************************************)
Formats == {"markdown", "docx", "text"}

DocumentInv ==
  /\ document.format \in Formats
  /\ blocks \in Seq(MarkdownBlocks \cup DocxBlocks \cup TextBlocks)
  /\ Len(blocks) \in Nat /\ DOMAIN blocks = 1 .. Len(blocks)
  /\ \A i \in 1 .. Len(blocks) :
       /\ document.format # "docx" => blocks[i].kind \notin {"row", "styled"}
       /\ blocks[i].kind = "fence" => blocks[i].mark \in Marks
       /\ blocks[i].kind \in {"heading", "styled"} => Level(i) \in Nat

IsRow(i) == blocks[i].kind = "row"

\* Block i is read before block j: the rows of the tables are read last.
Precedes(i, j) == IF IsRow(i) <=> IsRow(j) THEN i < j ELSE IsRow(j)

\* The text is the blocks of the document but for blank ones, in the order of reading;
\* all of them where a block is a line.
TextInv ==
  /\ text \in Seq(1 .. Len(blocks))
  /\ \A p, q \in 1 .. Len(text) : p < q => Precedes(text[p], text[q])
  /\ \A i \in 1 .. Len(blocks) : blocks[i].kind # "blank" => \E p \in 1 .. Len(text) : text[p] = i
  /\ document.format # "docx" => Len(text) = Len(blocks) /\ \A p \in 1 .. Len(text) : text[p] = p

LEMMA InitDocument == Init => DocumentInv
<1>. SUFFICES ASSUME Init PROVE DocumentInv
  OBVIOUS
<1>. DEFINE Made(format, some, n) == document \in [format : {format}, blocks : [1 .. n -> some]]
            Blocks == [f \in Formats |-> CASE f = "markdown" -> MarkdownBlocks
                                           [] f = "docx" -> DocxBlocks
                                           [] OTHER -> TextBlocks]
<1>1. \E format \in Formats, n \in Nat : Made(format, Blocks[format], n)
  <2>0. MaxBlocks \in Nat /\ MaxDocx \in Nat
    BY SizesAssumption
  <2>1. ASSUME NEW format, NEW some, NEW size \in Nat, Files(format, some, size)
        PROVE  \E n \in Nat : Made(format, some, n)
    BY <2>1 DEF Files
  <2>2. /\ "markdown" \in Formats /\ Blocks["markdown"] = MarkdownBlocks
        /\ "docx" \in Formats /\ Blocks["docx"] = DocxBlocks
        /\ "text" \in Formats /\ Blocks["text"] = TextBlocks
    BY DEF Formats
  <2>. HIDE DEF Made, Blocks
  <2>3. CASE Files("markdown", MarkdownBlocks, MaxBlocks)
    <3>1. \E n \in Nat : Made("markdown", MarkdownBlocks, n)
      BY <2>0, <2>1, <2>3
    <3>. QED
      BY <2>2, <3>1
  <2>4. CASE Files("docx", DocxBlocks, MaxDocx)
    <3>1. \E n \in Nat : Made("docx", DocxBlocks, n)
      BY <2>0, <2>1, <2>4
    <3>. QED
      BY <2>2, <3>1
  <2>5. CASE Files("text", TextBlocks, MaxBlocks)
    <3>1. \E n \in Nat : Made("text", TextBlocks, n)
      BY <2>0, <2>1, <2>5
    <3>. QED
      BY <2>2, <3>1
  <2>. QED
    BY <2>3, <2>4, <2>5 DEF Init
<1>7. PICK format \in Formats, n \in Nat : Made(format, Blocks[format], n)
  BY <1>1
<1>. DEFINE some == Blocks[format]
<1>2. /\ document.format = format
      /\ blocks \in [1 .. n -> some]
  BY <1>7 DEF blocks
<1>3. /\ Len(blocks) = n /\ DOMAIN blocks = 1 .. n
      /\ blocks \in Seq(MarkdownBlocks \cup DocxBlocks \cup TextBlocks)
  <2>1. some \subseteq MarkdownBlocks \cup DocxBlocks \cup TextBlocks
    BY DEF Formats
  <2>. HIDE DEF some
  <2>. QED
    BY <1>2, <2>1
<1>4. ASSUME NEW b \in Marked
      PROVE  /\ b.kind \notin {"row", "styled"}
             /\ b.kind = "fence" => b.mark \in Marks
             /\ LineOf(b) = b
             /\ b.kind = "heading" => b.level \in Nat
  BY <1>4, SizesAssumption DEF Marked, Heading, Fence, Text, Blank, LineOf
<1>5. ASSUME NEW m \in 0 .. MaxLevel, NEW toc \in BOOLEAN
      PROVE  /\ Styled(m, toc).kind = "styled"
             /\ LineOf(Styled(m, toc)).level \in Nat
  BY SizesAssumption DEF Styled, LineOf, Heading, Fewest
<1>6. ASSUME NEW i \in 1 .. n
      PROVE  /\ document.format # "docx" => blocks[i].kind \notin {"row", "styled"}
             /\ blocks[i].kind = "fence" => blocks[i].mark \in Marks
             /\ blocks[i].kind \in {"heading", "styled"} => LineOf(blocks[i]).level \in Nat
  <2>. DEFINE b == blocks[i]
  <2>1. b \in some
    BY <1>2
  <2>2. CASE b \in Marked
    BY <1>4, <2>2
  <2>3. CASE b = Row /\ format = "docx"
    BY <1>2, <2>3 DEF Row
  <2>4. CASE format = "docx" /\ b \in {Styled(m, toc) : m \in 0 .. MaxLevel, toc \in BOOLEAN}
    BY <1>2, <1>5, <2>4
  <2>. QED
    BY <1>1, <2>1, <2>2, <2>3, <2>4, BlocksAssumption DEF Formats
<1>. QED
  BY <1>1, <1>2, <1>3, <1>6 DEF DocumentInv, Level

LEMMA PrecedesOrders ==
  /\ \A i \in Nat : ~Precedes(i, i)
  /\ \A i, j, k \in Nat : Precedes(i, j) /\ Precedes(j, k) => Precedes(i, k)
  /\ \A i, j \in Nat : Precedes(i, j) \/ Precedes(j, i) \/ i = j
  BY DEF Precedes, IsRow

LEMMA LoadText ==
  ASSUME DocumentInv, Load PROVE TextInv'
<1>. DEFINE n == Len(blocks)
<1>1. n \in Nat /\ DOMAIN blocks = 1 .. n
  BY DEF DocumentInv
<1>2. blocks' = blocks /\ document' = document
  BY DEF Load, blocks
<1>3. CASE document.format # "docx"
  <2>1. text' = [i \in 1 .. n |-> i]
    BY <1>1, <1>3 DEF Load
  <2>2. text' \in Seq(1 .. n) /\ Len(text') = n /\ \A p \in 1 .. n : text'[p] = p
    BY <1>1, <2>1
  <2>3. \A p \in 1 .. n : ~IsRow(p)
    BY <1>3 DEF DocumentInv, IsRow
  <2>4. \A p, q \in 1 .. n : p < q => Precedes(p, q)
    BY <2>3 DEF Precedes
  <2>. QED
    BY <1>1, <1>2, <2>2, <2>4 DEF TextInv, Precedes, IsRow
<1>4. CASE document.format = "docx"
  <2>. DEFINE xs == InOrder(Paragraphs)
              ys == InOrder(Rows)
  <2>1. /\ Rows \in SUBSET (1 .. n) /\ \A i \in Rows : IsRow(i)
        /\ Paragraphs \in SUBSET (1 .. n) /\ \A i \in Paragraphs : ~IsRow(i)
        /\ \A i \in 1 .. n : blocks[i].kind # "blank" => i \in Rows \cup Paragraphs
    BY <1>1 DEF Rows, Paragraphs, IsRow
  <2>2. Lists(xs, Paragraphs) /\ Lists(ys, Rows)
    BY <1>1, <2>1, InOrderLists
  <2>3. text' = xs \o ys
    BY <1>4 DEF Load, DocxToMarkdown
  <2>. HIDE DEF xs, ys
  <2>4. xs \in Seq(1 .. n) /\ ys \in Seq(1 .. n)
    BY <2>1, <2>2, SeqMonotonic DEF Lists
  <2>5. /\ Len(xs) \in Nat /\ Len(ys) \in Nat
        /\ text' \in Seq(1 .. n)
        /\ Len(text') = Len(xs) + Len(ys)
        /\ \A p \in 1 .. Len(text') : text'[p] = IF p <= Len(xs) THEN xs[p] ELSE ys[p - Len(xs)]
    BY <2>3, <2>4, ConcatProperties, LenProperties
  <2>6. /\ \A p \in 1 .. Len(xs) : xs[p] \in Paragraphs
        /\ \A p \in 1 .. Len(ys) : ys[p] \in Rows
        /\ \A p, q \in 1 .. Len(xs) : p < q => xs[p] < xs[q]
        /\ \A p, q \in 1 .. Len(ys) : p < q => ys[p] < ys[q]
        /\ \A i \in Paragraphs : \E p \in 1 .. Len(xs) : xs[p] = i
        /\ \A i \in Rows : \E p \in 1 .. Len(ys) : ys[p] = i
    BY <2>2, LenProperties DEF Lists
  <2>7. ASSUME NEW p \in 1 .. Len(text'), NEW q \in 1 .. Len(text'), p < q
        PROVE  Precedes(text'[p], text'[q])
    <3>1. CASE q <= Len(xs)
      <4>1. text'[p] = xs[p] /\ text'[q] = xs[q] /\ p \in 1 .. Len(xs) /\ q \in 1 .. Len(xs)
        BY <2>5, <2>7, <3>1
      <4>. QED
        BY <2>1, <2>6, <2>7, <4>1 DEF Precedes
    <3>2. CASE p <= Len(xs) /\ ~(q <= Len(xs))
      <4>1. text'[p] = xs[p] /\ text'[q] = ys[q - Len(xs)] /\ p \in 1 .. Len(xs) /\ q - Len(xs) \in 1 .. Len(ys)
        BY <2>5, <2>7, <3>2
      <4>. QED
        BY <2>1, <2>6, <4>1 DEF Precedes
    <3>3. CASE ~(p <= Len(xs))
      <4>1. /\ text'[p] = ys[p - Len(xs)] /\ text'[q] = ys[q - Len(xs)]
            /\ p - Len(xs) \in 1 .. Len(ys) /\ q - Len(xs) \in 1 .. Len(ys)
            /\ p - Len(xs) < q - Len(xs)
        BY <2>5, <2>7, <3>3
      <4>. QED
        BY <2>1, <2>6, <4>1 DEF Precedes
    <3>. QED
      BY <2>5, <3>1, <3>2, <3>3
  <2>8. ASSUME NEW i \in 1 .. n, blocks[i].kind # "blank" PROVE \E p \in 1 .. Len(text') : text'[p] = i
    <3>1. CASE i \in Paragraphs
      <4>1. PICK p \in 1 .. Len(xs) : xs[p] = i
        BY <2>6, <3>1
      <4>2. p <= Len(xs) /\ p \in 1 .. Len(text')
        BY <2>5
      <4>3. text'[p] = xs[p]
        BY <2>5, <4>2
      <4>. QED
        BY <4>1, <4>2, <4>3
    <3>2. CASE i \in Rows
      <4>1. PICK p \in 1 .. Len(ys) : ys[p] = i
        BY <2>6, <3>2
      <4>2. p + Len(xs) \in 1 .. Len(text') /\ ~(p + Len(xs) <= Len(xs)) /\ (p + Len(xs)) - Len(xs) = p
        BY <2>5
      <4>. QED
        BY <2>5, <4>1, <4>2
    <3>. QED
      BY <2>1, <2>8, <3>1, <3>2
  <2>. QED
    BY <1>1, <1>2, <1>4, <2>5, <2>7, <2>8 DEF TextInv, Precedes, IsRow
<1>. QED
  BY <1>3, <1>4

\* What block b makes of the mark that is open before it.
FenceAfter(open, b) ==
  IF b.kind # "fence" \/ open \notin {NoHeading, b.mark} THEN open
  ELSE IF open = b.mark THEN NoHeading ELSE b.mark

LEMMA OpenFenceFolds ==
  ASSUME DocumentInv, NEW m \in 0 .. Len(blocks), NEW step,
         step = [kv \in (1 .. Len(blocks)) \X ({NoHeading} \cup Marks) |-> FenceAfter(kv[2], blocks[kv[1]])]
  PROVE  \E acc : /\ Accumulates(acc, m, {NoHeading} \cup Marks, NoHeading, step)
                  /\ acc[m] = OpenFence(m + 1)
<1>. DEFINE V == {NoHeading} \cup Marks
            xs == SubSeq(blocks, 1, m)
            Folds(g) == g = [t \in SUBSET (1 .. m) |->
                               IF t = {} THEN NoHeading
                               ELSE FenceAfter(g[t \ {Max(t)}], xs[Max(t)])]
            iter == CHOOSE g : Folds(g)
<1>0. /\ m \in Nat /\ m <= Len(blocks)
      /\ \A k \in 1 .. m : k \in 1 .. Len(blocks)
      /\ \A k \in 1 .. Len(blocks) : blocks[k].kind = "fence" => blocks[k].mark \in Marks
  BY DEF DocumentInv
<1>1. DOMAIN xs = 1 .. m /\ \A k \in 1 .. m : xs[k] = blocks[k]
  <2>1. /\ xs \in Seq(MarkdownBlocks \cup DocxBlocks \cup TextBlocks)
        /\ Len(xs) = m /\ \A k \in 1 .. m : xs[k] = blocks[k]
    BY <1>0, SubSeqProperties DEF DocumentInv
  <2>. QED
    BY <2>1, LenProperties
<1>2. OpenFence(m + 1) = iter[1 .. m]
  <2>1. (m + 1) - 1 = m
    BY <1>0
  <2>2. OpenFence(m + 1) = FoldLeft(LAMBDA open, b : FenceAfter(open, b), NoHeading, xs)
    BY <2>1 DEF OpenFence, FenceAfter
  <2>. HIDE DEF xs
  <2>. QED
    BY <1>1, <2>2 DEF FoldLeft, MapThenFoldSet
<1>3. \A k \in 1 .. m, v \in V : step[<<k, v>>] = FenceAfter(v, xs[k])
  BY <1>0, <1>1
<1>4. StaysWithin(step, m, V)
  <2>1. ASSUME NEW k \in 1 .. m, NEW v \in V PROVE FenceAfter(v, xs[k]) \in V
    <3>1. xs[k] = blocks[k] /\ (blocks[k].kind = "fence" => blocks[k].mark \in Marks)
      BY <1>0, <1>1
    <3>. HIDE DEF xs
    <3>. QED
      BY <3>1 DEF FenceAfter
  <2>. QED
    BY <1>3, <2>1 DEF StaysWithin
<1>. HIDE DEF xs
<1>5. PICK g : IsFold(g, 1 .. m, V, NoHeading, Largest(m), step)
  <2>1. NoHeading \in V
    OBVIOUS
  <2>. HIDE DEF V
  <2>. QED
    BY <1>0, <1>4, <2>1, SequenceFoldExists
<1>6. Folds(g)
  <2>1. ASSUME NEW t \in SUBSET (1 .. m), t # {}
        PROVE  step[<<Max(t), g[t \ {Max(t)}]>>] = FenceAfter(g[t \ {Max(t)}], xs[Max(t)])
    <3>1. Max(t) \in 1 .. m
      BY <1>0, <2>1, Maximum
    <3>2. g[t \ {Max(t)}] \in V
      BY <1>5 DEF IsFold
    <3>. DEFINE l == Max(t)
                v == g[t \ {l}]
    <3>3. l \in 1 .. m /\ v \in V
      BY <3>1, <3>2
    <3>. HIDE DEF V, l, v
    <3>4. step[<<l, v>>] = FenceAfter(v, xs[l])
      BY ONLY <1>3, <3>3
    <3>. QED
      BY <3>4, Zenon DEF l, v
  <2>. HIDE DEF V
  <2>. QED
    BY ONLY <1>5, <2>1 DEF IsFold, Largest
<1>7. Folds(iter)
  BY <1>6
<1>. HIDE DEF iter
<1>8. /\ iter = [t \in SUBSET (1 .. m) |-> iter[t]]
      /\ iter[{}] = NoHeading
      /\ \A t \in SUBSET (1 .. m) : t # {} => iter[t] = FenceAfter(iter[t \ {Max(t)}], xs[Max(t)])
  BY <1>7
<1>9. NoHeading \in V
  OBVIOUS
<1>. HIDE DEF V
<1>10. ASSUME NEW t \in SUBSET (1 .. m), t # {}, iter[t \ {Max(t)}] \in V
       PROVE  iter[t] = step[<<Max(t), iter[t \ {Max(t)}]>>]
  <2>1. Max(t) \in 1 .. m
    BY <1>0, <1>10, Maximum
  <2>. QED
    BY <1>3, <1>8, <1>10, <2>1
<1>11. FoldsWithin(iter, m, V, NoHeading, step)
  BY <1>8, <1>10 DEF FoldsWithin
<1>12. \E acc : Accumulates(acc, m, V, NoHeading, step) /\ acc[m] = iter[1 .. m]
  BY <1>0, <1>4, <1>9, <1>11, SequenceFoldIs
<1>. QED
  BY <1>2, <1>12 DEF V

\* Two folds by the same step go the same way.
LEMMA FoldsAgree ==
  ASSUME NEW m \in Nat, NEW n \in Nat, m <= n, NEW V, NEW base, NEW step, NEW acc, NEW more,
         Accumulates(acc, m, V, base, step), Accumulates(more, n, V, base, step)
  PROVE  \A k \in 0 .. m : acc[k] = more[k]
<1>. DEFINE T == {k \in 0 .. m : acc[k] = more[k]}
<1>1. 0 \in T
  BY DEF Accumulates
<1>2. ASSUME NEW k \in 1 .. m, k - 1 \in T PROVE k \in T
  <2>1. k \in 1 .. n /\ k \in 0 .. m
    OBVIOUS
  <2>2. acc[k] = step[<<k, acc[k - 1]>>] /\ more[k] = step[<<k, more[k - 1]>>]
    BY <2>1 DEF Accumulates
  <2>3. acc[k - 1] = more[k - 1]
    BY <1>2
  <2>. QED
    BY <2>1, <2>2, <2>3
<1>3. \A k \in 0 .. m : k \in T
  <2>. HIDE DEF T
  <2>. QED
    BY <1>1, <1>2, BoundedInduction
<1>. QED
  BY <1>3

\* The mark that is open, block by block.
LEMMA OpenFenceSteps ==
  ASSUME DocumentInv
  PROVE  /\ OpenFence(1) = NoHeading
         /\ \A i \in 1 .. Len(blocks) : /\ OpenFence(i) \in {NoHeading} \cup Marks
                                        /\ OpenFence(i + 1) = FenceAfter(OpenFence(i), blocks[i])
<1>. DEFINE V == {NoHeading} \cup Marks
            n == Len(blocks)
            step == [kv \in (1 .. n) \X V |-> FenceAfter(kv[2], blocks[kv[1]])]
<1>0. n \in Nat
  BY DEF DocumentInv
<1>1. \A m \in 0 .. n : \E acc : Accumulates(acc, m, V, NoHeading, step) /\ acc[m] = OpenFence(m + 1)
  BY OpenFenceFolds
<1>2. PICK all : Accumulates(all, n, V, NoHeading, step)
  <2>1. n \in 0 .. n
    BY <1>0
  <2>. HIDE DEF step, V, n
  <2>. QED
    BY <1>1, <2>1
<1>3. \A m \in 0 .. n : all[m] = OpenFence(m + 1)
  <2>. SUFFICES ASSUME NEW m \in 0 .. n PROVE all[m] = OpenFence(m + 1)
    OBVIOUS
  <2>1. m \in Nat /\ m <= n /\ m \in 0 .. m
    BY <1>0
  <2>2. PICK acc : Accumulates(acc, m, V, NoHeading, step) /\ acc[m] = OpenFence(m + 1)
    BY <1>1
  <2>. HIDE DEF step, V, n
  <2>3. \A k \in 0 .. m : acc[k] = all[k]
    BY <1>0, <1>2, <2>1, <2>2, FoldsAgree
  <2>. QED
    BY <2>1, <2>2, <2>3
<1>4. \A k \in 1 .. n, v \in V : step[<<k, v>>] = FenceAfter(v, blocks[k])
  OBVIOUS
<1>. HIDE DEF step, V
<1>5. /\ all[0] = NoHeading
      /\ \A k \in 0 .. n : all[k] \in V
      /\ \A k \in 1 .. n : all[k] = step[<<k, all[k - 1]>>]
  BY <1>2 DEF Accumulates
<1>6. ASSUME NEW i \in 1 .. n PROVE OpenFence(i) \in V /\ OpenFence(i + 1) = FenceAfter(OpenFence(i), blocks[i])
  <2>1. i - 1 \in 0 .. n /\ i \in 0 .. n /\ (i - 1) + 1 = i
    BY <1>0
  <2>2. all[i - 1] = OpenFence(i) /\ all[i] = OpenFence(i + 1)
    BY <1>3, <2>1
  <2>. QED
    BY <1>4, <1>5, <2>1, <2>2
<1>7. OpenFence(1) = NoHeading
  <2>1. 0 \in 0 .. n /\ 0 + 1 = 1
    BY <1>0
  <2>. QED
    BY <1>3, <1>5, <2>1
<1>. QED
  BY <1>6, <1>7 DEF V

(***************************************************************************)
(* What is seen of a document so far.                                      *)
(***************************************************************************)
Seen(l) == {h \in Headings : \E p \in 1 .. l - 1 : text[p] = h}

Standing(H) == {h \in H : \A j \in H : j > h => Level(j) > Level(h)}

LEMMA HeadingFacts ==
  ASSUME DocumentInv
  PROVE  /\ Headings \in SUBSET (1 .. Len(blocks))
         /\ \A h \in Headings : /\ Level(h) \in Nat
                               /\ ~IsRow(h) /\ blocks[h].kind # "blank"
  BY DEF DocumentInv, Headings, IsRow

LEMMA TextFacts ==
  ASSUME DocumentInv, TextInv
  PROVE  /\ Len(text) \in Nat /\ DOMAIN text = 1 .. Len(text)
         /\ \A p \in 1 .. Len(text) : text[p] \in 1 .. Len(blocks)
         /\ \A p, q \in 1 .. Len(text) : Precedes(text[p], text[q]) <=> p < q
         /\ \A p, q \in 1 .. Len(text) : text[p] = text[q] => p = q
<1>1. /\ Len(text) \in Nat /\ DOMAIN text = 1 .. Len(text)
      /\ \A p \in 1 .. Len(text) : text[p] \in 1 .. Len(blocks) /\ text[p] \in Nat
  BY LenProperties DEF TextInv, DocumentInv
<1>2. \A p, q \in 1 .. Len(text) : p < q => Precedes(text[p], text[q])
  BY DEF TextInv
<1>3. ASSUME NEW p \in 1 .. Len(text), NEW q \in 1 .. Len(text), Precedes(text[p], text[q])
      PROVE  p < q
  <2>1. ~(q < p)
    BY <1>1, <1>2, <1>3, PrecedesOrders
  <2>2. p # q
    BY <1>1, <1>3, PrecedesOrders
  <2>. QED
    BY <1>1, <2>1, <2>2
<1>4. ASSUME NEW p \in 1 .. Len(text), NEW q \in 1 .. Len(text), text[p] = text[q] PROVE p = q
  <2>1. ~(p < q) /\ ~(q < p)
    BY <1>1, <1>2, <1>4, PrecedesOrders
  <2>. QED
    BY <1>1, <2>1
<1>. QED
  BY <1>1, <1>2, <1>3, <1>4

\* The headings before a line are those that have been read.
LEMMA BeforeIsSeen ==
  ASSUME DocumentInv, TextInv, NEW l \in 1 .. Len(text)
  PROVE  Before(text[l]) = Seen(l)
<1>. DEFINE i == text[l]
<1>1. /\ Len(text) \in Nat
      /\ \A p \in 1 .. Len(text) : text[p] \in 1 .. Len(blocks)
      /\ \A p, q \in 1 .. Len(text) : Precedes(text[p], text[q]) <=> p < q
  BY TextFacts
<1>2. i \in 1 .. Len(blocks) /\ Len(blocks) \in Nat
  BY <1>1 DEF DocumentInv
<1>3. ASSUME NEW h \in Headings
      PROVE  h < Place(i) <=> \E p \in 1 .. l - 1 : text[p] = h
  <2>1. h \in 1 .. Len(blocks) /\ ~IsRow(h) /\ blocks[h].kind # "blank"
    BY HeadingFacts
  <2>2. PICK p \in 1 .. Len(text) : text[p] = h
    BY <2>1 DEF TextInv
  <2>. HIDE DEF i
  <2>3. h < Place(i) <=> Precedes(h, i)
    BY <1>2, <2>1 DEF Place, Precedes, IsRow
  <2>. USE DEF i
  <2>4. h < Place(i) <=> p < l
    BY <1>1, <2>2, <2>3
  <2>5. ASSUME NEW q \in 1 .. l - 1, text[q] = h PROVE p < l
    <3>1. q \in 1 .. Len(text) /\ q < l
      BY <1>1
    <3>. QED
      BY <1>1, <2>2, <2>5, <3>1
  <2>6. p < l => p \in 1 .. l - 1
    BY <1>1
  <2>. QED
    BY <2>2, <2>4, <2>5, <2>6
<1>. QED
  BY <1>3 DEF Before, Seen

LEMMA SeenFacts ==
  ASSUME DocumentInv, TextInv, NEW l \in 1 .. Len(text)
  PROVE  /\ Seen(1) = {}
         /\ Seen(l) \in SUBSET (1 .. Len(blocks)) /\ \A h \in Seen(l) : Level(h) \in Nat
         /\ text[l] \in Headings => Seen(l + 1) = Seen(l) \cup {text[l]} /\ \A h \in Seen(l) : h < text[l]
         /\ text[l] \notin Headings => Seen(l + 1) = Seen(l)
<1>1. /\ Len(text) \in Nat
      /\ \A p \in 1 .. Len(text) : text[p] \in 1 .. Len(blocks)
      /\ \A p, q \in 1 .. Len(text) : Precedes(text[p], text[q]) <=> p < q
  BY TextFacts
<1>2. (l + 1) - 1 = l /\ 1 .. l = (1 .. l - 1) \cup {l}
  BY <1>1
<1>3. Seen(1) = {}
  <2>1. 1 .. 1 - 1 = {}
    OBVIOUS
  <2>. QED
    BY <2>1 DEF Seen
<1>4. \A h : h \in Seen(l + 1) <=> h \in Seen(l) \/ (h \in Headings /\ text[l] = h)
  <2>1. Seen(l + 1) = {h \in Headings : \E p \in 1 .. l : text[p] = h}
    BY <1>2 DEF Seen
  <2>2. \A h : (\E p \in 1 .. l : text[p] = h) <=> (\E p \in 1 .. l - 1 : text[p] = h) \/ text[l] = h
    <3>. DEFINE fewer == 1 .. l - 1
    <3>1. 1 .. l = fewer \cup {l}
      BY <1>2
    <3>. HIDE DEF fewer
    <3>2. \A h : (\E p \in 1 .. l : text[p] = h) <=> (\E p \in fewer : text[p] = h) \/ text[l] = h
      BY <3>1
    <3>. QED
      BY <3>2 DEF fewer
  <2>3. ASSUME NEW h \in Headings
        PROVE  h \in Seen(l + 1) <=> h \in Seen(l) \/ text[l] = h
    <3>1. h \in Seen(l + 1) <=> \E p \in 1 .. l : text[p] = h
      BY <2>1, <2>3
    <3>2. h \in Seen(l) <=> \E p \in 1 .. l - 1 : text[p] = h
      BY <2>3 DEF Seen
    <3>. QED
      BY <2>2, <3>1, <3>2
  <2>4. \A h : h \in Seen(l + 1) \/ h \in Seen(l) => h \in Headings
    BY DEF Seen
  <2>. DEFINE later == Seen(l + 1)
              now == Seen(l)
  <2>5. /\ \A h \in Headings : h \in later <=> h \in now \/ text[l] = h
        /\ \A h : h \in later \/ h \in now => h \in Headings
    BY <2>3, <2>4
  <2>. HIDE DEF later, now
  <2>6. \A h : h \in later <=> h \in now \/ (h \in Headings /\ text[l] = h)
    BY <2>5
  <2>. QED
    BY <2>6 DEF later, now
<1>5. ASSUME NEW h \in Seen(l), text[l] \in Headings PROVE h < text[l]
  <2>1. PICK p \in 1 .. l - 1 : text[p] = h
    BY DEF Seen
  <2>2. p \in 1 .. Len(text) /\ p < l
    BY <1>1
  <2>3. Precedes(h, text[l]) /\ ~IsRow(h) /\ ~IsRow(text[l])
    BY <1>1, <1>5, <2>1, <2>2, HeadingFacts DEF Seen
  <2>. QED
    BY <2>3 DEF Precedes
<1>. QED
  BY <1>3, <1>4, <1>5, HeadingFacts DEF Seen

(***************************************************************************)
(* The stack of headings.                                                  *)
(***************************************************************************)
LEMMA StandingFacts ==
  ASSUME NEW n \in Nat, NEW H \in SUBSET (1 .. n), \A h \in H : Level(h) \in Nat
  PROVE  /\ Standing(H) \in SUBSET H
         /\ \A h, j \in Standing(H) : h < j => Level(h) < Level(j)
         /\ Nearest(Standing(H)) = Nearest(H)
         /\ Standing({}) = {} /\ Nearest({}) = NoHeading
<1>0. \A h \in H : h \in 1 .. n /\ h \in 0 .. n
  OBVIOUS
<1>1. Standing(H) \in SUBSET H /\ Standing({}) = {}
  BY DEF Standing
<1>2. \A h, j \in Standing(H) : h < j => Level(h) < Level(j)
  BY <1>0 DEF Standing
<1>3. CASE H = {}
  BY <1>1, <1>2, <1>3 DEF Nearest
<1>4. CASE H # {}
  <2>. DEFINE m == Max(H)
  <2>1. m \in H /\ \A h \in H : h <= m
    BY <1>0, <1>4, Greatest
  <2>. HIDE DEF m
  <2>2. m \in Standing(H)
    BY <1>0, <2>1 DEF Standing
  <2>3. Standing(H) \in SUBSET (0 .. n) /\ \A h \in Standing(H) : h <= m
    BY <1>0, <1>1, <2>1
  <2>4. Max(Standing(H)) = m
    BY <2>2, <2>3, MaxIs
  <2>. QED
    BY <1>1, <1>2, <1>4, <2>2, <2>4 DEF Nearest, m
<1>. QED
  BY <1>3, <1>4

\* A heading that is read next ends those of its level and deeper, and stands itself.
LEMMA StandingMore ==
  ASSUME NEW n \in Nat, NEW H \in SUBSET (1 .. n), \A h \in H : Level(h) \in Nat,
         NEW i \in 1 .. n, Level(i) \in Nat, \A h \in H : h < i
  PROVE  /\ Standing(H \cup {i}) = {h \in Standing(H) : Level(h) < Level(i)} \cup {i}
         /\ Nearest(H \cup {i}) = i
<1>0. \A h \in H : h \in 1 .. n /\ h < i
  OBVIOUS
<1>1. \A h : h \in Standing(H \cup {i}) <=> (h \in Standing(H) /\ Level(h) < Level(i)) \/ h = i
  <2>1. ASSUME NEW h \in H
        PROVE  h \in Standing(H \cup {i}) <=> h \in Standing(H) /\ Level(h) < Level(i)
    BY <1>0 DEF Standing
  <2>2. i \in Standing(H \cup {i})
    BY <1>0 DEF Standing
  <2>3. i \notin H /\ \A h \in Standing(H) : h \in H
    BY <1>0 DEF Standing
  <2>4. \A h \in Standing(H \cup {i}) : h \in H \/ h = i
    BY DEF Standing
  <2>. QED
    BY <2>1, <2>2, <2>3, <2>4
<1>2. Max(H \cup {i}) = i
  <2>1. H \cup {i} \in SUBSET (0 .. n) /\ \A h \in H \cup {i} : h <= i
    BY <1>0
  <2>. QED
    BY <2>1, MaxIs
<1>. QED
  BY <1>1, <1>2 DEF Nearest

\* What Popped leaves of a list of headings, with the new one.
LEMMA PopAndPush ==
  ASSUME NEW n \in Nat, NEW H \in SUBSET (1 .. n), \A h \in H : Level(h) \in Nat,
         NEW i \in 1 .. n, Level(i) \in Nat, \A h \in H : h < i,
         Lists(stack, Standing(H))
  PROVE  Lists(Append(Popped(Level(i)), i), Standing(H \cup {i}))
<1>. DEFINE S == Standing(H)
            c == Len(stack)
            level == Level(i)
            ks == {k \in DOMAIN stack : Level(stack[k]) < level}
            m == Max({0} \cup ks)
            left == SubSeq(stack, 1, m)
            more == Append(left, i)
            M == Standing(H \cup {i})
<1>1. S \in SUBSET (1 .. n) /\ S \in SUBSET H /\ \A h, j \in S : h < j => Level(h) < Level(j)
  BY StandingFacts
<1>2. /\ stack \in Seq(1 .. n) /\ c \in Nat /\ DOMAIN stack = 1 .. c
      /\ \A p \in 1 .. c : stack[p] \in S /\ stack[p] \in 1 .. n
      /\ \A p, q \in 1 .. c : p < q => stack[p] < stack[q]
      /\ \A h \in S : \E p \in 1 .. c : stack[p] = h
  <2>. DEFINE xs == stack
  <2>1. Lists(xs, S) /\ S \in SUBSET (1 .. n)
    BY <1>1
  <2>. HIDE DEF S, xs
  <2>2. /\ xs \in Seq(1 .. n) /\ Len(xs) \in Nat /\ DOMAIN xs = 1 .. Len(xs)
        /\ \A p \in 1 .. Len(xs) : xs[p] \in S /\ xs[p] \in 1 .. n
        /\ \A p, q \in 1 .. Len(xs) : p < q => xs[p] < xs[q]
        /\ \A h \in S : \E p \in 1 .. Len(xs) : xs[p] = h
    <3>1. /\ xs \in Seq(S) /\ Len(xs) \in Nat /\ DOMAIN xs = 1 .. Len(xs)
          /\ \A p \in 1 .. Len(xs) : xs[p] \in S /\ xs[p] \in 1 .. n
      <4>1. xs \in Seq(S)
        BY <2>1 DEF Lists
      <4>2. Len(xs) \in Nat /\ DOMAIN xs = 1 .. Len(xs) /\ xs \in [1 .. Len(xs) -> S]
        BY <4>1, LenProperties
      <4>3. \A p \in 1 .. Len(xs) : xs[p] \in S
        BY <4>2
      <4>. QED
        BY <2>1, <4>1, <4>2, <4>3
    <3>2. xs \in Seq(1 .. n)
      BY <2>1, <3>1, SeqMonotonic
    <3>. QED
      BY <2>1, <3>1, <3>2 DEF Lists
  <2>. QED
    BY <2>2 DEF xs
<1>3. \A p \in 1 .. c : Level(stack[p]) \in Nat /\ stack[p] < i
  BY <1>1, <1>2
<1>4. M = {h \in S : Level(h) < level} \cup {i}
  BY StandingMore
<1>. HIDE DEF S, M, level
<1>5. level \in Nat
  BY DEF level
<1>6. m \in {0} \cup ks /\ \A k \in {0} \cup ks : k <= m
  <2>1. {0} \cup ks \in SUBSET (0 .. c) /\ {0} \cup ks # {}
    BY <1>2
  <2>. HIDE DEF ks, c
  <2>. QED
    BY <1>2, <2>1, Greatest
<1>7. m \in 0 .. c
  BY <1>2, <1>6
<1>8. ASSUME NEW k \in 1 .. c PROVE Level(stack[k]) < level <=> k <= m
  <2>1. Level(stack[k]) < level => k <= m
    BY <1>2, <1>6
  <2>2. ASSUME k <= m PROVE Level(stack[k]) < level
    <3>1. m \in ks /\ m \in 1 .. c /\ Level(stack[m]) < level
      BY <1>2, <1>6, <1>7, <2>2
    <3>2. k = m \/ k < m
      BY <1>7, <2>2
    <3>3. k < m => Level(stack[k]) < Level(stack[m])
      BY <1>1, <1>2, <3>1
    <3>. QED
      BY <1>3, <1>5, <3>1, <3>2, <3>3
  <2>. QED
    BY <2>1, <2>2
<1>. HIDE DEF ks, m
<1>9. /\ left \in Seq(1 .. n) /\ Len(left) = m
      /\ \A k \in 1 .. m : k \in 1 .. c /\ left[k] = stack[k]
  <2>1. \A k \in 1 .. m : k \in 1 .. c /\ stack[k] \in 1 .. n
    BY <1>2, <1>7
  <2>. QED
    BY <1>7, <2>1, SubSeqProperties
<1>. HIDE DEF left
<1>10. /\ more \in Seq(1 .. n) /\ Len(more) = m + 1
       /\ \A k \in 1 .. m + 1 : more[k] = IF k = m + 1 THEN i ELSE left[k]
  BY <1>7, <1>9, AppendProperties
<1>11. /\ \A k \in 1 .. m : more[k] = stack[k] /\ k \in 1 .. c
       /\ more[m + 1] = i
  <2>1. \A k \in 1 .. m : k \in 1 .. m + 1 /\ k # m + 1
    BY <1>7
  <2>2. m + 1 \in 1 .. m + 1
    BY <1>7
  <2>. QED
    BY <1>9, <1>10, <2>1, <2>2
<1>. HIDE DEF more, c
<1>12. 1 .. m + 1 = (1 .. m) \cup {m + 1}
  BY <1>7
<1>13. ASSUME NEW k \in 1 .. m + 1 PROVE more[k] \in M
  <2>1. CASE k = m + 1
    BY <1>4, <1>11, <2>1
  <2>2. CASE k \in 1 .. m
    <3>1. more[k] = stack[k] /\ k \in 1 .. c /\ stack[k] \in S
      BY <1>2, <1>11, <2>2
    <3>2. k <= m
      BY <1>7, <2>2
    <3>. QED
      BY <1>4, <1>8, <3>1, <3>2
  <2>. QED
    BY <1>12, <2>1, <2>2
<1>14. more \in Seq(M)
  BY <1>7, <1>10, <1>13, SeqOfRange, LenProperties
<1>15. ASSUME NEW p \in 1 .. m + 1, NEW q \in 1 .. m + 1, p < q PROVE more[p] < more[q]
  <2>1. p \in 1 .. m
    BY <1>7, <1>15
  <2>2. CASE q = m + 1
    BY <1>3, <1>11, <2>1, <2>2
  <2>3. CASE q \in 1 .. m
    BY <1>2, <1>11, <1>15, <2>1, <2>3
  <2>. QED
    BY <1>12, <2>2, <2>3
<1>16. ASSUME NEW h \in M PROVE \E k \in 1 .. m + 1 : more[k] = h
  <2>1. CASE h = i
    BY <1>7, <1>11, <2>1
  <2>2. CASE h \in S /\ Level(h) < level
    <3>1. PICK k \in 1 .. c : stack[k] = h
      BY <1>2, <2>2
    <3>2. k <= m
      BY <1>8, <2>2, <3>1
    <3>3. k \in 1 .. m
      BY <1>2, <1>7, <3>2
    <3>. QED
      BY <1>11, <1>12, <3>1, <3>3
  <2>. QED
    BY <1>4, <2>1, <2>2
<1>17. Lists(more, M)
  BY <1>10, <1>14, <1>15, <1>16 DEF Lists
<1>. QED
  BY <1>17 DEF more, M, left, m, ks, level, Popped

(***************************************************************************)
(* The invariant of split_markdown.                                        *)
(***************************************************************************)
\* xs is the text from place a to place b.
IsSlice(xs, a, b) ==
  /\ xs \in Seq(1 .. Len(blocks))
  /\ Len(xs) = b - a + 1
  /\ \A q \in 1 .. Len(xs) : xs[q] = text[a + q - 1]

\* Block x stands where the section says.
Belongs(sec, x) ==
  /\ x \notin Headings
  /\ ~Skipped(Nearest(Before(x)))
  /\ Lists(sec.path, Above(x))
  /\ sec.heading = Nearest(Above(x))

\* A section is a part of the text up to place c.
SectionOK(sec, c) ==
  /\ \E a \in 1 .. c : \E b \in a .. c : IsSlice(sec.body, a, b)
  /\ \A q \in 1 .. Len(sec.body) : Belongs(sec, sec.body[q])

Comes(xs, ys) == \A q \in 1 .. Len(xs), r \in 1 .. Len(ys) : Precedes(xs[q], ys[r])

Section == [heading : Nat \cup {NoHeading}, path : Seq(Nat), body : Seq(Nat)]

\* The sections have all of the text up to place c that is to be found, in order.
SectionsInv(secs, c) ==
  /\ secs \in Seq(Section)
  /\ \A k \in 1 .. Len(secs) : SectionOK(secs[k], c)
  /\ \A k, l \in 1 .. Len(secs) : k < l => Comes(secs[k].body, secs[l].body)
  /\ \A p \in 1 .. c : Indexable(text[p]) =>
       \E k \in 1 .. Len(secs) : \E q \in 1 .. Len(secs[k].body) : secs[k].body[q] = text[p]

\* The lines of the current section are those after place c.
LinesInv(c) ==
  /\ c \in 0 .. line - 1
  /\ IsSlice(lines, c + 1, line - 1)
  /\ \A p \in c + 1 .. line - 1 : text[p] \notin Headings

FenceInv ==
  /\ in_fence \in BOOLEAN
  /\ in_fence <=> document.format = "markdown" /\ OpenFence(line) # NoHeading

SplitInv ==
  /\ line \in 1 .. Len(text) + 1
  /\ FenceInv
  /\ Lists(stack, Standing(Seen(line)))
  /\ cur = [heading |-> Nearest(Seen(line)), path |-> stack]
  /\ \E c \in Nat : LinesInv(c) /\ SectionsInv(sections, c)

\* A document that is read by the same text looks the same.
LEMMA SameReading ==
  ASSUME UNCHANGED document
  PROVE  /\ blocks' = blocks /\ Headings' = Headings
         /\ \A i : /\ OpenFence(i)' = OpenFence(i)
                  /\ Level(i)' = Level(i) /\ Place(i)' = Place(i)
                  /\ Before(i)' = Before(i) /\ Above(i)' = Above(i)
                  /\ IsRow(i)' = IsRow(i) /\ Skipped(i)' = Skipped(i)
                  /\ Indexable(i)' = Indexable(i)
         /\ \A i, j : Precedes(i, j)' = Precedes(i, j)
         /\ Plain' = Plain /\ DocumentInv' = DocumentInv
<1>1. blocks' = blocks
  BY DEF blocks
<1>2. \A i : OpenFence(i)' = OpenFence(i)
  BY <1>1 DEF OpenFence, FoldLeft, MapThenFoldSet
<1>3. Headings' = Headings
  BY <1>1, <1>2 DEF Headings
<1>4. \A i : /\ Level(i)' = Level(i) /\ Place(i)' = Place(i)
            /\ IsRow(i)' = IsRow(i) /\ Skipped(i)' = Skipped(i)
  BY <1>1 DEF Level, Place, IsRow, Skipped
<1>5. \A i : Before(i)' = Before(i)
  BY <1>3, <1>4 DEF Before
<1>6. \A i : Above(i)' = Above(i)
  BY <1>4, <1>5 DEF Above
<1>7. \A i : Indexable(i)' = Indexable(i)
  BY <1>1, <1>3, <1>4, <1>5 DEF Indexable
<1>8. \A i, j : Precedes(i, j)' = Precedes(i, j)
  BY <1>4 DEF Precedes
<1>9. Plain' = Plain
  BY <1>1, <1>2 DEF Plain
<1>10. DocumentInv' = DocumentInv
  BY <1>1, <1>4 DEF DocumentInv
<1>. QED
  BY <1>1, <1>2, <1>3, <1>4, <1>5, <1>6, <1>7, <1>8, <1>9, <1>10

LEMMA SameText ==
  ASSUME UNCHANGED <<document, text>>
  PROVE  /\ TextInv' = TextInv
         /\ \A l : Seen(l)' = Seen(l)
         /\ \A H : Standing(H)' = Standing(H)
         /\ \A xs, a, b : IsSlice(xs, a, b)' = IsSlice(xs, a, b)
         /\ \A sec, x : Belongs(sec, x)' = Belongs(sec, x)
         /\ \A sec, c : SectionOK(sec, c)' = SectionOK(sec, c)
         /\ \A xs, ys : Comes(xs, ys)' = Comes(xs, ys)
         /\ \A secs, c : SectionsInv(secs, c)' = SectionsInv(secs, c)
<1>1. TextInv' = TextInv
  BY SameReading DEF TextInv
<1>2. \A l : Seen(l)' = Seen(l)
  BY SameReading DEF Seen
<1>3. \A H : Standing(H)' = Standing(H)
  BY SameReading DEF Standing
<1>4. \A xs, a, b : IsSlice(xs, a, b)' = IsSlice(xs, a, b)
  BY SameReading DEF IsSlice
<1>5. \A sec, x : Belongs(sec, x)' = Belongs(sec, x)
  BY SameReading DEF Belongs
<1>6. \A sec, c : SectionOK(sec, c)' = SectionOK(sec, c)
  BY <1>4, <1>5 DEF SectionOK
<1>7. \A xs, ys : Comes(xs, ys)' = Comes(xs, ys)
  BY SameReading DEF Comes
<1>8. \A secs, c : SectionsInv(secs, c)' = SectionsInv(secs, c)
  BY <1>6, <1>7, SameReading DEF SectionsInv
<1>. QED
  BY <1>1, <1>2, <1>3, <1>4, <1>5, <1>6, <1>7, <1>8

\* No blank line is at an end.
Trimmed(xs) == blocks[xs[1]].kind # "blank" /\ blocks[xs[Len(xs)]].kind # "blank"

\* What strip() leaves of a part of the text is a part of it that has all that is not blank.
LEMMA StripSlice ==
  ASSUME DocumentInv, TextInv, NEW a \in Nat \ {0}, NEW b \in Nat, b <= Len(text),
         NEW body, IsSlice(body, a, b)
  PROVE  /\ Strip(body) \in Seq(1 .. Len(blocks))
         /\ \A q \in 1 .. Len(body) : blocks[body[q]].kind # "blank" =>
              \E r \in 1 .. Len(Strip(body)) : Strip(body)[r] = body[q]
         /\ Len(Strip(body)) > 0 =>
              \E m \in a .. b : \E n \in m .. b : IsSlice(Strip(body), m, n) /\ Trimmed(Strip(body))
<1>. DEFINE full == {i \in DOMAIN body : blocks[body[i]].kind # "blank"}
            k == Min(full)
            l == Max(full)
            xs == SubSeq(body, k, l)
            N == 1 .. Len(blocks)
<1>1. /\ body \in Seq(N) /\ Len(body) \in Nat /\ DOMAIN body = 1 .. Len(body)
      /\ Len(body) = b - a + 1
      /\ \A q \in 1 .. Len(body) : body[q] = text[a + q - 1] /\ body[q] \in N
  BY LenProperties DEF IsSlice
<1>2. CASE full = {}
  <2>. DEFINE none == << >>
  <2>1. Strip(body) = none
    BY <1>2 DEF Strip
  <2>2. none \in Seq(N) /\ Len(none) = 0
    BY EmptySeq
  <2>3. \A q \in 1 .. Len(body) : blocks[body[q]].kind = "blank"
    BY <1>1, <1>2
  <2>. HIDE DEF none, N, full
  <2>. QED
    BY <2>1, <2>2, <2>3 DEF N
<1>3. CASE full # {}
  <2>1. full \in SUBSET (0 .. Len(body)) /\ full \in SUBSET Nat
    BY <1>1
  <2>2. k \in full /\ l \in full /\ \A i \in full : k <= i /\ i <= l
    <3>. HIDE DEF full
    <3>. QED
      BY <1>1, <1>3, <2>1, Greatest, Smallest
  <2>3. Strip(body) = xs
    BY <1>3 DEF Strip
  <2>4. \A i \in 1 .. Len(body) : blocks[body[i]].kind # "blank" <=> i \in full
    BY <1>1
  <2>5. k \in 1 .. Len(body) /\ l \in 1 .. Len(body) /\ k <= l
    BY <1>1, <2>2
  <2>. HIDE DEF full, k, l
  <2>6. /\ xs \in Seq(N) /\ Len(xs) = l - k + 1
        /\ \A r \in 1 .. Len(xs) : xs[r] = body[k + r - 1]
    <3>1. \A i \in k .. l : body[i] \in N
      BY <1>1, <2>5
    <3>2. l - k + 1 \in Nat
      BY <1>1, <2>5
    <3>3. k \in Int /\ l \in Int
      BY <1>1, <2>5
    <3>4. xs \in Seq(N) /\ Len(xs) = l - k + 1
      <4>. HIDE DEF N
      <4>1. xs \in Seq(N) /\ Len(xs) = IF k <= l THEN l - k + 1 ELSE 0
        BY <3>1, <3>3, SubSeqProperties
      <4>. QED
        BY <2>5, <4>1
    <3>5. \A r \in 1 .. l - k + 1 : xs[r] = body[k + r - 1]
      <4>. HIDE DEF N
      <4>. QED
        BY <3>1, <3>3, SubSeqProperties
    <3>. HIDE DEF N, xs
    <3>. QED
      BY <3>4, <3>5
  <2>. HIDE DEF xs
  <2>7. ASSUME NEW q \in 1 .. Len(body), blocks[body[q]].kind # "blank"
        PROVE  \E r \in 1 .. Len(xs) : xs[r] = body[q]
    <3>1. k <= q /\ q <= l
      BY <2>2, <2>4, <2>7
    <3>2. q - k + 1 \in 1 .. Len(xs) /\ k + (q - k + 1) - 1 = q
      BY <1>1, <2>5, <2>6, <3>1
    <3>. QED
      BY <2>6, <3>2
  <2>8. IsSlice(xs, a + k - 1, a + l - 1) /\ a + k - 1 \in a .. b /\ a + l - 1 \in a + k - 1 .. b
    <3>1. a + k - 1 \in a .. b /\ a + l - 1 \in a + k - 1 .. b
      BY <1>1, <2>5
    <3>2. ASSUME NEW r \in 1 .. Len(xs) PROVE xs[r] = text[(a + k - 1) + r - 1]
      <4>1. k + r - 1 \in 1 .. Len(body) /\ a + (k + r - 1) - 1 = (a + k - 1) + r - 1
        BY <1>1, <2>5, <2>6
      <4>2. xs[r] = body[k + r - 1]
        BY <2>6
      <4>. QED
        BY <1>1, <4>1, <4>2
    <3>3. Len(xs) = (a + l - 1) - (a + k - 1) + 1
      BY <1>1, <2>5, <2>6
    <3>. QED
      BY <2>6, <3>1, <3>2, <3>3 DEF IsSlice
  <2>9. Trimmed(xs)
    <3>1. 1 \in 1 .. Len(xs) /\ Len(xs) \in 1 .. Len(xs) /\ k + 1 - 1 = k /\ k + Len(xs) - 1 = l
      BY <1>1, <2>5, <2>6
    <3>2. xs[1] = body[k] /\ xs[Len(xs)] = body[l]
      BY <2>6, <3>1
    <3>. QED
      BY <2>2, <2>4, <2>5, <3>2 DEF Trimmed
  <2>. QED
    BY <2>3, <2>6, <2>7, <2>8, <2>9
<1>. QED
  BY <1>2, <1>3

\* The lines between two headings stand under the same ones.
LEMMA SeenBetween ==
  ASSUME DocumentInv, TextInv, NEW l \in 1 .. Len(text) + 1, NEW c \in 0 .. l - 1,
         \A p \in c + 1 .. l - 1 : text[p] \notin Headings,
         NEW p \in c + 1 .. l - 1
  PROVE  /\ Before(text[p]) = Seen(l)
         /\ Above(text[p]) = Standing(Seen(l))
         /\ Nearest(Above(text[p])) = Nearest(Seen(l))
<1>1. Len(text) \in Nat
  BY TextFacts
<1>2. p \in 1 .. Len(text) /\ p <= l - 1
  BY <1>1
<1>3. ASSUME NEW h \in Headings
      PROVE  (\E q \in 1 .. p - 1 : text[q] = h) <=> \E q \in 1 .. l - 1 : text[q] = h
  <2>1. ASSUME NEW q \in 1 .. p - 1 PROVE q \in 1 .. l - 1
    BY <1>1
  <2>2. ASSUME NEW q \in 1 .. l - 1, text[q] = h PROVE q \in 1 .. p - 1
    <3>1. q \notin c + 1 .. l - 1
      BY <2>2
    <3>. QED
      BY <1>1, <3>1
  <2>. QED
    BY <2>1, <2>2
<1>4. Seen(p) = Seen(l)
  BY <1>3 DEF Seen
<1>5. Before(text[p]) = Seen(l)
  BY <1>2, <1>4, BeforeIsSeen
<1>6. Above(text[p]) = Standing(Seen(l))
  BY <1>5 DEF Above, Standing
<1>7. Nearest(Standing(Seen(l))) = Nearest(Seen(l))
  <2>1. Len(blocks) \in Nat /\ Seen(p) \in SUBSET (1 .. Len(blocks)) /\ \A h \in Seen(p) : Level(h) \in Nat
    BY <1>2, SeenFacts DEF DocumentInv
  <2>. QED
    BY <1>4, <2>1, StandingFacts
<1>. QED
  BY <1>5, <1>6, <1>7

LEMMA SectionsMore ==
  ASSUME NEW secs, NEW c \in Nat, NEW d \in Nat, c <= d, SectionsInv(secs, c),
         \A p \in c + 1 .. d : ~Indexable(text[p])
  PROVE  SectionsInv(secs, d)
<1>1. \A k \in 1 .. Len(secs) : SectionOK(secs[k], d)
  <2>. SUFFICES ASSUME NEW k \in 1 .. Len(secs) PROVE SectionOK(secs[k], d)
    OBVIOUS
  <2>1. SectionOK(secs[k], c)
    BY DEF SectionsInv
  <2>2. PICK a \in 1 .. c : \E b \in a .. c : IsSlice(secs[k].body, a, b)
    BY <2>1 DEF SectionOK
  <2>3. PICK b \in a .. c : IsSlice(secs[k].body, a, b)
    BY <2>2
  <2>4. a \in 1 .. d /\ b \in a .. d
    OBVIOUS
  <2>. QED
    BY <2>1, <2>3, <2>4 DEF SectionOK
<1>2. \A p \in 1 .. d : p \in 1 .. c \/ p \in c + 1 .. d
  OBVIOUS
<1>. QED
  BY <1>1, <1>2 DEF SectionsInv

LEMMA SectionsAppend ==
  ASSUME DocumentInv, TextInv, NEW secs, NEW c \in Nat, NEW d \in Nat, c <= d, d <= Len(text),
         SectionsInv(secs, c),
         NEW sec \in Section, NEW a \in c + 1 .. d, NEW b \in a .. d, IsSlice(sec.body, a, b),
         \A q \in 1 .. Len(sec.body) : Belongs(sec, sec.body[q]),
         \A p \in c + 1 .. d : Indexable(text[p]) => \E q \in 1 .. Len(sec.body) : sec.body[q] = text[p]
  PROVE  SectionsInv(Append(secs, sec), d)
<1>. DEFINE more == Append(secs, sec)
            n == Len(secs)
<1>1. /\ secs \in Seq(Section) /\ n \in Nat
      /\ \A k \in 1 .. n : SectionOK(secs[k], c)
      /\ \A k, l \in 1 .. n : k < l => Comes(secs[k].body, secs[l].body)
      /\ \A p \in 1 .. c : Indexable(text[p]) =>
           \E k \in 1 .. n : \E q \in 1 .. Len(secs[k].body) : secs[k].body[q] = text[p]
  BY LenProperties DEF SectionsInv
<1>2. more \in Seq(Section) /\ Len(more) = n + 1
      /\ \A k \in 1 .. n + 1 : more[k] = IF k = n + 1 THEN sec ELSE secs[k]
  BY <1>1, AppendProperties
<1>. HIDE DEF more
<1>3. /\ \A k \in 1 .. n : more[k] = secs[k] /\ k \in 1 .. n + 1
      /\ more[n + 1] = sec /\ n + 1 \in 1 .. n + 1
      /\ \A k \in 1 .. n + 1 : k \in 1 .. n \/ k = n + 1
  <2>1. \A k \in 1 .. n : k \in 1 .. n + 1 /\ k # n + 1
    BY <1>1
  <2>2. n + 1 \in 1 .. n + 1 /\ \A k \in 1 .. n + 1 : k \in 1 .. n \/ k = n + 1
    <3>1. n \in Nat
      BY <1>1
    <3>. HIDE DEF n
    <3>. QED
      BY ONLY <3>1
  <2>3. \A k \in 1 .. n : more[k] = secs[k]
    BY <1>2, <2>1
  <2>4. more[n + 1] = sec
    BY <1>2, <2>2
  <2>. QED
    BY <2>1, <2>2, <2>3, <2>4
<1>4. ASSUME NEW k \in 1 .. n PROVE SectionOK(more[k], d) /\ Comes(secs[k].body, sec.body)
  <2>1. SectionOK(secs[k], c)
    BY <1>1
  <2>2. PICK a1 \in 1 .. c : \E b1 \in a1 .. c : IsSlice(secs[k].body, a1, b1)
    BY <2>1 DEF SectionOK
  <2>3. PICK b1 \in a1 .. c : IsSlice(secs[k].body, a1, b1)
    BY <2>2
  <2>4. a1 \in 1 .. d /\ b1 \in a1 .. d
    OBVIOUS
  <2>5. SectionOK(secs[k], d)
    BY <2>1, <2>3, <2>4 DEF SectionOK
  <2>6. ASSUME NEW q \in 1 .. Len(secs[k].body), NEW r \in 1 .. Len(sec.body)
        PROVE  Precedes(secs[k].body[q], sec.body[r])
    <3>1. /\ Len(secs[k].body) = b1 - a1 + 1 /\ secs[k].body[q] = text[a1 + q - 1]
          /\ Len(sec.body) = b - a + 1 /\ sec.body[r] = text[a + r - 1]
      BY <2>3 DEF IsSlice
    <3>. DEFINE q1 == a1 + q - 1
                r1 == a + r - 1
    <3>0. Len(text) \in Nat
      BY TextFacts
    <3>2. q1 \in 1 .. Len(text) /\ r1 \in 1 .. Len(text) /\ q1 < r1
      <4>1. q \in 1 .. b1 - a1 + 1 /\ r \in 1 .. b - a + 1
        BY <3>1
      <4>2. q1 \in 1 .. c /\ r1 \in c + 1 .. d
        BY <4>1
      <4>. HIDE DEF q1, r1
      <4>. QED
        BY <3>0, <4>2
    <3>. HIDE DEF q1, r1
    <3>3. Precedes(text[q1], text[r1])
      BY <3>2, TextFacts
    <3>. QED
      BY <3>1, <3>3 DEF q1, r1
  <2>. QED
    BY <1>3, <2>5, <2>6 DEF Comes
<1>5. SectionOK(sec, d)
  BY DEF SectionOK
<1>6. \A k \in 1 .. n + 1 : SectionOK(more[k], d)
  BY <1>3, <1>4, <1>5
<1>7. ASSUME NEW k \in 1 .. n + 1, NEW l \in 1 .. n + 1, k < l PROVE Comes(more[k].body, more[l].body)
  <2>1. k \in 1 .. n
    BY <1>1, <1>7
  <2>2. CASE l \in 1 .. n
    BY <1>1, <1>3, <1>7, <2>1, <2>2
  <2>3. CASE l = n + 1
    BY <1>3, <1>4, <2>1, <2>3
  <2>. QED
    BY <1>3, <2>2, <2>3
<1>8. ASSUME NEW p \in 1 .. d, Indexable(text[p])
      PROVE  \E k \in 1 .. n + 1 : \E q \in 1 .. Len(more[k].body) : more[k].body[q] = text[p]
  <2>1. CASE p \in 1 .. c
    <3>1. PICK k \in 1 .. n : \E q \in 1 .. Len(secs[k].body) : secs[k].body[q] = text[p]
      BY <1>1, <1>8, <2>1
    <3>. QED
      BY <1>3, <3>1
  <2>2. CASE p \in c + 1 .. d
    <3>1. \E q \in 1 .. Len(sec.body) : sec.body[q] = text[p]
      BY <1>8, <2>2
    <3>. QED
      BY <1>3, <3>1
  <2>3. p \in 1 .. c \/ p \in c + 1 .. d
    OBVIOUS
  <2>. QED
    BY <2>1, <2>2, <2>3
<1>9. SectionsInv(more, d)
  BY <1>2, <1>6, <1>7, <1>8 DEF SectionsInv
<1>. QED
  BY <1>9 DEF more

\* The section that is flushed.
LEMMA FlushedGood ==
  ASSUME DocumentInv, TextInv, line \in 1 .. Len(text) + 1, NEW c \in Nat, LinesInv(c),
         SectionsInv(sections, c), Lists(stack, Standing(Seen(line))),
         cur = [heading |-> Nearest(Seen(line)), path |-> stack]
  PROVE  SectionsInv(Flushed, line - 1)
<1>. DEFINE d == line - 1
            body == Strip(lines)
            sec == [heading |-> cur.heading, path |-> cur.path, body |-> body]
<1>1. /\ Len(text) \in Nat
      /\ \A p \in 1 .. Len(text) : text[p] \in 1 .. Len(blocks)
  BY TextFacts
<1>2. d \in Nat /\ c <= d /\ d <= Len(text) /\ c \in 0 .. line - 1 /\ c + 1 \in Nat \ {0}
  BY <1>1 DEF LinesInv
<1>3. IsSlice(lines, c + 1, d) /\ \A p \in c + 1 .. d : text[p] \notin Headings
  BY DEF LinesInv
<1>4. \A p \in c + 1 .. d : /\ Before(text[p]) = Seen(line)
                           /\ Above(text[p]) = Standing(Seen(line))
                           /\ Nearest(Above(text[p])) = Nearest(Seen(line))
  BY <1>2, <1>3, SeenBetween
<1>5. /\ body \in Seq(1 .. Len(blocks))
      /\ \A q \in 1 .. Len(lines) : blocks[lines[q]].kind # "blank" =>
           \E r \in 1 .. Len(body) : body[r] = lines[q]
      /\ Len(body) > 0 => \E m \in c + 1 .. d : \E n \in m .. d : IsSlice(body, m, n)
  BY <1>2, <1>3, StripSlice
<1>. HIDE DEF body, d
<1>6. ASSUME NEW p \in c + 1 .. d, blocks[text[p]].kind # "blank"
      PROVE  \E r \in 1 .. Len(body) : body[r] = text[p]
  <2>1. Len(lines) = d - (c + 1) + 1 /\ \A q \in 1 .. Len(lines) : lines[q] = text[(c + 1) + q - 1]
    BY <1>3 DEF IsSlice
  <2>2. p - c \in 1 .. Len(lines) /\ (c + 1) + (p - c) - 1 = p
    BY <1>2, <2>1
  <2>3. lines[p - c] = text[p]
    BY <2>1, <2>2
  <2>. QED
    BY <1>5, <1>6, <2>2, <2>3
<1>7. CASE Len(body) = 0
  <2>1. body = << >>
    BY <1>5, <1>7, EmptySeq
  <2>2. Flushed = sections
    BY <2>1 DEF Flushed, body
  <2>3. \A p \in c + 1 .. d : blocks[text[p]].kind = "blank"
    BY <1>6, <1>7
  <2>4. \A p \in c + 1 .. d : ~Indexable(text[p])
    BY <2>3 DEF Indexable
  <2>5. SectionsInv(sections, d)
    BY <1>2, <2>4, SectionsMore
  <2>. QED
    BY <2>2, <2>5 DEF d
<1>8. CASE Skipped(cur.heading)
  <2>1. cur.heading = Nearest(Seen(line))
    OBVIOUS
  <2>2. Flushed = sections
    BY <1>8 DEF Flushed
  <2>3. \A p \in c + 1 .. d : ~Indexable(text[p])
    BY <1>4, <1>8, <2>1 DEF Indexable
  <2>4. SectionsInv(sections, d)
    BY <1>2, <2>3, SectionsMore
  <2>. QED
    BY <2>2, <2>4 DEF d
<1>9. CASE Len(body) # 0 /\ ~Skipped(cur.heading)
  <2>0. Len(body) > 0
    BY <1>5, <1>9, LenProperties
  <2>1. Flushed = Append(sections, sec)
    <3>1. body # << >>
      BY <1>9, EmptySeq
    <3>. QED
      BY <1>9, <3>1 DEF Flushed, body
  <2>2. PICK m \in c + 1 .. d : \E n \in m .. d : IsSlice(body, m, n)
    BY <1>5, <2>0
  <2>3. PICK n \in m .. d : IsSlice(body, m, n)
    BY <2>2
  <2>4. cur.heading = Nearest(Seen(line)) /\ cur.path = stack
    OBVIOUS
  <2>5. stack \in Seq(Nat) /\ cur.heading \in Nat \cup {NoHeading}
    <3>1. Standing(Seen(line)) \in SUBSET Seen(line) /\ Seen(line) \in SUBSET (1 .. Len(blocks)) /\ Len(blocks) \in Nat
      BY HeadingFacts DEF Standing, Seen, DocumentInv
    <3>2. stack \in Seq(Standing(Seen(line)))
      BY DEF Lists
    <3>3. Standing(Seen(line)) \in SUBSET Nat
      BY <3>1
    <3>4. stack \in Seq(Nat)
      BY <3>2, <3>3, SeqMonotonic
    <3>5. Seen(line) # {} => Max(Seen(line)) \in Seen(line)
      <4>1. Seen(line) \in SUBSET (0 .. Len(blocks))
        BY <3>1
      <4>. QED
        BY <3>1, <4>1, Greatest
    <3>. QED
      BY <2>4, <3>1, <3>4, <3>5 DEF Nearest
  <2>6. sec \in Section
    <3>1. body \in Seq(Nat)
      <4>1. 1 .. Len(blocks) \in SUBSET Nat
        OBVIOUS
      <4>. QED
        BY <1>5, <4>1, SeqMonotonic
    <3>. QED
      BY <2>4, <2>5, <3>1 DEF Section
  <2>7. ASSUME NEW q \in 1 .. Len(body) PROVE Belongs(sec, body[q])
    <3>1. body[q] = text[m + q - 1] /\ Len(body) = n - m + 1
      BY <2>3 DEF IsSlice
    <3>2. m + q - 1 \in c + 1 .. d
      BY <1>2, <3>1
    <3>. DEFINE p == m + q - 1
    <3>. HIDE DEF p
    <3>3. p \in c + 1 .. d /\ body[q] = text[p]
      BY <3>1, <3>2 DEF p
    <3>4. /\ Before(text[p]) = Seen(line) /\ Above(text[p]) = Standing(Seen(line))
          /\ Nearest(Above(text[p])) = Nearest(Seen(line)) /\ text[p] \notin Headings
      BY <1>3, <1>4, <3>3
    <3>5. ~Skipped(Nearest(Seen(line))) /\ sec.path = stack /\ sec.heading = Nearest(Seen(line))
      BY <1>9, <2>4
    <3>. HIDE DEF sec
    <3>. QED
      BY <3>3, <3>4, <3>5 DEF Belongs
  <2>8. \A p \in c + 1 .. d : Indexable(text[p]) => \E q \in 1 .. Len(body) : body[q] = text[p]
    BY <1>6 DEF Indexable
  <2>9. sec.body = body
    OBVIOUS
  <2>. HIDE DEF sec
  <2>10. /\ IsSlice(sec.body, m, n)
         /\ \A q \in 1 .. Len(sec.body) : Belongs(sec, sec.body[q])
         /\ \A p \in c + 1 .. d : Indexable(text[p]) => \E q \in 1 .. Len(sec.body) : sec.body[q] = text[p]
    BY <2>3, <2>7, <2>8, <2>9
  <2>11. SectionsInv(Append(sections, sec), d)
    <3>1. SectionsInv(sections, c)
      OBVIOUS
    <3>. QED
      BY <1>2, <2>6, <2>10, <3>1, SectionsAppend
  <2>. QED
    BY <2>1, <2>11 DEF d
<1>. QED
  BY <1>7, <1>8, <1>9

\* In a plain document the splitter takes for headings those that the reader sees.
LEMMA SeesHeadings ==
  ASSUME DocumentInv, TextInv, Plain, FenceInv, document.format # "text", line \in 1 .. Len(text)
  PROVE  /\ ~InFence(text[line]) /\ LineOf(blocks[text[line]]).kind = "heading" <=> text[line] \in Headings
         /\ InFence(text[line]) <=> document.format = "markdown" /\ OpenFence(line + 1) # NoHeading
<1>. DEFINE i == text[line]
            b == blocks[i]
<1>1. i \in 1 .. Len(blocks) /\ Len(blocks) \in Nat /\ DOMAIN blocks = 1 .. Len(blocks)
  BY TextFacts DEF DocumentInv
<1>2. CASE document.format = "markdown"
  <2>1. i = line
    BY <1>2 DEF TextInv
  <2>2. /\ b.kind \notin {"row", "styled"}
        /\ b.kind = "fence" => b.mark \in Marks /\ OpenFence(i) \in {NoHeading, b.mark}
    BY <1>1, <1>2 DEF DocumentInv, Plain
  <2>3. OpenFence(i) \in {NoHeading} \cup Marks /\ OpenFence(i + 1) = FenceAfter(OpenFence(i), b)
    BY <1>1, OpenFenceSteps
  <2>4. LineOf(b) = b
    BY <2>2 DEF LineOf
  <2>5. in_fence \in BOOLEAN /\ (in_fence <=> OpenFence(i) # NoHeading)
    BY <1>2, <2>1 DEF FenceInv
  <2>6. i \in Headings <=> b.kind = "heading" /\ OpenFence(i) = NoHeading
    BY <1>1, <1>2 DEF Headings
  <2>. HIDE DEF b, i
  <2>7. CASE b.kind = "fence"
    <3>1. b.mark # NoHeading
      BY <2>2, <2>7, SizesAssumption
    <3>2. OpenFence(i + 1) # NoHeading <=> OpenFence(i) = NoHeading
      BY <2>2, <2>3, <2>7, <3>1 DEF FenceAfter
    <3>3. InFence(i) <=> ~in_fence
      BY <2>4, <2>5, <2>7 DEF InFence, b
    <3>. QED
      BY <1>2, <2>1, <2>4, <2>5, <2>6, <2>7, <3>2, <3>3 DEF i, b
  <2>8. CASE b.kind # "fence"
    <3>1. OpenFence(i + 1) = OpenFence(i)
      BY <2>3, <2>8 DEF FenceAfter
    <3>2. InFence(i) <=> in_fence
      BY <2>4, <2>5, <2>8 DEF InFence, b
    <3>. QED
      BY <1>2, <2>1, <2>4, <2>5, <2>6, <2>8, <3>1, <3>2 DEF i, b
  <2>. QED
    BY <2>7, <2>8
<1>3. CASE document.format = "docx"
  <2>1. b.kind \notin {"heading", "fence"}
    BY <1>1, <1>3 DEF Plain
  <2>2. LineOf(b).kind = "heading" <=> b.kind = "styled"
    BY <2>1 DEF LineOf, Heading, Text
  <2>3. LineOf(b).kind # "fence"
    BY <2>1 DEF LineOf, Heading, Text
  <2>4. i \in Headings <=> b.kind = "styled"
    BY <1>1, <1>3 DEF Headings
  <2>5. ~in_fence /\ in_fence \in BOOLEAN
    BY <1>3 DEF FenceInv
  <2>6. ~InFence(i)
    BY <2>3, <2>5 DEF InFence
  <2>. QED
    BY <1>3, <2>2, <2>4, <2>6
<1>4. document.format = "markdown" \/ document.format = "docx"
  BY DEF DocumentInv, Formats
<1>. QED
  BY <1>2, <1>3, <1>4

LEMMA SplitStep ==
  ASSUME DocumentInv, TextInv, Plain, document.format # "text", SplitInv, SplitLine
  PROVE  SplitInv'
<1>. DEFINE i == text[line]
<1>1. /\ line \in 1 .. Len(text) /\ line' = line + 1 /\ in_fence' = InFence(i)
      /\ UNCHANGED <<document, text>>
  BY DEF SplitLine, SplitInv
<1>2. Len(text) \in Nat /\ i \in 1 .. Len(blocks) /\ Len(blocks) \in Nat
  BY <1>1, TextFacts DEF DocumentInv
<1>3. line' \in 1 .. Len(text') + 1
  BY <1>1, <1>2
<1>4. ~in_fence' /\ LineOf(blocks[i]).kind = "heading" <=> i \in Headings
  BY <1>1, SeesHeadings DEF SplitInv
<1>5. FenceInv'
  <2>2. InFence(i) \in BOOLEAN
    BY DEF InFence
  <2>3. InFence(i) <=> document.format = "markdown" /\ OpenFence(line + 1) # NoHeading
    BY <1>1, SeesHeadings DEF SplitInv
  <2>4. document' = document
    BY <1>1
  <2>5. OpenFence(line)' = OpenFence(line + 1)
    BY <1>1, SameReading
  <2>. QED
    BY <1>1, <2>2, <2>3, <2>4, <2>5 DEF FenceInv
<1>6. /\ Seen(line) \in SUBSET (1 .. Len(blocks)) /\ \A h \in Seen(line) : Level(h) \in Nat
      /\ i \in Headings => Seen(line + 1) = Seen(line) \cup {i} /\ \A h \in Seen(line) : h < i
      /\ i \notin Headings => Seen(line + 1) = Seen(line)
  BY <1>1, SeenFacts
<1>7. PICK c \in Nat : LinesInv(c) /\ SectionsInv(sections, c)
  BY DEF SplitInv
<1>8. Seen(line)' = Seen(line + 1) /\ \A H : Standing(H)' = Standing(H)
  BY <1>1, SameText
<1>9. CASE i \in Headings
  <2>1. sections' = Flushed /\ stack' = Append(Popped(Level(i)), i)
        /\ cur' = [heading |-> i, path |-> stack'] /\ lines' = << >>
    BY <1>4, <1>9 DEF SplitLine
  <2>2. Level(i) \in Nat
    BY <1>9, HeadingFacts
  <2>3. Lists(stack', Standing(Seen(line + 1)))
    <3>1. Lists(stack, Standing(Seen(line)))
      BY DEF SplitInv
    <3>2. Lists(Append(Popped(Level(i)), i), Standing(Seen(line) \cup {i}))
      <4>. HIDE DEF i
      <4>. QED
        BY <1>2, <1>6, <1>9, <2>2, <3>1, PopAndPush
    <3>. QED
      BY <1>6, <1>9, <2>1, <3>2
  <2>4. Nearest(Seen(line + 1)) = i
    <3>. DEFINE H == Seen(line)
    <3>1. H \in SUBSET (1 .. Len(blocks)) /\ (\A h \in H : Level(h) \in Nat) /\ \A h \in H : h < i
      BY <1>6, <1>9
    <3>. HIDE DEF i, H
    <3>2. Nearest(H \cup {i}) = i
      <4>. DEFINE n == Len(blocks)
      <4>1. n \in Nat /\ H \in SUBSET (1 .. n) /\ i \in 1 .. n
        BY <1>2, <3>1
      <4>. HIDE DEF n
      <4>2. (\A h \in H : Level(h) \in Nat) /\ (\A h \in H : h < i) /\ Level(i) \in Nat
        BY <2>2, <3>1
      <4>3. /\ Standing(H \cup {i}) = {h \in Standing(H) : Level(h) < Level(i)} \cup {i}
            /\ Nearest(H \cup {i}) = i
        BY ONLY <4>1, <4>2, StandingMore
      <4>. QED
        BY <4>3
    <3>. QED
      BY <1>6, <1>9, <3>2 DEF H
  <2>5. SectionsInv(Flushed, line - 1)
    BY <1>7, FlushedGood DEF SplitInv
  <2>6. SectionsInv(Flushed, line)
    <3>. DEFINE d == line - 1
    <3>1. d \in Nat /\ line \in Nat /\ d <= line
      BY <1>1
    <3>2. \A p \in d + 1 .. line : ~Indexable(text[p])
      <4>1. ~Indexable(text[line])
        BY <1>9 DEF Indexable
      <4>2. d + 1 .. line = {line}
        BY <1>1
      <4>. QED
        BY <4>1, <4>2
    <3>3. SectionsInv(Flushed, d)
      BY <2>5
    <3>. HIDE DEF d
    <3>. QED
      BY <3>1, <3>2, <3>3, SectionsMore
  <2>7. PICK e \in Nat : e = line
    BY <1>1
  <2>8. LinesInv(e)'
    <3>1. line' - 1 = e /\ e + 1 .. e = {} /\ e \in 0 .. e
      BY <1>1, <2>7
    <3>. DEFINE none == << >>
    <3>2. none \in Seq(1 .. Len(blocks)) /\ Len(none) = 0
      BY EmptySeq
    <3>3. lines' = none
      BY <2>1
    <3>. HIDE DEF none
    <3>4. e - (e + 1) + 1 = 0 /\ 1 .. 0 = {}
      BY <2>7
    <3>5. IsSlice(none, e + 1, e)
      BY <3>2, <3>4 DEF IsSlice
    <3>6. IsSlice(lines, e + 1, line - 1)'
      BY <1>1, <3>1, <3>3, <3>5, SameText
    <3>. QED
      BY <3>1, <3>6 DEF LinesInv
  <2>9. SectionsInv(sections, e)'
    <3>1. \A secs, d : SectionsInv(secs, d)' = SectionsInv(secs, d)
      BY <1>1, SameText
    <3>2. SectionsInv(sections', e)
      BY <2>1, <2>6, <2>7
    <3>. QED
      BY <3>1, <3>2
  <2>10. Lists(stack, Standing(Seen(line)))'
    BY <1>8, <2>3 DEF Lists
  <2>11. (cur = [heading |-> Nearest(Seen(line)), path |-> stack])'
    BY <1>8, <2>1, <2>4 DEF Nearest
  <2>. QED
    BY <1>3, <1>5, <2>8, <2>9, <2>10, <2>11 DEF SplitInv
<1>10. CASE i \notin Headings
  <2>1. lines' = Append(lines, i) /\ UNCHANGED <<stack, cur, sections>>
    BY <1>4, <1>10 DEF SplitLine
  <2>2. /\ c \in 0 .. line - 1 /\ IsSlice(lines, c + 1, line - 1)
        /\ \A p \in c + 1 .. line - 1 : text[p] \notin Headings
    BY <1>7 DEF LinesInv
  <2>3. PICK e \in Nat : e = line
    BY <1>1
  <2>4. IsSlice(Append(lines, i), c + 1, e)
    <3>1. /\ lines \in Seq(1 .. Len(blocks)) /\ Len(lines) = e - 1 - c /\ Len(lines) \in Nat
          /\ \A q \in 1 .. Len(lines) : lines[q] = text[c + 1 + q - 1]
      BY <2>2, <2>3, LenProperties DEF IsSlice
    <3>. DEFINE more == Append(lines, i)
    <3>2. /\ more \in Seq(1 .. Len(blocks)) /\ Len(more) = Len(lines) + 1
          /\ \A q \in 1 .. Len(lines) + 1 : more[q] = IF q = Len(lines) + 1 THEN i ELSE lines[q]
      BY <1>2, <3>1, AppendProperties
    <3>. HIDE DEF more
    <3>3. ASSUME NEW q \in 1 .. Len(more) PROVE more[q] = text[c + 1 + q - 1]
      <4>1. CASE q = Len(lines) + 1
        <5>1. c + 1 + q - 1 = line
          BY <2>3, <3>1, <4>1
        <5>. QED
          BY <3>2, <4>1, <5>1
      <4>2. CASE q \in 1 .. Len(lines)
        <5>1. q # Len(lines) + 1 /\ q \in 1 .. Len(lines) + 1
          BY <3>1, <4>2
        <5>. QED
          BY <3>1, <3>2, <4>2, <5>1
      <4>. QED
        BY <3>1, <3>2, <4>1, <4>2
    <3>4. Len(more) = e - (c + 1) + 1
      BY <3>1, <3>2
    <3>5. IsSlice(more, c + 1, e)
      BY <3>2, <3>3, <3>4 DEF IsSlice
    <3>. QED
      BY <3>5 DEF more
  <2>5. LinesInv(c)'
    <3>1. line' - 1 = e /\ c \in 0 .. e
      BY <1>1, <2>2, <2>3
    <3>2. \A p \in c + 1 .. e : text[p] \notin Headings
      <4>1. \A p \in c + 1 .. e : p \in c + 1 .. line - 1 \/ p = line
        BY <1>1, <2>3
      <4>. QED
        BY <1>10, <2>2, <4>1
    <3>3. IsSlice(lines, c + 1, line - 1)'
      BY <1>1, <2>1, <2>4, <3>1, SameText
    <3>4. Headings' = Headings
      BY <1>1, SameReading
    <3>. QED
      BY <1>1, <3>1, <3>2, <3>3, <3>4 DEF LinesInv
  <2>6. SectionsInv(sections, c)'
    <3>1. \A secs, d : SectionsInv(secs, d)' = SectionsInv(secs, d)
      BY <1>1, SameText
    <3>. QED
      BY <1>7, <2>1, <3>1
  <2>7. Lists(stack, Standing(Seen(line)))'
    <3>1. Lists(stack, Standing(Seen(line)))
      BY DEF SplitInv
    <3>. QED
      BY <1>6, <1>8, <1>10, <2>1, <3>1 DEF Lists
  <2>8. (cur = [heading |-> Nearest(Seen(line)), path |-> stack])'
    <3>1. cur = [heading |-> Nearest(Seen(line)), path |-> stack]
      BY DEF SplitInv
    <3>. QED
      BY <1>6, <1>8, <1>10, <2>1, <3>1 DEF Nearest
  <2>. QED
    BY <1>3, <1>5, <2>5, <2>6, <2>7, <2>8 DEF SplitInv
<1>. QED
  BY <1>9, <1>10

LEMMA SplitStarts ==
  ASSUME DocumentInv, TextInv, line = 1, in_fence = FALSE, stack = << >>, cur = Preface,
         lines = << >>, sections = << >>
  PROVE  SplitInv
<1>. DEFINE none == << >>
<1>1. none \in Seq(1 .. Len(blocks)) /\ none \in Seq({}) /\ none \in Seq(Section) /\ Len(none) = 0
  BY EmptySeq
<1>2. 1 - 1 = 0 /\ 1 .. 0 = {} /\ 0 - 1 + 1 = 0 /\ 0 \in 0 .. 0 /\ 0 + 1 = 1
  OBVIOUS
<1>3. Seen(line) = {}
  BY <1>2 DEF Seen
<1>4. Standing({}) = {} /\ Nearest({}) = NoHeading
  BY DEF Standing, Nearest
<1>5. lines = none /\ sections = none /\ stack = none
  OBVIOUS
<1>6. cur = [heading |-> Nearest(Seen(line)), path |-> stack]
  BY <1>3, <1>4 DEF Preface
<1>7. line \in 1 .. Len(text) + 1
  <2>1. Len(text) \in Nat
    BY TextFacts
  <2>. QED
    BY <2>1
<1>8. FenceInv
  BY OpenFenceSteps DEF FenceInv
<1>. HIDE DEF none
<1>9. Lists(stack, Standing(Seen(line)))
  BY <1>1, <1>2, <1>3, <1>4, <1>5 DEF Lists
<1>10. LinesInv(0) /\ SectionsInv(sections, 0)
  <2>1. IsSlice(none, 1, 0)
    BY <1>1, <1>2 DEF IsSlice
  <2>2. LinesInv(0)
    BY <1>2, <1>5, <2>1 DEF LinesInv
  <2>. QED
    BY <1>1, <1>2, <1>5, <2>2 DEF SectionsInv
<1>. QED
  BY <1>6, <1>7, <1>8, <1>9, <1>10 DEF SplitInv

(***************************************************************************)
(* The pieces that a text of n lines is cut into.                          *)
(***************************************************************************)
Starts(n) == {p \in 1 .. n : p = 1 \/ PieceStart(p) + ChunkOverlap <= n}

PieceCount(n) == Max({0} \cup Starts(n))

PieceEnd(p, n) == Fewest(PieceStart(p) + ChunkLines - 1, n)

LEMMA StartFacts ==
  /\ PieceStart(1) = 1
  /\ \A p \in Nat \ {0} : /\ PieceStart(p) \in Nat /\ p <= PieceStart(p)
                          /\ PieceStart(p + 1) = PieceStart(p) + ChunkLines - ChunkOverlap
  /\ \A p, q \in Nat \ {0} : p <= q => PieceStart(p) <= PieceStart(q)
<1>. DEFINE s == ChunkLines - ChunkOverlap
<1>1. s \in Nat /\ 1 <= s /\ ChunkLines \in Nat /\ ChunkOverlap \in Nat
  BY SizesAssumption
<1>2. \A p : PieceStart(p) = (p - 1) * s + 1
  BY DEF PieceStart
<1>. HIDE DEF s
<1>3. \A k \in Nat : k * s \in Nat /\ k <= k * s /\ (k + 1) * s = k * s + s
  BY <1>1
<1>4. \A j, k \in Nat : j <= k => j * s <= k * s
  BY <1>1
<1>5. \A p \in Nat \ {0} : p - 1 \in Nat /\ (p + 1) - 1 = (p - 1) + 1
  OBVIOUS
<1>6. 0 * s = 0
  BY <1>1
<1>7. PieceStart(1) = 1
  BY <1>2, <1>6
<1>8. ASSUME NEW p \in Nat \ {0}
      PROVE  /\ PieceStart(p) \in Nat /\ p <= PieceStart(p)
             /\ PieceStart(p + 1) = PieceStart(p) + s
  <2>. DEFINE k == p - 1
              x == k * s
  <2>1. k \in Nat /\ (p + 1) - 1 = k + 1 /\ p = k + 1
    BY <1>5
  <2>2. x \in Nat /\ k <= x /\ (k + 1) * s = x + s
    BY <1>3, <2>1
  <2>3. PieceStart(p) = x + 1 /\ PieceStart(p + 1) = (k + 1) * s + 1
    BY <1>2, <2>1
  <2>. HIDE DEF k, x
  <2>. QED
    BY <1>1, <2>1, <2>2, <2>3
<1>9. ASSUME NEW p \in Nat \ {0}, NEW q \in Nat \ {0}, p <= q PROVE PieceStart(p) <= PieceStart(q)
  <2>. DEFINE x == (p - 1) * s
              y == (q - 1) * s
  <2>1. p - 1 \in Nat /\ q - 1 \in Nat /\ p - 1 <= q - 1
    BY <1>9
  <2>2. x <= y /\ x \in Nat /\ y \in Nat
    BY <1>3, <1>4, <2>1
  <2>3. PieceStart(p) = x + 1 /\ PieceStart(q) = y + 1
    BY <1>2
  <2>. HIDE DEF x, y
  <2>. QED
    BY <2>2, <2>3
<1>10. \A x \in Nat : x + s = x + ChunkLines - ChunkOverlap
  BY <1>1 DEF s
<1>. QED
  BY <1>7, <1>8, <1>9, <1>10

\* The pieces cover the text, and each begins after the one before it.
LEMMA PieceFacts ==
  ASSUME NEW n \in Nat
  PROVE  /\ PieceCount(n) \in 0 .. n
         /\ \A p \in 1 .. PieceCount(n) :
              PieceStart(p) \in 1 .. n /\ PieceEnd(p, n) \in PieceStart(p) .. n
         /\ \A j \in 1 .. n : \E p \in 1 .. PieceCount(n) : j \in PieceStart(p) .. PieceEnd(p, n)
         /\ \A p, q \in 1 .. PieceCount(n) : p <= q => PieceStart(p) <= PieceStart(q)
<1>. DEFINE m == PieceCount(n)
            S == {0} \cup Starts(n)
<1>0. ChunkLines \in Nat \ {0} /\ ChunkOverlap \in 0 .. ChunkLines - 1
  BY SizesAssumption
<1>1. m \in S /\ \A p \in S : p <= m
  <2>1. S \in SUBSET (0 .. n) /\ S # {}
    BY DEF Starts
  <2>. HIDE DEF S
  <2>2. Max(S) \in S /\ \A p \in S : p <= Max(S)
    BY <2>1, Greatest
  <2>. QED
    BY <2>2 DEF PieceCount, S
<1>2. m \in 0 .. n
  BY <1>1 DEF Starts
<1>. HIDE DEF m
<1>3. ASSUME NEW p \in 1 .. m PROVE p \in Starts(n)
  <2>1. m \in Starts(n) /\ p \in 1 .. n /\ m \in 1 .. n
    BY <1>1, <1>2
  <2>2. CASE p = 1
    BY <2>1, <2>2 DEF Starts
  <2>3. CASE p # 1
    <3>1. PieceStart(m) + ChunkOverlap <= n
      BY <2>1, <2>3 DEF Starts
    <3>2. PieceStart(p) <= PieceStart(m) /\ PieceStart(p) \in Nat /\ PieceStart(m) \in Nat
      BY <2>1, StartFacts
    <3>3. PieceStart(p) + ChunkOverlap <= n
      BY <1>0, <3>1, <3>2
    <3>. QED
      BY <2>1, <3>3 DEF Starts
  <2>. QED
    BY <2>2, <2>3
<1>4. ASSUME NEW p \in 1 .. m
      PROVE  PieceStart(p) \in 1 .. n /\ PieceEnd(p, n) \in PieceStart(p) .. n
  <2>1. p \in 1 .. n /\ PieceStart(p) \in Nat /\ p <= PieceStart(p) /\ (p = 1 => PieceStart(p) = 1)
    BY <1>2, StartFacts
  <2>2. p = 1 \/ PieceStart(p) + ChunkOverlap <= n
    BY <1>3 DEF Starts
  <2>3. PieceStart(p) \in 1 .. n
    BY <1>0, <2>1, <2>2
  <2>. QED
    BY <1>0, <2>3 DEF PieceEnd, Fewest
<1>5. ASSUME m # 0 PROVE PieceEnd(m, n) = n
  <2>1. m \in 1 .. m /\ m \in 1 .. n
    BY <1>2, <1>5
  <2>2. PieceStart(m) \in 1 .. n /\ m <= PieceStart(m)
    BY <1>4, <2>1, StartFacts
  <2>3. CASE m = n
    BY <1>0, <2>2, <2>3 DEF PieceEnd, Fewest
  <2>4. CASE m # n
    <3>1. m + 1 \in 1 .. n /\ ~(m + 1 <= m) /\ m + 1 # 1
      BY <2>1, <2>4
    <3>2. m + 1 \notin S
      BY <1>1, <3>1
    <3>3. ~(PieceStart(m + 1) + ChunkOverlap <= n)
      BY <3>1, <3>2 DEF Starts
    <3>4. PieceStart(m + 1) = PieceStart(m) + ChunkLines - ChunkOverlap
      BY <2>1, StartFacts
    <3>5. ~(PieceStart(m) + ChunkLines <= n)
      BY <1>0, <2>2, <3>3, <3>4
    <3>. QED
      BY <1>0, <2>2, <3>5 DEF PieceEnd, Fewest
  <2>. QED
    BY <2>3, <2>4
<1>6. ASSUME NEW j \in 1 .. n PROVE \E p \in 1 .. m : j \in PieceStart(p) .. PieceEnd(p, n)
  <2>. DEFINE T == {p \in 1 .. m : PieceStart(p) <= j}
              p == Max(T)
  <2>1. 1 \in T
    <3>1. 1 \in S
      BY DEF Starts
    <3>. QED
      BY <1>1, <1>2, <3>1, StartFacts
  <2>2. p \in T /\ \A q \in T : q <= p
    <3>1. T \in SUBSET (0 .. m) /\ T # {} /\ m \in Nat
      BY <1>2, <2>1
    <3>. HIDE DEF T
    <3>. QED
      BY <3>1, Greatest
  <2>3. p \in 1 .. m /\ PieceStart(p) <= j
    BY <2>2
  <2>4. p + 1 \notin T
    BY <2>2, <2>3
  <2>. HIDE DEF p
  <2>5. PieceStart(p) \in 1 .. n
    BY <1>4, <2>3
  <2>6. CASE p = m
    <3>1. PieceEnd(p, n) = n
      BY <1>2, <1>5, <2>3, <2>6
    <3>. QED
      BY <2>3, <2>5, <3>1
  <2>7. CASE p # m
    <3>1. p + 1 \in 1 .. m /\ p \in Nat \ {0}
      BY <1>2, <2>3, <2>7
    <3>2. ~(PieceStart(p + 1) <= j) /\ PieceStart(p + 1) = PieceStart(p) + ChunkLines - ChunkOverlap
      BY <2>4, <3>1, StartFacts
    <3>3. j \in PieceStart(p) .. PieceEnd(p, n)
      BY <1>0, <2>3, <2>5, <3>2 DEF PieceEnd, Fewest
    <3>. QED
      BY <2>3, <3>3
  <2>. QED
    BY <2>6, <2>7
<1>7. \A p, q \in 1 .. m : p <= q => PieceStart(p) <= PieceStart(q)
  <2>1. \A p \in 1 .. m : p \in Nat \ {0}
    BY <1>2
  <2>. QED
    BY <2>1, StartFacts
<1>. QED
  BY <1>2, <1>4, <1>6, <1>7 DEF m

(***************************************************************************)
(* The chunks of a section.                                                *)
(***************************************************************************)
ChunkType ==
  [text : Seq(Nat), section : Nat \cup {NoHeading}, heading : Nat \cup {NoHeading}, path : Seq(Nat)]

Main(i) == {h \in Above(i) : Level(h) <= 2}

\* Block x is where the chunk says.
StandsIn(ch, x) ==
  /\ x \notin Headings /\ ~Skipped(Nearest(Before(x)))
  /\ ch.path = InOrder(Above(x))
  /\ ch.heading = Nearest(Above(x))
  /\ ch.section = IF Main(x) = {} THEN Nearest(Above(x)) ELSE Max(Main(x))

GoodChunk(ch) ==
  /\ ch \in ChunkType
  /\ \E a \in 1 .. Len(text) : \E b \in a .. Len(text) : IsSlice(ch.text, a, b) /\ Trimmed(ch.text)
  /\ \A q \in 1 .. Len(ch.text) : StandsIn(ch, ch.text[q])

\* Chunk y does not begin before x, and is all after x if it is of another section.
Follows(x, y) ==
  /\ ~Precedes(y.text[1], x.text[1])
  /\ x.heading # y.heading =>
       \A q \in 1 .. Len(x.text), r \in 1 .. Len(y.text) : Precedes(x.text[q], y.text[r])

\* Every block is read.
AboveFacts ==
  \A i \in 1 .. Len(blocks) :
    Above(i) \in SUBSET (1 .. Len(blocks)) /\ \A h \in Above(i) : Level(h) \in Nat

LEMMA AboveIs == DocumentInv => AboveFacts
  BY HeadingFacts DEF AboveFacts, Above, Before

\* The section that the path leads to.
LEMMA SectionNameIs ==
  ASSUME DocumentInv, NEW sec \in Section, NEW x \in 1 .. Len(blocks), Belongs(sec, x)
  PROVE  SectionName(sec) = IF Main(x) = {} THEN Nearest(Above(x)) ELSE Max(Main(x))
<1>. DEFINE xs == sec.path
            n == Len(blocks)
            S == Above(x)
            main == {k \in DOMAIN xs : Level(xs[k]) <= 2}
            m == Max(main)
<1>1. n \in Nat /\ S \in SUBSET (1 .. n) /\ \A h \in S : Level(h) \in Nat
  BY AboveIs DEF AboveFacts, DocumentInv
<1>2. Lists(xs, S) /\ sec.heading = Nearest(S)
  BY DEF Belongs
<1>3. SectionName(sec) = IF main = {} THEN sec.heading ELSE xs[m]
  BY DEF SectionName
<1>. HIDE DEF xs, n, S
<1>4. /\ Len(xs) \in Nat /\ DOMAIN xs = 1 .. Len(xs)
      /\ \A p \in 1 .. Len(xs) : xs[p] \in S /\ xs[p] \in 1 .. n
      /\ \A p, q \in 1 .. Len(xs) : p < q => xs[p] < xs[q]
      /\ \A i \in S : \E p \in 1 .. Len(xs) : xs[p] = i
  <2>1. /\ xs \in Seq(S) /\ \A p, q \in 1 .. Len(xs) : p < q => xs[p] < xs[q]
        /\ \A i \in S : \E p \in 1 .. Len(xs) : xs[p] = i
    BY <1>2 DEF Lists
  <2>2. Len(xs) \in Nat /\ DOMAIN xs = 1 .. Len(xs) /\ xs \in [1 .. Len(xs) -> S]
    BY <2>1, LenProperties
  <2>3. \A p \in 1 .. Len(xs) : xs[p] \in S
    BY <2>2
  <2>. QED
    BY <1>1, <2>1, <2>2, <2>3
<1>5. Main(x) = {h \in S : Level(h) <= 2}
  BY DEF Main, S
<1>6. CASE main = {}
  <2>1. \A h \in S : ~(Level(h) <= 2)
    BY <1>4, <1>6
  <2>2. Main(x) = {}
    BY <1>5, <2>1
  <2>. QED
    BY <1>2, <1>3, <1>6, <2>2 DEF S
<1>7. CASE main # {}
  <2>1. m \in main /\ \A k \in main : k <= m
    <3>1. main \in SUBSET (0 .. Len(xs))
      BY <1>4
    <3>. HIDE DEF main
    <3>. QED
      BY <1>4, <1>7, <3>1, Greatest
  <2>2. m \in 1 .. Len(xs) /\ Level(xs[m]) <= 2
    BY <1>4, <2>1
  <2>3. \A k \in 1 .. Len(xs) : Level(xs[k]) <= 2 => k <= m
    BY <1>4, <2>1
  <2>. HIDE DEF main, m
  <2>4. xs[m] \in Main(x)
    BY <1>4, <1>5, <2>2
  <2>5. ASSUME NEW h \in Main(x) PROVE h <= xs[m]
    <3>1. h \in S /\ Level(h) <= 2
      BY <1>5
    <3>2. PICK k \in 1 .. Len(xs) : xs[k] = h
      BY <1>4, <3>1
    <3>3. k <= m
      BY <2>3, <3>1, <3>2
    <3>4. k = m \/ k < m
      BY <1>4, <2>2, <3>3
    <3>5. k < m => xs[k] < xs[m]
      BY <1>4, <2>2
    <3>6. xs[m] \in 1 .. n
      BY <1>4, <2>2
    <3>. QED
      BY <1>1, <3>1, <3>2, <3>4, <3>5, <3>6
  <2>6. Max(Main(x)) = xs[m]
    <3>1. Main(x) \in SUBSET (0 .. n)
      <4>1. \A h \in S : h \in 0 .. n
        BY <1>1
      <4>. QED
        BY <1>5, <4>1
    <3>. DEFINE M == Main(x)
                y == xs[m]
    <3>2. M \in SUBSET (0 .. n) /\ y \in M /\ \A h \in M : h <= y
      BY <2>4, <2>5, <3>1
    <3>. HIDE DEF M, y
    <3>3. Max(M) = y
      BY ONLY <1>1, <3>2, MaxIs
    <3>. QED
      BY <3>3 DEF M, y
  <2>. QED
    BY <1>3, <1>7, <2>4, <2>6
<1>. QED
  BY <1>6, <1>7

\* A part of a part of the text.
LEMMA SliceOfSlice ==
  ASSUME NEW a \in Nat \ {0}, NEW b \in Nat, NEW body, IsSlice(body, a, b),
         NEW c \in 1 .. Len(body), NEW d \in c .. Len(body)
  PROVE  /\ IsSlice(SubSeq(body, c, d), a + c - 1, a + d - 1)
         /\ \A q \in 1 .. d - c + 1 : SubSeq(body, c, d)[q] = body[c + q - 1]
<1>. DEFINE N == 1 .. Len(blocks)
            xs == SubSeq(body, c, d)
<1>1. /\ body \in Seq(N) /\ Len(body) \in Nat
      /\ \A q \in 1 .. Len(body) : body[q] \in N /\ body[q] = text[a + q - 1]
  <2>. HIDE DEF N
  <2>1. body \in Seq(N) /\ \A q \in 1 .. Len(body) : body[q] = text[a + q - 1]
    BY DEF IsSlice, N
  <2>. QED
    BY <2>1, LenProperties
<1>. HIDE DEF N
<1>2. c \in Int /\ d \in Int /\ c <= d /\ \A i \in c .. d : body[i] \in N
  BY <1>1
<1>3. xs \in Seq(N) /\ Len(xs) = IF c <= d THEN d - c + 1 ELSE 0
  BY <1>2, SubSeqProperties
<1>4. \A q \in 1 .. d - c + 1 : xs[q] = body[c + q - 1]
  BY <1>2, SubSeqProperties
<1>. HIDE DEF xs
<1>5. Len(xs) = d - c + 1
  BY <1>2, <1>3
<1>6. ASSUME NEW q \in 1 .. Len(xs) PROVE xs[q] = text[(a + c - 1) + q - 1]
  <2>1. c + q - 1 \in 1 .. Len(body) /\ a + (c + q - 1) - 1 = (a + c - 1) + q - 1
    BY <1>1, <1>5
  <2>2. xs[q] = body[c + q - 1]
    BY <1>4, <1>5
  <2>. QED
    BY <1>1, <2>1, <2>2
<1>7. (a + d - 1) - (a + c - 1) + 1 = d - c + 1
  BY <1>1
<1>8. IsSlice(xs, a + c - 1, a + d - 1)
  BY <1>3, <1>5, <1>6, <1>7 DEF IsSlice, N
<1>. QED
  BY <1>4, <1>8 DEF xs

\* What a section is cut into.
IsCut(chs, sec) ==
  /\ chs \in Seq(ChunkType)
  /\ \A k \in 1 .. Len(chs) :
       /\ GoodChunk(chs[k])
       /\ \A q \in 1 .. Len(chs[k].text) : \E r \in 1 .. Len(sec.body) : chs[k].text[q] = sec.body[r]
  /\ \A k \in 2 .. Len(chs) : Follows(chs[k - 1], chs[k])
  /\ \A q \in 1 .. Len(sec.body) : blocks[sec.body[q]].kind # "blank" =>
       \E k \in 1 .. Len(chs) : \E r \in 1 .. Len(chs[k].text) : chs[k].text[r] = sec.body[q]

\* A piece of a part of the text, without its blank ends.
LEMMA StrippedPiece ==
  ASSUME DocumentInv, TextInv, NEW a \in Nat \ {0}, NEW b \in Nat, b <= Len(text),
         NEW body, IsSlice(body, a, b), NEW c \in 1 .. Len(body), NEW d \in c .. Len(body),
         NEW xs, xs = Strip(SubSeq(body, c, d))
  PROVE  /\ xs \in Seq(1 .. Len(blocks))
         /\ \A j \in c .. d : blocks[body[j]].kind # "blank" => \E r \in 1 .. Len(xs) : xs[r] = body[j]
         /\ Len(xs) > 0 => \E u \in a + c - 1 .. a + d - 1 : \E v \in u .. a + d - 1 :
                             IsSlice(xs, u, v) /\ Trimmed(xs)
<1>. DEFINE ys == SubSeq(body, c, d)
            e == a + c - 1
            f == a + d - 1
<1>1. Len(body) \in Nat /\ Len(body) = b - a + 1 /\ Len(text) \in Nat
  BY LenProperties, TextFacts DEF IsSlice
<1>2. IsSlice(ys, e, f) /\ \A q \in 1 .. d - c + 1 : ys[q] = body[c + q - 1]
  BY SliceOfSlice
<1>3. e \in Nat \ {0} /\ f \in Nat /\ f <= Len(text) /\ f - e + 1 = d - c + 1
  BY <1>1
<1>. HIDE DEF ys, e, f
<1>4. xs = Strip(ys)
  BY DEF ys
<1>5. /\ Strip(ys) \in Seq(1 .. Len(blocks))
      /\ \A q \in 1 .. Len(ys) : blocks[ys[q]].kind # "blank" =>
           \E r \in 1 .. Len(Strip(ys)) : Strip(ys)[r] = ys[q]
      /\ Len(Strip(ys)) > 0 =>
           \E u \in e .. f : \E v \in u .. f : IsSlice(Strip(ys), u, v) /\ Trimmed(Strip(ys))
  BY <1>2, <1>3, StripSlice
<1>6. ASSUME NEW j \in c .. d, blocks[body[j]].kind # "blank" PROVE \E r \in 1 .. Len(xs) : xs[r] = body[j]
  <2>1. j - c + 1 \in 1 .. d - c + 1 /\ c + (j - c + 1) - 1 = j
    BY <1>1
  <2>2. Len(ys) = d - c + 1
    BY <1>2, <1>3 DEF IsSlice
  <2>3. ys[j - c + 1] = body[j] /\ j - c + 1 \in 1 .. Len(ys)
    BY <1>2, <2>1, <2>2
  <2>. QED
    BY <1>4, <1>5, <1>6, <2>3
<1>. QED
  BY <1>4, <1>5, <1>6 DEF e, f

LEMMA CutGood ==
  ASSUME DocumentInv, TextInv, NEW sec \in Section, NEW a \in Nat \ {0}, NEW b \in Nat, b <= Len(text),
         IsSlice(sec.body, a, b), \A q \in 1 .. Len(sec.body) : Belongs(sec, sec.body[q])
  PROVE  IsCut(Cut(sec), sec)
<1>. DEFINE body == sec.body
            n == Len(body)
            m == PieceCount(n)
            Piece(p) == Strip(SubSeq(body, PieceStart(p), PieceEnd(p, n)))
            K == {p \in 1 .. m : Piece(p) # << >>}
            kept == InOrder(K)
            ChunkOf(p) == Labelled(Piece(p), sec)
            chs == Cut(sec)
<1>1. chs = [k \in DOMAIN kept |-> ChunkOf(kept[k])]
  <2>. DEFINE all == Pieces(body)
              some == {p \in DOMAIN all : Strip(all[p]) # << >>}
  <2>1. all = [p \in 1 .. m |-> SubSeq(body, PieceStart(p), PieceEnd(p, n))]
    BY DEF Pieces, PieceCount, Starts, PieceEnd
  <2>2. chs = [k \in DOMAIN InOrder(some) |-> Labelled(Strip(all[InOrder(some)[k]]), sec)]
    BY DEF Cut
  <2>3. DOMAIN all = 1 .. m /\ \A p \in 1 .. m : Strip(all[p]) = Piece(p)
    BY <2>1
  <2>. HIDE DEF all, m, Piece
  <2>4. some = K
    BY <2>3
  <2>. HIDE DEF some, K, chs
  <2>5. chs = [k \in DOMAIN kept |-> Labelled(Strip(all[kept[k]]), sec)]
    BY <2>2, <2>4
  <2>6. \A k \in DOMAIN kept : kept[k] \in K
    <3>1. m \in Nat /\ K \in SUBSET (1 .. m)
      <4>1. n \in Nat
        BY LenProperties DEF IsSlice
      <4>. QED
        BY <4>1, PieceFacts DEF m, K
    <3>2. Lists(kept, K)
      BY <3>1, InOrderLists
    <3>. HIDE DEF kept
    <3>3. kept \in Seq(K)
      BY <3>2 DEF Lists
    <3>. QED
      BY <3>3, LenProperties
  <2>7. \A k \in DOMAIN kept : Strip(all[kept[k]]) = Piece(kept[k])
    BY <2>3, <2>6 DEF K
  <2>. QED
    BY <2>5, <2>7
<1>2. /\ body \in Seq(1 .. Len(blocks)) /\ n \in Nat /\ n = Len(body) /\ n = b - a + 1
      /\ IsSlice(body, a, b)
      /\ \A q \in 1 .. n : body[q] = text[a + q - 1]
      /\ \A q \in 1 .. n : Belongs(sec, body[q])
  BY LenProperties DEF IsSlice
<1>. HIDE DEF m, chs, n, body
<1>. DEFINE c(p) == PieceStart(p)
            d(p) == PieceEnd(p, n)
<1>3. /\ m \in Nat
      /\ \A p \in 1 .. m : c(p) \in 1 .. n /\ d(p) \in c(p) .. n
      /\ \A j \in 1 .. n : \E p \in 1 .. m : j \in c(p) .. d(p)
      /\ \A p, q \in 1 .. m : p <= q => c(p) <= c(q)
  <2>1. n \in Nat
    BY <1>2
  <2>2. /\ PieceCount(n) \in 0 .. n
        /\ \A p \in 1 .. PieceCount(n) : PieceStart(p) \in 1 .. n /\ PieceEnd(p, n) \in PieceStart(p) .. n
        /\ \A j \in 1 .. n : \E p \in 1 .. PieceCount(n) : j \in PieceStart(p) .. PieceEnd(p, n)
        /\ \A p, q \in 1 .. PieceCount(n) : p <= q => PieceStart(p) <= PieceStart(q)
    BY ONLY <2>1, PieceFacts
  <2>3. m \in Nat
    BY <2>2 DEF m
  <2>. QED
    BY <2>2, <2>3 DEF m
<1>. HIDE DEF c, d
<1>4. ASSUME NEW p \in 1 .. m
      PROVE  /\ Piece(p) \in Seq(1 .. Len(blocks))
             /\ \A j \in c(p) .. d(p) : blocks[body[j]].kind # "blank" =>
                  \E r \in 1 .. Len(Piece(p)) : Piece(p)[r] = body[j]
             /\ Len(Piece(p)) > 0 =>
                  \E u \in a + c(p) - 1 .. a + d(p) - 1 : \E v \in u .. a + d(p) - 1 :
                    IsSlice(Piece(p), u, v) /\ Trimmed(Piece(p))
  <2>. DEFINE xs == Piece(p)
              e == c(p)
              f == d(p)
  <2>1. e \in 1 .. Len(body) /\ f \in e .. Len(body) /\ IsSlice(body, a, b)
    BY <1>2, <1>3
  <2>0. xs = Strip(SubSeq(body, e, f))
    BY DEF c, d
  <2>. DEFINE given == DocumentInv /\ TextInv /\ a \in Nat \ {0} /\ b \in Nat /\ b <= Len(text)
  <2>3. given
    OBVIOUS
  <2>. HIDE DEF xs, e, f
  <2>2. /\ xs \in Seq(1 .. Len(blocks))
        /\ \A j \in e .. f : blocks[body[j]].kind # "blank" => \E r \in 1 .. Len(xs) : xs[r] = body[j]
        /\ Len(xs) > 0 => \E u \in a + e - 1 .. a + f - 1 : \E v \in u .. a + f - 1 :
                            IsSlice(xs, u, v) /\ Trimmed(xs)
    BY ONLY <2>0, <2>1, <2>3, StrippedPiece
  <2>. QED
    BY <2>2 DEF xs, e, f
<1>. HIDE DEF Piece
<1>5. /\ kept \in Seq(K) /\ Len(kept) \in Nat /\ DOMAIN kept = 1 .. Len(kept)
      /\ \A k \in 1 .. Len(kept) : kept[k] \in K /\ kept[k] \in 1 .. m
      /\ \A k, l \in 1 .. Len(kept) : k < l => kept[k] < kept[l]
      /\ \A p \in K : \E k \in 1 .. Len(kept) : kept[k] = p
  <2>1. K \in SUBSET (1 .. m)
    OBVIOUS
  <2>. HIDE DEF K
  <2>2. Lists(kept, K)
    BY <1>3, <2>1, InOrderLists
  <2>. HIDE DEF kept
  <2>3. kept \in Seq(K)
    BY <2>2 DEF Lists
  <2>. QED
    BY <2>1, <2>2, <2>3, LenProperties DEF Lists
<1>. HIDE DEF kept
<1>6. ASSUME NEW p \in K
      PROVE  \E u \in a + c(p) - 1 .. a + d(p) - 1 : \E v \in u .. a + d(p) - 1 :
               IsSlice(Piece(p), u, v) /\ Trimmed(Piece(p))
  <2>1. p \in 1 .. m /\ Piece(p) # << >>
    OBVIOUS
  <2>2. Piece(p) \in Seq(1 .. Len(blocks))
    BY <1>4, <2>1
  <2>3. Len(Piece(p)) \in Nat /\ Len(Piece(p)) # 0
    BY <2>1, <2>2, EmptySeq, LenProperties
  <2>4. Len(Piece(p)) > 0
    BY <2>3
  <2>. HIDE DEF K
  <2>. QED
    BY <1>4, <2>1, <2>4
<1>7. ASSUME NEW p \in K
      PROVE  /\ GoodChunk(ChunkOf(p))
             /\ \A q \in 1 .. Len(Piece(p)) : \E r \in 1 .. n : Piece(p)[q] = body[r]
  <2>. DEFINE xs == Piece(p)
              ch == ChunkOf(p)
              low == a + c(p) - 1
              high == a + d(p) - 1
  <2>1. low \in a .. b /\ high \in low .. b
    <3>1. p \in 1 .. m
      OBVIOUS
    <3>2. c(p) \in 1 .. n /\ d(p) \in c(p) .. n
      BY <1>3, <3>1
    <3>. QED
      BY <1>2, <3>2
  <2>. HIDE DEF low, high
  <2>2. PICK x \in low .. high : \E y \in x .. high : IsSlice(xs, x, y) /\ Trimmed(xs)
    BY <1>6 DEF low, high
  <2>3. PICK y \in x .. high : IsSlice(xs, x, y) /\ Trimmed(xs)
    BY <2>2
  <2>4. ch.text = xs /\ ch.section = SectionName(sec) /\ ch.heading = sec.heading /\ ch.path = sec.path
    BY DEF Labelled
  <2>5. ch = [text |-> xs, section |-> SectionName(sec), heading |-> sec.heading, path |-> sec.path]
    BY DEF Labelled
  <2>. HIDE DEF xs, ch, ChunkOf
  <2>6. x \in a .. b /\ y \in x .. b
    BY <1>2, <2>1
  <2>7. xs \in Seq(1 .. Len(blocks)) /\ Len(xs) = y - x + 1 /\ \A q \in 1 .. Len(xs) : xs[q] = text[x + q - 1]
    BY <2>3 DEF IsSlice
  <2>8. ASSUME NEW q \in 1 .. Len(xs) PROVE \E r \in 1 .. n : xs[q] = body[r]
    <3>. DEFINE r == (x + q - 1) - a + 1
    <3>1. r \in 1 .. n /\ a + r - 1 = x + q - 1
      <4>1. /\ a \in Nat /\ b \in Nat /\ n = b - a + 1 /\ x \in a .. b /\ y \in x .. b
            /\ q \in 1 .. y - x + 1
        BY <1>2, <2>6, <2>7
      <4>. QED
        BY ONLY <4>1
    <3>. HIDE DEF r
    <3>2. xs[q] = body[r]
      BY <1>2, <2>7, <3>1
    <3>. QED
      BY <3>1, <3>2
  <2>9. ASSUME NEW q \in 1 .. Len(xs) PROVE StandsIn(ch, xs[q])
    <3>1. PICK r \in 1 .. n : xs[q] = body[r]
      BY <2>8
    <3>. DEFINE z == body[r]
    <3>2. Belongs(sec, z) /\ z \in 1 .. Len(blocks)
      <4>. DEFINE N == 1 .. Len(blocks)
      <4>0. Belongs(sec, z)
        BY <1>2
      <4>1. body \in Seq(N)
        BY <1>2
      <4>. HIDE DEF N
      <4>2. body \in [1 .. Len(body) -> N]
        BY ONLY <4>1, LenProperties
      <4>3. z \in N
        BY <1>2, <4>2
      <4>. QED
        BY <4>0, <4>3 DEF N
    <3>. HIDE DEF z
    <3>3. SectionName(sec) = IF Main(z) = {} THEN Nearest(Above(z)) ELSE Max(Main(z))
      BY <3>2, SectionNameIs
    <3>4. sec.path = InOrder(Above(z))
      <4>. DEFINE S == Above(z)
                  l == Len(blocks)
                  path == sec.path
      <4>1. l \in Nat /\ S \in SUBSET (1 .. l) /\ Lists(path, S)
        BY <3>2, AboveIs DEF AboveFacts, Belongs, DocumentInv
      <4>. HIDE DEF S, l, path
      <4>2. path = InOrder(S)
        BY ONLY <4>1, ListsAlike
      <4>. QED
        BY <4>2 DEF S, path
    <3>5. StandsIn(ch, z)
      BY <2>4, <3>2, <3>3, <3>4 DEF StandsIn, Belongs
    <3>. QED
      BY <3>1, <3>5 DEF z
  <2>10. ch \in ChunkType
    <3>1. xs \in Seq(Nat)
      <4>1. 1 .. Len(blocks) \in SUBSET Nat
        OBVIOUS
      <4>. QED
        BY <2>7, <4>1, SeqMonotonic
    <3>2. sec.heading \in Nat \cup {NoHeading} /\ sec.path \in Seq(Nat)
      BY DEF Section
    <3>3. SectionName(sec) \in Nat \cup {NoHeading}
      <4>. DEFINE main == {k \in DOMAIN sec.path : Level(sec.path[k]) <= 2}
                  path == sec.path
      <4>1. path \in Seq(Nat) /\ DOMAIN path = 1 .. Len(path) /\ Len(path) \in Nat
            /\ \A k \in 1 .. Len(path) : path[k] \in Nat
        BY <3>2, LenProperties
      <4>2. main # {} => Max(main) \in main
        <5>1. main \in SUBSET (0 .. Len(path))
          BY <4>1
        <5>. HIDE DEF main, path
        <5>. QED
          BY <4>1, <5>1, Greatest
      <4>3. main # {} => sec.path[Max(main)] \in Nat
        BY <4>1, <4>2
      <4>. QED
        BY <3>2, <4>3 DEF SectionName
    <3>. QED
      BY <2>5, <3>1, <3>2, <3>3 DEF ChunkType
  <2>11. x \in 1 .. Len(text) /\ y \in x .. Len(text)
    BY <2>6, TextFacts
  <2>12. GoodChunk(ch)
    BY <2>3, <2>4, <2>9, <2>10, <2>11 DEF GoodChunk
  <2>. QED
    BY <2>8, <2>12 DEF ch, xs
<1>8. ASSUME NEW p \in K, NEW q \in K, p < q PROVE Follows(ChunkOf(p), ChunkOf(q))
  <2>. DEFINE xs == Piece(p)
              ys == Piece(q)
              low == a + c(p) - 1
              high == a + d(p) - 1
  <2>1. PICK u \in low .. high : \E v \in u .. high : IsSlice(xs, u, v) /\ Trimmed(xs)
    BY <1>6
  <2>2. PICK v \in u .. high : IsSlice(xs, u, v)
    BY <2>1
  <2>3. PICK e \in a + c(q) - 1 .. a + d(q) - 1 :
          \E f \in e .. a + d(q) - 1 : IsSlice(ys, e, f) /\ Trimmed(ys)
    BY <1>6
  <2>4. PICK f \in e .. a + d(q) - 1 : IsSlice(ys, e, f) /\ Trimmed(ys)
    BY <2>3
  <2>5. /\ p \in 1 .. m /\ q \in 1 .. m /\ c(p) <= c(q)
        /\ c(p) \in 1 .. n /\ d(p) \in c(p) .. n /\ c(q) \in 1 .. n /\ d(q) \in c(q) .. n
    <3>1. p \in 1 .. m /\ q \in 1 .. m
      OBVIOUS
    <3>2. p <= q
      BY <1>3, <1>8, <3>1
    <3>. QED
      BY <1>3, <3>1, <3>2
  <2>. HIDE DEF xs, ys
  <2>6. /\ u \in 1 .. Len(text) /\ v \in u .. Len(text) /\ e \in 1 .. Len(text) /\ f \in e .. Len(text)
        /\ low <= e /\ e <= b
    <3>. DEFINE i == c(p)
                j == d(p)
                k == c(q)
                l == d(q)
    <3>1. i \in 1 .. n /\ j \in i .. n /\ k \in 1 .. n /\ l \in k .. n /\ i <= k
      BY <2>5
    <3>2. u \in a + i - 1 .. a + j - 1 /\ v \in u .. a + j - 1 /\ e \in a + k - 1 .. a + l - 1
          /\ f \in e .. a + l - 1 /\ low = a + i - 1
      OBVIOUS
    <3>3. n \in Nat /\ n = b - a + 1 /\ Len(text) \in Nat /\ b <= Len(text) /\ a \in Nat \ {0} /\ b \in Nat
      BY <1>2, TextFacts
    <3>. HIDE DEF i, j, k, l, low, high
    <3>. QED
      BY ONLY <3>1, <3>2, <3>3
  <2>7. xs[1] = text[u] /\ ys[1] = text[e] /\ blocks[text[e]].kind # "blank"
    <3>1. 1 \in 1 .. Len(xs) /\ 1 \in 1 .. Len(ys) /\ u + 1 - 1 = u /\ e + 1 - 1 = e
      BY <2>2, <2>4, <2>6 DEF IsSlice
    <3>. QED
      BY <2>2, <2>4, <3>1 DEF IsSlice, Trimmed
  <2>8. u <= e
    <3>1. SUFFICES ASSUME e < u PROVE FALSE
      BY <2>6
    <3>2. a + c(p) - 1 <= e /\ e < a + d(p) - 1 + 1
      <4>1. u \in a + c(p) - 1 .. a + d(p) - 1
        OBVIOUS
      <4>2. c(p) \in Nat /\ d(p) \in Nat
        <5>1. c(p) \in 1 .. n /\ d(p) \in c(p) .. n /\ n \in Nat
          BY <1>2, <2>5
        <5>. QED
          BY ONLY <5>1
      <4>. QED
        BY <2>6, <3>1, <4>1, <4>2
    <3>. DEFINE j == e - a + 1
    <3>3. j \in c(p) .. d(p) /\ j \in 1 .. n /\ a + j - 1 = e
      <4>1. c(p) \in 1 .. n /\ d(p) \in c(p) .. n /\ n \in Nat /\ e \in Nat
        BY <1>2, <2>5, <2>6, TextFacts
      <4>. QED
        BY <3>2, <4>1
    <3>. HIDE DEF j
    <3>4. body[j] = text[e]
      BY <1>2, <3>3
    <3>5. PICK r \in 1 .. Len(xs) : xs[r] = text[e]
      <4>1. \E r \in 1 .. Len(xs) : xs[r] = body[j]
        BY <1>4, <2>5, <2>7, <3>3, <3>4 DEF xs
      <4>. QED
        BY <3>4, <4>1
    <3>6. xs[r] = text[u + r - 1] /\ Len(xs) = v - u + 1
      BY <2>2 DEF IsSlice
    <3>7. u + r - 1 \in 1 .. Len(text)
      BY <2>6, <3>6, TextFacts
    <3>8. u + r - 1 = e
      BY <2>6, <3>5, <3>6, <3>7, TextFacts
    <3>. QED
      BY <2>6, <3>1, <3>8
  <2>9. ~Precedes(text[e], text[u])
    BY <2>6, <2>8, TextFacts
  <2>10. /\ ChunkOf(p).text = xs /\ ChunkOf(q).text = ys
         /\ ChunkOf(p).heading = ChunkOf(q).heading
    BY DEF xs, ys, Labelled
  <2>. HIDE DEF ChunkOf
  <2>. QED
    BY <2>7, <2>9, <2>10 DEF Follows
<1>9. ASSUME NEW q \in 1 .. n, blocks[body[q]].kind # "blank"
      PROVE  \E p \in K : \E r \in 1 .. Len(Piece(p)) : Piece(p)[r] = body[q]
  <2>1. PICK p \in 1 .. m : q \in c(p) .. d(p)
    BY <1>3
  <2>2. PICK r \in 1 .. Len(Piece(p)) : Piece(p)[r] = body[q]
    BY <1>4, <1>9, <2>1
  <2>3. Piece(p) # << >>
    BY <2>2, EmptySeq
  <2>. QED
    BY <2>2, <2>3
<1>10. chs \in Seq(ChunkType) /\ Len(chs) = Len(kept) /\ \A k \in 1 .. Len(kept) : chs[k] = ChunkOf(kept[k])
  <2>1. \A p \in K : ChunkOf(p) \in ChunkType
    BY <1>7 DEF GoodChunk
  <2>. HIDE DEF ChunkOf, K
  <2>2. /\ chs \in [1 .. Len(kept) -> ChunkType]
        /\ \A k \in 1 .. Len(kept) : chs[k] = ChunkOf(kept[k])
    BY <1>1, <1>5, <2>1
  <2>. DEFINE l == Len(kept)
  <2>3. l \in Nat /\ chs \in [1 .. l -> ChunkType]
    BY <1>5, <2>2
  <2>. HIDE DEF l
  <2>4. chs \in Seq(ChunkType) /\ Len(chs) = l
    BY <2>3, LenProperties
  <2>. QED
    BY <2>2, <2>4 DEF l
<1>11. \A p : ChunkOf(p).text = Piece(p)
  BY DEF Labelled
<1>. HIDE DEF ChunkOf, K
<1>12. \A k \in 1 .. Len(chs) :
         /\ GoodChunk(chs[k])
         /\ \A q \in 1 .. Len(chs[k].text) : \E r \in 1 .. n : chs[k].text[q] = body[r]
  <2>. SUFFICES ASSUME NEW k \in 1 .. Len(kept)
                PROVE  /\ GoodChunk(chs[k])
                       /\ \A q \in 1 .. Len(chs[k].text) : \E r \in 1 .. n : chs[k].text[q] = body[r]
    BY <1>10
  <2>. DEFINE p == kept[k]
  <2>1. chs[k] = ChunkOf(p) /\ ChunkOf(p).text = Piece(p) /\ p \in K
    BY <1>5, <1>10, <1>11
  <2>. HIDE DEF p
  <2>2. GoodChunk(ChunkOf(p)) /\ \A q \in 1 .. Len(Piece(p)) : \E r \in 1 .. n : Piece(p)[q] = body[r]
    BY <1>7, <2>1
  <2>. QED
    BY <2>1, <2>2
<1>13. ASSUME NEW k \in 2 .. Len(chs) PROVE Follows(chs[k - 1], chs[k])
  <2>1. k - 1 \in 1 .. Len(kept) /\ k \in 1 .. Len(kept) /\ k - 1 < k
    BY <1>5, <1>10
  <2>2. kept[k - 1] \in K /\ kept[k] \in K /\ kept[k - 1] < kept[k]
    BY <1>5, <2>1
  <2>. QED
    BY <1>8, <1>10, <2>1, <2>2
<1>14. ASSUME NEW q \in 1 .. n, blocks[body[q]].kind # "blank"
       PROVE  \E k \in 1 .. Len(chs) : \E r \in 1 .. Len(chs[k].text) : chs[k].text[r] = body[q]
  <2>1. PICK p \in K : \E r \in 1 .. Len(Piece(p)) : Piece(p)[r] = body[q]
    BY <1>9, <1>14
  <2>2. PICK k \in 1 .. Len(kept) : kept[k] = p
    BY <1>5
  <2>. QED
    BY <1>10, <1>11, <2>1, <2>2
<1>15. IsCut(chs, sec)
  <2>1. chs \in Seq(ChunkType)
    BY <1>10
  <2>2. \A k \in 1 .. Len(chs) :
          /\ GoodChunk(chs[k])
          /\ \A q \in 1 .. Len(chs[k].text) : \E r \in 1 .. Len(body) : chs[k].text[q] = body[r]
    BY <1>2, <1>12
  <2>3. \A k \in 2 .. Len(chs) : Follows(chs[k - 1], chs[k])
    BY <1>13
  <2>4. \A q \in 1 .. Len(body) : blocks[body[q]].kind # "blank" =>
          \E k \in 1 .. Len(chs) : \E r \in 1 .. Len(chs[k].text) : chs[k].text[r] = body[q]
    BY <1>2, <1>14
  <2>. QED
    BY ONLY <2>1, <2>2, <2>3, <2>4 DEF IsCut, body
<1>. QED
  BY <1>15 DEF chs

(***************************************************************************)
(* The chunks of a document.                                               *)
(***************************************************************************)
\* What the first k sections are cut into.
AllCut(chs, secs, k) ==
  /\ chs \in Seq(ChunkType)
  /\ \A j \in 1 .. Len(chs) :
       /\ GoodChunk(chs[j])
       /\ \E i \in 1 .. k : \A q \in 1 .. Len(chs[j].text) :
            \E r \in 1 .. Len(secs[i].body) : chs[j].text[q] = secs[i].body[r]
  /\ \A j \in 2 .. Len(chs) : Follows(chs[j - 1], chs[j])
  /\ \A i \in 1 .. k : \A q \in 1 .. Len(secs[i].body) : blocks[secs[i].body[q]].kind # "blank" =>
       \E j \in 1 .. Len(chs) : \E r \in 1 .. Len(chs[j].text) : chs[j].text[r] = secs[i].body[q]

\* The chunks of one section and of a later one.
LEMMA AcrossSections ==
  ASSUME DocumentInv, TextInv, NEW xs, NEW ys, Comes(xs, ys), NEW x, NEW y, GoodChunk(x), GoodChunk(y),
         \A q \in 1 .. Len(x.text) : \E r \in 1 .. Len(xs) : x.text[q] = xs[r],
         \A q \in 1 .. Len(y.text) : \E r \in 1 .. Len(ys) : y.text[q] = ys[r]
  PROVE  Follows(x, y)
<1>1. x.text \in Seq(Nat) /\ y.text \in Seq(Nat)
  BY DEF GoodChunk, ChunkType
<1>2. /\ DOMAIN x.text = 1 .. Len(x.text) /\ DOMAIN y.text = 1 .. Len(y.text)
      /\ \A q \in 1 .. Len(x.text) : x.text[q] \in Nat
      /\ \A q \in 1 .. Len(y.text) : y.text[q] \in Nat
  BY <1>1, LenProperties
<1>3. 1 \in 1 .. Len(x.text) /\ 1 \in 1 .. Len(y.text)
  <2>. SUFFICES ASSUME NEW z, GoodChunk(z) PROVE 1 \in 1 .. Len(z.text)
    OBVIOUS
  <2>1. PICK a \in 1 .. Len(text) : \E b \in a .. Len(text) : IsSlice(z.text, a, b)
    BY DEF GoodChunk
  <2>2. PICK b \in a .. Len(text) : IsSlice(z.text, a, b)
    BY <2>1
  <2>. QED
    BY <2>2, TextFacts DEF IsSlice
<1>4. ASSUME NEW p \in 1 .. Len(x.text), NEW q \in 1 .. Len(y.text) PROVE Precedes(x.text[p], y.text[q])
  <2>1. PICK r \in 1 .. Len(xs) : x.text[p] = xs[r]
    OBVIOUS
  <2>2. PICK s \in 1 .. Len(ys) : y.text[q] = ys[s]
    OBVIOUS
  <2>. QED
    BY <2>1, <2>2 DEF Comes
<1>5. x.text[1] \in Nat /\ y.text[1] \in Nat
  BY <1>2, <1>3
<1>6. ~Precedes(y.text[1], x.text[1])
  BY <1>3, <1>4, <1>5, PrecedesOrders
<1>. QED
  BY <1>4, <1>6 DEF Follows

LEMMA AllCutMore ==
  ASSUME DocumentInv, TextInv, NEW secs, NEW k \in Nat \ {0}, NEW chs, AllCut(chs, secs, k - 1),
         NEW more, IsCut(more, secs[k]),
         \A i \in 1 .. k - 1 : Comes(secs[i].body, secs[k].body)
  PROVE  AllCut(chs \o more, secs, k)
<1>. DEFINE m == Len(chs)
            n == Len(more)
            all == chs \o more
            body == secs[k].body
<1>1. /\ chs \in Seq(ChunkType) /\ m \in Nat
      /\ \A j \in 1 .. m :
           /\ GoodChunk(chs[j])
           /\ \E i \in 1 .. k - 1 : \A q \in 1 .. Len(chs[j].text) :
                \E r \in 1 .. Len(secs[i].body) : chs[j].text[q] = secs[i].body[r]
      /\ \A j \in 2 .. m : Follows(chs[j - 1], chs[j])
      /\ \A i \in 1 .. k - 1 : \A q \in 1 .. Len(secs[i].body) : blocks[secs[i].body[q]].kind # "blank" =>
           \E j \in 1 .. m : \E r \in 1 .. Len(chs[j].text) : chs[j].text[r] = secs[i].body[q]
  BY LenProperties DEF AllCut
<1>2. /\ more \in Seq(ChunkType) /\ n \in Nat
      /\ \A j \in 1 .. n :
           /\ GoodChunk(more[j])
           /\ \A q \in 1 .. Len(more[j].text) : \E r \in 1 .. Len(body) : more[j].text[q] = body[r]
      /\ \A j \in 2 .. n : Follows(more[j - 1], more[j])
      /\ \A q \in 1 .. Len(body) : blocks[body[q]].kind # "blank" =>
           \E j \in 1 .. n : \E r \in 1 .. Len(more[j].text) : more[j].text[r] = body[q]
  BY LenProperties DEF IsCut
<1>3. /\ all \in Seq(ChunkType) /\ Len(all) = m + n
      /\ \A j \in 1 .. m + n : all[j] = IF j <= m THEN chs[j] ELSE more[j - m]
  BY <1>1, <1>2, ConcatProperties
<1>. HIDE DEF all, m, n, body
<1>4. /\ \A j \in 1 .. m : j \in 1 .. m + n /\ all[j] = chs[j]
      /\ \A j \in 1 .. n : m + j \in 1 .. m + n /\ all[m + j] = more[j]
      /\ \A j \in 1 .. m + n : j \in 1 .. m \/ (j - m \in 1 .. n /\ m + (j - m) = j)
  <2>1. \A j \in 1 .. m : j \in 1 .. m + n /\ j <= m
    BY <1>1, <1>2
  <2>2. \A j \in 1 .. n : m + j \in 1 .. m + n /\ ~(m + j <= m) /\ (m + j) - m = j
    BY <1>1, <1>2
  <2>3. \A j \in 1 .. m + n : j \in 1 .. m \/ (j - m \in 1 .. n /\ m + (j - m) = j)
    BY <1>1, <1>2
  <2>. QED
    BY <1>3, <2>1, <2>2, <2>3
<1>5. ASSUME NEW j \in 1 .. m + n
      PROVE  /\ GoodChunk(all[j])
             /\ \E i \in 1 .. k : \A q \in 1 .. Len(all[j].text) :
                  \E r \in 1 .. Len(secs[i].body) : all[j].text[q] = secs[i].body[r]
  <2>1. CASE j \in 1 .. m
    <3>1. all[j] = chs[j] /\ GoodChunk(chs[j])
      BY <1>1, <1>4, <2>1
    <3>2. PICK i \in 1 .. k - 1 : \A q \in 1 .. Len(chs[j].text) :
            \E r \in 1 .. Len(secs[i].body) : chs[j].text[q] = secs[i].body[r]
      BY <1>1, <2>1
    <3>. DEFINE x == chs[j]
    <3>3. /\ i \in 1 .. k /\ all[j] = x /\ GoodChunk(x)
          /\ \A q \in 1 .. Len(x.text) : \E r \in 1 .. Len(secs[i].body) : x.text[q] = secs[i].body[r]
      <4>1. i \in 1 .. k
        OBVIOUS
      <4>2. \A q \in 1 .. Len(x.text) : \E r \in 1 .. Len(secs[i].body) : x.text[q] = secs[i].body[r]
        BY <3>2, Zenon
      <4>. QED
        BY <3>1, <4>1, <4>2, Zenon
    <3>. HIDE DEF x
    <3>. QED
      BY ONLY <3>3
  <2>2. CASE j - m \in 1 .. n /\ m + (j - m) = j
    <3>. DEFINE l == j - m
    <3>1. l \in 1 .. n /\ all[j] = more[l]
      BY <1>4, <2>2
    <3>. HIDE DEF l
    <3>2. GoodChunk(more[l]) /\ \A q \in 1 .. Len(more[l].text) :
            \E r \in 1 .. Len(secs[k].body) : more[l].text[q] = secs[k].body[r]
      BY <1>2, <3>1 DEF body
    <3>. DEFINE x == more[l]
    <3>3. /\ k \in 1 .. k /\ all[j] = x /\ GoodChunk(x)
          /\ \A q \in 1 .. Len(x.text) : \E r \in 1 .. Len(secs[k].body) : x.text[q] = secs[k].body[r]
      BY <3>1, <3>2
    <3>. HIDE DEF x
    <3>. QED
      BY ONLY <3>3
  <2>. QED
    BY <1>4, <2>1, <2>2
<1>6. ASSUME NEW j \in 2 .. m + n PROVE Follows(all[j - 1], all[j])
  <2>1. CASE j <= m
    <3>1. j \in 2 .. m /\ j - 1 \in 1 .. m /\ j \in 1 .. m
      BY <1>1, <2>1
    <3>. QED
      BY <1>1, <1>4, <3>1
  <2>2. CASE j = m + 1
    <3>1. m \in 1 .. m /\ 1 \in 1 .. n /\ j - 1 = m
      BY <1>1, <1>2, <2>2
    <3>2. all[j - 1] = chs[m] /\ all[j] = more[1]
      BY <1>4, <2>2, <3>1
    <3>3. PICK i \in 1 .. k - 1 : \A q \in 1 .. Len(chs[m].text) :
            \E r \in 1 .. Len(secs[i].body) : chs[m].text[q] = secs[i].body[r]
      BY <1>1, <3>1
    <3>. DEFINE x == chs[m]
                y == more[1]
                xs == secs[i].body
    <3>4. GoodChunk(x) /\ \A q \in 1 .. Len(x.text) : \E r \in 1 .. Len(xs) : x.text[q] = xs[r]
      BY <1>1, <3>1, <3>3
    <3>5. GoodChunk(y) /\ \A q \in 1 .. Len(y.text) : \E r \in 1 .. Len(body) : y.text[q] = body[r]
      BY <1>2, <3>1
    <3>6. Comes(xs, body)
      BY DEF body
    <3>. HIDE DEF x, y, xs
    <3>7. Follows(x, y)
      BY <3>4, <3>5, <3>6, AcrossSections
    <3>. QED
      BY <3>2, <3>7 DEF x, y
  <2>3. CASE j > m + 1
    <3>. DEFINE l == j - m
    <3>1. l \in 2 .. n /\ l - 1 \in 1 .. n /\ l \in 1 .. n /\ m + l = j /\ m + (l - 1) = j - 1
      BY <1>1, <1>2, <2>3
    <3>. HIDE DEF l
    <3>2. all[j] = more[l] /\ all[j - 1] = more[l - 1]
      BY <1>4, <3>1
    <3>. QED
      BY <1>2, <3>1, <3>2
  <2>. QED
    BY <1>1, <1>2, <2>1, <2>2, <2>3
<1>7. ASSUME NEW i \in 1 .. k, NEW q \in 1 .. Len(secs[i].body), blocks[secs[i].body[q]].kind # "blank"
      PROVE  \E j \in 1 .. m + n : \E r \in 1 .. Len(all[j].text) : all[j].text[r] = secs[i].body[q]
  <2>1. CASE i \in 1 .. k - 1
    <3>1. PICK j \in 1 .. m : \E r \in 1 .. Len(chs[j].text) : chs[j].text[r] = secs[i].body[q]
      BY <1>1, <1>7, <2>1
    <3>2. j \in 1 .. m + n /\ all[j] = chs[j]
      BY <1>4
    <3>. QED
      BY <3>1, <3>2
  <2>2. CASE i = k
    <3>1. PICK j \in 1 .. n : \E r \in 1 .. Len(more[j].text) : more[j].text[r] = secs[i].body[q]
      BY <1>2, <1>7, <2>2 DEF body
    <3>2. m + j \in 1 .. m + n /\ all[m + j] = more[j]
      BY <1>4
    <3>. QED
      BY <3>1, <3>2
  <2>3. i \in 1 .. k - 1 \/ i = k
    OBVIOUS
  <2>. QED
    BY <2>1, <2>2, <2>3
<1>8. AllCut(all, secs, k)
  <2>1. all \in Seq(ChunkType) /\ Len(all) = m + n
    BY <1>3
  <2>2. \A j \in 1 .. Len(all) :
          /\ GoodChunk(all[j])
          /\ \E i \in 1 .. k : \A q \in 1 .. Len(all[j].text) :
               \E r \in 1 .. Len(secs[i].body) : all[j].text[q] = secs[i].body[r]
    BY <1>5, <2>1
  <2>3. \A j \in 2 .. Len(all) : Follows(all[j - 1], all[j])
    BY <1>6, <2>1
  <2>4. \A i \in 1 .. k : \A q \in 1 .. Len(secs[i].body) : blocks[secs[i].body[q]].kind # "blank" =>
          \E j \in 1 .. Len(all) : \E r \in 1 .. Len(all[j].text) : all[j].text[r] = secs[i].body[q]
    BY <1>7, <2>1
  <2>. QED
    BY ONLY <2>1, <2>2, <2>3, <2>4, Zenon DEF AllCut
<1>. QED
  BY <1>8 DEF all

Cuts(secs) == FoldLeft(LAMBDA all, sec : all \o Cut(sec), << >>, secs)

LEMMA CutsAccumulate ==
  ASSUME NEW n \in Nat, NEW secs, DOMAIN secs = 1 .. n, NEW V, V = Seq(ChunkType),
         \A k \in 1 .. n : Cut(secs[k]) \in V,
         NEW step, step = [kv \in (1 .. n) \X V |-> kv[2] \o Cut(secs[kv[1]])],
         NEW none, none = << >>
  PROVE  \E acc : Accumulates(acc, n, V, none, step) /\ acc[n] = Cuts(secs)
<1>. DEFINE More(chs, k) == chs \o Cut(secs[k])
            Folds(g) == g = [t \in SUBSET (1 .. n) |->
                               IF t = {} THEN none ELSE More(g[t \ {Max(t)}], Max(t))]
            iter == CHOOSE g : Folds(g)
<1>1. Cuts(secs) = iter[1 .. n]
  BY DEF Cuts, FoldLeft, MapThenFoldSet
<1>2. \A k \in 1 .. n, v \in V : step[<<k, v>>] = More(v, k)
  OBVIOUS
<1>3. none \in V
  BY EmptySeq
<1>4. StaysWithin(step, n, V)
  <2>1. ASSUME NEW k \in 1 .. n, NEW v \in V PROVE More(v, k) \in V
    BY ConcatProperties
  <2>. HIDE DEF More
  <2>. QED
    BY <1>2, <2>1 DEF StaysWithin
<1>. HIDE DEF More
<1>5. PICK g : IsFold(g, 1 .. n, V, none, Largest(n), step)
  BY <1>3, <1>4, SequenceFoldExists
<1>6. Folds(g)
  <2>1. ASSUME NEW t \in SUBSET (1 .. n), t # {}
        PROVE  step[<<Max(t), g[t \ {Max(t)}]>>] = More(g[t \ {Max(t)}], Max(t))
    <3>1. Max(t) \in 1 .. n
      BY <2>1, Maximum
    <3>2. g[t \ {Max(t)}] \in V
      BY <1>5 DEF IsFold
    <3>. QED
      BY <1>2, <3>1, <3>2
  <2>. QED
    BY <1>5, <2>1 DEF IsFold, Largest
<1>7. Folds(iter)
  BY <1>6
<1>. HIDE DEF iter
<1>8. /\ iter = [t \in SUBSET (1 .. n) |-> iter[t]]
      /\ iter[{}] = none
      /\ \A t \in SUBSET (1 .. n) : t # {} => iter[t] = More(iter[t \ {Max(t)}], Max(t))
  BY <1>7
<1>9. ASSUME NEW t \in SUBSET (1 .. n), t # {}, iter[t \ {Max(t)}] \in V
      PROVE  iter[t] = step[<<Max(t), iter[t \ {Max(t)}]>>]
  <2>1. Max(t) \in 1 .. n
    BY <1>9, Maximum
  <2>. QED
    BY <1>2, <1>8, <1>9, <2>1
<1>10. FoldsWithin(iter, n, V, none, step)
  BY <1>8, <1>9 DEF FoldsWithin
<1>11. \E acc : Accumulates(acc, n, V, none, step) /\ acc[n] = iter[1 .. n]
  <2>1. n \in Nat
    OBVIOUS
  <2>. QED
    BY ONLY <1>3, <1>4, <1>10, <2>1, SequenceFoldIs
<1>. QED
  BY <1>1, <1>11

LEMMA CutsGood ==
  ASSUME DocumentInv, TextInv, NEW secs, SectionsInv(secs, Len(text))
  PROVE  AllCut(Cuts(secs), secs, Len(secs))
<1>. DEFINE n == Len(secs)
            V == Seq(ChunkType)
            none == << >>
            step == [kv \in (1 .. n) \X V |-> kv[2] \o Cut(secs[kv[1]])]
<1>1. /\ secs \in Seq(Section) /\ n \in Nat /\ DOMAIN secs = 1 .. n
      /\ \A k \in 1 .. n : secs[k] \in Section /\ SectionOK(secs[k], Len(text))
      /\ \A k, l \in 1 .. n : k < l => Comes(secs[k].body, secs[l].body)
  BY LenProperties DEF SectionsInv
<1>2. ASSUME NEW k \in 1 .. n PROVE IsCut(Cut(secs[k]), secs[k])
  <2>. DEFINE sec == secs[k]
  <2>1. sec \in Section /\ SectionOK(sec, Len(text))
    BY <1>1
  <2>. HIDE DEF sec
  <2>2. PICK a \in 1 .. Len(text) : \E b \in a .. Len(text) : IsSlice(sec.body, a, b)
    BY <2>1 DEF SectionOK
  <2>3. PICK b \in a .. Len(text) : IsSlice(sec.body, a, b)
    BY <2>2
  <2>4. a \in Nat \ {0} /\ b \in Nat /\ b <= Len(text)
    BY TextFacts
  <2>5. \A q \in 1 .. Len(sec.body) : Belongs(sec, sec.body[q])
    BY <2>1 DEF SectionOK
  <2>6. IsCut(Cut(sec), sec)
    BY <2>1, <2>3, <2>4, <2>5, CutGood
  <2>. QED
    BY <2>6 DEF sec
<1>3. \A k \in 1 .. n : Cut(secs[k]) \in V
  BY <1>2 DEF IsCut
<1>4. \A k \in 1 .. n, v \in V : step[<<k, v>>] = v \o Cut(secs[k])
  OBVIOUS
<1>5. PICK acc : Accumulates(acc, n, V, none, step) /\ acc[n] = Cuts(secs)
  <2>1. none = << >> /\ V = Seq(ChunkType) /\ step = [kv \in (1 .. n) \X V |-> kv[2] \o Cut(secs[kv[1]])]
    OBVIOUS
  <2>. HIDE DEF none, step, V, n
  <2>. QED
    BY <1>1, <1>3, <2>1, CutsAccumulate
<1>6. none \in V /\ Len(none) = 0 /\ 1 .. 0 = {} /\ 2 .. 0 = {}
  BY EmptySeq
<1>. HIDE DEF step, none, n
<1>7. /\ acc[0] = none
      /\ \A k \in 0 .. n : acc[k] \in V
      /\ \A k \in 1 .. n : acc[k] = step[<<k, acc[k - 1]>>]
  BY <1>5 DEF Accumulates
<1>. DEFINE T == {k \in 0 .. n : AllCut(acc[k], secs, k)}
<1>8. 0 \in T
  <2>1. AllCut(none, secs, 0)
    BY <1>6 DEF AllCut
  <2>. QED
    BY <1>1, <1>7, <2>1
<1>9. ASSUME NEW k \in 1 .. n, k - 1 \in T PROVE k \in T
  <2>1. k \in Nat \ {0} /\ k - 1 \in 0 .. n /\ k \in 0 .. n
    BY <1>1
  <2>2. acc[k] = acc[k - 1] \o Cut(secs[k])
    BY <1>4, <1>7, <2>1
  <2>3. AllCut(acc[k - 1], secs, k - 1)
    BY <1>9
  <2>4. \A i \in 1 .. k - 1 : Comes(secs[i].body, secs[k].body)
    <3>1. \A i \in 1 .. k - 1 : i \in 1 .. n /\ i < k
      BY <1>1
    <3>. QED
      BY <1>1, <3>1
  <2>. DEFINE chs == acc[k - 1]
              more == Cut(secs[k])
  <2>5. AllCut(chs, secs, k - 1) /\ IsCut(more, secs[k])
    BY <1>2, <2>3
  <2>. HIDE DEF chs, more
  <2>6. AllCut(chs \o more, secs, k)
    BY <2>1, <2>4, <2>5, AllCutMore
  <2>. QED
    BY <2>1, <2>2, <2>6 DEF chs, more
<1>10. \A k \in 0 .. n : k \in T
  <2>. HIDE DEF T
  <2>. QED
    BY <1>1, <1>8, <1>9, BoundedInduction
<1>11. n \in 0 .. n
  BY <1>1
<1>. QED
  BY <1>5, <1>10, <1>11 DEF n

\* What is done with a document: every chunk is good, each follows the one before it,
\* and every line that is to be found is in one.
ChunksInv ==
  /\ chunks \in Seq(ChunkType)
  /\ \A j \in 1 .. Len(chunks) : GoodChunk(chunks[j])
  /\ \A j \in 2 .. Len(chunks) : Follows(chunks[j - 1], chunks[j])
  /\ \A p \in 1 .. Len(text) : Indexable(text[p]) =>
       \E j \in 1 .. Len(chunks) : \E r \in 1 .. Len(chunks[j].text) : chunks[j].text[r] = text[p]

LEMMA ChunkSections ==
  ASSUME DocumentInv, TextInv, SectionsInv(sections, Len(text)), chunks = Cuts(sections)
  PROVE  ChunksInv
<1>1. AllCut(chunks, sections, Len(sections))
  BY CutsGood
<1>2. ASSUME NEW p \in 1 .. Len(text), Indexable(text[p])
      PROVE  \E j \in 1 .. Len(chunks) : \E r \in 1 .. Len(chunks[j].text) : chunks[j].text[r] = text[p]
  <2>1. PICK k \in 1 .. Len(sections) : \E q \in 1 .. Len(sections[k].body) : sections[k].body[q] = text[p]
    BY <1>2 DEF SectionsInv
  <2>2. PICK q \in 1 .. Len(sections[k].body) : sections[k].body[q] = text[p]
    BY <2>1
  <2>3. blocks[sections[k].body[q]].kind # "blank"
    BY <1>2, <2>2 DEF Indexable
  <2>4. \E j \in 1 .. Len(chunks) : \E r \in 1 .. Len(chunks[j].text) : chunks[j].text[r] = sections[k].body[q]
    BY <1>1, <2>3 DEF AllCut
  <2>. QED
    BY <2>2, <2>4
<1>. QED
  BY <1>1, <1>2 DEF AllCut, ChunksInv

\* A text file is one section, and has no heading.
LEMMA ChunkText ==
  ASSUME DocumentInv, TextInv, document.format = "text",
         chunks = Cut([heading |-> NoHeading, path |-> << >>, body |-> text])
  PROVE  ChunksInv
<1>. DEFINE none == << >>
            sec == [heading |-> NoHeading, path |-> none, body |-> text]
            n == Len(text)
<1>1. n \in Nat /\ text \in Seq(1 .. Len(blocks))
  BY TextFacts DEF TextInv
<1>2. sec \in Section
  <2>1. none \in Seq(Nat)
    BY EmptySeq
  <2>2. 1 .. Len(blocks) \in SUBSET Nat
    OBVIOUS
  <2>3. text \in Seq(Nat)
    BY <1>1, <2>2, SeqMonotonic
  <2>. HIDE DEF none
  <2>. QED
    BY <2>1, <2>3 DEF Section
<1>3. sec.body = text /\ sec.path = none /\ sec.heading = NoHeading
  OBVIOUS
<1>4. Headings = {}
  BY DEF Headings
<1>5. \A x : Before(x) = {} /\ Above(x) = {}
  BY <1>4 DEF Before, Above
<1>6. Nearest({}) = NoHeading /\ ~Skipped(NoHeading)
  BY DEF Nearest, Skipped
<1>7. IsSlice(text, 1, n)
  <2>1. n = n - 1 + 1 /\ \A q \in 1 .. n : 1 + q - 1 = q
    BY <1>1
  <2>. QED
    BY <1>1, <2>1 DEF IsSlice
<1>8. Lists(none, {})
  <2>1. none \in Seq({}) /\ Len(none) = 0 /\ 1 .. 0 = {}
    BY EmptySeq
  <2>. HIDE DEF none
  <2>. QED
    BY <2>1 DEF Lists
<1>9. chunks = Cut(sec)
  OBVIOUS
<1>. HIDE DEF none, sec
<1>10. \A x : Belongs(sec, x)
  BY <1>3, <1>4, <1>5, <1>6, <1>8 DEF Belongs
<1>11. IsCut(chunks, sec)
  <2>1. 1 \in Nat \ {0} /\ n \in Nat /\ n <= Len(text)
    BY <1>1
  <2>2. IsSlice(sec.body, 1, n) /\ DocumentInv /\ TextInv
    BY <1>3, <1>7
  <2>3. \A q \in 1 .. Len(sec.body) : Belongs(sec, sec.body[q])
    BY <1>10
  <2>. HIDE DEF n
  <2>4. IsCut(Cut(sec), sec)
    BY ONLY <1>2, <2>1, <2>2, <2>3, CutGood
  <2>. QED
    BY <1>9, <2>4
<1>12. ASSUME NEW p \in 1 .. n, Indexable(text[p])
       PROVE  \E j \in 1 .. Len(chunks) : \E r \in 1 .. Len(chunks[j].text) : chunks[j].text[r] = text[p]
  <2>1. blocks[text[p]].kind # "blank"
    BY <1>12 DEF Indexable
  <2>2. \A q \in 1 .. Len(sec.body) : blocks[sec.body[q]].kind # "blank" =>
          \E j \in 1 .. Len(chunks) : \E r \in 1 .. Len(chunks[j].text) : chunks[j].text[r] = sec.body[q]
    BY <1>11 DEF IsCut
  <2>. QED
    BY <1>3, <2>1, <2>2
<1>. QED
  BY <1>11, <1>12 DEF IsCut, ChunksInv

(***************************************************************************)
(* The invariant.                                                          *)
(***************************************************************************)
Loading ==
  /\ line = 1 /\ in_fence = FALSE /\ stack = << >> /\ cur = Preface
  /\ lines = << >> /\ sections = << >>

ChunkingInv ==
  /\ pc \in {"load", "split", "chunk", "done"}
  /\ DocumentInv
  /\ pc = "load" => Loading
  /\ pc # "load" => TextInv
  /\ document.format = "text" => pc # "split"
  /\ Plain =>
       /\ pc = "split" => SplitInv
       /\ pc = "chunk" /\ document.format # "text" => SectionsInv(sections, Len(text))
       /\ pc = "done" => ChunksInv

LEMMA SameCuts ==
  ASSUME UNCHANGED document
  PROVE  /\ \A sec : Cut(sec)' = Cut(sec)
         /\ \A secs : Cuts(secs)' = Cuts(secs)
<1>1. blocks' = blocks /\ \A i : Level(i)' = Level(i)
  BY SameReading
<1>2. \A body : Strip(body)' = Strip(body)
  BY <1>1 DEF Strip
<1>3. \A sec : SectionName(sec)' = SectionName(sec)
  BY <1>1 DEF SectionName
<1>4. \A body : Pieces(body)' = Pieces(body)
  BY DEF Pieces, PieceStart
<1>5. \A sec : Cut(sec)' = Cut(sec)
  BY <1>2, <1>3, <1>4 DEF Cut, Labelled
<1>6. \A secs : Cuts(secs)' = Cuts(secs)
  BY <1>5 DEF Cuts, FoldLeft, MapThenFoldSet
<1>. QED
  BY <1>5, <1>6

LEMMA ChunkingInductive == Spec => []ChunkingInv
<1>1. Init => ChunkingInv
  <2>. SUFFICES ASSUME Init PROVE ChunkingInv
    OBVIOUS
  <2>1. DocumentInv
    BY InitDocument
  <2>2. Loading /\ pc = "load"
    BY DEF Init, Loading
  <2>. QED
    BY <2>1, <2>2 DEF ChunkingInv
<1>2. ChunkingInv /\ [Next]_vars => ChunkingInv'
  <2>. SUFFICES ASSUME ChunkingInv, [Next]_vars PROVE ChunkingInv'
    OBVIOUS
  <2>1. UNCHANGED document
    BY DEF Next, vars, Load, SplitLine, SplitEnd, Chunk
  <2>2. DocumentInv' /\ Plain' = Plain /\ DocumentInv
    BY <2>1, SameReading DEF ChunkingInv
  <2>3. CASE Load
    <3>1. TextInv'
      BY <2>2, <2>3, LoadText
    <3>2. Loading
      BY <2>3 DEF ChunkingInv, Load
    <3>3. Loading'
      BY <2>3, <3>2 DEF Load, Loading, splitVars, Preface
    <3>4. SplitInv'
      BY <2>2, <3>1, <3>3, SplitStarts, PTL DEF Loading
    <3>5. CASE document.format = "text"
      <4>1. pc' = "chunk" /\ document' = document
        BY <2>3, <3>5 DEF Load
      <4>. QED
        BY <2>2, <3>1, <3>5, <4>1 DEF ChunkingInv
    <3>6. CASE document.format # "text"
      <4>1. pc' = "split" /\ document' = document
        BY <2>3, <3>6 DEF Load
      <4>. QED
        BY <2>2, <3>1, <3>4, <3>6, <4>1 DEF ChunkingInv
    <3>. QED
      BY <3>5, <3>6
  <2>4. CASE SplitLine
    <3>1. pc = "split" /\ pc' = "split" /\ UNCHANGED <<document, text>> /\ document.format # "text" /\ TextInv
      BY <2>4 DEF SplitLine, ChunkingInv
    <3>2. TextInv'
      BY <3>1, SameText
    <3>3. Plain => SplitInv'
      BY <2>2, <2>4, <3>1, SplitStep DEF ChunkingInv
    <3>4. document' = document
      BY <3>1
    <3>. QED
      BY <2>2, <3>1, <3>2, <3>3, <3>4 DEF ChunkingInv
  <2>5. CASE SplitEnd
    <3>1. /\ pc = "split" /\ pc' = "chunk" /\ UNCHANGED <<document, text>> /\ TextInv
          /\ line > Len(text) /\ sections' = Flushed
      BY <2>5 DEF SplitEnd, ChunkingInv
    <3>2. TextInv'
      BY <3>1, SameText
    <3>3. ASSUME Plain PROVE SectionsInv(sections, Len(text))'
      <4>1. SplitInv
        BY <3>1, <3>3 DEF ChunkingInv
      <4>2. PICK c \in Nat : LinesInv(c) /\ SectionsInv(sections, c)
        BY <4>1 DEF SplitInv
      <4>3. SectionsInv(Flushed, line - 1)
        BY <2>2, <3>1, <4>1, <4>2, FlushedGood DEF SplitInv
      <4>4. line - 1 = Len(text)
        <5>1. Len(text) \in Nat /\ line \in 1 .. Len(text) + 1
          BY <2>2, <3>1, <4>1, TextFacts DEF SplitInv
        <5>. QED
          BY <3>1, <5>1
      <4>5. SectionsInv(Flushed, Len(text))
        BY <4>3, <4>4
      <4>6. \A secs, d : SectionsInv(secs, d)' = SectionsInv(secs, d)
        BY <3>1, SameText
      <4>. QED
        BY <3>1, <4>5, <4>6
    <3>4. document' = document
      BY <3>1
    <3>. QED
      BY <2>2, <3>1, <3>2, <3>3, <3>4 DEF ChunkingInv
  <2>6. CASE Chunk
    <3>1. /\ pc = "chunk" /\ pc' = "done" /\ TextInv /\ UNCHANGED <<document, text, sections>>
          /\ chunks' = IF document.format = "text"
                         THEN Cut([heading |-> NoHeading, path |-> << >>, body |-> text])
                         ELSE Cuts(sections)
      BY <2>6 DEF Chunk, ChunkingInv, splitVars, Cuts
    <3>2. TextInv'
      BY <3>1, SameText
    <3>3. ASSUME Plain PROVE ChunksInv'
      <4>1. document' = document /\ sections' = sections /\ text' = text
        BY <3>1
      <4>2. CASE document.format = "text"
        <5>1. (document.format = "text")'
          BY <4>1, <4>2
        <5>2. (chunks = Cut([heading |-> NoHeading, path |-> << >>, body |-> text]))'
          BY <2>1, <3>1, <4>1, <4>2, SameCuts
        <5>. QED
          BY <2>2, <3>2, <5>1, <5>2, ChunkText, PTL
      <4>3. CASE document.format # "text"
        <5>1. SectionsInv(sections, Len(text))
          BY <3>1, <3>3, <4>3 DEF ChunkingInv
        <5>2. \A secs, d : SectionsInv(secs, d)' = SectionsInv(secs, d)
          BY <3>1, SameText
        <5>3. SectionsInv(sections, Len(text))'
          BY <4>1, <5>1, <5>2
        <5>4. (chunks = Cuts(sections))'
          BY <2>1, <3>1, <4>1, <4>3, SameCuts
        <5>. QED
          BY <2>2, <3>2, <5>3, <5>4, ChunkSections, PTL
      <4>. QED
        BY <4>2, <4>3
    <3>4. document' = document
      BY <3>1
    <3>. QED
      BY <2>2, <3>1, <3>2, <3>3, <3>4 DEF ChunkingInv
  <2>7. CASE UNCHANGED vars
    <3>1. /\ UNCHANGED <<document, text>> /\ UNCHANGED <<document, pc, text, line, in_fence, stack>>
          /\ UNCHANGED <<cur, lines, sections, chunks>>
      BY <2>7 DEF vars, splitVars
    <3>2. /\ TextInv' = TextInv /\ \A l : Seen(l)' = Seen(l)
          /\ \A H : Standing(H)' = Standing(H)
          /\ \A xs, a, b : IsSlice(xs, a, b)' = IsSlice(xs, a, b)
          /\ \A secs, c : SectionsInv(secs, c)' = SectionsInv(secs, c)
      BY <3>1, SameText
    <3>3. Loading' = Loading
      BY <3>1 DEF Loading, Preface
    <3>4. FenceInv' = FenceInv
      BY <2>1, <3>1, SameReading DEF FenceInv
    <3>5. \A c : LinesInv(c)' = LinesInv(c)
      BY <2>1, <3>1, <3>2, SameReading DEF LinesInv
    <3>6. SplitInv' = SplitInv
      BY <3>1, <3>2, <3>4, <3>5 DEF SplitInv, Lists, Nearest
    <3>7. ChunksInv' = ChunksInv
      <4>1. /\ blocks' = blocks /\ Headings' = Headings
            /\ \A i : /\ Before(i)' = Before(i) /\ Above(i)' = Above(i) /\ Level(i)' = Level(i)
                     /\ Skipped(i)' = Skipped(i) /\ Indexable(i)' = Indexable(i)
            /\ \A i, j : Precedes(i, j)' = Precedes(i, j)
        BY <2>1, SameReading
      <4>2. \A i : Main(i)' = Main(i)
        BY <4>1 DEF Main
      <4>3. \A ch, x : StandsIn(ch, x)' = StandsIn(ch, x)
        <5>1. \A x : /\ Nearest(Before(x))' = Nearest(Before(x))
                     /\ Nearest(Above(x))' = Nearest(Above(x))
          BY <4>1 DEF Nearest
        <5>2. \A x : InOrder(Above(x))' = InOrder(Above(x))
          BY <4>1
        <5>3. \A x : Skipped(Nearest(Before(x)))' = Skipped(Nearest(Before(x)))
          BY <4>1, <5>1 DEF Skipped
        <5>. QED
          BY <4>1, <4>2, <5>1, <5>2, <5>3 DEF StandsIn
      <4>4. \A ch : GoodChunk(ch)' = GoodChunk(ch)
        BY <3>1, <3>2, <4>1, <4>3 DEF GoodChunk, Trimmed
      <4>5. \A x, y : Follows(x, y)' = Follows(x, y)
        BY <4>1 DEF Follows
      <4>6. text' = text /\ chunks' = chunks
        BY <3>1
      <4>. QED
        BY <4>1, <4>4, <4>5, <4>6 DEF ChunksInv
    <3>8. document' = document
      BY <3>1
    <3>9. SectionsInv(sections, Len(text))' = SectionsInv(sections, Len(text))
      BY <3>1, <3>2
    <3>. QED
      BY <2>2, <3>1, <3>2, <3>3, <3>6, <3>7, <3>8, <3>9 DEF ChunkingInv
  <2>. QED
    BY <2>3, <2>4, <2>5, <2>6, <2>7 DEF Next
<1>. QED
  BY <1>1, <1>2, PTL DEF Spec

(***************************************************************************)
(* The properties.                                                         *)
(***************************************************************************)
\* In a plain document, every line but headings and tables of contents is in a chunk,
\* and every chunk that has a line names the headings it stands under: load_sections,
\* split_markdown and chunk_sections lose no line and put none under a wrong heading.
THEOREM EveryLineWhereItStands == Spec => []ChunkedWhereItStands
<1>1. ChunkingInv => ChunkedWhereItStands
  <2>. SUFFICES ASSUME ChunkingInv, pc = "done", Plain, NEW i \in DOMAIN blocks, Indexable(i)
                PROVE  /\ \E k \in DOMAIN chunks : Holds(chunks[k], i)
                       /\ \A k \in DOMAIN chunks : Holds(chunks[k], i) =>
                            /\ chunks[k].path = InOrder(Above(i))
                            /\ chunks[k].heading = Nearest(Above(i))
                            /\ chunks[k].section = IF Main(i) = {} THEN Nearest(Above(i)) ELSE Max(Main(i))
    BY DEF ChunkedWhereItStands, Main
  <2>1. DocumentInv /\ TextInv /\ ChunksInv
    BY DEF ChunkingInv
  <2>2. chunks \in Seq(ChunkType) /\ DOMAIN chunks = 1 .. Len(chunks)
    BY <2>1, LenProperties DEF ChunksInv
  <2>3. \A k \in 1 .. Len(chunks) : GoodChunk(chunks[k]) /\ DOMAIN chunks[k].text = 1 .. Len(chunks[k].text)
    <3>. SUFFICES ASSUME NEW k \in 1 .. Len(chunks)
                  PROVE  GoodChunk(chunks[k]) /\ DOMAIN chunks[k].text = 1 .. Len(chunks[k].text)
      OBVIOUS
    <3>1. GoodChunk(chunks[k])
      BY <2>1 DEF ChunksInv
    <3>2. chunks[k].text \in Seq(Nat)
      BY <3>1 DEF GoodChunk, ChunkType
    <3>. QED
      BY <3>1, <3>2, LenProperties
  <2>4. \E k \in DOMAIN chunks : Holds(chunks[k], i)
    <3>1. i \in 1 .. Len(blocks) /\ blocks[i].kind # "blank"
      BY <2>1 DEF DocumentInv, Indexable
    <3>2. PICK p \in 1 .. Len(text) : text[p] = i
      BY <2>1, <3>1 DEF TextInv
    <3>3. PICK k \in 1 .. Len(chunks) : \E r \in 1 .. Len(chunks[k].text) : chunks[k].text[r] = i
      BY <2>1, <3>2 DEF ChunksInv
    <3>. QED
      BY <2>2, <2>3, <3>3 DEF Holds, ToSet
  <2>5. ASSUME NEW k \in DOMAIN chunks, Holds(chunks[k], i) PROVE StandsIn(chunks[k], i)
    <3>1. PICK q \in 1 .. Len(chunks[k].text) : chunks[k].text[q] = i
      BY <2>2, <2>3, <2>5 DEF Holds, ToSet
    <3>. QED
      BY <2>2, <2>3, <3>1 DEF GoodChunk
  <2>. QED
    BY <2>4, <2>5 DEF StandsIn
<1>. QED
  BY <1>1, ChunkingInductive, PTL

\* Nothing but lines of the document that are to be found is in a chunk, with the blank
\* lines between them, no chunk is blank, the chunks are in the order of the document,
\* and those of a section are all before the next one's: for every size and overlap of
\* the pieces that a section is split into (chunk_sections).
THEOREM ChunksAreInOrder == Spec => []ChunksInOrder
<1>1. ChunkingInv => ChunksInOrder
  <2>. SUFFICES ASSUME ChunkingInv, pc = "done", Plain, NEW k \in DOMAIN chunks
                PROVE  LET position(i) == CHOOSE p \in DOMAIN text : text[p] = i
                           first(j) == position(Head(chunks[j].text))
                           last(j) == position(Last(chunks[j].text))
                       IN /\ chunks[k].text # << >>
                          /\ \A i \in ToSet(chunks[k].text) :
                               \/ Indexable(i)
                               \/ blocks[i].kind = "blank" /\ position(i) \in first(k) + 1 .. last(k) - 1
                          /\ k > 1 =>
                               /\ first(k - 1) <= first(k)
                               /\ chunks[k - 1].heading # chunks[k].heading => last(k - 1) < first(k)
    BY DEF ChunksInOrder
  <2>. DEFINE position(i) == CHOOSE p \in DOMAIN text : text[p] = i
              Extends(j, a, b) ==
                /\ IsSlice(chunks[j].text, a, b) /\ Trimmed(chunks[j].text)
                /\ chunks[j].text # << >>
                /\ Head(chunks[j].text) = text[a] /\ chunks[j].text[1] = text[a]
                /\ Last(chunks[j].text) = text[b]
                /\ chunks[j].text[Len(chunks[j].text)] = text[b]
                /\ Len(chunks[j].text) = b - a + 1
                /\ DOMAIN chunks[j].text = 1 .. Len(chunks[j].text)
  <2>1. DocumentInv /\ TextInv /\ ChunksInv
    BY DEF ChunkingInv
  <2>2. chunks \in Seq(ChunkType) /\ DOMAIN chunks = 1 .. Len(chunks) /\ Len(chunks) \in Nat
    BY <2>1, LenProperties DEF ChunksInv
  <2>3. /\ Len(text) \in Nat /\ DOMAIN text = 1 .. Len(text)
        /\ \A p \in 1 .. Len(text) : text[p] \in 1 .. Len(blocks)
        /\ \A p, q \in 1 .. Len(text) : Precedes(text[p], text[q]) <=> p < q
        /\ \A p, q \in 1 .. Len(text) : text[p] = text[q] => p = q
    BY <2>1, TextFacts
  <2>4. ASSUME NEW p \in 1 .. Len(text) PROVE position(text[p]) = p
    BY <2>3
  <2>. HIDE DEF position
  <2>5. ASSUME NEW j \in 1 .. Len(chunks)
        PROVE  \E a \in 1 .. Len(text) : \E b \in a .. Len(text) : Extends(j, a, b)
    <3>. DEFINE xs == chunks[j].text
    <3>1. GoodChunk(chunks[j])
      BY <2>1 DEF ChunksInv
    <3>2. PICK a \in 1 .. Len(text) : \E b \in a .. Len(text) : IsSlice(xs, a, b) /\ Trimmed(xs)
      BY <3>1 DEF GoodChunk
    <3>3. PICK b \in a .. Len(text) : IsSlice(xs, a, b) /\ Trimmed(xs)
      BY <3>2
    <3>4. xs \in Seq(Nat)
      BY <3>1 DEF GoodChunk, ChunkType
    <3>. HIDE DEF xs
    <3>5. DOMAIN xs = 1 .. Len(xs) /\ Len(xs) = b - a + 1 /\ \A q \in 1 .. Len(xs) : xs[q] = text[a + q - 1]
      BY <3>3, <3>4, LenProperties DEF IsSlice
    <3>6. 1 \in 1 .. Len(xs) /\ Len(xs) \in 1 .. Len(xs) /\ a + 1 - 1 = a /\ a + Len(xs) - 1 = b
      BY <2>3, <3>5
    <3>7. xs[1] = text[a] /\ xs[Len(xs)] = text[b]
      BY <3>5, <3>6
    <3>8. Head(xs) = xs[1] /\ Last(xs) = xs[Len(xs)] /\ xs # << >>
      BY <3>4, <3>6, HeadTailProperties, EmptySeq DEF Last
    <3>. QED
      BY <3>3, <3>5, <3>7, <3>8 DEF xs
  <2>6. PICK a \in 1 .. Len(text) : \E b \in a .. Len(text) : Extends(k, a, b)
    BY <2>2, <2>5
  <2>7. PICK b \in a .. Len(text) : Extends(k, a, b)
    BY <2>6
  <2>8. position(text[a]) = a /\ position(text[b]) = b
    BY <2>3, <2>4
  <2>9. ASSUME NEW i \in ToSet(chunks[k].text)
        PROVE  \/ Indexable(i)
               \/ blocks[i].kind = "blank" /\ position(i) \in a + 1 .. b - 1
    <3>1. PICK q \in 1 .. Len(chunks[k].text) : chunks[k].text[q] = i
      BY <2>7 DEF ToSet
    <3>2. StandsIn(chunks[k], i)
      BY <2>1, <2>2, <3>1 DEF ChunksInv, GoodChunk
    <3>3. blocks[i].kind # "blank" => Indexable(i)
      BY <3>2 DEF StandsIn, Indexable
    <3>4. ASSUME blocks[i].kind = "blank" PROVE position(i) \in a + 1 .. b - 1
      <4>. DEFINE p == a + q - 1
      <4>1. text[p] = i /\ p \in a .. b /\ p \in 1 .. Len(text)
        BY <2>3, <2>7, <3>1 DEF IsSlice
      <4>. HIDE DEF p
      <4>2. blocks[text[a]].kind # "blank" /\ blocks[text[b]].kind # "blank"
        BY <2>7 DEF Trimmed
      <4>3. p # a /\ p # b
        BY <3>4, <4>1, <4>2
      <4>4. position(i) = p
        BY <2>4, <4>1
      <4>. QED
        BY <2>3, <4>1, <4>3, <4>4
    <3>. QED
      BY <3>3, <3>4
  <2>10. ASSUME k > 1
         PROVE  /\ position(Head(chunks[k - 1].text)) <= a
                /\ chunks[k - 1].heading # chunks[k].heading => position(Last(chunks[k - 1].text)) < a
    <3>1. k \in 2 .. Len(chunks) /\ k - 1 \in 1 .. Len(chunks)
      BY <2>2, <2>10
    <3>2. Follows(chunks[k - 1], chunks[k])
      BY <2>1, <3>1 DEF ChunksInv
    <3>3. PICK c \in 1 .. Len(text) : \E d \in c .. Len(text) : Extends(k - 1, c, d)
      BY <2>5, <3>1
    <3>4. PICK d \in c .. Len(text) : Extends(k - 1, c, d)
      BY <3>3
    <3>5. position(text[c]) = c /\ position(text[d]) = d /\ d \in 1 .. Len(text)
      BY <2>3, <2>4
    <3>6. ~Precedes(text[a], text[c])
      BY <2>7, <3>2, <3>4 DEF Follows
    <3>7. c <= a
      BY <2>3, <3>6
    <3>8. ASSUME chunks[k - 1].heading # chunks[k].heading PROVE d < a
      <4>1. Len(chunks[k - 1].text) \in 1 .. Len(chunks[k - 1].text) /\ 1 \in 1 .. Len(chunks[k].text)
        BY <2>3, <2>7, <3>4
      <4>2. Precedes(text[d], text[a])
        BY <2>7, <3>2, <3>4, <3>8, <4>1 DEF Follows
      <4>. QED
        BY <2>3, <3>5, <4>2
    <3>. QED
      BY <3>4, <3>5, <3>7, <3>8
  <2>11. Head(chunks[k].text) = text[a] /\ Last(chunks[k].text) = text[b] /\ chunks[k].text # << >>
    BY <2>7
  <2>. DEFINE first(j) == position(Head(chunks[j].text))
              last(j) == position(Last(chunks[j].text))
  <2>. HIDE DEF Extends
  <2>12. first(k) = a /\ last(k) = b
    BY <2>8, <2>11
  <2>13. k > 1 => /\ first(k - 1) <= first(k)
                  /\ chunks[k - 1].heading # chunks[k].heading => last(k - 1) < first(k)
    BY <2>10, <2>12
  <2>14. \A i \in ToSet(chunks[k].text) :
            \/ Indexable(i)
            \/ blocks[i].kind = "blank" /\ position(i) \in first(k) + 1 .. last(k) - 1
    BY <2>9, <2>12
  <2>. QED
    BY <2>11, <2>13, <2>14 DEF position
<1>. QED
  BY <1>1, ChunkingInductive, PTL
==============================================================================
