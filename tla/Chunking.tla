------------------------------ MODULE Chunking -------------------------------
(***************************************************************************)
(* How a document becomes chunks, app/services/document_service.py: a DOCX *)
(* is written as Markdown, Markdown is split at its headings, line by      *)
(* line, and each section is cut into pieces that keep its heading and     *)
(* its path.                                                               *)
(*                                                                         *)
(* A document is a sequence of blocks: the lines of a Markdown or text     *)
(* file, the paragraphs and table rows of a DOCX.  A block stands for its  *)
(* text by its place in the document, so a heading's title and a line of a *)
(* body are numbers of blocks.                                             *)
(***************************************************************************)
EXTENDS Naturals, SequencesExt

CONSTANTS
  MarkdownBlocks, DocxBlocks, TextBlocks, \* what files of each format are made of
  MaxBlocks,    \* bound on a Markdown or text file
  MaxDocx,      \* bound on a DOCX
  MaxLevel,     \* 6: the deepest heading of Markdown
  ChunkLines,   \* settings.chunk_size, in lines
  ChunkOverlap, \* settings.chunk_overlap, in lines
  NoHeading     \* None

Marks   == {"backticks", "tildes"}

\* toc: the title is one of _SKIP_HEADINGS.  style: the level of "Title" and of
\* "Heading n" is 0 and n.
Heading(level, toc) == [kind |-> "heading", level |-> level, toc |-> toc]
Styled(style, toc)  == [kind |-> "styled", style |-> style, toc |-> toc]
Fence(mark)         == [kind |-> "fence", mark |-> mark]
Text  == [kind |-> "text"]
Blank == [kind |-> "blank"]
Row   == [kind |-> "row"]

Marked == {Heading(l, toc) : l \in 1 .. MaxLevel, toc \in BOOLEAN}
            \cup {Fence(m) : m \in Marks} \cup {Text, Blank}

ASSUME BlocksAssumption ==
  /\ MarkdownBlocks \cup TextBlocks \subseteq Marked
  /\ DocxBlocks \subseteq Marked \cup {Row} \cup {Styled(n, toc) : n \in 0 .. MaxLevel, toc \in BOOLEAN}

ASSUME SizesAssumption ==
  /\ {MaxLevel, ChunkLines} \subseteq Nat \ {0}
  /\ {MaxBlocks, MaxDocx} \subseteq Nat
  /\ ChunkOverlap \in 0 .. ChunkLines - 1
  /\ NoHeading \notin Nat \cup Marks

VARIABLES
  document,
  pc,
  text,      \* the blocks whose lines split_markdown is given
  line,      \* the line it is at
  in_fence,
  stack,     \* the headings above the current line, the outermost first
  cur,       \* the current section: its heading and its path
  lines,     \* its body so far
  sections,  \* those that are complete
  chunks

splitVars == <<line, in_fence, stack, cur, lines, sections>>
vars      == <<document, pc, text, splitVars, chunks>>

blocks  == document.blocks
Preface == [heading |-> NoHeading, path |-> << >>]

\* The files of a format.
Files(format, some, size) ==
  \E n \in 0 .. size : document \in [format : {format}, blocks : [1 .. n -> some]]

Init ==
  /\ \/ Files("markdown", MarkdownBlocks, MaxBlocks)
     \/ Files("docx", DocxBlocks, MaxDocx)
     \/ Files("text", TextBlocks, MaxBlocks)
  /\ pc = "load"
  /\ text = << >>
  /\ line = 1
  /\ in_fence = FALSE
  /\ stack = << >>
  /\ cur = Preface
  /\ lines = << >>
  /\ sections = << >>
  /\ chunks = << >>

Fewest(m, n) == IF m < n THEN m ELSE n

\* The elements of a finite set of numbers, the least first.
InOrder(S) == [n \in 1 .. Cardinality(S) |-> CHOOSE i \in S : Cardinality({j \in S : j <= i}) = n]

(***************************************************************************)
(* load_sections.                                                          *)
(***************************************************************************)
Rows       == {i \in DOMAIN blocks : blocks[i].kind = "row"}
Paragraphs == {i \in DOMAIN blocks : blocks[i].kind \notin {"blank", "row"}}

\* _docx_to_markdown: the paragraphs that are not blank, and after them the rows of the tables.
DocxToMarkdown == InOrder(Paragraphs) \o InOrder(Rows)

\* The line that a block has become: a paragraph with a heading style is one more
\* level down and a row is an item of a list; any other is what it looks like.
LineOf(b) ==
  CASE b.kind = "styled" -> Heading(Fewest(b.style + 1, MaxLevel), b.toc)
    [] b.kind = "row"    -> Text
    [] OTHER             -> b

Load ==
  /\ pc = "load"
  /\ text' = IF document.format = "docx" THEN DocxToMarkdown ELSE [i \in DOMAIN blocks |-> i]
  /\ pc' = IF document.format = "text" THEN "chunk" ELSE "split"
  /\ UNCHANGED <<document, splitVars, chunks>>

(***************************************************************************)
(* split_markdown.                                                         *)
(***************************************************************************)
\* body.strip(): the blank lines at its ends are gone.
Strip(body) ==
  LET full == {i \in DOMAIN body : blocks[body[i]].kind # "blank"}
  IN IF full = {} THEN << >> ELSE SubSeq(body, Min(full), Max(full))

Skipped(heading) == heading # NoHeading /\ blocks[heading].toc

Flushed ==
  LET body == Strip(lines)
  IN IF body = << >> \/ Skipped(cur.heading) THEN sections
     ELSE Append(sections, [heading |-> cur.heading, path |-> cur.path, body |-> body])

Level(i) == LineOf(blocks[i]).level

\* Mutant of Popped: a heading does not end one of its own level.
PoppedBelow(level) ==
  SubSeq(stack, 1, Max({0} \cup {n \in DOMAIN stack : Level(stack[n]) <= level}))

\* The loop that pops the stack stops at the last heading that is above this level.
Popped(level) ==
  SubSeq(stack, 1, Max({0} \cup {n \in DOMAIN stack : Level(stack[n]) < level}))

\* Mutant of InFence: what looks like a heading is one, in code too.
InFenceNever(i) == FALSE

\* A fence line of either mark opens a block or closes it.
InFence(i) == in_fence # (LineOf(blocks[i]).kind = "fence")

\* One turn of the loop.
SplitLine ==
  LET i == text[line] IN
  /\ pc = "split"
  /\ line <= Len(text)
  /\ line' = line + 1
  /\ in_fence' = InFence(i)
  /\ IF ~in_fence' /\ LineOf(blocks[i]).kind = "heading"
       THEN /\ sections' = Flushed
            /\ stack' = Append(Popped(Level(i)), i)
            /\ cur' = [heading |-> i, path |-> stack']
            /\ lines' = << >>
       ELSE /\ lines' = Append(lines, i)
            /\ UNCHANGED <<stack, cur, sections>>
  /\ UNCHANGED <<document, pc, text, chunks>>

SplitEnd ==
  /\ pc = "split" /\ line > Len(text)
  /\ pc' = "chunk"
  /\ sections' = Flushed
  /\ UNCHANGED <<document, text, line, in_fence, stack, cur, lines, chunks>>

(***************************************************************************)
(* chunk_sections.                                                         *)
(***************************************************************************)
\* The text splitter, of langchain: pieces of at most ChunkLines lines that overlap,
\* as many as it takes to reach the end.  A piece may be blank.
PieceStart(p) == (p - 1) * (ChunkLines - ChunkOverlap) + 1

Pieces(body) ==
  LET n      == Len(body)
      starts == {p \in 1 .. n : p = 1 \/ PieceStart(p) + ChunkOverlap <= n}
  IN [p \in 1 .. Max({0} \cup starts) |->
        SubSeq(body, PieceStart(p), Fewest(PieceStart(p) + ChunkLines - 1, n))]

\* _section_name: the last heading of the path of level 1 or 2, or the heading itself.
SectionName(sec) ==
  LET main == {n \in DOMAIN sec.path : Level(sec.path[n]) <= 2}
  IN IF main = {} THEN sec.heading ELSE sec.path[Max(main)]

Labelled(body, sec) ==
  [text |-> body, section |-> SectionName(sec), heading |-> sec.heading, path |-> sec.path]

\* Mutant of Cut: a blank piece is a chunk too.
CutAll(sec) ==
  LET pieces == Pieces(sec.body) IN [p \in DOMAIN pieces |-> Labelled(Strip(pieces[p]), sec)]

\* The pieces of a section without their blank ends, but for those that are blank.
Cut(sec) ==
  LET pieces == Pieces(sec.body)
      kept   == InOrder({p \in DOMAIN pieces : Strip(pieces[p]) # << >>})
  IN [n \in DOMAIN kept |-> Labelled(Strip(pieces[kept[n]]), sec)]

Chunk ==
  /\ pc = "chunk"
  /\ pc' = "done"
  /\ chunks' = IF document.format = "text"
                 THEN Cut([heading |-> NoHeading, path |-> << >>, body |-> text])
                 ELSE FoldLeft(LAMBDA all, sec : all \o Cut(sec), << >>, sections)
  /\ UNCHANGED <<document, text, splitVars>>

Next == Load \/ SplitLine \/ SplitEnd \/ Chunk

Spec == Init /\ [][Next]_vars

(***************************************************************************)
(* What a reader of the document sees.                                     *)
(***************************************************************************)
\* The mark of the fenced block that is open before block i, as CommonMark has it: a
\* block is closed by the mark that opened it.
OpenFence(i) ==
  FoldLeft(LAMBDA open, b :
             IF b.kind # "fence" \/ open \notin {NoHeading, b.mark} THEN open
             ELSE IF open = b.mark THEN NoHeading ELSE b.mark,
           NoHeading, SubSeq(blocks, 1, i - 1))

\* No fence stands in a block of the other mark, and no paragraph of a DOCX that has
\* no heading style looks like a heading or a fence: of such documents the code makes
\* what the reader does not see.
Plain ==
  \A i \in DOMAIN blocks :
    CASE document.format = "markdown" ->
           blocks[i].kind = "fence" => OpenFence(i) \in {NoHeading, blocks[i].mark}
      [] document.format = "docx" -> blocks[i].kind \notin {"heading", "fence"}
      [] OTHER -> TRUE

Headings ==
  CASE document.format = "markdown" ->
         {i \in DOMAIN blocks : blocks[i].kind = "heading" /\ OpenFence(i) = NoHeading}
    [] document.format = "docx" -> {i \in DOMAIN blocks : blocks[i].kind = "styled"}
    [] OTHER -> {}

\* Rows are read at the end of the document, wherever their table stands.
Place(i) == IF blocks[i].kind = "row" THEN Len(blocks) + 1 ELSE i

Before(i) == {h \in Headings : h < Place(i)}

\* The headings that i stands under: those that no later one of their level or above
\* has ended.
Above(i) == {h \in Before(i) : \A j \in Before(i) : j > h => Level(j) > Level(h)}

Nearest(S) == IF S = {} THEN NoHeading ELSE Max(S)

Indexable(i) ==
  /\ blocks[i].kind # "blank"
  /\ i \notin Headings
  /\ ~Skipped(Nearest(Before(i)))

(***************************************************************************)
(* Properties.                                                             *)
(***************************************************************************)
Holds(chunk, i) == i \in ToSet(chunk.text)

\* Every line of a document but its headings and its tables of contents is in a
\* chunk, and every chunk that has it names the headings that the line stands under:
\* all of them in the path, the nearest as its heading, and the nearest of the first
\* two levels as its section.
ChunkedWhereItStands ==
  pc = "done" /\ Plain =>
    \A i \in DOMAIN blocks : Indexable(i) =>
      /\ \E k \in DOMAIN chunks : Holds(chunks[k], i)
      /\ \A k \in DOMAIN chunks : Holds(chunks[k], i) =>
           LET main == {h \in Above(i) : Level(h) <= 2} IN
           /\ chunks[k].path = InOrder(Above(i))
           /\ chunks[k].heading = Nearest(Above(i))
           /\ chunks[k].section = IF main = {} THEN Nearest(Above(i)) ELSE Max(main)

\* Nothing else is in a chunk but blank lines within it: no chunk is blank, though a
\* piece of a section may be.  The chunks of a section are in the order of its pieces,
\* and a section's are all before those of the next.
ChunksInOrder ==
  pc = "done" /\ Plain =>
    LET position(i) == CHOOSE p \in DOMAIN text : text[p] = i
        first(k)    == position(Head(chunks[k].text))
        last(k)     == position(Last(chunks[k].text))
    IN \A k \in DOMAIN chunks :
         /\ chunks[k].text # << >>
         /\ \A i \in ToSet(chunks[k].text) :
              Indexable(i) \/ (blocks[i].kind = "blank" /\ position(i) \in first(k) + 1 .. last(k) - 1)
         /\ k > 1 =>
              /\ first(k - 1) <= first(k)
              /\ chunks[k - 1].heading # chunks[k].heading => last(k - 1) < first(k)
==============================================================================
