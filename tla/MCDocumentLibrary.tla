-------------------------- MODULE MCDocumentLibrary --------------------------
(***************************************************************************)
(* Instances of DocumentLibrary for TLC: contents of one and two chunks and *)
(* one that cannot be read.                                                *)
(***************************************************************************)
EXTENDS DocumentLibrary, TLC

CONSTANTS a, b, short, long, bad, w1, w2

\* The current chunker cuts at headings, so it makes no fewer chunks.
MCSize == [c \in Readable |->
             [v \in Versions |-> IF c = long /\ v = "current" THEN 2 ELSE 1]]

\* Names that safe_filename leaves alone.
PlainNames == [n \in Names |-> n]

\* b has a character that safe_filename turns into the underscore of a.
FoldedNames == [n \in Names |-> a]

Symmetry == Permutations({w1, w2})
==============================================================================
