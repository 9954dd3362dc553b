---------------------------- MODULE MCChunking -------------------------------
(***************************************************************************)
(* The blocks of which TLC makes the documents of Chunking: every level of *)
(* heading that the section name tells apart, both fences, and paragraphs  *)
(* of a DOCX with a heading style and without.                             *)
(***************************************************************************)
EXTENDS Chunking

MCMarkdown == {Heading(1, FALSE), Heading(2, FALSE), Heading(3, FALSE), Heading(2, TRUE),
               Fence("backticks"), Fence("tildes"), Text, Blank}
MCDocx     == {Styled(0, FALSE), Styled(1, FALSE), Styled(1, TRUE), Styled(2, FALSE),
               Styled(3, FALSE), Text, Blank, Row, Heading(1, FALSE)}
MCText     == {Text, Blank, Heading(1, FALSE)}
==============================================================================
