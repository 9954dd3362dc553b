---------------------------- MODULE MCRetrieval ------------------------------
(***************************************************************************)
(* An instance of Retrieval for TLC: a document with a section of two      *)
(* chunks and a chunk without a section, and one whose section bears the   *)
(* same name; a third document has no chunks.  The weights are             *)
(* 10 * (1 + ln((n + 1) / (m + 1))), rounded.                              *)
(***************************************************************************)
EXTENDS Retrieval, TLC

CONSTANTS a1, a2, a3, b1, a, b, none, rules

MCChunks    == {a1, a2, a3, b1}
MCFileOf    == [c \in MCChunks |-> IF c = b1 THEN b ELSE a]
MCSectionOf == [c \in MCChunks |-> IF c = a3 THEN NoValue ELSE rules]

MCVocabulary == {"the", "rule", "rules", "ORM", "orm", "db", "database"}
MCStem == [w \in MCVocabulary |->
             CASE w = "rules" -> "rule" [] w = "ORM" -> "orm" [] OTHER -> w]
MCExpansions == [w \in MCVocabulary |-> IF w \in {"ORM", "orm", "db"} THEN {"database"} ELSE {}]
MCQuestions  == {{"the"}, {"the", "rules"}, {"rule"}, {"ORM"}, {"db", "rules"},
                 {"database", "rules"}}   \* three words to search headings for, of which two are
MCRarity     == <<0 :> 17 @@ 1 :> 10,
                  0 :> 21 @@ 1 :> 14 @@ 2 :> 10,
                  0 :> 24 @@ 1 :> 17 @@ 2 :> 13 @@ 3 :> 10,
                  0 :> 26 @@ 1 :> 19 @@ 2 :> 15 @@ 3 :> 12 @@ 4 :> 10>>

Says(text, heading) == [text |-> text, heading |-> heading]

MCCorpora ==
  {[c \in MCChunks |-> CASE c = a1 -> x1 [] c = a2 -> x2 [] c = a3 -> x3 [] OTHER -> y] :
     x1 \in {Says({}, {"rules"}), Says({"db"}, {"rules"})},
     x2 \in {Says({"rules"}, {"rules"}), Says({"database"}, {})},
     x3 \in {Says({}, {}), Says({"ORM", "database"}, {})},
     y  \in {Says({"database"}, {"database"}), Says({"rule", "db"}, {"rule"})}}
==============================================================================
