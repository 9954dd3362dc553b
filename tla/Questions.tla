----------------------------- MODULE Questions -------------------------------
(***************************************************************************)
(* What the service decides about a question from its words alone: the     *)
(* checks of app/utils/security.py, the rewriting of a follow-up in        *)
(* app/agents/condense.py and the rules of app/services/routing_service.py.*)
(*                                                                         *)
(* A text is a sequence of words, without punctuation and in lower case;   *)
(* each vocabulary of a regular expression is a set of words, and a phrase *)
(* of the vocabulary is one word.  A text is short: no word is out of the  *)
(* reach of another (security.py allows 40 characters between the two      *)
(* words of an extraction).  Conversational fillers ("I mean") are not     *)
(* part of a question.                                                     *)
(***************************************************************************)
EXTENDS Naturals, Sequences, FiniteSets, Functions

CONSTANTS
  Words,
  AskVerbs, Secrets,          \* _SECRET: "show ... password"
  WriteVerbs, Targets,        \* _WRITE_NL: "delete orders"
  DocSignals, WeakDocSignals, \* DOC_SIGNAL, WEAK_DOC_SIGNAL
  DbSignals,                  \* DB_SIGNAL
  Pronouns,                   \* _PRONOUN
  Demonstratives,             \* the single words of _DEMONSTRATIVE
  Article, StandIns,          \* its phrases: "the policy"
  Openers,                    \* _OPENER: "but ..."
  StopWords,                  \* _STOP
  VagueWords,                 \* _VAGUE
  Glue,                       \* "in the context of", of a rewrite without the model
  Connective,                 \* the "and" of _CONNECTIVE
  Recent                      \* the messages that a rewrite may draw on

ASSUME VocabularyAssumption ==
  /\ UNION {AskVerbs, Secrets, WriteVerbs, Targets, DocSignals, WeakDocSignals, DbSignals,
            Pronouns, Demonstratives, {Article}, StandIns, Openers, StopWords, VagueWords,
            {Connective}} \subseteq Words
  /\ Glue \in Seq(Words)
  /\ Recent \in Nat \ {0, 1}

NoText == << >>

Mentions(t, vocabulary) == \E i \in DOMAIN t : t[i] \in vocabulary

(***************************************************************************)
(* Intent checks.                                                          *)
(***************************************************************************)
IsWriteRequest(t) ==
  \E i \in DOMAIN t : t[i] \in WriteVerbs /\ i + 1 \in DOMAIN t /\ t[i + 1] \in Targets

IsSensitiveRequest(t) ==
  \/ IsWriteRequest(t)
  \/ \E i, j \in DOMAIN t : i < j /\ t[i] \in AskVerbs /\ t[j] \in Secrets

(***************************************************************************)
(* Rewriting.                                                              *)
(***************************************************************************)
RefWords         == Pronouns \cup Demonstratives
Terms(t)         == Range(t) \ (StopWords \cup RefWords)
SpecificTerms(t) == Terms(t) \ VagueWords

\* "this", "the policy", "but ...": pointing back in other ways than by a pronoun.
PointsBack(q) ==
  \/ Mentions(q, Demonstratives)
  \/ \E i \in DOMAIN q : q[i] = Article /\ i + 1 \in DOMAIN q /\ q[i + 1] \in StandIns
  \/ q # NoText /\ q[1] \in Openers

\* A question with nothing of its own to search for, or little beside a word
\* that points back.
NeedsRewrite(q) ==
  \/ SpecificTerms(q) = {}
  \/ Mentions(q, Pronouns) /\ Cardinality(SpecificTerms(q)) <= 2
  \/ PointsBack(q) /\ Cardinality(SpecificTerms(q)) <= 1

\* Mutant of UsesHistory: any question that points back is rewritten.
UsesHistoryAlways(q, past) == past # << >> /\ NeedsRewrite(q)

UsesHistory(q, past) == past # << >> /\ ~IsSensitiveRequest(q) /\ NeedsRewrite(q)

\* Mutant of LastMessages: one message too many.
LastMessagesAndOne(past, n) == SubSeq(past, IF Len(past) > n THEN Len(past) - n ELSE 1, Len(past))

LastMessages(past, n) == SubSeq(past, IF Len(past) > n THEN Len(past) - n + 1 ELSE 1, Len(past))

\* What the recent conversation speaks of.
KnownTerms(past) ==
  UNION {Terms(m.content) : m \in Range(LastMessages(past, Recent))}

PreservesTerms(q, out) == Terms(q) \subseteq Terms(out)

IntroducesOnlyKnownTerms(q, out, past) == Terms(out) \subseteq Terms(q) \cup KnownTerms(past)

\* The latest question of the conversation; every turn starts with one.
LastUserQuestion(past) ==
  LET asked == {i \in DOMAIN past : past[i].role = "user"}
  IN IF asked = {} THEN NoText ELSE past[CHOOSE i \in asked : \A j \in asked : j <= i].content

\* "<question> (in the context of: <previous question>)".
FallbackRewrite(q, past) ==
  IF LastUserQuestion(past) = NoText THEN q ELSE q \o Glue \o LastUserQuestion(past)

\* Mutant of AcceptableRewrite: what it adds is not looked at.
AcceptableIfKept(q, out, past) == out # NoText /\ PreservesTerms(q, out)

\* The model's text is taken as it is.
AcceptableRewrite(q, out, past) ==
  /\ out # NoText
  /\ PreservesTerms(q, out)
  /\ IntroducesOnlyKnownTerms(q, out, past)

\* condense_question, if the model may answer any of outs, or nothing.
Condensed(q, past, outs) ==
  IF UsesHistory(q, past)
    THEN {out \in outs : AcceptableRewrite(q, out, past)} \cup {FallbackRewrite(q, past)}
    ELSE {q}

(***************************************************************************)
(* Routing.                                                                *)
(***************************************************************************)
Decision(r, doc, db) == [route |-> r, doc_question |-> doc, db_question |-> db]

Undecided == Decision("undecided", NoText, NoText)

\* The clauses around the first connective of a text, if it has one.
Clauses(t) ==
  {<<SubSeq(t, 1, i - 1), SubSeq(t, i + 1, Len(t))>> :
     i \in {k \in 2 .. Len(t) - 1 : t[k] = Connective /\ \A j \in 2 .. k - 1 : t[j] # Connective}}

\* _split_combined: one clause for each source, in either order.  The set is empty
\* if the text does not split.
SplitCombined(t) ==
  LET OnlyDoc(c) == Mentions(c, DocSignals) /\ ~Mentions(c, DbSignals)
      OnlyDb(c)  == Mentions(c, DbSignals) /\ ~Mentions(c, DocSignals)
  IN {<<c[1], c[2]>> : c \in {c \in Clauses(t) : OnlyDoc(c[1]) /\ OnlyDb(c[2])}}
     \cup {<<c[2], c[1]>> : c \in {c \in Clauses(t) : OnlyDb(c[1]) /\ OnlyDoc(c[2])}}

Halves(t) == IF SplitCombined(t) = {} THEN <<t, t>> ELSE CHOOSE h \in SplitCombined(t) : TRUE

AboutData(t)      == Mentions(t, DbSignals)
AboutDocuments(t) == Mentions(t, DocSignals) \/ (~AboutData(t) /\ Mentions(t, WeakDocSignals))

RuleRoute(t) ==
  IF IsWriteRequest(t) THEN Decision("database", NoText, t)
  ELSE IF IsSensitiveRequest(t) THEN Decision("document", t, NoText)
  ELSE IF AboutDocuments(t) /\ AboutData(t) THEN Decision("both", Halves(t)[1], Halves(t)[2])
  ELSE IF AboutData(t) THEN Decision("database", NoText, t)
  ELSE IF AboutDocuments(t) THEN Decision("document", t, NoText)
  ELSE Undecided

\* heuristic_route: the rules, and the documents if they do not decide.
HeuristicRoute(t) ==
  IF RuleRoute(t) = Undecided THEN Decision("document", t, NoText) ELSE RuleRoute(t)
==============================================================================
