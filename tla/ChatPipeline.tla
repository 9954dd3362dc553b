---------------------------- MODULE ChatPipeline -----------------------------
(***************************************************************************)
(* The chat graph, app/agents/chat_agent.py: the turns of one session      *)
(* through condense, route, rag, sql and answer.                           *)
(*                                                                         *)
(* A node is an action.  A combined question runs rag and sql side by side *)
(* and is answered when both have ended.  The language model answers       *)
(* anything, or raises; retrieval finds something or nothing, or raises;   *)
(* so does the SQL agent.                                                  *)
(***************************************************************************)
EXTENDS Questions

CONSTANTS
  Asked,           \* the questions that are typed
  Rewrites,        \* what the model may make of a follow-up
  SubQuestions,    \* what it may make of the halves of a combined question
  Replies,         \* what it may answer
  RefusalText,     \* "I can't help with that request."
  EmptyHandedText, \* "I couldn't find anything relevant ..."
  HistoryTurns     \* settings.history_turns

ASSUME TextsAssumption ==
  /\ UNION {Asked, Rewrites, SubQuestions, Replies, {RefusalText, EmptyHandedText}} \subseteq Seq(Words)
  /\ NoText \notin Asked \cup Replies \cup {RefusalText, EmptyHandedText}
  /\ HistoryTurns \in Nat \ {0}

Nodes   == {"rag", "sql"}
Labels  == {"idle", "condense", "route", "gather", "answered"}
Routes  == {"", "document", "database", "both"}
Callers == {"condense", "route", "sql", "answer"}
Message == [role : {"user", "assistant"}, content : Seq(Words)]

VARIABLES
  memory,       \* the session's messages in the conversation store
  pc,           \* the node of the turn that is next, "idle" between turns
  question, standalone, route, doc_question, db_question,
  hits,         \* "unset", "none" or "some"
  sql,          \* "unset", "refused", "rows" or "error"
  answer,
  pending       \* the sources that the answer still waits for

\* History variable.
VARIABLE
  calls         \* the calls to the language model in this turn, with their text

state == <<question, standalone, route, doc_question, db_question, hits, sql, answer>>
vars  == <<memory, pc, state, pending, calls>>

TypeOK ==
  /\ memory \in Seq(Message)
  /\ Len(memory) <= 2 * HistoryTurns
  /\ pc \in Labels
  /\ {question, standalone, doc_question, db_question, answer} \subseteq Seq(Words)
  /\ route \in Routes
  /\ hits \in {"unset", "none", "some"}
  /\ sql \in {"unset", "refused", "rows", "error"}
  /\ pending \subseteq Nodes
  /\ \A c \in calls : c.by \in Callers /\ c.text \in Seq(Words)

CleanSlate ==
  /\ standalone' = NoText /\ doc_question' = NoText /\ db_question' = NoText
  /\ route' = ""
  /\ hits' = "unset" /\ sql' = "unset"
  /\ answer' = NoText
  /\ pending' = {}
  /\ calls' = {}

Init ==
  /\ memory = << >>
  /\ pc = "idle"
  /\ question = NoText /\ standalone = NoText /\ doc_question = NoText /\ db_question = NoText
  /\ route = ""
  /\ hits = "unset" /\ sql = "unset"
  /\ answer = NoText
  /\ pending = {}
  /\ calls = {}

GoTo(from, to) == pc = from /\ pc' = to

Calls(caller, t) == calls' = calls \cup {[by |-> caller, text |-> t]}

\* initial_state.
Ask(q) ==
  /\ GoTo("idle", "condense")
  /\ question' = q
  /\ CleanSlate
  /\ UNCHANGED memory

Condense ==
  /\ GoTo("condense", "route")
  /\ standalone' \in Condensed(question, memory, Rewrites)
  /\ IF UsesHistory(question, memory) THEN Calls("condense", question) ELSE UNCHANGED calls
  /\ UNCHANGED <<memory, question, route, doc_question, db_question, hits, sql, answer, pending>>

(***************************************************************************)
(* The route node.                                                         *)
(***************************************************************************)
OrElse(t, default) == IF t = NoText THEN default ELSE t

\* Any decision of the model; it matters only for the question that it is given.
ModelDecisions(t) ==
  {Decision(r, doc, db) : r \in {"document", "database", "both"},
                          doc \in SubQuestions \cup {NoText, t}, db \in SubQuestions \cup {NoText, t}}

\* What the node decides: the rules alone, the model where they do not, or both
\* where the rules say "both", for the model may split better than they do.  A
\* model that raises leaves it to the rules.
Decisions(t) ==
  LET rule == RuleRoute(t) IN
  CASE rule = Undecided     -> ModelDecisions(t) \cup {HeuristicRoute(t)}
    [] rule.route = "both"  ->
         {Decision("both", OrElse(m.doc_question, rule.doc_question),
                           OrElse(m.db_question, rule.db_question)) : m \in ModelDecisions(t)}
    [] OTHER                -> {rule}

\* Mutant of Queries: the model's sub-questions are taken whatever the route.
QueriesOfModel(d, t) == <<OrElse(d.doc_question, t), OrElse(d.db_question, t)>>

\* A question for one source is put to it as it stands.
Queries(d, t) ==
  IF d.route = "both" THEN <<OrElse(d.doc_question, t), OrElse(d.db_question, t)>> ELSE <<t, t>>

Pick(r) == CASE r = "document" -> {"rag"} [] r = "database" -> {"sql"} [] r = "both" -> Nodes

Route ==
  /\ GoTo("route", "gather")
  /\ \E d \in Decisions(standalone) :
       /\ route' = d.route
       /\ doc_question' = Queries(d, standalone)[1]
       /\ db_question' = Queries(d, standalone)[2]
       /\ pending' = Pick(d.route)
  /\ IF RuleRoute(standalone).route \in {"undecided", "both"}
       THEN Calls("route", standalone) ELSE UNCHANGED calls
  /\ UNCHANGED <<memory, question, standalone, hits, sql, answer>>

(***************************************************************************)
(* The sources.                                                            *)
(***************************************************************************)
Ends(node) ==
  /\ pc = "gather"
  /\ node \in pending
  /\ pending' = pending \ {node}

Retrieve ==
  /\ Ends("rag")
  /\ hits' \in IF IsSensitiveRequest(doc_question) THEN {"none"} ELSE {"none", "some"}
  /\ UNCHANGED <<memory, pc, question, standalone, route, doc_question, db_question, sql, answer,
                 calls>>

\* The search raises: as if it had found nothing.
RetrievalFails ==
  /\ Ends("rag")
  /\ ~IsSensitiveRequest(doc_question)
  /\ hits' = "none"
  /\ UNCHANGED <<memory, pc, question, standalone, route, doc_question, db_question, sql, answer,
                 calls>>

\* run_sql_agent: a write request is refused before the model is asked.
RunSql ==
  /\ Ends("sql")
  /\ IF IsWriteRequest(db_question)
       THEN sql' = "refused" /\ UNCHANGED calls
       ELSE sql' \in {"rows", "error"} /\ Calls("sql", db_question)
  /\ UNCHANGED <<memory, pc, question, standalone, route, doc_question, db_question, hits, answer>>

\* It raises, as when the model is out of reach: a result with an error.
SqlFails ==
  /\ Ends("sql")
  /\ ~IsWriteRequest(db_question)
  /\ sql' = "error"
  /\ Calls("sql", db_question)
  /\ UNCHANGED <<memory, pc, question, standalone, route, doc_question, db_question, hits, answer>>

(***************************************************************************)
(* The answer node.                                                        *)
(***************************************************************************)
Refused == IsSensitiveRequest(standalone) /\ ~IsWriteRequest(standalone)

EmptyHanded == route = "document" /\ hits = "none"

\* Mutants of Gathered: the answer is started by the first source to end, or it
\* always waits for both.
GatheredFirst == pc = "gather" /\ (hits # "unset" \/ sql # "unset")
GatheredBoth  == pc = "gather" /\ hits # "unset" /\ sql # "unset"

Gathered == pc = "gather" /\ pending = {}

AnswerWith(t) ==
  /\ Gathered
  /\ pc' = "answered"
  /\ answer' = t
  /\ UNCHANGED <<memory, question, standalone, route, doc_question, db_question, hits, sql, pending>>

AnswerCanned ==
  /\ \/ Refused /\ AnswerWith(RefusalText)
     \/ ~Refused /\ EmptyHanded /\ AnswerWith(EmptyHandedText)
  /\ UNCHANGED calls

AnswerByModel(t) ==
  /\ ~Refused /\ ~EmptyHanded
  /\ AnswerWith(t)
  /\ Calls("answer", standalone)

\* The model raises: the request fails and nothing is remembered of it.
AnswerFails ==
  /\ Gathered
  /\ ~Refused /\ ~EmptyHanded
  /\ pc' = "idle"
  /\ UNCHANGED <<memory, state, pending, calls>>

\* The route handler adds the turn, with the question as it was typed.
Remember ==
  /\ GoTo("answered", "idle")
  /\ memory' = LastMessages(memory \o <<[role |-> "user", content |-> question],
                                        [role |-> "assistant", content |-> answer]>>,
                            2 * HistoryTurns)
  /\ UNCHANGED <<state, pending, calls>>

Step ==
  \/ Condense \/ Route
  \/ Retrieve \/ RetrievalFails \/ RunSql \/ SqlFails
  \/ AnswerCanned \/ (\E t \in Replies : AnswerByModel(t)) \/ AnswerFails
  \/ Remember

Next == Step \/ \E q \in Asked : Ask(q)

Spec == Init /\ [][Next]_vars

\* Each node's calls have a timeout, so a turn that has begun goes on.
FairSpec == Spec /\ WF_vars(Step)

(***************************************************************************)
(* Properties.                                                             *)
(***************************************************************************)
\* "Security-sensitive input is never rewritten: the original text must reach the
\* security checks as typed."  No model is asked about it: it gets a refusal, or,
\* when it asks for a change of the data, the model that words the SQL agent's
\* refusal.
SensitiveAsTyped ==
  IsSensitiveRequest(question) =>
    /\ standalone \in {NoText, question}
    /\ hits # "some" /\ sql \in {"unset", "refused"}
    /\ \A c \in calls : IsWriteRequest(question) /\ c.by = "answer" /\ sql = "refused"
    /\ pc = "answered" => answer = RefusalText \/ sql = "refused"

\* The standalone question keeps every term of the question that was typed, and
\* adds none that the recent conversation does not have: a rewrite by a model that
\* drops or invents something is not used, nor is a turn that is long past.  The
\* fallback "never invents new content", save that its own "in the context of" is
\* part of the text that is searched for: "context" is a term like any other.
RewriteFaithful ==
  LET invented == Terms(standalone) \ (Terms(question) \cup KnownTerms(memory)) IN
  pc \in {"route", "gather", "answered"} =>
    /\ PreservesTerms(question, standalone)
    /\ invented # {} =>
         invented \subseteq Terms(Glue) /\ standalone = FallbackRewrite(question, memory)

\* "A small model can never send 'How many vacation days are there?' to SQL": where
\* the words decide, a model that answers anything does not turn a question away
\* from its source, nor put another question to it.
ModelCannotMislead ==
  /\ sql # "unset" /\ ~IsWriteRequest(standalone) /\ ~AboutData(standalone) =>
       ~AboutDocuments(standalone)
  /\ hits = "some" => AboutDocuments(standalone) \/ ~AboutData(standalone)
  /\ hits # "unset" /\ sql = "unset" => route = "both" \/ doc_question = standalone
  /\ sql # "unset" /\ hits = "unset" => route = "both" \/ db_question = standalone

\* An answer is given when every source that the route names has been heard, and no
\* other; and the model does not answer from its memory where nothing was found.
AnswerGrounded ==
  LET asked == {c \in calls : c.by = "answer"} IN
  pc = "answered" =>
    /\ hits # "unset" <=> route \in {"document", "both"}
    /\ sql # "unset" <=> route \in {"database", "both"}
    /\ asked # {} => hits = "some" \/ sql # "unset"
    /\ asked = {} => answer \in {RefusalText, EmptyHandedText}

\* Every turn ends.
TurnsEnd == pc = "condense" ~> pc = "idle"

\* A question is refused for what the user asks in the conversation and not for a
\* word in it: "What is the password policy?" is a legitimate question, and so is
\* "Tell me more about it".
MentionIsNotRefused ==
  pc = "answered" /\ answer = RefusalText =>
    \/ IsSensitiveRequest(question)
    \/ \E m \in Range(memory) : m.role = "user" /\ IsSensitiveRequest(m.content)
==============================================================================
