-------------------------- MODULE ChatPipelineProofs --------------------------
(***************************************************************************)
(* Proofs about ChatPipeline, for any vocabularies, any questions and any  *)
(* answers of the model: the type invariant, and the four promises of a    *)
(* turn.                                                                   *)
(***************************************************************************)
EXTENDS ChatPipeline, SequenceTheorems, TLAPS

LEMMA Texts ==
  /\ Asked \subseteq Seq(Words) /\ Rewrites \subseteq Seq(Words)
  /\ SubQuestions \subseteq Seq(Words) /\ Replies \subseteq Seq(Words)
  /\ RefusalText \in Seq(Words) /\ EmptyHandedText \in Seq(Words) /\ NoText \in Seq(Words)
  /\ HistoryTurns \in Nat \ {0} /\ Recent \in Nat \ {0, 1}
  BY TextsAssumption, VocabularyAssumption, EmptySeq DEF NoText

(***************************************************************************)
(* Lemmas about texts and the conversation.                                *)
(***************************************************************************)
\* The last n messages of a conversation: no more than n, and in their places
\* (get of conversation_store.py).
LEMMA LastMessagesProperties ==
  ASSUME NEW past \in Seq(Message), NEW n \in Nat \ {0}
  PROVE  /\ LastMessages(past, n) \in Seq(Message)
         /\ Len(LastMessages(past, n)) = IF Len(past) > n THEN n ELSE Len(past)
         /\ \A i \in 0 .. Len(LastMessages(past, n)) - 1 :
              LastMessages(past, n)[Len(LastMessages(past, n)) - i] = past[Len(past) - i]
<1> DEFINE from == IF Len(past) > n THEN Len(past) - n + 1 ELSE 1
           last == SubSeq(past, from, Len(past))
<1>0. LastMessages(past, n) = last
  BY Zenon DEF LastMessages
<1>1. Len(past) \in Nat /\ from \in 1 .. Len(past) + 1
  BY LenProperties
<1>2. \A i \in from .. Len(past) : past[i] \in Message
  BY <1>1, ElementOfSeq
<1>3. /\ last \in Seq(Message)
      /\ Len(last) = IF from <= Len(past) THEN Len(past) - from + 1 ELSE 0
      /\ \A i \in 1 .. Len(past) - from + 1 : last[i] = past[from + i - 1]
  <2>1. from \in Int /\ Len(past) \in Int
    BY <1>1
  <2> QED
    BY <2>1, <1>2, SubSeqProperties
<1>4. Len(last) = Len(past) - from + 1
  <2> HIDE DEF last, from
  <2>1. CASE from <= Len(past)
    BY <1>3, <2>1
  <2>2. CASE ~(from <= Len(past))
    <3>1. from = Len(past) + 1
      BY <1>1, <2>2
    <3> QED
      BY <1>1, <1>3, <2>2, <3>1
  <2> QED
    BY <2>1, <2>2
<1> HIDE DEF last
<1>5. ASSUME NEW i \in 0 .. Len(last) - 1
      PROVE  last[Len(last) - i] = past[Len(past) - i]
  <2> HIDE DEF from
  <2> DEFINE k == Len(last) - i
  <2>1. k \in 1 .. Len(past) - from + 1 /\ from + k - 1 = Len(past) - i
    BY <1>1, <1>4
  <2> QED
    BY <1>3, <2>1
<1>6. Len(last) = IF Len(past) > n THEN n ELSE Len(past)
  <2>1. CASE Len(past) > n
    BY <1>1, <1>4, <2>1
  <2>2. CASE ~(Len(past) > n)
    BY <1>1, <1>4, <2>2
  <2> QED
    BY <2>1, <2>2
<1> QED
  BY <1>0, <1>3, <1>5, <1>6

\* Every exchange begins with a question.
Paired(past) == past # << >> => Len(past) >= 2 /\ past[Len(past) - 1].role = "user"

\* What the fallback adds to a question is nothing, or a question of the last two
\* messages (_last_user_question).
LEMMA LastUserQuestionProperties ==
  ASSUME NEW past \in Seq(Message), Paired(past)
  PROVE  \/ LastUserQuestion(past) = NoText
         \/ \E i \in {0, 1} : i < Len(past) /\ LastUserQuestion(past) = past[Len(past) - i].content
<1> DEFINE asked == {i \in DOMAIN past : past[i].role = "user"}
           Newest(i) == \A j \in asked : j <= i
<1>1. Len(past) \in Nat /\ DOMAIN past = 1 .. Len(past)
  BY LenProperties
<1>2. CASE asked = {}
  BY <1>2 DEF LastUserQuestion
<1>3. CASE asked # {}
  <2>1. Len(past) >= 2 /\ Len(past) - 1 \in asked
    BY <1>1, <1>3, EmptySeq DEF Paired
  <2>2. \E i \in asked : Newest(i)
    <3>1. CASE Len(past) \in asked
      BY <3>1, <1>1
    <3>2. CASE Len(past) \notin asked
      BY <3>2, <2>1, <1>1
    <3> QED
      BY <3>1, <3>2
  <2>3. PICK i \in asked : i = CHOOSE k \in asked : Newest(k)
    BY <2>2
  <2>4. Newest(i)
    BY <2>2, <2>3
  <2>5. i = Len(past) \/ i = Len(past) - 1
    BY <2>1, <2>4, <1>1
  <2>6. LastUserQuestion(past) = past[i].content
    BY <1>3, <2>3 DEF LastUserQuestion
  <2>7. i = Len(past) - 0
    => /\ 0 < Len(past)
       /\ LastUserQuestion(past) = past[Len(past) - 0].content
    BY <2>1, <2>6, <1>1
  <2>8. i = Len(past) - 1
    => /\ 1 < Len(past)
       /\ LastUserQuestion(past) = past[Len(past) - 1].content
    BY <2>1, <2>6, <1>1
  <2> QED
    BY <2>5, <2>7, <2>8, <1>1
<1> QED
  BY <1>2, <1>3

LEMMA LastUserQuestionIsText ==
  ASSUME NEW past \in Seq(Message), Paired(past)
  PROVE  LastUserQuestion(past) \in Seq(Words)
<1>1. ASSUME NEW i \in {0, 1}, i < Len(past) PROVE past[Len(past) - i].content \in Seq(Words)
  <2>1. Len(past) - i \in 1 .. Len(past)
    BY <1>1, LenProperties
  <2>2. past[Len(past) - i] \in Message
    BY <2>1, ElementOfSeq
  <2> QED
    BY <2>2 DEF Message
<1> QED
  BY <1>1, LastUserQuestionProperties, Texts

\* Two texts together have the terms of both.
LEMMA TermsOfBoth ==
  ASSUME NEW t \in Seq(Words), NEW u \in Seq(Words)
  PROVE  Terms(t \o u) = Terms(t) \cup Terms(u)
  BY RangeConcatenation DEF Terms

\* A rewrite keeps the terms of the question and draws the others from the recent
\* conversation, whatever the model answers; the fallback's own words are beside
\* them (condense_question).
LEMMA CondensedIsFaithful ==
  ASSUME NEW q \in Seq(Words), NEW past \in Seq(Message), Paired(past),
         NEW out \in Condensed(q, past, Rewrites)
  PROVE  /\ out \in Seq(Words)
         /\ PreservesTerms(q, out)
         /\ \/ IntroducesOnlyKnownTerms(q, out, past)
            \/ /\ out = FallbackRewrite(q, past)
               /\ Terms(out) \subseteq Terms(q) \cup KnownTerms(past) \cup Terms(Glue)
<1> DEFINE last   == LastUserQuestion(past)
           recent == LastMessages(past, Recent)
<1>1. CASE out = q
  BY <1>1 DEF PreservesTerms, IntroducesOnlyKnownTerms
<1>2. CASE out \in Rewrites /\ AcceptableRewrite(q, out, past)
  BY <1>2, Texts DEF AcceptableRewrite
<1>3. CASE out = FallbackRewrite(q, past) /\ last # NoText
  <2>1. last \in Seq(Words) /\ Glue \in Seq(Words)
    BY LastUserQuestionIsText, VocabularyAssumption
  <2>2. out = (q \o Glue) \o last /\ q \o Glue \in Seq(Words)
    BY <1>3, <2>1, ConcatProperties DEF FallbackRewrite
  <2>3. out \in Seq(Words)
    BY <2>1, <2>2, ConcatProperties
  <2>4. Terms(out) = Terms(q) \cup Terms(Glue) \cup Terms(last)
    <3>1. Terms(out) = Terms(q \o Glue) \cup Terms(last)
      BY <2>1, <2>2, TermsOfBoth
    <3>2. Terms(q \o Glue) = Terms(q) \cup Terms(Glue)
      BY <2>1, TermsOfBoth
    <3> QED
      BY <3>1, <3>2
  <2>5. Terms(last) \subseteq KnownTerms(past)
    <3>1. CASE last = NoText
      BY <3>1 DEF NoText, Terms, Range
    <3>2. ASSUME NEW i \in {0, 1}, i < Len(past), last = past[Len(past) - i].content
          PROVE  Terms(last) \subseteq KnownTerms(past)
      <4>1. /\ recent \in Seq(Message) /\ Len(recent) \in Nat
            /\ Len(recent) = IF Len(past) > Recent THEN Recent ELSE Len(past)
            /\ \A k \in 0 .. Len(recent) - 1 : recent[Len(recent) - k] = past[Len(past) - k]
        BY Texts, LastMessagesProperties, LenProperties
      <4>2. Len(past) \in Nat
        BY LenProperties
      <4>3. i \in 0 .. Len(recent) - 1
        BY <3>2, <4>1, <4>2, Texts
      <4>4. recent[Len(recent) - i] = past[Len(past) - i]
        BY <4>1, <4>3
      <4>5. Len(recent) - i \in DOMAIN recent
        BY <4>1, <4>3, LenProperties
      <4>6. past[Len(past) - i] \in Range(recent)
        BY <4>4, <4>5 DEF Range
      <4> QED
        BY <4>6, <3>2 DEF KnownTerms
    <3> QED
      BY <3>1, <3>2, LastUserQuestionProperties
  <2>6. PreservesTerms(q, out)
    BY <2>4 DEF PreservesTerms
  <2>7. Terms(out) \subseteq Terms(q) \cup KnownTerms(past) \cup Terms(Glue)
    BY <2>4, <2>5
  <2> QED
    BY <1>3, <2>3, <2>6, <2>7
<1>4. FallbackRewrite(q, past) = q \/ last # NoText
  BY DEF FallbackRewrite
<1> QED
  BY <1>1, <1>2, <1>3, <1>4 DEF Condensed

(***************************************************************************)
(* Lemmas about routing.                                                   *)
(***************************************************************************)
\* The rules decide for one route, and each half of a split is a text
\* (rule_route, _split_combined).
LEMMA HalvesAreTexts ==
  ASSUME NEW t \in Seq(Words)
  PROVE  Halves(t)[1] \in Seq(Words) /\ Halves(t)[2] \in Seq(Words)
<1>1. ASSUME NEW c \in Clauses(t) PROVE c[1] \in Seq(Words) /\ c[2] \in Seq(Words)
  <2>1. PICK i \in 2 .. Len(t) - 1 : c = <<SubSeq(t, 1, i - 1), SubSeq(t, i + 1, Len(t))>>
    BY <1>1 DEF Clauses
  <2>2. Len(t) \in Nat /\ i \in Int /\ 2 <= i /\ i <= Len(t) - 1
    BY <2>1, LenProperties
  <2>3. \A j \in 1 .. Len(t) : t[j] \in Words
    BY ElementOfSeq
  <2>4. SubSeq(t, 1, i - 1) \in Seq(Words)
    <3>1. \A j \in 1 .. i - 1 : t[j] \in Words
      BY <2>2, <2>3
    <3>2. 1 \in Int /\ i - 1 \in Int
      BY <2>2
    <3> QED
      BY <3>1, <3>2, SubSeqProperties
  <2>5. SubSeq(t, i + 1, Len(t)) \in Seq(Words)
    <3>1. \A j \in i + 1 .. Len(t) : t[j] \in Words
      BY <2>2, <2>3
    <3>2. i + 1 \in Int /\ Len(t) \in Int
      BY <2>2
    <3> QED
      BY <3>1, <3>2, SubSeqProperties
  <2> QED
    BY <2>1, <2>4, <2>5
<1>2. \A h \in SplitCombined(t) : h[1] \in Seq(Words) /\ h[2] \in Seq(Words)
  BY <1>1 DEF SplitCombined
<1> QED
  BY <1>2 DEF Halves

LEMMA RulesDecideForARoute ==
  ASSUME NEW t \in Seq(Words)
  PROVE  /\ RuleRoute(t) \in [route : {"undecided", "document", "database", "both"},
                              doc_question : Seq(Words), db_question : Seq(Words)]
         /\ RuleRoute(t).route = "undecided" <=> RuleRoute(t) = Undecided
  BY HalvesAreTexts, Texts DEF RuleRoute, Decision, Undecided

\* What the node decides is a route with its questions, and where the rules decide
\* for one source, it is theirs, whatever the model answers (route_question).
LEMMA DecisionsProperties ==
  ASSUME NEW t \in Seq(Words), NEW d \in Decisions(t)
  PROVE  /\ d.route \in {"document", "database", "both"}
         /\ d.doc_question \in Seq(Words) /\ d.db_question \in Seq(Words)
         /\ RuleRoute(t).route \in {"document", "database"} => d.route = RuleRoute(t).route
<1> DEFINE rule == RuleRoute(t)
           Made == [route : {"document", "database", "both"},
                    doc_question : Seq(Words), db_question : Seq(Words)]
<1>1. /\ rule \in [route : {"undecided", "document", "database", "both"},
                   doc_question : Seq(Words), db_question : Seq(Words)]
      /\ rule.route = "undecided" <=> rule = Undecided
  BY RulesDecideForARoute
<1>2. ModelDecisions(t) \subseteq Made
  BY Texts DEF ModelDecisions, Decision
<1>3. CASE rule = Undecided
  <2>1. HeuristicRoute(t) \in Made
    BY <1>3, Texts DEF HeuristicRoute, Decision
  <2>2. rule.route = "undecided"
    BY <1>1, <1>3
  <2>3. d \in ModelDecisions(t) \cup {HeuristicRoute(t)}
    BY <1>3, <2>2 DEF Decisions
  <2> QED
    BY <1>2, <2>1, <2>2, <2>3
<1>4. CASE rule # Undecided /\ rule.route = "both"
  <2>1. PICK m \in ModelDecisions(t) :
          d = Decision("both", OrElse(m.doc_question, rule.doc_question),
                               OrElse(m.db_question, rule.db_question))
    BY <1>4 DEF Decisions
  <2>2. m \in Made
    BY <1>2
  <2> QED
    BY <1>1, <1>4, <2>1, <2>2 DEF Decision, OrElse
<1>5. CASE rule # Undecided /\ rule.route # "both"
  <2>1. d = rule
    BY <1>5 DEF Decisions
  <2> QED
    BY <1>1, <1>5, <2>1
<1> QED
  BY <1>3, <1>4, <1>5

LEMMA QueriesAreTexts ==
  ASSUME NEW t \in Seq(Words), NEW d \in Decisions(t)
  PROVE  Queries(d, t)[1] \in Seq(Words) /\ Queries(d, t)[2] \in Seq(Words)
  BY DecisionsProperties DEF Queries, OrElse

(***************************************************************************)
(* Types.                                                                  *)
(***************************************************************************)
TInv == TypeOK /\ Paired(memory)

\* The memory keeps its type and its exchanges when a turn is added (add_turn).
LEMMA RememberKeepsPairs ==
  ASSUME TInv, Remember
  PROVE  memory' \in Seq(Message) /\ Len(memory') <= 2 * HistoryTurns /\ Paired(memory')
<1> DEFINE asked  == [role |-> "user", content |-> question]
           told   == [role |-> "assistant", content |-> answer]
           all    == memory \o <<asked, told>>
           last   == LastMessages(all, 2 * HistoryTurns)
<1>1. asked \in Message /\ told \in Message
  BY DEF TInv, TypeOK, Message
<1>2. <<asked, told>> \in Seq(Message) /\ Len(<<asked, told>>) = 2
  BY <1>1
<1>3. memory \in Seq(Message) /\ Len(memory) \in Nat
  BY LenProperties DEF TInv, TypeOK
<1>4. /\ all \in Seq(Message)
      /\ Len(all) = Len(memory) + 2
      /\ \A i \in 1 .. Len(memory) + 2 :
           all[i] = IF i <= Len(memory) THEN memory[i] ELSE <<asked, told>>[i - Len(memory)]
  BY <1>2, <1>3, ConcatProperties
<1>5. all[Len(all) - 1] = asked
  BY <1>3, <1>4
<1>6. 2 * HistoryTurns \in Nat \ {0} /\ 2 * HistoryTurns >= 2
  BY Texts
<1>7. memory' = last
  BY Zenon DEF Remember
<1> HIDE DEF all
<1>8. /\ last \in Seq(Message)
      /\ Len(last) = IF Len(all) > 2 * HistoryTurns THEN 2 * HistoryTurns ELSE Len(all)
      /\ \A i \in 0 .. Len(last) - 1 : last[Len(last) - i] = all[Len(all) - i]
  BY <1>4, <1>6, LastMessagesProperties
<1>9. Len(last) >= 2 /\ Len(last) <= 2 * HistoryTurns
  <2> HIDE DEF last
  <2> QED
    BY <1>3, <1>4, <1>6, <1>8
<1>10. last[Len(last) - 1] = asked
  <2> HIDE DEF last
  <2>1. Len(last) \in Nat
    BY <1>8, LenProperties
  <2> QED
    BY <1>5, <1>8, <1>9, <2>1
<1> QED
  BY <1>7, <1>8, <1>9, <1>10 DEF Paired

\* The calls to the model keep their type.
LEMMA CallsTypes ==
  ASSUME TypeOK, NEW caller \in Callers, NEW t \in Seq(Words), Calls(caller, t) \/ calls' = calls
  PROVE  \A c \in calls' : c.by \in Callers /\ c.text \in Seq(Words)
<1>1. \A c \in calls : c.by \in Callers /\ c.text \in Seq(Words)
  BY DEF TypeOK
<1>2. \A c \in calls' : c \in calls \/ c = [by |-> caller, text |-> t]
  BY DEF Calls
<1> QED
  BY <1>1, <1>2

LEMMA InitTypes == Init => TInv
<1> SUFFICES ASSUME Init PROVE TInv
  OBVIOUS
<1>1. memory \in Seq(Message) /\ Len(memory) = 0
  BY EmptySeq DEF Init
<1>2. Len(memory) <= 2 * HistoryTurns
  BY <1>1, Texts
<1>3. {question, standalone, doc_question, db_question, answer} \subseteq Seq(Words)
  BY Texts DEF Init
<1> QED
  BY <1>1, <1>2, <1>3 DEF Init, TInv, TypeOK, Paired, Labels, Routes

\* Every node keeps the types.
LEMMA StepTypes == TInv /\ [Next]_vars => TInv'
<1> SUFFICES ASSUME TInv, [Next]_vars PROVE TInv'
  OBVIOUS
<1> USE Texts DEF TInv, TypeOK, Paired, GoTo, Labels, Routes, Callers, Nodes
<1>1. ASSUME NEW q \in Asked, Ask(q) PROVE TInv'
  BY <1>1 DEF Ask, CleanSlate
<1>2. CASE Condense
  <2>1. standalone' \in Seq(Words)
    BY <1>2, CondensedIsFaithful DEF Condense
  <2>2. \A c \in calls' : c.by \in Callers /\ c.text \in Seq(Words)
    <3>1. Calls("condense", question) \/ calls' = calls
      BY <1>2 DEF Condense
    <3> QED
      BY <3>1, CallsTypes
  <2>3. /\ pc' = "route"
        /\ UNCHANGED <<memory, question, route, doc_question, db_question, hits, sql, answer, pending>>
    BY <1>2 DEF Condense
  <2> QED
    BY <2>1, <2>2, <2>3
<1>3. CASE Route
  <2>1. PICK d \in Decisions(standalone) :
          /\ route' = d.route
          /\ doc_question' = Queries(d, standalone)[1]
          /\ db_question' = Queries(d, standalone)[2]
          /\ pending' = Pick(d.route)
    BY <1>3 DEF Route
  <2>2. d.route \in {"document", "database", "both"}
    BY DecisionsProperties
  <2>3. pending' \subseteq Nodes
    BY <2>1, <2>2 DEF Pick
  <2>4. doc_question' \in Seq(Words) /\ db_question' \in Seq(Words)
    BY <2>1, QueriesAreTexts
  <2>5. \A c \in calls' : c.by \in Callers /\ c.text \in Seq(Words)
    <3>1. Calls("route", standalone) \/ calls' = calls
      BY <1>3 DEF Route
    <3> QED
      BY <3>1, CallsTypes
  <2>6. pc' = "gather" /\ UNCHANGED <<memory, question, standalone, hits, sql, answer>>
    BY <1>3 DEF Route
  <2> QED
    BY <2>1, <2>2, <2>3, <2>4, <2>5, <2>6
<1>4. CASE Retrieve \/ RetrievalFails
  BY <1>4 DEF Retrieve, RetrievalFails, Ends
<1>5. CASE RunSql \/ SqlFails
  <2>1. \A c \in calls' : c.by \in Callers /\ c.text \in Seq(Words)
    <3>1. Calls("sql", db_question) \/ calls' = calls
      BY <1>5 DEF RunSql, SqlFails
    <3> QED
      BY <3>1, CallsTypes
  <2>2. /\ pending' \subseteq pending
        /\ sql' \in {"refused", "rows", "error"}
        /\ UNCHANGED <<memory, pc, question, standalone, route, doc_question, db_question, hits, answer>>
    BY <1>5 DEF RunSql, SqlFails, Ends
  <2> QED
    BY <2>1, <2>2
<1>6. CASE AnswerCanned
  BY <1>6 DEF AnswerCanned, AnswerWith
<1>7. ASSUME NEW t \in Replies, AnswerByModel(t) PROVE TInv'
  <2>1. \A c \in calls' : c.by \in Callers /\ c.text \in Seq(Words)
    <3>1. Calls("answer", standalone)
      BY <1>7 DEF AnswerByModel
    <3> QED
      BY <3>1, CallsTypes
  <2>2. /\ pc' = "answered" /\ answer' = t
        /\ UNCHANGED <<memory, question, standalone, route, doc_question, db_question, hits, sql, pending>>
    BY <1>7 DEF AnswerByModel, AnswerWith
  <2> QED
    BY <1>7, <2>1, <2>2
<1>8. CASE AnswerFails
  BY <1>8 DEF AnswerFails, state
<1>9. CASE Remember
  BY <1>9, RememberKeepsPairs DEF Remember, state
<1>10. CASE UNCHANGED vars
  BY <1>10 DEF vars, state
<1> QED
  BY <1>1, <1>2, <1>3, <1>4, <1>5, <1>6, <1>7, <1>8, <1>9, <1>10 DEF Next, Step

\* For any vocabularies, questions and answers of the model: every variable of a
\* turn, and the conversation, keeps its type (ChatState of chat_agent.py).
THEOREM TypeCorrect == Spec => []TypeOK
<1>1. TInv => TypeOK
  BY DEF TInv
<1> QED
  BY <1>1, InitTypes, StepTypes, PTL DEF Spec

(***************************************************************************)
(* The course of a turn.                                                   *)
(***************************************************************************)
\* Before it is routed a turn has heard nothing, and nothing is left of the turn
\* before it.
Unrouted ==
  /\ pc \in {"condense", "route"} => route = ""
  /\ pc \in {"gather", "answered"} => route # ""
  /\ route = "" => hits = "unset" /\ sql = "unset" /\ pending = {}
  /\ pc = "condense" => standalone = NoText /\ calls = {}

\* What was decided is what the rules decide, where they do.
Decided ==
  route # "" =>
    /\ route # "both" => doc_question = standalone /\ db_question = standalone
    /\ RuleRoute(standalone).route \in {"document", "database"} => route = RuleRoute(standalone).route

\* The sources of the route have been heard, but for those that are pending.
Heard ==
  /\ "rag" \in pending => route \in {"document", "both"}
  /\ "sql" \in pending => route \in {"database", "both"}
  /\ route # "" =>
       /\ hits # "unset" <=> route \in {"document", "both"} /\ "rag" \notin pending
       /\ sql # "unset" <=> route \in {"database", "both"} /\ "sql" \notin pending
  /\ pc = "answered" => pending = {}
  /\ hits = "some" => ~IsSensitiveRequest(doc_question)

\* The model words an answer last, and only from what a source has said.
Worded ==
  /\ pc \in {"condense", "route", "gather"} => \A c \in calls : c.by # "answer"
  /\ pc = "answered" =>
       /\ (\E c \in calls : c.by = "answer") => hits = "some" \/ sql # "unset"
       /\ (\A c \in calls : c.by # "answer") => answer \in {RefusalText, EmptyHandedText}

\* A sensitive question goes through as it was typed, and no model has seen it but
\* the one that words the refusal of a write request.
Guarded ==
  IsSensitiveRequest(question) =>
    /\ pc \in {"route", "gather", "answered"} \/ route # "" => standalone = question
    /\ standalone \in {NoText, question}
    /\ sql \in {"unset", "refused"}
    /\ \A c \in calls : IsWriteRequest(question) /\ c.by = "answer" /\ sql = "refused"
    /\ pc = "answered" => answer = RefusalText \/ sql = "refused"

\* The question that is routed is a faithful one.
Rewritten ==
  pc \in {"route", "gather", "answered"} => standalone \in Condensed(question, memory, Rewrites)

Course == TInv /\ Unrouted /\ Decided /\ Heard /\ Worded /\ Guarded /\ Rewritten

\* The rules know a sensitive request: a write goes to the SQL agent, which refuses
\* it, and the rest to the documents (rule_route).
LEMMA RulesOfSensitive ==
  ASSUME NEW t, IsSensitiveRequest(t)
  PROVE  RuleRoute(t).route = IF IsWriteRequest(t) THEN "database" ELSE "document"
  BY DEF RuleRoute, Decision

LEMMA SensitiveIsNotCondensed ==
  ASSUME NEW q, NEW past, IsSensitiveRequest(q)
  PROVE  ~UsesHistory(q, past) /\ Condensed(q, past, Rewrites) = {q}
  BY DEF UsesHistory, Condensed

LEMMA WriteIsSensitive == \A t : IsWriteRequest(t) => IsSensitiveRequest(t)
  BY DEF IsSensitiveRequest

\* What is added to the calls.
LEMMA CallsGrow ==
  ASSUME NEW caller, NEW t, Calls(caller, t)
  PROVE  /\ \A c \in calls' : c \in calls \/ c.by = caller
         /\ calls \subseteq calls'
         /\ \E c \in calls' : c.by = caller
<1>1. /\ [by |-> caller, text |-> t] \in calls'
      /\ calls \subseteq calls'
      /\ \A c \in calls' : c \in calls \/ c = [by |-> caller, text |-> t]
  BY DEF Calls
<1> QED
  BY <1>1

LEMMA InitCourse == Init => Course
<1> SUFFICES ASSUME Init PROVE Course
  OBVIOUS
<1>1. TInv
  BY InitTypes
<1> QED
  BY <1>1 DEF Init, Course, Unrouted, Decided, Heard, Worded, Guarded, Rewritten

\* Nothing that a turn has done is undone when it ends, or when nothing happens.
LEMMA EndKeepsCourse ==
  ASSUME Course, TInv', UNCHANGED <<question, standalone, route, doc_question, db_question, hits, sql,
                                   answer, pending, calls>>,
         pc' = "idle" \/ (pc' = pc /\ memory' = memory)
  PROVE  Course'
<1> USE DEF Course
<1>1. Unrouted' /\ Decided' /\ Heard'
  BY DEF Unrouted, Decided, Heard
<1>2. Worded' /\ Guarded'
  BY DEF Worded, Guarded
<1>3. Rewritten'
  BY DEF Rewritten
<1> QED
  BY <1>1, <1>2, <1>3

LEMMA AskKeepsCourse ==
  ASSUME Course, TInv', NEW q \in Asked, Ask(q)
  PROVE  Course'
  BY DEF Course, Ask, GoTo, CleanSlate, Unrouted, Decided, Heard, Worded, Guarded, Rewritten

\* condense_question.
LEMMA CondenseKeepsCourse ==
  ASSUME Course, TInv', Condense
  PROVE  Course'
<1> USE DEF Course
<1>1. /\ pc = "condense" /\ pc' = "route"
      /\ standalone' \in Condensed(question, memory, Rewrites)
      /\ UNCHANGED <<memory, question, route, doc_question, db_question, hits, sql, answer, pending>>
  BY DEF Condense, GoTo
<1>2. route = "" /\ hits = "unset" /\ sql = "unset" /\ pending = {} /\ calls = {}
  BY <1>1 DEF Unrouted
<1>3. \A c \in calls' : c.by = "condense"
  <2>1. calls' = calls \/ Calls("condense", question)
    BY DEF Condense
  <2> QED
    BY <1>2, <2>1, CallsGrow
<1>4. IsSensitiveRequest(question) => standalone' = question /\ calls' = {}
  <2>1. IsSensitiveRequest(question) => calls' = calls
    BY SensitiveIsNotCondensed DEF Condense
  <2>2. IsSensitiveRequest(question) => Condensed(question, memory, Rewrites) = {question}
    BY SensitiveIsNotCondensed
  <2> QED
    BY <1>1, <1>2, <2>1, <2>2
<1>5. Unrouted' /\ Decided' /\ Heard'
  BY <1>1, <1>2 DEF Unrouted, Decided, Heard
<1>6. Worded'
  BY <1>1, <1>3 DEF Worded
<1>7. Guarded'
  BY <1>1, <1>2, <1>4 DEF Guarded
<1>8. Rewritten'
  BY <1>1 DEF Rewritten
<1> QED
  BY <1>5, <1>6, <1>7, <1>8

\* route_question and the fan-out to the sources.
LEMMA RouteKeepsCourse ==
  ASSUME Course, TInv', Route
  PROVE  Course'
<1> USE DEF Course
<1>1. /\ pc = "route" /\ pc' = "gather"
      /\ UNCHANGED <<memory, question, standalone, hits, sql, answer>>
  BY DEF Route, GoTo
<1>2. PICK d \in Decisions(standalone) :
        /\ route' = d.route
        /\ doc_question' = Queries(d, standalone)[1]
        /\ db_question' = Queries(d, standalone)[2]
        /\ pending' = Pick(d.route)
  BY DEF Route
<1>3. standalone \in Seq(Words)
  BY DEF TInv, TypeOK
<1>4. /\ d.route \in {"document", "database", "both"}
      /\ RuleRoute(standalone).route \in {"document", "database"} =>
           d.route = RuleRoute(standalone).route
  BY <1>3, DecisionsProperties
<1>5. route = "" /\ hits = "unset" /\ sql = "unset"
  BY <1>1 DEF Unrouted
<1>6. /\ "rag" \in pending' <=> route' \in {"document", "both"}
      /\ "sql" \in pending' <=> route' \in {"database", "both"}
  BY <1>2, <1>4 DEF Pick, Nodes
<1>7. \A c \in calls' : c \in calls \/ c.by = "route"
  <2>1. calls' = calls \/ Calls("route", standalone)
    BY DEF Route
  <2> QED
    BY <2>1, CallsGrow
<1>8. IsSensitiveRequest(question) => standalone = question /\ calls' = calls
  <2>1. IsSensitiveRequest(question) => standalone = question
    BY <1>1 DEF Guarded
  <2>2. IsSensitiveRequest(question) =>
          RuleRoute(standalone).route \notin {"undecided", "both"}
    BY <2>1, RulesOfSensitive
  <2> QED
    BY <2>1, <2>2 DEF Route
<1>9. Unrouted'
  BY <1>1, <1>2, <1>4 DEF Unrouted
<1>10. Decided'
  BY <1>1, <1>2, <1>4 DEF Decided, Queries
<1>11. Heard'
  BY <1>1, <1>2, <1>4, <1>5, <1>6 DEF Heard
<1>12. Worded'
  BY <1>1, <1>7 DEF Worded
<1>13. Guarded'
  BY <1>1, <1>8 DEF Guarded
<1>14. Rewritten'
  BY <1>1 DEF Rewritten
<1> QED
  BY <1>9, <1>10, <1>11, <1>12, <1>13, <1>14

\* rag_node: a search ends, with passages, with none or with an error.
LEMMA RetrieveKeepsCourse ==
  ASSUME Course, TInv', Retrieve \/ RetrievalFails
  PROVE  Course'
<1> USE DEF Course
<1>1. /\ pc = "gather" /\ "rag" \in pending /\ pending' = pending \ {"rag"}
      /\ hits' \in {"none", "some"}
      /\ hits' = "some" => ~IsSensitiveRequest(doc_question)
      /\ UNCHANGED <<memory, pc, question, standalone, route, doc_question, db_question, sql, answer,
                    calls>>
  BY DEF Retrieve, RetrievalFails, Ends
<1>2. Unrouted' /\ Decided'
  BY <1>1 DEF Unrouted, Decided
<1>3. Heard'
  BY <1>1 DEF Heard
<1>4. Worded' /\ Guarded' /\ Rewritten'
  BY <1>1 DEF Worded, Guarded, Rewritten
<1> QED
  BY <1>2, <1>3, <1>4

\* sql_node: the agent ends, with rows, with an error or with a refusal.
LEMMA SqlKeepsCourse ==
  ASSUME Course, TInv', RunSql \/ SqlFails
  PROVE  Course'
<1> USE DEF Course
<1>1. /\ pc = "gather" /\ "sql" \in pending /\ pending' = pending \ {"sql"}
      /\ sql' \in {"refused", "rows", "error"}
      /\ IsWriteRequest(db_question) => sql' = "refused" /\ calls' = calls
      /\ UNCHANGED <<memory, pc, question, standalone, route, doc_question, db_question, hits,
                    answer>>
  BY DEF RunSql, SqlFails, Ends
<1>2. \A c \in calls' : c \in calls \/ c.by = "sql"
  <2>1. calls' = calls \/ Calls("sql", db_question)
    BY DEF RunSql, SqlFails
  <2> QED
    BY <2>1, CallsGrow
<1>3. IsSensitiveRequest(question) => IsWriteRequest(db_question)
  <2> SUFFICES ASSUME IsSensitiveRequest(question) PROVE IsWriteRequest(db_question)
    OBVIOUS
  <2>1. standalone = question
    BY <1>1 DEF Guarded
  <2>2. route # "" /\ route \in {"database", "both"}
    BY <1>1 DEF Heard
  <2>3. RuleRoute(standalone).route \in {"document", "database"}
    BY <2>1, RulesOfSensitive
  <2>4. route = RuleRoute(standalone).route /\ route = "database" /\ db_question = standalone
    BY <2>2, <2>3 DEF Decided
  <2> QED
    BY <2>1, <2>4, RulesOfSensitive
<1>4. Unrouted' /\ Decided'
  BY <1>1 DEF Unrouted, Decided
<1>5. Heard'
  BY <1>1 DEF Heard
<1>6. Worded'
  BY <1>1, <1>2 DEF Worded
<1>7. Guarded'
  BY <1>1, <1>3 DEF Guarded
<1>8. Rewritten'
  BY <1>1 DEF Rewritten
<1> QED
  BY <1>4, <1>5, <1>6, <1>7, <1>8

\* A sensitive question is either refused or one that asks to write, which the SQL
\* agent has refused.
LEMMA GatheredSensitive ==
  ASSUME Course, Gathered, IsSensitiveRequest(question), ~Refused
  PROVE  IsWriteRequest(question) /\ sql = "refused" /\ route = "database"
<1> USE DEF Course
<1>1. standalone = question /\ route # "" /\ pc = "gather" /\ pending = {}
  BY DEF Gathered, Guarded, Unrouted
<1>2. IsWriteRequest(question)
  BY <1>1 DEF Refused
<1>3. RuleRoute(standalone).route = "database"
  BY <1>1, <1>2, RulesOfSensitive
<1>4. route = "database"
  BY <1>1, <1>3 DEF Decided
<1>5. sql # "unset"
  BY <1>1, <1>4 DEF Heard
<1> QED
  BY <1>2, <1>4, <1>5 DEF Guarded

\* answer_node: the refusal and the apology are not the model's.
LEMMA CannedKeepsCourse ==
  ASSUME Course, TInv', AnswerCanned
  PROVE  Course'
<1> USE DEF Course
<1>1. /\ Gathered /\ pc' = "answered"
      /\ answer' \in {RefusalText, EmptyHandedText}
      /\ Refused => answer' = RefusalText
      /\ ~Refused => route = "document"
      /\ UNCHANGED <<memory, question, standalone, route, doc_question, db_question, hits, sql, pending,
                    calls>>
  BY DEF AnswerCanned, AnswerWith, EmptyHanded
<1>2. pc = "gather" /\ pending = {}
  BY <1>1 DEF Gathered
<1>3. Unrouted' /\ Decided' /\ Heard'
  BY <1>1, <1>2 DEF Unrouted, Decided, Heard
<1>4. Worded'
  BY <1>1, <1>2 DEF Worded
<1>5. Guarded'
  BY <1>1, <1>2, GatheredSensitive DEF Guarded
<1>6. Rewritten'
  BY <1>1, <1>2 DEF Rewritten
<1> QED
  BY <1>3, <1>4, <1>5, <1>6

\* answer_node: the model answers, from what was found.
LEMMA ModelKeepsCourse ==
  ASSUME Course, TInv', NEW t \in Replies, AnswerByModel(t)
  PROVE  Course'
<1> USE DEF Course
<1>1. /\ Gathered /\ ~Refused /\ ~EmptyHanded /\ pc' = "answered"
      /\ Calls("answer", standalone)
      /\ UNCHANGED <<memory, question, standalone, route, doc_question, db_question, hits, sql, pending>>
  BY DEF AnswerByModel, AnswerWith
<1>2. pc = "gather" /\ pending = {}
  BY <1>1 DEF Gathered
<1>3. /\ \A c \in calls' : c \in calls \/ c.by = "answer"
      /\ \E c \in calls' : c.by = "answer"
  BY <1>1, CallsGrow
<1>4. hits = "some" \/ sql # "unset"
  <2>1. route \in {"document", "database", "both"} /\ hits \in {"unset", "none", "some"}
    BY <1>2 DEF Unrouted, TInv, TypeOK, Routes
  <2>2. route = "document" => hits = "some"
    BY <1>1, <1>2, <2>1 DEF EmptyHanded, Heard
  <2>3. route \in {"database", "both"} => sql # "unset"
    BY <1>2, <2>1 DEF Heard
  <2> QED
    BY <2>1, <2>2, <2>3
<1>5. IsSensitiveRequest(question) => IsWriteRequest(question) /\ sql = "refused"
  BY <1>1, GatheredSensitive
<1>6. Unrouted' /\ Decided' /\ Heard'
  BY <1>1, <1>2 DEF Unrouted, Decided, Heard
<1>7. Worded'
  BY <1>1, <1>3, <1>4 DEF Worded
<1>8. Guarded'
  BY <1>1, <1>2, <1>3, <1>5 DEF Guarded
<1>9. Rewritten'
  BY <1>1, <1>2 DEF Rewritten
<1> QED
  BY <1>6, <1>7, <1>8, <1>9

LEMMA StepCourse == Course /\ [Next]_vars => Course'
<1> SUFFICES ASSUME Course, [Next]_vars PROVE Course'
  OBVIOUS
<1>1. TInv'
  BY StepTypes DEF Course
<1>2. CASE \E q \in Asked : Ask(q)
  BY <1>1, <1>2, AskKeepsCourse
<1>3. CASE Condense
  BY <1>1, <1>3, CondenseKeepsCourse
<1>4. CASE Route
  BY <1>1, <1>4, RouteKeepsCourse
<1>5. CASE Retrieve \/ RetrievalFails
  BY <1>1, <1>5, RetrieveKeepsCourse
<1>6. CASE RunSql \/ SqlFails
  BY <1>1, <1>6, SqlKeepsCourse
<1>7. CASE AnswerCanned
  BY <1>1, <1>7, CannedKeepsCourse
<1>8. CASE \E t \in Replies : AnswerByModel(t)
  BY <1>1, <1>8, ModelKeepsCourse
<1>9. CASE AnswerFails \/ Remember
  BY <1>1, <1>9, EndKeepsCourse DEF AnswerFails, Remember, GoTo, state
<1>10. CASE UNCHANGED vars
  BY <1>1, <1>10, EndKeepsCourse DEF vars, state
<1> QED
  BY <1>2, <1>3, <1>4, <1>5, <1>6, <1>7, <1>8, <1>9, <1>10 DEF Next, Step

LEMMA Courses == Spec => []Course
  BY InitCourse, StepCourse, PTL DEF Spec

(***************************************************************************)
(* The promises of a turn.                                                 *)
(***************************************************************************)
\* For any words and any model: a sensitive question reaches the checks as it was
\* typed, finds nothing and runs no SQL, and is answered with a refusal, for which a
\* model is asked at most to word the SQL agent's (condense_question, rag_node,
\* run_sql_agent, answer_node).
THEOREM SensitiveStaysTyped == Spec => []SensitiveAsTyped
<1>1. Course => SensitiveAsTyped
  <2> SUFFICES ASSUME Course, IsSensitiveRequest(question) PROVE hits # "some"
    BY DEF SensitiveAsTyped, Course, Guarded
  <2> SUFFICES ASSUME hits = "some" PROVE FALSE
    OBVIOUS
  <2> USE DEF Course
  <2>1. route # ""
    BY DEF Unrouted
  <2>2. standalone = question
    BY <2>1 DEF Guarded
  <2>3. RuleRoute(standalone).route \in {"document", "database"}
    BY <2>2, RulesOfSensitive
  <2>4. route = RuleRoute(standalone).route /\ doc_question = standalone
    BY <2>1, <2>3 DEF Decided
  <2> QED
    BY <2>2, <2>4 DEF Heard
<1> QED
  BY <1>1, Courses, PTL

\* For any words and any model: where the rules decide for one source, the question
\* goes to that source and as it stands (route_question).
THEOREM RoutedByTheWords == Spec => []ModelCannotMislead
<1>1. Course => ModelCannotMislead
  <2> SUFFICES ASSUME Course PROVE ModelCannotMislead
    OBVIOUS
  <2> USE DEF Course
  <2>1. /\ hits # "unset" => route \in {"document", "both"}
        /\ sql # "unset" => route \in {"database", "both"}
        /\ route # "" /\ route # "both" => doc_question = standalone /\ db_question = standalone
    BY DEF Unrouted, Heard, Decided
  <2>2. ASSUME sql # "unset", ~IsWriteRequest(standalone), ~AboutData(standalone),
               AboutDocuments(standalone)
        PROVE  FALSE
    <3>1. RuleRoute(standalone).route = "document"
      BY <2>2 DEF RuleRoute, Decision
    <3> QED
      BY <2>1, <2>2, <3>1 DEF Decided
  <2>3. ASSUME hits = "some", ~AboutDocuments(standalone), AboutData(standalone)
        PROVE  FALSE
    <3>1. route \in {"document", "both"}
      BY <2>1, <2>3
    <3>2. RuleRoute(standalone).route \in {"document", "database"}
      BY <2>3 DEF RuleRoute, Decision
    <3>3. route = "document" /\ RuleRoute(standalone).route = "document" /\ doc_question = standalone
      BY <3>1, <3>2 DEF Decided
    <3>4. IsSensitiveRequest(standalone)
      BY <2>3, <3>3 DEF RuleRoute, Decision
    <3> QED
      BY <2>3, <3>3, <3>4 DEF Heard
  <2> QED
    BY <2>1, <2>2, <2>3 DEF ModelCannotMislead
<1> QED
  BY <1>1, Courses, PTL

\* For any interleaving of the two sources: an answer is given when all that were
\* asked have been heard, and the model words one only if a source has said
\* something (answer_node).
THEOREM AnswersAreGrounded == Spec => []AnswerGrounded
<1>1. Course => AnswerGrounded
  <2> SUFFICES ASSUME Course, pc = "answered"
               PROVE  /\ hits # "unset" <=> route \in {"document", "both"}
                      /\ sql # "unset" <=> route \in {"database", "both"}
                      /\ {c \in calls : c.by = "answer"} # {} => hits = "some" \/ sql # "unset"
                      /\ {c \in calls : c.by = "answer"} = {} => answer \in {RefusalText, EmptyHandedText}
    BY DEF AnswerGrounded
  <2>1. route # "" /\ pending = {}
    BY DEF Course, Unrouted, Heard
  <2>2. /\ hits # "unset" <=> route \in {"document", "both"}
        /\ sql # "unset" <=> route \in {"database", "both"}
    BY <2>1 DEF Course, Heard
  <2> QED
    BY <2>2 DEF Course, Worded
<1> QED
  BY <1>1, Courses, PTL

\* For any model: the question that is answered has every term of the one that was
\* typed, and no other that the recent conversation does not have, but for the
\* words that the fallback joins the two questions with (condense_question).
THEOREM RewritesAreFaithful == Spec => []RewriteFaithful
<1> DEFINE invented == Terms(standalone) \ (Terms(question) \cup KnownTerms(memory))
<1>1. Course => RewriteFaithful
  <2> SUFFICES ASSUME Course, pc \in {"route", "gather", "answered"}
               PROVE  /\ PreservesTerms(question, standalone)
                      /\ invented # {} => /\ invented \subseteq Terms(Glue)
                                          /\ standalone = FallbackRewrite(question, memory)
    BY DEF RewriteFaithful
  <2>1. standalone \in Condensed(question, memory, Rewrites)
    BY DEF Course, Rewritten
  <2>2. question \in Seq(Words) /\ memory \in Seq(Message) /\ Paired(memory)
    BY DEF Course, TInv, TypeOK
  <2>3. /\ PreservesTerms(question, standalone)
        /\ \/ IntroducesOnlyKnownTerms(question, standalone, memory)
           \/ /\ standalone = FallbackRewrite(question, memory)
              /\ Terms(standalone) \subseteq Terms(question) \cup KnownTerms(memory) \cup Terms(Glue)
    BY <2>1, <2>2, CondensedIsFaithful
  <2> QED
    BY <2>3 DEF IntroducesOnlyKnownTerms
<1> QED
  BY <1>1, Courses, PTL
==============================================================================
