SPECIFICATION FairSpec
CONSTANTS
  show = show
  it = it
  its = its
  this = this
  about = about
  the = the
  context = context
  password = password
  policy = policy
  plans = plans
  sales = sales
  delete = delete
  penguin = penguin
  limit = limit
  and = and
  sorry = sorry
  nothing = nothing
  Words <- MCWords
  AskVerbs = {show}
  Secrets = {password}
  WriteVerbs = {delete}
  Targets = {sales}
  DocSignals = {password, policy}
  WeakDocSignals = {plans}
  DbSignals = {sales}
  Pronouns = {it, its}
  Demonstratives = {this}
  Article = the
  StandIns = {policy}
  Openers = {about}
  StopWords = {show, about, the, and}
  Glue <- MCGlue
  VagueWords = {limit}
  Connective = and
  Recent = 2
  Asked <- MCAsked
  Rewrites <- MCRewrites
  SubQuestions <- MCSubQuestions
  Replies <- MCReplies
  RefusalText <- MCRefusalText
  EmptyHandedText <- MCEmptyHandedText
  HistoryTurns = 2
INVARIANTS TypeOK SensitiveAsTyped RewriteFaithful ModelCannotMislead AnswerGrounded
PROPERTY TurnsEnd
