SPECIFICATION Spec
CONSTANTS
  Sessions = {s1, s2, s3}
  NoSession = NoSession
  Turns = {t1, t2, t3, t4}
  NoTurn = NoTurn
  Clients = {c1}
  NoClient = NoClient
  MaxTurns = 2
  MaxSessions = 2
  MaxTokens = 1
  MaxRestarts = 1
SYMMETRY Symmetry
INVARIANTS TypeOK Remembers EvictsOldest OneFinalFrame AnsweredIsRemembered ConversationAgrees
PROPERTY ImplementsMemory
CHECK_DEADLOCK FALSE
