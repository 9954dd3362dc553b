SPECIFICATION FairSpec
CONSTANTS
  Runs = {r1, r2}
  Valid = {q1, q2}
  Fixable = {unknown_table}
  Forbidden = {drop}
  NoValue = NoValue
  MaxAttempts = 2
  TTL = 1
  MaxClock = 2
  MaxMigrations = 1
  MaxFailures = 1
  MaxModelFailures = 1
  MaxAuditFailures = 1
INVARIANTS TypeOK SchemaFreshEnough EveryDraftLogged AuditTellsTheOutcome
PROPERTY RunsEnd
CHECK_DEADLOCK FALSE
