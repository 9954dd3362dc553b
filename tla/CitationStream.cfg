SPECIFICATION Spec
CONSTANTS
  Symbols <- MCSymbols
  MaxLength = 6
INVARIANTS FollowsScrubbedReply ExactUnlessCutAtSpace MadeUpNeverLeads
CHECK_DEADLOCK FALSE
