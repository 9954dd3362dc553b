SPECIFICATION Spec
CONSTANTS
  a = a
  b = b
  short = short
  long = long
  bad = bad
  w1 = w1
  w2 = w2
  Names = {a, b}
  Contents = {short, long, bad}
  Unreadable = {bad}
  Size <- MCSize
  MaxChunks = 2
  NoValue = NoValue
  Workers = {w1, w2}
  BootThread = BootThread
  SafeName <- FoldedNames
  Requests = {"delete"}
  Exclusive = TRUE
  MaxFailures = 0
  MaxCrashes = 0
  LateErrors = FALSE
PROPERTY DeletedFileIsGone
