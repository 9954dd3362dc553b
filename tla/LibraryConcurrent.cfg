SPECIFICATION FairSpec
CONSTANTS
  a = a
  b = b
  short = short
  long = long
  bad = bad
  w1 = w1
  w2 = w2
  Names = {a}
  Contents = {long, bad}
  Unreadable = {bad}
  Size <- MCSize
  MaxChunks = 2
  NoValue = NoValue
  Workers = {w1, w2}
  BootThread = BootThread
  SafeName <- PlainNames
  Requests = {"upload", "delete", "search"}
  Exclusive = FALSE
  MaxFailures = 0
  MaxCrashes = 1
  LateErrors = FALSE

INVARIANT CacheCoherent
PROPERTIES GoodFilesKept EventuallyIndexed RequestsEnd
