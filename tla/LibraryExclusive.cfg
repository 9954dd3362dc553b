SPECIFICATION Spec
CONSTANTS
  a = a
  b = b
  short = short
  long = long
  bad = bad
  w1 = w1
  w2 = w2
  Names = {a, b}
  Contents = {short, long, bad}
  Unreadable = {bad}
  Size <- MCSize
  MaxChunks = 2
  NoValue = NoValue
  Workers = {w1, w2}
  BootThread = BootThread
  SafeName <- PlainNames
  Requests = {"upload", "ingest", "forced", "delete"}
  Exclusive = TRUE
  MaxFailures = 1
  MaxCrashes = 1
  LateErrors = TRUE
SYMMETRY Symmetry
INVARIANTS TypeOK IndexWhole IndexMatchesFile QuarantineOnlyBad
PROPERTIES AcknowledgedIsIndexed DoneMeansIndexed
