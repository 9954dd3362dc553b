SPECIFICATION VSpec
CONSTANTS
  orders = orders
  pg_shadow = pg_shadow
  information_schema = information_schema
  temp = temp
  None = None
  Computed = Computed
  Allowed = {orders}
  System = {pg_shadow}
  Catalog = {information_schema}
  Others = {temp}
  CteNames = {orders, information_schema, temp}
  Sources <- MCSources
  MaxCtes = 2
  UnionCtes = 1
  MaxBranches = 2
  MaxRows = 1
INVARIANTS AcceptedReadsAllowed RetriedIsRepairable
CHECK_DEADLOCK FALSE
