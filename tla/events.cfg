SPECIFICATION FairSpec
CONSTANTS
  Requests = {r1, r2}
  Outputs = {o1}
  Signals = {p1}
  Statuses = {s1}
  Viewers = {v1}
  CallsStartRPC = TRUE
  MaxEvents = 2
  None = None
INVARIANTS TypeOK OnlySignalsPanic NothingLost LookupOrder
PROPERTY LookupsReturn
CHECK_DEADLOCK FALSE
