SPECIFICATION Spec
CONSTANTS
  Requests = {r1}
  Outputs = {o1}
  Signals = {p1}
  Statuses = {s1}
  Viewers = {v1}
  CallsStartRPC = FALSE
  MaxEvents = 2
  None = None
INVARIANT LookupsSurvive
CHECK_DEADLOCK FALSE
