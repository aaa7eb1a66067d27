SPECIFICATION FairSpec
CONSTANTS
  Clients = {c1, c2}
  Talkative = {c1}
  Callers = {b1}
  Capacity = 1
  MaxMessages = 2
  None = None
INVARIANTS TypeOK SilentClientsAreSafe ClosedIffForgotten GapFree
PROPERTIES BroadcastsReturn GoneAreForgotten
CHECK_DEADLOCK FALSE
