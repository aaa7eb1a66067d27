SPECIFICATION Spec
CONSTANTS
  Clients = {c1, c2}
  Talkative = {c1}
  Callers = {b1}
  Capacity = 1
  MaxMessages = 2
  None = None
INVARIANT NoPanic
CHECK_DEADLOCK FALSE
