SPECIFICATION FairSpec
CONSTANTS
  Systems = {TRUE, FALSE}
  Files = {f1, f2, f3}
  MaxTime = 3
  None = None
INVARIANTS TypeOK OnlyEarlyTouchesAreLost
PROPERTIES NoSpuriousRestart TouchRestarts
CHECK_DEADLOCK FALSE
