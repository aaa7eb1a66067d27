SPECIFICATION FairSpec
CONSTANTS
  Daemon = daemon
  r1 = r1
  i1 = i1
  u1 = u1
  t1 = t1
  t2 = t2
  Tlds <- MCTlds
  Procs <- MCProcs
  Runs = {r1}
  Installs = {i1}
  Uninstalls = {u1}
  CAs = {c1, c2, c3, c4, c5, c6}
  None = None
  Torn = Torn
  MaxFaults = 2
INVARIANT TypeOK
PROPERTIES AssumedTrustHolds CaKept UninstallForgets DaemonComesUp
CHECK_DEADLOCK FALSE
