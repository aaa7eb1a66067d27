SPECIFICATION Spec
CONSTANTS
  Hosts <- SharedHosts
  Symlinks <- SharedLinks
  Aliased <- SharedAliased
  Canonical <- SharedCanonical
  Directory <- SharedDirectory
  ProxyHosts <- SharedProxies
  Apps = {a1, a2}
  Reqs = {r1}
  Causes = {"exit"}
  None = None
INVARIANT SocketStays
