SPECIFICATION Spec
CONSTANTS
  Hosts <- LinkHosts
  Symlinks <- LinkLinks
  Aliased <- LinkAliased
  Canonical <- LinkCanonical
  Directory <- LinkDirectory
  ProxyHosts <- LinkProxies
  Apps = {a1, a2}
  Reqs = {r1}
  Causes = {"exit","close","idle"}
  None = None
SYMMETRY Symmetry
INVARIANTS TypeOK NoGoAfterDead OnlyCutAppsAreLost AliasesAgree ClosedStaysOut WaitersAreWoken
PROPERTY EntryFate
