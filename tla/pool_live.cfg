SPECIFICATION FairSpec
CONSTANTS
  Hosts <- MixedHosts
  Symlinks <- MixedLinks
  Aliased <- MixedAliased
  Canonical <- MixedCanonical
  Directory <- MixedDirectory
  ProxyHosts <- MixedProxies
  Apps = {a1}
  Reqs = {r1}
  Causes = {"exit", "close", "touch", "stat", "idle", "purge"}
  None = None
PROPERTIES KilledAppsDie RequestsGoOn PurgeReturns PurgeStops
