SPECIFICATION Spec
CONSTANTS
  Hosts <- DirHosts
  Symlinks <- DirLinks
  Aliased <- DirAliased
  Canonical <- DirCanonical
  Directory <- DirDirectory
  ProxyHosts <- DirProxies
  Apps = {a1, a2}
  Reqs = {r1}
  Causes = {"touch","idle"}
  None = None
INVARIANT NoOrphan
