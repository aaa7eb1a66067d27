------------------------------ MODULE MCAppPool ------------------------------
(* Instances of AppPool for TLC.                                            *)
EXTENDS AppPool, TLC

(* One application under two symlinks, the second under another name.       *)
LinkHosts     == {"blog", "weblog"}
LinkLinks     == LinkHosts
LinkCanonical == [h \in LinkHosts |-> "blog-1f2e"]
LinkAliased   == {"weblog"}
LinkProxies   == {}
LinkDirectory == [k \in {"blog-1f2e"} |-> "dir"]

(* One directory.                                                           *)
DirHosts     == {"blog"}
DirLinks     == {}
DirCanonical == [h \in DirHosts |-> h]
DirAliased   == {}
DirProxies   == {}
DirDirectory == [k \in DirHosts |-> "dir"]

(* A directory and a symlink to it: two keys, one socket.                   *)
SharedHosts     == {"blog", "copy"}
SharedLinks     == {"copy"}
SharedCanonical == [h \in SharedHosts |->
                       IF h = "blog" THEN h ELSE "blog-1f2e"]
SharedAliased   == {"copy"}
SharedProxies   == {}
SharedDirectory == [k \in {"blog", "blog-1f2e"} |-> "dir"]

(* A directory, and a proxy to a port.                                      *)
MixedHosts     == {"blog", "port"}
MixedLinks     == {}
MixedCanonical == [h \in MixedHosts |-> h]
MixedAliased   == {}
MixedProxies   == {"port"}
MixedDirectory == [k \in {"blog"} |-> "dir"]

Symmetry == Permutations(Apps) \cup Permutations(Reqs)
=============================================================================
