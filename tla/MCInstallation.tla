---------------------------- MODULE MCInstallation ----------------------------
(* An instance of Installation for TLC.                                     *)
EXTENDS Installation
CONSTANTS r1, i1, u1, t1, t2
MCProcs == {Daemon, r1, i1, u1}
MCTlds == [p \in MCProcs |-> IF p = r1 THEN {t1, t2} ELSE {t1}]
=============================================================================
