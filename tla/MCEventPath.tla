----------------------------- MODULE MCEventPath -----------------------------
(* Two lookups, the output of an app, a purge and both status pages.        *)
EXTENDS EventPath, TLC
==============================================================================
