-------------------------------- MODULE MCHub --------------------------------
(* Two browsers, one of which sends frames, for TLC.                        *)
EXTENDS Hub, TLC
=============================================================================
