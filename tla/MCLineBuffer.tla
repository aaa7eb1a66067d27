---------------------------- MODULE MCLineBuffer ----------------------------
(* A zero LineBuffer with a small DefaultSize, for TLC.                     *)
EXTENDS LineBuffer, TLC

Symmetry == Permutations(Lines) \cup Permutations(Readers)
=============================================================================
