----------------------------- MODULE MCRollover -----------------------------
(* Instances of Rollover for TLC.                                          *)
EXTENDS Rollover, TLC

Symmetry == Permutations(Servers) \cup Permutations(Parents)
=============================================================================
