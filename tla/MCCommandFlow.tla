---------------------------- MODULE MCCommandFlow ----------------------------
(* Instances of CommandFlow for TLC.                                       *)
EXTENDS CommandFlow, TLC

CONSTANTS w1, w2

Symmetry == Permutations(Workers)
==============================================================================
