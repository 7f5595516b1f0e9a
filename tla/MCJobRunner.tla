---------------------------- MODULE MCJobRunner ----------------------------
(* Instances of JobRunner for TLC: three or four calls of every kind.      *)
EXTENDS JobRunner, TLC

CallSymmetry == Permutations(Calls)
=============================================================================
