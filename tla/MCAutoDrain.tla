---------------------------- MODULE MCAutoDrain ----------------------------
(* AutoDrain on small instances.                                            *)
EXTENDS AutoDrain, TLC

Symmetry == Permutations(Callers) \cup Permutations(Forcers)
=============================================================================
