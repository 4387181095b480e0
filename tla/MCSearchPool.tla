---------------------------- MODULE MCSearchPool ----------------------------
(* SearchPool on small instances: words of two bits, so that a reservation  *)
(* meets its neighbour's bit, and two words, so that it moves between them. *)
EXTENDS SearchPool, TLC
Symmetry == Permutations(Releasers) \cup Permutations(Reservers)
=============================================================================
