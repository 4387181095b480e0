------------------------ MODULE MCRegionRefinement ------------------------
(* LockerWriter and its refinement on a small instance.  CursorMod stands    *)
(* for 2^32: any value above MaxSlots + |Writers| will do.                   *)
EXTENDS RegionRefinement, TLC

\* Writers are interchangeable, and so are drainers.
Symmetry == Permutations(Writers) \cup Permutations(Drainers)

\* Keeps to the behaviours in which no writer has entered a drained region.
NobodyLate == ~late
=============================================================================
