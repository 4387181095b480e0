--------------------------- MODULE MCLockerWriter ---------------------------
(* LockerWriter on small instances.  CursorMod stands for 2^32: any value    *)
(* above MaxSlots + |Writers| makes an underflowed cursor read as "full".    *)
EXTENDS LockerWriter, TLC

\* Writers are interchangeable, and so are drainers.
Symmetry == Permutations(Writers) \cup Permutations(Drainers)
=============================================================================
