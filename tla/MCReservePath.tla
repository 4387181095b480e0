--------------------------- MODULE MCReservePath ---------------------------
(* ReservePath, and with it ReadPath, on small instances.                    *)
EXTENDS ReservePath, TLC

Symmetry == Permutations(Writers) \cup Permutations(Reservers)

\* Every property of the run excepts late writers.
NobodyLate == ~late
=============================================================================
