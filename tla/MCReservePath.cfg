CONSTANTS
    Writers = {w1, w2}
    Drainers = {d1}
    Readers = {k1}
    Reservers = {v1}
    MaxSlots = 2
    CursorMod = 8
    MaxDrains = 1
    MaxReserves = 1
SPECIFICATION ReserveSpec
SYMMETRY Symmetry
CONSTRAINT NobodyLate
INVARIANTS NeverTrapped ReadsWhole ReservedExclusive CursorCounts
