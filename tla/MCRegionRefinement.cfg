CONSTANTS
    Writers = {w1, w2, w3}
    Drainers = {d1, d2}
    MaxSlots = 2
    CursorMod = 6
    MaxDrains = 2
SPECIFICATION RefinementSpec
SYMMETRY Symmetry
CONSTRAINT NobodyLate
INVARIANTS ExclusiveSlots DrainIsQuiet CursorExact GapsAreInFlight
PROPERTIES RejectOnlyWhenFull IsRegionLog
