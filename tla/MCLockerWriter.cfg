CONSTANTS
    Writers = {w1, w2}
    Drainers = {d1}
    MaxSlots = 2
    CursorMod = 5
    MaxDrains = 1
SPECIFICATION FairSpec
INVARIANT NeverOverCounts
PROPERTY DrainTerminates
