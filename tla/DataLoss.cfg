CONSTANTS
    Writers = {w1, w2}
    Drainers = {d1}
    MaxSlots = 2
    CursorMod = 8
    MaxDrains = 2
SPECIFICATION Spec
SYMMETRY Symmetry
INVARIANT NoDataLoss
