CONSTANTS
    Writers = {w1, w2}
    Rooms = {0}
    Times = {0}
    Hashes = {0}
    MaxSlots = 2
    MaxReserved = 1
    Names = {n1}
    Exporters = {x1}
    Loaders = {l1, l2}
    NeedAt = 2
    MaxFills = 2
SPECIFICATION Spec
SYMMETRY Symmetry
CONSTRAINT Apart
INVARIANTS HeaderBounds RecordsInOrder WholeExport IndexCoversChunk LoadIsWhole
