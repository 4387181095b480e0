CONSTANTS
    Writers = {w1, w2}
    Rooms = {0, 1}
    Times = {0}
    Hashes = {0}
    MaxSlots = 3
    MaxReserved = 0
    Scanners = {t1}
    IndexMod = 5
    MaxDrains = 1
SPECIFICATION FairSpec
INVARIANT FindsLast
PROPERTY ScanFindsRoom
