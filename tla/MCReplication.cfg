CONSTANTS
    Writers = {w1}
    Rooms = {0}
    Times = {1}
    Hashes = {0}
    MaxSlots = 2
    MaxReserved = 1
    Scanners = {}
    IndexMod = 4
    MaxDrains = 2
    Stamps <- Requests
    Chunk <- ServerChunk
    PeerSlots = 2
    MaxLoads = 2
    MaxSyncs = 2
    MaxApplies = 2
SPECIFICATION SyncSpec
CONSTRAINT Apart
INVARIANTS ResponseOrdered ResponseComplete SyncCopies OncePerCall
CHECK_DEADLOCK FALSE
