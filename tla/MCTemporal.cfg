CONSTANTS
    Writers = {w1}
    Rooms = {0}
    Times = {0}
    Hashes = {1}
    MaxSlots = 2
    MaxReserved = 1
    Names <- Seconds
    Files <- SomeFiles
    PageSizes = {1, 2, 3, 4}
    MaxPuts = 2
    MaxMaps = 2
    Second = 2
    MaxInt = 3
    Targets <- SomeTargets
    NewMax = 2
    RestoredMax = 3
    MaxTime = 2
    MaxFills = 1
    MaxMade = 3
SPECIFICATION TemporalSpec
CONSTRAINT Apart
INVARIANTS EntriesOfOneFile MappingsPaired QueriesPartition IndexIsNewest NearestIsNearest
PROPERTY RewindMatches
CHECK_DEADLOCK FALSE
