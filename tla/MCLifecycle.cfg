CONSTANTS
    Owners = {o1, o2}
    Callers = {c1, c2}
    MaxNews = 2
    MaxSlots = 2
    MaxWrites = 2
    MaxSaves = 2
    MaxCrashes = 1
SPECIFICATION Spec
SYMMETRY Symmetry
CONSTRAINT Sane
INVARIANTS FreedOnlyBesideCalls OneLiveDatabase JsonNotAhead UuidsCoverChunk
CHECK_DEADLOCK FALSE
