CONSTANTS
    Callers = {c1, c2}
    Forcers = {f1}
    MaxSlots = 2
    NeedAt = 2
    TriggerAt = 1
SPECIFICATION FairSpec
INVARIANTS StopDrainsFirst DumpsAreDue
PROPERTIES StopReturns DumperDrains TriggerFires
