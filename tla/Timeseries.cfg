CONSTANTS
    None = None
    Writers = {w1}
    Endpoints = 1
    RawCap = 2
    RollupCap = 2
    Hour = 3
    Gaps = {1, 2}
    MaxNow = 7
    MaxFaults = 1
SPECIFICATION Spec
INVARIANTS
    SampleHeldOnce
    RecordedIsHeld
    RingIsNewest
    WindowIsCovered
CHECK_DEADLOCK FALSE
