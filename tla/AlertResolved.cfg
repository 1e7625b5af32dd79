CONSTANTS
    None = None
    Gaps = {1, 2}
    Horizon = 3
    Worst = 2
    Limit = 0
    Channels = 2
    MaxFaults = 1
SPECIFICATION Spec
INVARIANTS
    ClearIsResolved
