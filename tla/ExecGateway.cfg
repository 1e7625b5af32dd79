CONSTANTS
    r1 = r1
    r2 = r2
    r3 = r3
    Runs = {r1, r2}
    Fetch <- ThreeOfTwo
    Bodied <- SecondOfTwo
    Awaiting = {}
    MaxInFlight = 1
    MaxRedirects = 1
    MaxFaults = 1
SPECIFICATION FairSpec
INVARIANTS
    TypeOK
    SlotsCounted
    RefusalsAreFailed
    RefusedRunFails
PROPERTIES
    RunsEnd
    QueueMoves
CHECK_DEADLOCK FALSE
