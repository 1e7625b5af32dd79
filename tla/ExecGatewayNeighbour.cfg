CONSTANTS
    r1 = r1
    r2 = r2
    r3 = r3
    Runs = {r1, r2, r3}
    Fetch <- OneOfThree
    Bodied = {}
    Awaiting = {r1, r2, r3}
    MaxInFlight = 1
    MaxRedirects = 0
    MaxFaults = 0
SPECIFICATION Spec
INVARIANTS
    NeverPassedByNeighbour
SYMMETRY Symmetry
CHECK_DEADLOCK FALSE
