CONSTANTS
    m1 = m1
    m2 = m2
    t1 = t1
    t2 = t2
    h1 = h1
    c1 = c1
    c2 = c2
    self = self
    None = None
    Monitors = {m1, m2}
    Hosts = {h1, self}
    HostOf <- HostsOfTwo
    SelfHost = self
    Ticks = {t1}
    Clients = {c1, c2}
    Intervals = {1}
    Ttl = 2
    MinGap = 1
    MaxPerTick = 1
    MaxMonitors = 2
    HistoryCap = 1
    TickBound = 1
    MaxNow = 2
    MaxGen = 2
    MaxStarts = 2
    MaxFaults = 1
SPECIFICATION Spec
INVARIANTS
    IndexedHasRecord
PROPERTIES
    CapNeverStarves
SYMMETRY ClientSymmetry
