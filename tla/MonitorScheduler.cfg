CONSTANTS
    m2 = m2
    t1 = t1
    t2 = t2
    t3 = t3
    c1 = c1
    self = self
    None = None
    Monitors = {m2}
    Hosts = {self}
    HostOf <- HostsOfOne
    SelfHost = self
    Ticks = {t1, t2, t3}
    Clients = {c1}
    Intervals = {2}
    Ttl = 3
    MinGap = 1
    MaxPerTick = 1
    MaxMonitors = 1
    HistoryCap = 2
    TickBound = 1
    MaxNow = 2
    MaxGen = 2
    MaxStarts = 3
    MaxFaults = 1
SPECIFICATION HistorySpec
INVARIANTS
    TypeOK
    SlotClaimedOnce
    SlotsUnclaimed
PROPERTIES
    HistoryLosesNoRun
SYMMETRY Symmetry
