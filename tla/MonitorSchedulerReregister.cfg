CONSTANTS
    m1 = m1
    m2 = m2
    t1 = t1
    t2 = t2
    h1 = h1
    c1 = c1
    c2 = c2
    self = self
    None = None
    Monitors = {m2}
    Hosts = {h1, self}
    HostOf <- HostsOfOne
    SelfHost = self
    Ticks = {t1, t2}
    Clients = {c1}
    Intervals = {2}
    Ttl = 2
    MinGap = 1
    MaxPerTick = 1
    MaxMonitors = 1
    HistoryCap = 2
    TickBound = 1
    MaxNow = 4
    MaxGen = 2
    MaxStarts = 1
    MaxFaults = 0
SPECIFICATION Spec
PROPERTIES
    RegistrationNeverReverts
SYMMETRY Symmetry
