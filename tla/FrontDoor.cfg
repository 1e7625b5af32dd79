CONSTANTS
    a = a
    b = b
    h = h
    self = self
    spec = spec
    suite = suite
    None = None
    Requests = {r1, r2}
    Origins = {a, b, self}
    Hosts = {h, self}
    HostOf <- OriginsOfTwo
    SelfHost = self
    Documents = {spec, suite}
    Suites = {suite}
    Seeds = {7}
    Digests = {d1, d2}
    Asked <- Kinds
    Ttl = 2
    MinGap = 3
    MaxNow = 3
    MaxAsks = 3
    MaxFaults = 1
SPECIFICATION Spec
INVARIANTS
    PinGuardsEveryAnswer
    VerdictIsWhatWasAsked
    AgeIsHonest
    FreshHeadHasReport
    RetryAfterIsKept
SYMMETRY Symmetry
CHECK_DEADLOCK FALSE
