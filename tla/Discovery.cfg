CONSTANTS
    None = None
    Junk = Junk
    Self = Self
    PrivateOrigins = {Private}
    CleartextOrigins = {Clear}
    NpmHost = NpmHost
    MaxRows = 3
    ExemptPaths = {98}
    Doh = Doh
    Registry = Registry
    Astray = {99}
    Private = Private
    Clear = Clear
    Auth = Auth
    Host = Host
    Owner = Owner
    Elsewhere = Elsewhere
    Sites <- TheSites
    Seeds <- TheSeeds
    Budget = 32
    MaxRedirects = 3
    MaxKeyless = 3
    MaxKeylessTotal = 12
    MaxTyped = 2
    MaxContract = 8
SPECIFICATION Spec
INVARIANTS
    TypeOK
    ProbesStayWarranted
    FixedProbesFit
    ReportIsExact
    NoFalsePass
    PassedSuiteRan
PROPERTIES
    VerificationEnds
CHECK_DEADLOCK FALSE
