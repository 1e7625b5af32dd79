CONSTANTS
    None = None
    v = v
    w = w
    ok = ok
    low = low
    far = far
    a = a
    b = b
    Vars = {v, w}
    Values = {ok, low, far}
    Foreign = {far}
    Numeric = {low}
    Ok = ok
    Channels = {a, b}
    Answers <- TheAnswers
    Budget = 4
    Jobs <- TheJobs
    Manifests <- TheManifests
SPECIFICATION Spec
INVARIANTS
    TypeOK
    FetchesAreWarranted
    RolesDistinct
    JudgedAsAsked
    CapturesAreOwn
    PassIsObserved
    ExemptionIsProven
CHECK_DEADLOCK FALSE
