\* Three requests of two organizations on two instances, with and without Redis
\* and a limit; a minute of three units and a clock of two and one unit.
SPECIFICATION Spec
CONSTANTS
    r1 = r1
    r2 = r2
    r3 = r3
    o1 = o1
    o2 = o2
    i1 = i1
    i2 = i2
    Orgs = {o1, o2}
    Instances = {i1, i2}
    Requests = {r1, r2, r3}
    Limits = {0, 1, 2}
    Window = 3
    Expiry = 6
    MaxDelay = 3
    MaxClock = 6
    Disturbances = {"redis"}
    None = None
SYMMETRY MCSymmetry
INVARIANTS
    WithinTheLimit
    LimitedForCause
CHECK_DEADLOCK FALSE
