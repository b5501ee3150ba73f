\* Six requests at a time of four workloads, two of them under way at once with
\* two connections; transactions fail and sessions expire.
SPECIFICATION FairSpec
CONSTANTS
    r1 = r1
    r2 = r2
    r3 = r3
    r4 = r4
    r5 = r5
    r6 = r6
    Users = {u1, u2}
    Requests = {r1, r2, r3, r4, r5, r6}
    Workloads <- MCWorkloads
    OfferedRoles = {"member", "admin"}
    OfferedModes = {"auto", "private"}
    None = None
    Pool = 2
    MaxConcurrent = 2
    Disturbances = {"database"}
    Expiring = {r1}
INVARIANTS
    AccessTypeOK
    NobodyWithoutATenant
    RegisteredOnce
    OnlyAdminsAdminister
    AccountedForOnce
PROPERTIES
    EndedForGood
    EveryRequestEnds
CHECK_DEADLOCK FALSE
