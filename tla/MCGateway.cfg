CONSTANTS
    cloud = cloud
    hosted = hosted
    vpc = vpc
    laptop = laptop
    none = none
    r1 = r1
    r2 = r2
    Deployments <- MCBoth
    InitialHealth <- MCInitialHealth
    FailureThreshold = 2
    FailureCap = 2
    NoDeployment = none
    Catalog <- MCCatalog
    TieBreak <- MCTieBreak
    Snapshots <- MCOneSnapshot
    Requests = {r1, r2}
    Asks <- MCAsks
    HealthProbeEnabled = TRUE
    MaxAttempts = 2
    MaxCalls = 1
SPECIFICATION Spec
SYMMETRY MCSymmetry
INVARIANTS GatewayTypeOK OneModelPerAnswer
PROPERTIES KeepsPromise ProbedBeforeServing
