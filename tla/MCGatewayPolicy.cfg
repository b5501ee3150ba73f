CONSTANTS
    cloud = cloud
    hosted = hosted
    vpc = vpc
    laptop = laptop
    none = none
    r1 = r1
    r2 = r2
    Deployments <- MCAll
    InitialHealth <- MCAllReady
    FailureThreshold = 2
    FailureCap = 2
    NoDeployment = none
    Catalog <- MCCatalog
    TieBreak <- MCTieBreak
    Snapshots <- MCSnapshots
    Requests = {r1}
    Asks <- MCPolicyAsks
    HealthProbeEnabled = FALSE
    MaxAttempts = 3
    MaxCalls = 1
SPECIFICATION Spec
INVARIANT PrivateStaysPrivate
CHECK_DEADLOCK FALSE
