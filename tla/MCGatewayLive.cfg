CONSTANTS
    cloud = cloud
    hosted = hosted
    vpc = vpc
    laptop = laptop
    none = none
    r1 = r1
    r2 = r2
    Deployments <- MCBoth
    InitialHealth <- MCInitialHealth
    FailureThreshold = 2
    FailureCap = 2
    NoDeployment = none
    Catalog <- MCCatalog
    TieBreak <- MCTieBreak
    Snapshots <- MCSnapshots
    Requests = {r1}
    Asks <- MCFewAsks
    HealthProbeEnabled = TRUE
    MaxAttempts = 2
    MaxCalls = 2
SPECIFICATION FairSpec
INVARIANT UsageIsExplained
PROPERTIES EveryCallEnds ProbesBringBack DecisionsStay TracksHealth
