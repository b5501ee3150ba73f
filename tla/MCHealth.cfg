CONSTANTS
    hosted = hosted
    pod = pod
    none = none
    Deployments <- MCDeployments
    InitialHealth <- MCInitialHealth
    FailureThreshold = 2
    FailureCap = 3
    NoDeployment = none
SPECIFICATION HealthSpec
INVARIANTS HealthTypeOK FailuresOutweighProbes
PROPERTIES NoHastyEviction
