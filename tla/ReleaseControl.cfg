SPECIFICATION Spec
CONSTANTS
    ClusterStores <- MCClusterStores
    Outputs <- MCOutputs
    Semvers = {"v1"}
    Limits <- MCLimits
    NoLimit = NoLimit
    MaxSessions = 2
    MaxReleases = 2
INVARIANTS
    ScoreIsEarned
    GapsExplainGates
    ReleaseWasRatified
    QuietPagesAreComplete
    
