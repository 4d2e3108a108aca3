SPECIFICATION Spec
CONSTANTS
    Handlers = {h1, h2}
    MaxCampaigns = 2
    Channels <- TwoChannels
    OtherScopes <- CrmScope
    ExecutionEnabled = FALSE
    ListLimit = 2
    MaxOps = 5
    MaxDeaths = 1
    MaxOthers = 1
CHECK_DEADLOCK FALSE
INVARIANTS Consistent ApprovedOnDecision
PROPERTY LifecycleRespected
SYMMETRY HandlerSymmetry
