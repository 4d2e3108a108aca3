SPECIFICATION Spec
CONSTANTS
    Handlers = {h1, h2}
    MaxExperiments = 2
    ListLimit = 1
    Kept = 1
    v1 = v1
    v2 = v2
    v3 = v3
    m1 = m1
    m2 = m2
    Variants = {v1, v2, v3}
    Ads = {m1, m2}
    Drafts <- SomeDrafts
    Unmapped = Unmapped
    Scenarios <- PassingScenarios
CHECK_DEADLOCK FALSE
INVARIANTS Consistent EvaluationRestsOnAccepted
PROPERTIES VerifiedCoversPlan DecidedByOwner
SYMMETRY HandlerSymmetry
