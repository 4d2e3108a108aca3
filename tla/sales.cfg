SPECIFICATION Spec
CONSTANTS
    r1 = r1
    r2 = r2
    Subjects = {"lead:a", "lead:b"}
    Reviewers = {r1, r2}
    TargetOf <- Handoffs
    AgeLimits <- Limits
    Retention = 2
    EventLimit = 8
    Scenarios <- PassingScenarios
CHECK_DEADLOCK FALSE
INVARIANTS Consistent EscalationIsTrue NewestAreRetained
PROPERTY OnlyBranchesTakeBack
SYMMETRY ReviewerSymmetry
