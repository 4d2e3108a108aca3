SPECIFICATION ExecutionSpec
CONSTANTS
    Actions <- WriteAndRead
    Gated <- OneWrite
    Reads <- OneRead
    Executors = {e1, e2}
    Deciders = {d1, d2}
    MaxRequests = 4
    MaxCrashes = 1
CHECK_DEADLOCK FALSE
INVARIANTS ExecutionConsistent OnePostPerApproval
PROPERTY RejectedNeverPosted
SYMMETRY RequestSymmetry
