SPECIFICATION Spec
CONSTANTS
    k1 = k1
    k2 = k2
    b1 = b1
    b2 = b2
    n1 = n1
    n2 = n2
    n3 = n3
    Keys = {k1, k2}
    Bodies = {b1, b2}
    Nonces = {n1, n2, n3}
    Skew = 2
    Ttl = 4
    Ahead = 2
    NoProject = NoProject
    Replicas = {r1, r2}
    Foreign <- Other
    Scenarios <- PassingScenarios
CHECK_DEADLOCK FALSE
INVARIANTS Consistent NoRequestTwice RetriesAgree AcknowledgedIsListed
SYMMETRY AllSymmetry
