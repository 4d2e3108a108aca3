SPECIFICATION Spec
CONSTANTS
    r1 = r1
    r2 = r2
    n8n = n8n
    other = other
    Replicas = {r1, r2}
    Producers = {n8n, other}
    Required = n8n
    BeatIds = {1, 2, 3, 4}
    Heartbeats <- Sent
    Retention = 1
    Threads = {t1}
    Scenarios <- PassingScenarios
CHECK_DEADLOCK FALSE
INVARIANT Consistent
PROPERTIES AlertLifecycle NothingGoesBack StaleIsAlerted
