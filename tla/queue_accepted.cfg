CONSTANTS
    j1 = j1
    j2 = j2
    k1 = k1
    Jobs = {j1, j2}
    Keys = {k1}
    KeyOf <- BothShareAKey
    MaxStops = 3
SPECIFICATION FairSpec
CHECK_DEADLOCK FALSE
INVARIANTS Consistent AcceptedNeverLost SameKeySameJob
PROPERTIES LifecycleKept AcceptedJobsFinish
