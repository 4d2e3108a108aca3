CONSTANTS
    MaxRenders = 6
    MaxFaults = 2
SPECIFICATION FairPipelineSpec
CHECK_DEADLOCK FALSE
INVARIANT PipelineConsistent
PROPERTIES RecordNeverGoesBack PromiseKept RunEnds
