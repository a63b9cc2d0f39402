CONSTANTS
    j1 = j1
    j2 = j2
    j3 = j3
    Jobs <- TwoJobs
    MaxConcurrent = 1
SPECIFICATION Spec
INVARIANTS
    StopKillsProcess
CHECK_DEADLOCK FALSE
