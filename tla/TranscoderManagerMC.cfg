CONSTANTS
    j1 = j1
    j2 = j2
    j3 = j3
    Jobs <- ThreeJobs
    MaxConcurrent = 1
SPECIFICATION FairSpec
INVARIANTS
    TypeOK
    PermitsConserved
    NoGhostJobs
    ExitReported
PROPERTIES
    EveryJobEnds
CHECK_DEADLOCK FALSE
