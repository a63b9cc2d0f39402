CONSTANTS
    t1 = t1
    s1 = s1
    s2 = s2
    v1 = v1
    NoLease = NoLease
    Tasks <- OneTask
    StreamKeys <- TwoKeys
    Viewers <- OneViewer
    OctetSize = 2
    BaseHigh = 0
    BaseLow = 1
    FirstPort = 1
    LastPort = 2
    MaxTries = 2
    GroupTimeout = 2
    MaxOffset = 2
SPECIFICATION UseFairSpec
INVARIANTS
    ViewersExpire
PROPERTIES
    DroppedOnlyIdle
    IdleReclaimed
