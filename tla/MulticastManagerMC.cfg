CONSTANTS
    t1 = t1
    t2 = t2
    s1 = s1
    s2 = s2
    v1 = v1
    NoLease = NoLease
    Tasks <- TwoTasks
    StreamKeys <- TwoKeys
    Viewers <- OneViewer
    OctetSize = 2
    BaseHigh = 0
    BaseLow = 1
    FirstPort = 1
    LastPort = 2
    MaxTries = 2
    GroupTimeout = 1
    MaxOffset = 5
SPECIFICATION Spec
INVARIANTS
    TypeOK
    LeasesConsistent
    OneOwner
    GroupsReady
    SocketsLeased
    StaleCloneFar
PROPERTIES
    ImplementsDirectory
SYMMETRY Symmetry
