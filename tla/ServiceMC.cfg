CONSTANTS
    Subjects = {"viewers", "hls", "webrtc", "rtmp", "codec", "accounts", "catalog"}
    Operators = {"o1"}
    Requests = {q1, q2}
    Addresses = {a1, a2}
    MaxCalls = 2
    MaxStarts = 2
    PlaylistLength = 1
    MaxRuns = 2
    MaxTendedRuns = 1
    MaxNumber = 1
    Peers = {"p1", "p2"}
    MaxLives = 2
    Sessions = {"s1", "s2"}
    StreamKeys = {"publish"}
    GivenKeys = {"publish"}
    QueueSize = 1
    MaxConnects = 3
    MaxRunning = 2
    ChunkSize = 2
    Timestamps = {0, 33554431}
    Payloads <- MCPayloads
    MaxMessages = 2
    Callers = {"c1", "c2"}
    Names = {"n1", "n2"}
    Emails = {"m1", "m2"}
    JwtExpiry = 1
    RefreshExpiry = 2
    MaxUsers = 2
    MaxSignIns = 2
    MaxClock = 2
    Ids = {"i1", "i2"}
    Existing = {"i1"}
    Editors = {"e1", "e2"}
    Titles = {"t1", "t2"}
    MaxLimit = 2
    Word = 8
    MaxWrites = 3
SPECIFICATION MCSpec
SYMMETRY MCSymmetry
CHECK_DEADLOCK FALSE
INVARIANTS
    TypesOK
    CountsAgree
    CountsReal
    TrackedInGroup
    PlaylistNumbered
    ListedOnDisk
    StopClearsPeers
    OnePublisher
    MediaAfterPublish
    Framing
    NamesUnique
    DisabledLockedOut
    PagesTile
PROPERTIES
    MaximumKept
    UpdatesKept
