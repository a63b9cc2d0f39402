CONSTANTS
    Subjects = {"rtmp"}
    Operators = {"o1"}
    Requests = {"q1", "q2"}
    Addresses = {"a1", "a2"}
    MaxCalls = 2
    MaxStarts = 1
    PlaylistLength = 1
    MaxRuns = 1
    MaxTendedRuns = 1
    MaxNumber = 1
    Peers = {"p1", "p2"}
    MaxLives = 1
    Sessions = {"s1", "s2"}
    StreamKeys = {"key1"}
    GivenKeys = {"key1"}
    QueueSize = 1
    MaxConnects = 1
    MaxRunning = 2
    ChunkSize = 2
    Timestamps = {0, 33554431}
    Payloads <- MCPayloads
    MaxMessages = 2
    Callers = {"c1", "c2"}
    Names = {"n1", "n2"}
    Emails = {"m1", "m2"}
    JwtExpiry = 1
    RefreshExpiry = 2
    MaxUsers = 2
    MaxSignIns = 2
    MaxClock = 2
    Ids = {"i1", "i2"}
    Existing = {"i1"}
    Editors = {"e1", "e2"}
    Titles = {"t1", "t2"}
    MaxLimit = 2
    Word = 8
    MaxWrites = 3
SPECIFICATION MCSpec
CHECK_DEADLOCK FALSE
INVARIANTS
    PublishAccepted
