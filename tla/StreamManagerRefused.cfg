CONSTANTS
    s1 = s1
    c1 = c1
    c2 = c2
    Streams <- OneStream
    Callers <- OneCaller
    Ports <- TwoPorts
    MaxRuns = 2
    MaxCrashes = 0
SPECIFICATION Spec
INVARIANTS
    NotLiveIsInactive
