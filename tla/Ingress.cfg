\* One request after the other: two questions, one of them cacheable.
CONSTANTS
    k1 = k1
    k2 = k2
    Absent = Absent
    Requests = {1}
    Keys = {k1, k2}
    Cacheable = {k1}
    Metered = TRUE
    UpstreamTimeout = TRUE
    IdleTimeout = TRUE
    MaxRecorded = 2
    MaxFrames = 3
    MaxUsage = 2
SPECIFICATION FairSpec
INVARIANTS
    DoneMeansWhole
    CachedIsWhole
    ClaimClosed
PROPERTIES
    EveryHandlerReturns
    PumpEnds
