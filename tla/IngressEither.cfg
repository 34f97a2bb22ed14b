\* A stream, and then the same question without one.
CONSTANTS
    k1 = k1
    k2 = k2
    Absent = Absent
    Requests = {1}
    Keys = {k1}
    Cacheable = {k1}
    Metered = FALSE
    UpstreamTimeout = TRUE
    IdleTimeout = TRUE
    MaxRecorded = 1
    MaxFrames = 1
    MaxUsage = 1
SPECIFICATION Spec
INVARIANTS
    EitherIsServed
