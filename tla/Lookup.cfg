\* Three requests, two at a time, over both tiers.
CONSTANTS
    InputPerMTok = 2
    OutputPerMTok = 5
    a1 = a1
    a2 = a2
    Asks = {a1, a2}
    Callers <- MCCallers
    Cosine <- MCCosine
    MaxEntries = 1
    Threshold = 0
    MaxPerTenant = 2
    TTL = 1
    MaxTemperature = 0
    Width = 3
    Replies = {0, 4}
    Outputs = {1}
    PromptCounts = {12}
    MaxAsks = 3
    MaxClock = 1
    MaxFaults = 1
SYMMETRY Symmetry
SPECIFICATION Spec
INVARIANTS
    EventsCountedOnce
    ExactAnswersTheQuestion
    WithinReservation
PROPERTIES
    SemanticHitEarned
\* The requests are bounded.
CHECK_DEADLOCK FALSE
