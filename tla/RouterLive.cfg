\* Two requests on one provider: late reports, lost probes and hang ups of all kinds.
CONSTANTS
    p1 = p1
    p2 = p2
    p3 = p3
    Requests = {1, 2}
    Providers = {p1}
    Routes <- OneRoute
    Strategy <- Priority
    MaxAttempts = 2
    Outcomes = {"upstream", "rate_limited", "invalid_request"}
    RetryAfters = {0}
    RotationPeriod = 1
    BreakerThreshold = 2
    BreakerCooldown = 2
    ProbeStallTimeout = 3
    RateLimitCooldown = 2
    PaymentRequiredCooldown = 3
SPECIFICATION DemandSpec
PROPERTIES
    WaitHonoured
    OutageNotExtended
    EveryRequestEnds
    NeverWedged
