\* A 429 that asks for longer than the default.
CONSTANTS
    p1 = p1
    p2 = p2
    p3 = p3
    Requests = {1}
    Providers = {p1}
    Routes <- OneRoute
    Strategy <- Priority
    MaxAttempts = 2
    Outcomes = {"rate_limited"}
    RetryAfters = {2}
    RotationPeriod = 1
    BreakerThreshold = 2
    BreakerCooldown = 1
    ProbeStallTimeout = 1
    RateLimitCooldown = 1
    PaymentRequiredCooldown = 1
SPECIFICATION Spec
PROPERTIES
    WaitHonoured
