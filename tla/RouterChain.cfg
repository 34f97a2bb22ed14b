\* One request at a time over two routes and three providers, every error class.
CONSTANTS
    p1 = p1
    p2 = p2
    p3 = p3
    Requests = {1}
    Providers = {p1, p2, p3}
    Routes <- Crossed
    Strategy <- Mixed
    MaxAttempts = 2
    Outcomes = {"upstream", "timeout", "rate_limited", "payment_required", "auth",
                "model_not_found", "internal", "invalid_request", "canceled"}
    RetryAfters = {0}
    RotationPeriod = 6
    BreakerThreshold = 1
    BreakerCooldown = 1
    ProbeStallTimeout = 1
    RateLimitCooldown = 1
    PaymentRequiredCooldown = 1
SPECIFICATION Spec
INVARIANTS
    TypeOK
    PeersReached
