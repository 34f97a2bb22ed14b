------------------------------- MODULE Health -------------------------------
(***************************************************************************)
(* internal/router/health.go: what the tracker knows of one provider, and  *)
(* how a question or a report changes it.  Every operator here is one      *)
(* critical section of tracker.mu.                                         *)
(*                                                                         *)
(* The tracker keeps instants and compares their distance from now with    *)
(* fixed lengths.  Here each is kept as that distance, up to the length it *)
(* is compared with, so a behaviour may run for ever in finitely many      *)
(* states.  A provider nobody has reported on is NewProvider.              *)
(***************************************************************************)
EXTENDS Integers

CONSTANTS
    BreakerThreshold,         \* failures in a row that open the breaker
    BreakerCooldown,          \* ticks an open breaker sheds for
    ProbeStallTimeout,        \* ticks after which a claimed probe is given up
    RateLimitCooldown,        \* ticks a 429 without Retry-After parks for
    PaymentRequiredCooldown   \* ticks a 402 parks for

ASSUME HealthAssumption ==
    /\ BreakerThreshold \in Nat \ {0}
    /\ BreakerCooldown \in Nat \ {0}
    /\ ProbeStallTimeout \in Nat \ {0}
    /\ RateLimitCooldown \in Nat \ {0}
    /\ PaymentRequiredCooldown \in Nat \ {0}

ErrorClass == {"invalid_request", "auth", "payment_required", "rate_limited",
               "model_not_found", "timeout", "upstream", "canceled", "internal"}

providerHealth ==
    [breaker: {"closed", "open", "half_open"},
     consecutiveFailures: 0..BreakerThreshold,   \* counted up to the threshold
     sinceOpened: 0..BreakerCooldown,            \* now - openedAt
     probeInFlight: BOOLEAN,
     sinceProbe: 0..ProbeStallTimeout,           \* now - probeStarted
     pause: Nat]                                 \* cooldownUntil - now

NewProvider ==
    [breaker |-> "closed", consecutiveFailures |-> 0, sinceOpened |-> 0,
     probeInFlight |-> FALSE, sinceProbe |-> 0, pause |-> 0]

AtMost(a, b) == IF a < b THEN a ELSE b
AtLeast(a, b) == IF a < b THEN b ELSE a

-----------------------------------------------------------------------------
(* Available *)

\* Mutant: a claimed probe is never given up.
admitProbe_Forever(h) == ~h.probeInFlight

\* The half open slot is free, or its probe never reported back.
admitProbe(h) == ~h.probeInFlight \/ h.sinceProbe >= ProbeStallTimeout

\* The breaker asks for a probe: half open, or open for long enough.
Probing(h) ==
    /\ h.pause = 0
    /\ \/ h.breaker = "half_open"
       \/ h.breaker = "open" /\ h.sinceOpened >= BreakerCooldown

Available(h) ==
    \/ h.pause = 0 /\ h.breaker = "closed"
    \/ Probing(h) /\ admitProbe(h)

\* Asking is not a query: it moves an open breaker to half open, and claims the
\* slot for the caller it admits.
Asked(h) ==
    IF ~Probing(h) THEN h
    ELSE [h EXCEPT !.breaker       = "half_open",
                   !.probeInFlight = TRUE,
                   !.sinceProbe    = IF admitProbe(h) THEN 0 ELSE h.sinceProbe]

-----------------------------------------------------------------------------
(* Reports *)

countsAgainstHealth(class) ==
    class \notin {"invalid_request", "canceled", "model_not_found"}

\* How long a failure parks a provider, given the Retry-After passed on.
cooldownFor(class, retryAfter) ==
    CASE class = "rate_limited"     -> IF retryAfter > 0 THEN retryAfter ELSE RateLimitCooldown
      [] class = "payment_required" -> AtLeast(retryAfter, PaymentRequiredCooldown)
      [] OTHER                      -> 0

\* Mutant: success also ends the pause the provider asked for.
RecordSuccess_EndsPause(h) ==
    [h EXCEPT !.breaker = "closed", !.consecutiveFailures = 0, !.probeInFlight = FALSE,
              !.pause = 0]

\* The streak ends and the breaker closes, from whatever state; a pause stays.
RecordSuccess(h) ==
    [h EXCEPT !.breaker = "closed", !.consecutiveFailures = 0, !.probeInFlight = FALSE]

Parked(h, class, retryAfter) ==
    [h EXCEPT !.pause = AtLeast(h.pause, cooldownFor(class, retryAfter))]

\* Mutant: a straggler's failure starts the cooldown over.
Counted_Restarts(h) ==
    IF h.breaker = "closed" /\ h.consecutiveFailures + 1 < BreakerThreshold
    THEN [h EXCEPT !.consecutiveFailures = h.consecutiveFailures + 1]
    ELSE [h EXCEPT !.consecutiveFailures = BreakerThreshold,
                   !.breaker = "open", !.sinceOpened = 0, !.probeInFlight = FALSE]

\* One more failure in a row.  A half open breaker reopens, an open one is left
\* alone, a closed one opens at the threshold.
Counted(h) ==
    LET failures == AtMost(h.consecutiveFailures + 1, BreakerThreshold)
        failed   == [h EXCEPT !.consecutiveFailures = failures]
    IN  CASE h.breaker = "half_open" ->
                [failed EXCEPT !.breaker = "open", !.sinceOpened = 0,
                               !.probeInFlight = FALSE]
          [] h.breaker = "closed" /\ failures >= BreakerThreshold ->
                [failed EXCEPT !.breaker = "open", !.sinceOpened = 0]
          [] OTHER -> failed

RecordFailure(h, class, retryAfter) ==
    LET parked == Parked(h, class, retryAfter)
    IN  IF countsAgainstHealth(class) THEN Counted(parked) ELSE parked

\* A tick later.
Aged(h) ==
    [h EXCEPT !.sinceOpened = AtMost(h.sinceOpened + 1, BreakerCooldown),
              !.sinceProbe  = AtMost(h.sinceProbe + 1, ProbeStallTimeout),
              !.pause       = AtLeast(h.pause - 1, 0)]
=============================================================================
