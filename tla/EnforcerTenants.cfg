\* A rated and a capped tenant of one store, and restarts that drop or add one.
CONSTANTS
    t1 = t1
    t2 = t2
    Absent = Absent
    Tenants = {t1, t2}
    Limits <- RatedAndCapped
    Estimates <- OneOrTooMuch
    Usages <- OneUnit
    WindowLength <- MCWindows
    RateWindow = 2
    HasStore = TRUE
    MaxClock = 2
    MaxReservations = 3
    MaxRestarts = 1
    MaxSaveFailures = 0
SPECIFICATION Spec
INVARIANTS
    RequestRateHolds
PROPERTIES
    ImplementsAccount
\* The bounds end every behaviour; the service itself never stops.
CHECK_DEADLOCK FALSE
