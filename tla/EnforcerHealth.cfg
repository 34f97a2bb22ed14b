\* Two settlements, the newer one not saved.
CONSTANTS
    t1 = t1
    t2 = t2
    Absent = Absent
    Tenants = {t1}
    Limits <- OneTenant
    Estimates <- OneUnit
    Usages <- OneUnit
    WindowLength <- MCWindows
    RateWindow = 1
    HasStore = TRUE
    MaxClock = 0
    MaxReservations = 2
    MaxRestarts = 0
    MaxSaveFailures = 1
SPECIFICATION Spec
INVARIANTS
    HealthyMeansDurable
\* The bounds end every behaviour; the service itself never stops.
CHECK_DEADLOCK FALSE
