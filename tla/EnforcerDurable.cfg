\* One tenant with a hard cap, a crash and a failed save.
CONSTANTS
    t1 = t1
    t2 = t2
    Absent = Absent
    Tenants = {t1}
    Limits <- OneTenant
    Estimates <- OneUnit
    Usages <- ExactOrMore
    WindowLength <- MCWindows
    RateWindow = 1
    HasStore = TRUE
    MaxClock = 2
    MaxReservations = 3
    MaxRestarts = 1
    MaxSaveFailures = 1
SPECIFICATION FairSpec
INVARIANTS
    TypeOK
    CommittedIsOpenClaims
    OvershootBound
    SpentIsSettledCharges
    DurableOnceQuiet
PROPERTIES
    StoreNeverMovesBackwards
    ImplementsAccount
    EverySettlementLands
\* The bounds end every behaviour; the service itself never stops.
CHECK_DEADLOCK FALSE
