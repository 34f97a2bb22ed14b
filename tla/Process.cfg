\* Every edited file is started; two gateways serve two requests and stop or crash.
CONSTANTS
    Env <- MCEnv
    Weak = {"", "short"}
    LabelSafe = {"a", "b"}
    Loopback = {"127.0.0.1:8080", "localhost:80"}
    ValidURL = {"http"}
    MaxTimeoutMS = 3
    MaxRouterAttempts = 2
    MaxBreakerCooldownSeconds = 2
    DefaultMaxInflight = 2
    Reqs = {1, 2}
    Files <- MCFiles
    Busy <- MCBusy
    Presented = {"long-key-of-a", "wrong"}
    Classes = {"invalid_request"}
    DenyReasons = {"store_degraded"}
    StoresFound <- MCStores
    MaxStarts = 2
    MaxFaults = 1
SPECIFICATION Spec
INVARIANTS
    SlotsAccounted
    OpenClaimsExplained
    LedgerBehindStore
    CleanStop
    AcceptedBoots
    IdentityClear
PROPERTIES
    ForeignStoreUntouched
    DrainEnds
\* The starts of the process are bounded.
CHECK_DEADLOCK FALSE
