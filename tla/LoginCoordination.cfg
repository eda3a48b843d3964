CONSTANTS
    Checks = {c1, c2}
    Networks = {campus, home}
    NoNetwork = NoNetwork
    Campus = {campus}
    Mobile = {}
    Dead = {}
    NumAccounts = 2
    MaxEvents = 3
    SuspendAfter = 2
    AdaptiveChecks = FALSE
    OutsideLock = FALSE
    RouteBinds = TRUE
SPECIFICATION Spec
INVARIANTS
    CheckFlagExact
    WaitingHasTask
PROPERTIES
    OvertakenNeverSubmits
    OvertakenNeverReports
CHECK_DEADLOCK FALSE
