CONSTANTS
    Checks = {c1}
    Networks = {campus, mobile, dead}
    NoNetwork = NoNetwork
    Campus = {campus}
    Mobile = {mobile}
    Dead = {dead}
    NumAccounts = 1
    MaxEvents = 2
    SuspendAfter = 2
    AdaptiveChecks = FALSE
    OutsideLock = TRUE
    RouteBinds = TRUE
SPECIFICATION FairSpec
PROPERTIES
    FullCheckServed
    EventuallyTrue
CHECK_DEADLOCK FALSE
