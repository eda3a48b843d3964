SPECIFICATION AllSpec
CONSTANTS
    Observers = {o1, o2}
    Networks = {n1, n2}
    NoNetwork = NoNetwork
    RequirePhysical = FALSE
    RequireSession = FALSE
    MaxRuns = 2
    MaxReads = 2
    MaxChanges = 1
    Targets = {"t1", "t2"}
    Servers = {"s1", "s2"}
    Addresses = {"a1", "a2"}
    Direct = TRUE
    Interfaces = {"a", "b"}
    MaxObserved = 5
    TrustNetworks <- CampusNetworks
INVARIANTS
    AllTypeOK
    AnswersAreFresh
    AcceptedOnOwnNetwork
    PlanFollowsTheStreak
PROPERTIES
    LinkRaces
    OnlyWithConsent
SYMMETRY Alike
CHECK_DEADLOCK FALSE
