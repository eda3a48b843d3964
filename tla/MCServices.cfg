SPECIFICATION Spec
CONSTANTS
    Packages = {"p", "q"}
    NoPackage = "none"
    Devices = {"d"}
    Online = {"o"}
    MaxActions = 1
    MaxForeign = 1
    Period = 5
    WindowDays = 2
    PageRows = 2
    Wanted = 3
    MaxRows = 5
    MaxRecords = 5
    MaxAdded = 2
    LoginTimes = {45}
    VpnAccounts = {"a"}
    Budget = 2
    PromptLimit = 2
    ChallengeLimit = 2
    SendGap = 1
    SubmitGap = 1
    MaxChallenges = 2
    MaxQueue = 1
    MaxStamp = 1
    MaxWaited = 2
    Gap = 2
    Scopes = {"all", "local"}
    MaxUsed = 2
    MaxAge = 3
    MaxVersions = 2
    MaxSaves = 1
    MinuteLength = 1
    Hour = 2
    Day = 4
    Month = 8
    Horizon = 16
    MaxSamples = 2
    StayLimit = 2
    MaxGeneration = 4
    Spacing = 3
    Retry = 1
    DayLength = 6
    MaxNow = 8
    SavedPasswords = {"p1", "p2"}
    Blank = "blank"
    MaxEntered = 2
    Accounts = {"a"}
    Discoveries = {"d1", "d2"}
    MaxRedirects = 1
    Lifetime = 1
    LatestTime = 2
    MaxTokens = 2
    Commands = {"c1", "c2"}
    MaxChunks = 2
    Persons = {"u1"}
    CredentialWait = 2
    BalanceWait = 3
    ServerBase = 1
    NetworkBase = 1
    Longest = 2
    LatestHealth = 4
    Orders <- TwoAccounts
    Networks <- PortalNetworks
    Stranger = "stranger"
INVARIANTS
    TypeOK
    ActionAnswerTells
    RecordsAnswerIsThePage
    OverviewIsShown
    UserTimeIsFree
    CountedOnce
    MonthIsWhole
    EndsItsOwnStay
    PasswordIsSomewhere
    CancelledByItsOwnStop
    FasterNeverWins
PROPERTIES
    ReadsAreSpaced
    SavedAsConfirmed
    
    OneLoginPerCheck
CHECK_DEADLOCK FALSE
