---------------------------- MODULE MCServices ----------------------------
(***************************************************************************)
(* The services of the application for TLC: the portal, the billing system *)
(* and what records its data, the stores of the application and its        *)
(* updates.  These models share no state, so they are checked side by side *)
(* and not against each other: part names the one that moves in a          *)
(* behaviour, the others rest in one of their initial states.  TLC thereby *)
(* explores each component by itself, under one configuration.             *)
(***************************************************************************)
EXTENDS Integers, Sequences, FiniteSets

CONSTANTS
    Packages, NoPackage, Devices, Online, MaxActions, MaxForeign,           \* BillingActions
    Period, WindowDays, PageRows, Wanted, MaxRows, MaxRecords, MaxAdded,      \* BillingRecords
    LoginTimes,                                                             \* BillingCenter
    VpnAccounts, Budget, PromptLimit, ChallengeLimit, SendGap, SubmitGap,
    MaxChallenges, MaxQueue, MaxStamp, MaxWaited,                           \* WebVpnLogin
    Gap, Scopes, MaxUsed, MaxAge, MaxVersions, MaxSaves,                    \* DeviceUsage
    MinuteLength, Hour, Day, Month, Horizon, MaxSamples,                          \* UsageRollups
    StayLimit, MaxGeneration,                                                   \* BackgroundExpiry
    Spacing, Retry, DayLength, MaxNow,                                      \* MonthEndCheck
    SavedPasswords, Blank, MaxEntered,                                      \* ConfigStore
    Accounts, Discoveries, MaxRedirects, Lifetime, LatestTime, MaxTokens,   \* AccountDiscovery
    Commands, MaxChunks,                                                    \* UpdateDownload
    Persons, CredentialWait, BalanceWait, ServerBase, NetworkBase, Longest, LatestHealth,   \* AccountHealth
    Orders, Networks, Stranger                                              \* PortalLogin

ASSUME ActionsAssumption == NoPackage \notin Packages
ASSUME RecordsAssumption ==
    /\ {Period, WindowDays, PageRows, Wanted, MaxRecords} \subseteq Nat \ {0} /\ {MaxRows, MaxAdded} \subseteq Nat
    /\ WindowDays <= Period
ASSUME CenterAssumption == LoginTimes \subseteq Nat
\* A row of each kind holds whole rows of the kind before it.
ASSUME RollupAssumption ==
    /\ {MinuteLength, Hour, Day, Month} \subseteq Nat \ {0} /\ Horizon \in Nat
    /\ MinuteLength < Hour /\ Hour < Day /\ Day < Month
    /\ Hour % MinuteLength = 0 /\ Day % Hour = 0 /\ Month % Day = 0
ASSUME HealthAssumption ==
    {CredentialWait, BalanceWait, ServerBase, NetworkBase, Longest, LatestHealth} \subseteq Nat /\ "nobody" \notin Persons
ASSUME MonthAssumption ==
    {Spacing, Retry, MaxNow} \subseteq Nat /\ DayLength \in Nat \ {0} /\ Retry <= Spacing /\ Spacing < 100

\* The monitor of a start looks at the local devices only, under a password or none.
ASSUME UsageAssumption == "local" \in Scopes /\ MaxVersions >= 1
ASSUME BoundsAssumption ==
    {MaxActions, MaxForeign, Budget, PromptLimit, ChallengeLimit, MaxStamp, MaxQueue, MaxUsed, MaxAge, MaxSaves, MaxVersions,
     StayLimit, MaxGeneration, MaxEntered, MaxRedirects, Lifetime, LatestTime, MaxTokens, MaxChunks} \subseteq Nat

VARIABLES
    part,
    server, action, actions, foreign, touched,
    table, query, begun, heads, rows, position, remaining, stage, added,
    reading, elapsed, loginTook, unread, warnings, published, session, center,
    vpnStamp, bound, ready, pending, queue, login, sent, submitted,
    enabled, scope, password, saves, saving, used, changed, next, failed, stamp, baseline, counted, loop,
    first, high,
    samples, range,
    background, hidden, generation, timers, clearing, sessions, clearable,
    hour, attempt, done, stampAttempt, stampDay, monthTask, alerts, networkChanged, billingBusy, campusBusy,
    allowed, unstamped, lost,
    memory, store, entry, file, readable, storage, main, configTask, entered, due, slipped,
    clock, online, away, call, offer, tokens, shown, answered, kept,
    active, paused, cancelled, at, chunks, control, stopped, crossed,
    desktop, time, health, healthFile, chosen, tryingUser, tray, loginCopy, trayCopy, windowCopy, inBackground,
    service, serviceAttempt, refused, parted,
    engine, network, there, expected, found, missed, gateway, gatewayReady, todo, trial, tried, answer, cooling,
    portalSession, valid

Actions == INSTANCE BillingActions
Records == INSTANCE BillingRecords WITH Days <- Period
Center == INSTANCE BillingCenter
WebVpn == INSTANCE WebVpnLogin
Usage == INSTANCE DeviceUsage WITH MaxPasswords <- MaxVersions
Rollups == INSTANCE UsageRollups WITH query <- range, Minute <- MinuteLength
Expiry == INSTANCE BackgroundExpiry WITH webvpn <- clearable, Limit <- StayLimit
MonthEnd == INSTANCE MonthEndCheck WITH task <- monthTask
Config == INSTANCE ConfigStore WITH
    Passwords <- SavedPasswords, task <- configTask, saves <- entered, MaxSaves <- MaxEntered
Discovery == INSTANCE AccountDiscovery WITH pending <- offer
Update == INSTANCE UpdateDownload
Health == INSTANCE AccountHealth WITH
    Users <- Persons, todo <- chosen, attempt <- tryingUser, away <- inBackground, LatestTime <- LatestHealth

\* A wireless network, and a wired one for which the user has a profile and where only plain pages are asked.
PortalNetworks ==
    {[transport |-> "wifi", wired |-> FALSE, ssid |-> "Type2", https |-> TRUE, trusted |-> TRUE, profile |-> "none"],
     [transport |-> "ethernet", wired |-> TRUE, ssid |-> "none", https |-> FALSE, trusted |-> TRUE, profile |-> "Type3"]}
TwoAccounts == {<<"u1", "u2">>}
Portal == INSTANCE PortalLogin WITH
    pending <- expected, ready <- gatewayReady,
    session <- portalSession

ASSUME PortalAssumption == Networks \subseteq Portal!NetworkOf /\ "none" \notin Portal!Users

actionVars == <<server, action, actions, foreign, touched>>
recordVars == <<table, query, begun, heads, rows, position, remaining, stage, added>>
centerVars == <<reading, elapsed, loginTook, unread, warnings, published, session, center>>
webVpnVars == <<vpnStamp, bound, ready, pending, queue, login, sent, submitted>>
deviceVars ==
    <<enabled, scope, password, saves, saving, used, changed, next, failed, stamp, baseline, counted, loop,
      first, high>>
rollupVars == <<samples, range>>
expiryVars == <<background, hidden, generation, timers, clearing, sessions, clearable>>
monthVars ==
    <<hour, attempt, done, stampAttempt, stampDay, monthTask, alerts, networkChanged, billingBusy, campusBusy, allowed,
      unstamped, lost>>
configVars == <<memory, store, entry, file, readable, storage, main, configTask, entered, due, slipped>>
discoveryVars == <<clock, online, away, call, offer, tokens, shown, answered, kept>>
downloadVars == <<active, paused, cancelled, at, chunks, control, stopped, crossed>>
healthVars ==
    <<desktop, time, health, healthFile, chosen, tryingUser, tray, loginCopy, trayCopy, windowCopy, inBackground,
      service, serviceAttempt, refused, parted>>
portalVars ==
    <<engine, network, there, expected, found, missed, gateway, gatewayReady, todo, trial, tried, answer, cooling,
      portalSession, valid>>
vars ==
    <<part, actionVars, recordVars, centerVars, webVpnVars, deviceVars, rollupVars, expiryVars, monthVars, configVars,
      discoveryVars, downloadVars, healthVars, portalVars>>

Parts ==
    {"actions", "records", "center", "webvpn", "devices", "rollups", "expiry", "month", "config", "discovery", "update",
     "health", "portal"}

\* A component rests in its initial state, in one of them where it has several.
Init ==
    /\ part \in Parts
    /\ Actions!Init
    /\ part # "actions" => /\ server.normal /\ server.mauth /\ server.devices = {} /\ server.reserved = NoPackage
                           /\ server.package = CHOOSE p \in Packages : TRUE
    /\ Center!Init /\ WebVpn!Init
    /\ Usage!Init /\ (part # "devices" => password = 0)
    /\ Expiry!ExpiryInit
    /\ MonthEnd!MonthInit /\ (part # "month" => ~alerts)
    /\ Config!ConfigInit /\ (part # "config" => store = "absent" /\ file = "absent" /\ readable)
    /\ Discovery!DiscoveryInit /\ (part # "discovery" => online = Discovery!Nothing /\ ~away)
    /\ Update!DownloadInit
    /\ Health!HealthInit /\ (part # "health" => ~desktop)
    /\ Portal!PortalInit
    /\ part # "portal" => network.transport = "wifi" /\ portalSession = "none" /\ valid = {}
    /\ IF part = "rollups" THEN Rollups!RollupInit
       ELSE samples = {} /\ range = [start |-> 0, end |-> 0, resolution |-> "day"]
    /\ IF part = "records" THEN Records!Init
       ELSE /\ table = <<>> /\ query = [days |-> Period, dated |-> FALSE, all |-> TRUE, page |-> 1] /\ begun = <<>>
            /\ heads = <<>> /\ rows = <<>> /\ position = [window |-> 1, offset |-> 0] /\ remaining = 0
            /\ stage = "pages" /\ added = 0

\* Of the accounts' records nothing is claimed once they are parted, so that no further step is explored.
Next ==
    /\ UNCHANGED part
    /\ IF part = "actions" THEN Actions!Next ELSE UNCHANGED actionVars
    /\ IF part = "records" THEN Records!Next ELSE UNCHANGED recordVars
    /\ IF part = "center" THEN Center!Next ELSE UNCHANGED centerVars
    /\ IF part = "webvpn" THEN WebVpn!Next ELSE UNCHANGED webVpnVars
    /\ IF part = "devices" THEN Usage!UsageNext ELSE UNCHANGED deviceVars
    /\ IF part = "rollups" THEN Rollups!RollupNext ELSE UNCHANGED rollupVars
    /\ IF part = "expiry" THEN Expiry!ExpiryNext ELSE UNCHANGED expiryVars
    /\ IF part = "month" THEN MonthEnd!MonthNext ELSE UNCHANGED monthVars
    /\ IF part = "config" THEN Config!ConfigNext ELSE UNCHANGED configVars
    /\ IF part = "discovery" THEN Discovery!DiscoveryNext ELSE UNCHANGED discoveryVars
    /\ IF part = "update" THEN Update!DownloadNext ELSE UNCHANGED downloadVars
    /\ IF part = "health" THEN ~parted /\ Health!HealthNext ELSE UNCHANGED healthVars
    /\ IF part = "portal" THEN Portal!PortalNext ELSE UNCHANGED portalVars

Spec == Init /\ [][Next]_vars

-----------------------------------------------------------------------------
\* Every variable of the component that moves keeps its type.
TypeOK ==
    CASE part = "actions" -> Actions!TypeOK
      [] part = "records" -> Records!TypeOK
      [] part = "center" -> Center!TypeOK
      [] part = "webvpn" -> WebVpn!TypeOK
      [] part = "devices" -> Usage!TypeOK
      [] part = "rollups" -> Rollups!RollupTypeOK
      [] part = "expiry" -> Expiry!ExpiryTypeOK
      [] part = "month" -> MonthEnd!MonthTypeOK
      [] part = "config" -> Config!ConfigTypeOK
      [] part = "discovery" -> Discovery!DiscoveryTypeOK
      [] part = "update" -> Update!DownloadTypeOK
      [] part = "health" -> Health!HealthTypeOK
      [] part = "portal" -> Portal!PortalTypeOK

\* What the pages of the billing system said is what the user is told: of an action (BillingActions), of the
\* records of a period (BillingRecords) and of an overview whose optional pages do not answer (BillingCenter).
ActionAnswerTells == Actions!AnswerTells
RecordsAnswerIsThePage == Records!AnswerIsThePage
OverviewIsShown == Center!OverviewIsShown

\* The user's time for images is not counted against the limit of a command (WebVpnLogin).
UserTimeIsFree == WebVpn!UserTimeIsFree

\* The usage recorded of a device is never more than what its counter grew by (DeviceUsage).
CountedOnce == Usage!CountedOnce

\* The rows of the month that a query of the history takes are whole and disjoint (UsageRollups).
MonthIsWhole == Rollups!MonthIsWhole

\* A timer destroys the sessions only of the stay in the background that it measured (BackgroundExpiry).
EndsItsOwnStay == Expiry!EndsItsOwnStay

\* Between two attempts to read the balances at the end of a month the school is left alone (MonthEndCheck).
ReadsAreSpaced == MonthEnd!ReadsAreSpaced

\* Whatever fails and whenever the application ends, no password is lost (ConfigStore).
PasswordIsSomewhere == Config!PasswordIsSomewhere

\* An account that was found is saved only as it was offered and while the user may accept it (AccountDiscovery).
SavedAsConfirmed == Discovery!SavedAsConfirmed

\* A download is cancelled only by a stop that was written after it began (UpdateDownload).
CancelledByItsOwnStop == Update!CancelledByItsOwnStop

\* A password the portal refused is not sent again before its wait is over (AccountHealth).
RefusedIsNotSentAgain == Health!RefusedIsNotSentAgain

\* The faster answer of a less likely gateway never decides how to log in; an account that the portal has let in
\* is followed by no other in the same check (PortalLogin).
FasterNeverWins == Portal!FasterNeverWins
OneLoginPerCheck == Portal!OneLoginPerCheck
=============================================================================
