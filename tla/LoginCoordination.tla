------------------------- MODULE LoginCoordination -------------------------
(***************************************************************************)
(* The processes of the Rust side that look at the network and log in:     *)
(*   - connectivity checks (trigger_network_check), which may log in by    *)
(*     themselves with the accounts of the configuration;                  *)
(*   - the manual login or account switch (manual_login_inner);            *)
(*   - the tasks that wait for an address after a network change           *)
(*     (schedule_network_change_readiness);                                *)
(*   - the background loop of run();                                       *)
(*   - the quick login of the tray and the logout command, which send      *)
(*     requests without taking login_request_lock.                         *)
(* They meet in AppState: flags, two generation counters, a lock, and the  *)
(* state shown to the user.  A step runs from one await to the next; a     *)
(* test of the generations that an operating-system query separates from   *)
(* the publication it protects is a step of its own.                       *)
(***************************************************************************)
EXTENDS Integers, FiniteSets

CONSTANTS
    Checks,         \* check tasks that may exist at the same time
    Networks,       \* identities of the physical network
    NoNetwork,      \* last_known_ip before the first poll
    Campus,         \* networks behind an authentication gateway
    Mobile,         \* mobile data
    Dead,           \* networks without an address
    NumAccounts,    \* bound: accounts one login may try
    MaxEvents,      \* bound: things the user and the environment do
    SuspendAfter,   \* failed background checks before suspension (5)
    AdaptiveChecks, \* config.adaptive_network_checks
    OutsideLock,    \* whether the tray login and the logout command are used
    RouteBinds      \* Android: a check may have to bind itself to the Wi-Fi first

ASSUME NetworksAssumption ==
    /\ NoNetwork \notin Networks
    /\ Campus \subseteq Networks /\ Mobile \subseteq Networks /\ Dead \subseteq Networks
ASSUME BoundsAssumption ==
    /\ NumAccounts \in Nat \ {0} /\ MaxEvents \in Nat /\ SuspendAfter \in Nat \ {0}
    /\ AdaptiveChecks \in BOOLEAN /\ OutsideLock \in BOOLEAN /\ RouteBinds \in BOOLEAN

VARIABLES
    \* the environment
    net,                        \* the network the machine is on
    session,                    \* whether its gateway has a session for us
    events,                     \* what the user and the environment may still do
    \* AppState
    is_checking, pending_full_check,
    manual_login_in_progress, login_operation_generation, login_request_lock,
    network_change_generation, network_change_waiting,
    last_network_state, last_known_ip,
    is_in_background, is_suspended, non_campus_count,
    \* tasks
    phase,                      \* check -> where it is
    context,                    \* check -> what it captured
    overtaken,                  \* history: checks a manual login has overtaken
    manual,                     \* the manual login
    ready,                      \* generations of the tasks waiting for an address
    outside                     \* the tray login and the logout command

env == <<net, session>>
checkVars == <<is_checking, pending_full_check, phase, context, overtaken>>
loginVars == <<manual_login_in_progress, login_operation_generation, login_request_lock, manual>>
changeVars == <<network_change_generation, network_change_waiting, ready>>
idleVars == <<is_suspended, non_campus_count>>
vars == <<env, events, checkVars, loginVars, changeVars, last_network_state, last_known_ip,
          is_in_background, idleVars, outside>>

CheckPhase == {"idle", "spawned", "binding", "probing", "cancelled", "resample", "detecting",
               "waitLock", "sent", "recheck"}
Context == [login : Nat, network : Nat, net : Networks \cup {NoNetwork},
            full : BOOLEAN, background : BOOLEAN, online : BOOLEAN, left : 0 .. NumAccounts]
Blank == [login |-> 0, network |-> 0, net |-> NoNetwork,
          full |-> FALSE, background |-> FALSE, online |-> FALSE, left |-> 0]
ManualPhase == {"idle", "detecting", "queued", "loggingOut", "converging", "preparing", "sent",
                "verifying", "recheck", "ending", "leaving"}
OutsidePhase == {"idle", "detecting", "sent"}
Shown == [state : {"Checking", "Online", "BjutCampus", "Offline"},
          net : Networks \cup {NoNetwork}]

EnvType == net \in Networks /\ session \in BOOLEAN /\ events \in 0 .. MaxEvents

CheckType ==
    /\ is_checking \in BOOLEAN /\ pending_full_check \in BOOLEAN
    /\ phase \in [Checks -> CheckPhase] /\ context \in [Checks -> Context]
    /\ overtaken \in SUBSET Checks

LoginType ==
    /\ manual_login_in_progress \in BOOLEAN /\ login_operation_generation \in Nat
    /\ login_request_lock \in {"free", "check", "manual"}
    /\ manual \in [phase : ManualPhase, net : Networks \cup {NoNetwork}, left : 0 .. NumAccounts]

ChangeType ==
    /\ network_change_generation \in Nat /\ network_change_waiting \in BOOLEAN
    /\ ready \in SUBSET Nat

ShownType == last_network_state \in Shown /\ last_known_ip \in Networks \cup {NoNetwork}

IdleType ==
    /\ is_in_background \in BOOLEAN /\ is_suspended \in BOOLEAN
    /\ non_campus_count \in 0 .. SuspendAfter

OutsideType ==
    outside \in [tray : OutsidePhase, trayNet : Networks \cup {NoNetwork},
                 logout : {"idle", "sent"}, logoutNet : Networks \cup {NoNetwork}]

TypeOK ==
    /\ EnvType /\ CheckType /\ LoginType /\ ChangeType /\ ShownType /\ IdleType /\ OutsideType

Init ==
    /\ net \in Networks /\ session \in BOOLEAN /\ (session => net \in Campus)
    /\ events = MaxEvents
    /\ is_checking = FALSE /\ pending_full_check = FALSE
    /\ manual_login_in_progress = FALSE /\ login_operation_generation = 0
    /\ login_request_lock = "free"
    /\ network_change_generation = 0 /\ network_change_waiting = FALSE /\ ready = {}
    /\ last_network_state = [state |-> "Checking", net |-> NoNetwork] /\ last_known_ip = NoNetwork
    /\ is_in_background = FALSE /\ is_suspended = FALSE /\ non_campus_count = 0
    /\ phase = [c \in Checks |-> "idle"] /\ context = [c \in Checks |-> Blank] /\ overtaken = {}
    /\ manual = [phase |-> "idle", net |-> NoNetwork, left |-> 0]
    /\ outside = [tray |-> "idle", trayNet |-> NoNetwork, logout |-> "idle", logoutNet |-> NoNetwork]

-----------------------------------------------------------------------------
(* What several handlers do. *)

\* Whether the internet answers on network n, given the gateway's session.
Online(n, s) == n \in Networks \ (Campus \cup Dead) \/ (n \in Campus /\ s)

Live(c) == phase[c] # "idle"

\* From the swap of the flag to the second advance of the generation.
ManualUnderway == manual.phase \notin {"idle", "leaving"}

\* The emit of network-state-change.
Publish(s, n) == last_network_state' = [state |-> s, net |-> n]

SupersededIgnoringGeneration(c) ==      \* variant: only the flag is looked at
    manual_login_in_progress

\* network_check_login_operation_superseded
Superseded(c) ==
    manual_login_in_progress \/ login_operation_generation # context[c].login

\* connectivity::invalidate ends the running observation as cancelled.
Invalidated(phases) ==
    [c \in Checks |-> IF phases[c] = "probing" THEN "cancelled" ELSE phases[c]]

\* A new check task.  One that is triggered while a manual login runs is
\* overtaken from the start.
Spawn(full) ==
    \E c \in Checks :
        /\ ~Live(c)
        /\ phase' = [phase EXCEPT ![c] = "spawned"]
        /\ context' = [context EXCEPT ![c].login = login_operation_generation, ![c].full = full]
        /\ overtaken' = IF ManualUnderway THEN overtaken \cup {c} ELSE overtaken

TriggerTwice(full) ==      \* variant: the flag is set but not tested
    /\ is_checking' = TRUE
    /\ pending_full_check' = (pending_full_check /\ ~full)
    /\ Spawn(full)

\* trigger_network_check up to the spawn.
Trigger(full) ==
    IF is_checking
    THEN /\ pending_full_check' = (pending_full_check \/ full)
         /\ UNCHANGED <<is_checking, phase, context, overtaken>>
    ELSE /\ is_checking' = TRUE
         /\ pending_full_check' = (pending_full_check /\ ~full)
         /\ Spawn(full)

ScheduleOnce(phases) ==      \* variant: no new task while one is still waiting
    /\ phase' = Invalidated(phases)
    /\ network_change_generation' = network_change_generation + 1
    /\ network_change_waiting' = TRUE
    /\ ready' = IF ready = {} THEN {network_change_generation + 1} ELSE ready
    /\ last_network_state' = [last_network_state EXCEPT !.state = "Checking"]

\* schedule_network_change_readiness up to the spawn; phases as it finds them.
Schedule(phases) ==
    /\ phase' = Invalidated(phases)
    /\ network_change_generation' = network_change_generation + 1
    /\ network_change_waiting' = TRUE
    /\ ready' = ready \cup {network_change_generation + 1}
    /\ last_network_state' = [last_network_state EXCEPT !.state = "Checking"]

\* A check task ends: the flag is cleared on every path out of it.
Ended(c) ==
    /\ is_checking' = FALSE
    /\ context' = [context EXCEPT ![c] = Blank]
    /\ overtaken' = overtaken \ {c}
    /\ UNCHANGED pending_full_check

End(c) == Ended(c) /\ phase' = [phase EXCEPT ![c] = "idle"]

ResetIdle == is_suspended' = FALSE /\ non_campus_count' = 0

\* The account loop is over: suspend after repeated background failures, publish.
Report(c, succeeded) ==
    LET counts == ~succeeded /\ context[c].background
        count  == non_campus_count + 1
    IN  /\ non_campus_count' = IF ~counts THEN 0
                               ELSE IF count < SuspendAfter THEN count ELSE SuspendAfter
        /\ is_suspended' = (is_suspended \/ (counts /\ count >= SuspendAfter /\ ~AdaptiveChecks))
        /\ Publish(IF succeeded THEN "Online" ELSE "BjutCampus", context[c].net)
        /\ End(c)

Event == events > 0 /\ events' = events - 1

-----------------------------------------------------------------------------
(* A connectivity check. *)

SkipCheck(c) ==
    /\ phase[c] = "spawned" /\ manual_login_in_progress
    /\ End(c)
    /\ UNCHANGED <<env, events, loginVars, changeVars, last_network_state, last_known_ip,
                   is_in_background, idleVars, outside>>

StartCheck(c) ==
    /\ phase[c] = "spawned" /\ ~manual_login_in_progress
    /\ \/ phase' = [phase EXCEPT ![c] = "probing"]
       \/ /\ RouteBinds /\ net \notin Mobile
          /\ phase' = [phase EXCEPT ![c] = "binding"]
    /\ context' = [context EXCEPT ![c] = [login |-> @.login, network |-> network_change_generation,
                                          net |-> net, full |-> @.full,
                                          background |-> is_in_background,
                                          online |-> FALSE, left |-> 0]]
    /\ UNCHANGED <<env, events, is_checking, pending_full_check, overtaken, loginVars, changeVars,
                   last_network_state, last_known_ip, is_in_background, idleVars, outside>>

\* The call that binds the process to the Wi-Fi has returned (Android).
RouteBound(c) ==
    /\ phase[c] = "binding"
    /\ phase' = [phase EXCEPT ![c] = "probing"]
    /\ UNCHANGED <<env, events, is_checking, pending_full_check, context, overtaken, loginVars,
                   changeVars, last_network_state, last_known_ip, is_in_background, idleVars, outside>>

\* It has failed: this is reported without a look at the generations.
RouteFails(c) ==
    /\ Event
    /\ phase[c] = "binding"
    /\ Publish("BjutCampus", context[c].net)
    /\ non_campus_count' = 0
    /\ End(c)
    /\ UNCHANGED <<env, loginVars, changeVars, last_known_ip, is_in_background, is_suspended, outside>>

ObservationLost(c) ==
    /\ \/ phase[c] = "cancelled"
       \/ phase[c] = "probing" /\ network_change_generation # context[c].network
    /\ End(c)
    /\ UNCHANGED <<env, events, loginVars, changeVars, last_network_state, last_known_ip,
                   is_in_background, idleVars, outside>>

\* The observation is complete; what it says of a network that has gone is arbitrary.
Observed(c) ==
    /\ phase[c] = "probing" /\ network_change_generation = context[c].network
    /\ IF Superseded(c)
       THEN End(c)
       ELSE \E online \in BOOLEAN :
               /\ net = context[c].net => online = Online(net, session)
               /\ phase' = [phase EXCEPT ![c] = "resample"]
               /\ context' = [context EXCEPT ![c].online = online]
               /\ UNCHANGED <<is_checking, pending_full_check, overtaken>>
    /\ UNCHANGED <<env, events, loginVars, changeVars, last_network_state, last_known_ip,
                   is_in_background, idleVars, outside>>

\* get_network_info has answered.
Resampled(c) ==
    /\ phase[c] = "resample"
    /\ \/ /\ net # context[c].net
          /\ Ended(c) /\ Schedule([phase EXCEPT ![c] = "idle"])
          /\ UNCHANGED non_campus_count
       \/ /\ net = context[c].net
          /\ context[c].online \/ net \in Mobile
          /\ Publish(IF context[c].online THEN "Online" ELSE "Offline", context[c].net)
          /\ non_campus_count' = 0
          /\ End(c)
          /\ UNCHANGED changeVars
       \/ /\ net = context[c].net
          /\ ~context[c].online /\ net \notin Mobile
          /\ phase' = [phase EXCEPT ![c] = "detecting"]
          /\ UNCHANGED <<is_checking, pending_full_check, context, overtaken, changeVars,
                         last_network_state, non_campus_count>>
    /\ UNCHANGED <<env, events, loginVars, last_known_ip, is_in_background, is_suspended, outside>>

\* The gateway probe has answered.  Whether it found a portal, and whether the
\* configuration lets the app log in there, is left open on a campus network.
Detected(c) ==
    /\ phase[c] = "detecting"
    /\ \/ /\ Superseded(c)
          /\ End(c)
          /\ UNCHANGED <<last_network_state, idleVars>>
       \/ /\ ~Superseded(c)
          /\ \E shown \in {"Offline"} \cup (IF context[c].net \in Campus THEN {"BjutCampus"} ELSE {}) :
                Publish(shown, context[c].net)
          /\ non_campus_count' = 0
          /\ End(c)
          /\ UNCHANGED is_suspended
       \/ /\ ~Superseded(c) /\ context[c].net \in Campus
          /\ Report(c, FALSE)
       \/ /\ ~Superseded(c) /\ context[c].net \in Campus /\ net = context[c].net
          /\ \E n \in 1 .. NumAccounts : context' = [context EXCEPT ![c].left = n]
          /\ phase' = [phase EXCEPT ![c] = "waitLock"]
          /\ UNCHANGED <<is_checking, pending_full_check, overtaken, last_network_state, idleVars>>
    /\ UNCHANGED <<env, events, loginVars, changeVars, last_known_ip, is_in_background, outside>>

LockGranted == login_request_lock = "free"

TakeLock(c) ==
    /\ phase[c] = "waitLock" /\ LockGranted
    /\ IF Superseded(c)
       THEN End(c) /\ UNCHANGED login_request_lock
       ELSE /\ login_request_lock' = "check"
            /\ phase' = Invalidated([phase EXCEPT ![c] = "sent"])
            /\ UNCHANGED <<is_checking, pending_full_check, context, overtaken>>
    /\ UNCHANGED <<env, events, manual_login_in_progress, login_operation_generation, manual,
                   changeVars, last_network_state, last_known_ip, is_in_background, idleVars, outside>>

\* What a login request does to the session: an unknown answer may be a success.
SessionAfter(answer, n) ==
    CASE answer = "accepted" -> {session \/ net = n}
      [] answer = "rejected" -> {session}
      [] answer = "unknown"  -> {session, session \/ net = n}

\* The loop goes on with the next account, on the network it has verified.
NextAccount(c) == context[c].left > 1 /\ net = context[c].net

Answered(c) ==
    /\ phase[c] = "sent"
    /\ login_request_lock' = "free"
    /\ \E answer \in {"accepted", "rejected", "unknown"} :
          /\ session' \in SessionAfter(answer, context[c].net)
          /\ \/ /\ Superseded(c)
                /\ End(c)
                /\ UNCHANGED <<last_network_state, idleVars>>
             \/ /\ ~Superseded(c) /\ answer # "rejected"
                /\ Report(c, answer = "accepted")
             \/ /\ ~Superseded(c) /\ answer = "rejected" /\ NextAccount(c)
                /\ context' = [context EXCEPT ![c].left = @ - 1]
                /\ phase' = [phase EXCEPT ![c] = "waitLock"]
                /\ UNCHANGED <<is_checking, pending_full_check, overtaken, last_network_state, idleVars>>
             \/ /\ ~Superseded(c) /\ answer = "rejected" /\ ~NextAccount(c)
                /\ Report(c, FALSE)
             \/ /\ ~Superseded(c) /\ answer = "unknown"
                /\ phase' = [phase EXCEPT ![c] = "recheck"]
                /\ UNCHANGED <<is_checking, pending_full_check, context, overtaken,
                               last_network_state, idleVars>>
    /\ UNCHANGED <<net, events, manual_login_in_progress, login_operation_generation, manual,
                   changeVars, last_known_ip, is_in_background, outside>>

\* The observation that follows "already online" or a failed request.
Rechecked(c) ==
    /\ phase[c] = "recheck"
    /\ \/ /\ Superseded(c)
          /\ End(c)
          /\ UNCHANGED <<last_network_state, idleVars>>
       \/ /\ ~Superseded(c)
          /\ \E succeeded \in {FALSE, Online(net, session)} : Report(c, succeeded)
    /\ UNCHANGED <<env, events, loginVars, changeVars, last_known_ip, is_in_background, outside>>

CheckStep(c) ==
    \/ SkipCheck(c) \/ StartCheck(c) \/ RouteBound(c) \/ ObservationLost(c) \/ Observed(c)
    \/ Resampled(c) \/ Detected(c) \/ TakeLock(c) \/ Answered(c) \/ Rechecked(c)

-----------------------------------------------------------------------------
(* The manual login. *)

ManualTo(p) == manual' = [manual EXCEPT !.phase = p]

ManualBegins ==
    /\ Event
    /\ manual.phase = "idle"
    /\ manual_login_in_progress' = TRUE
    /\ login_operation_generation' = login_operation_generation + 1
    /\ phase' = Invalidated(phase)
    /\ overtaken' = {c \in Checks : Live(c)}
    /\ manual' = [phase |-> IF net \in Mobile THEN "ending" ELSE "detecting",
                  net |-> net, left |-> 0]
    /\ UNCHANGED <<env, is_checking, pending_full_check, context, login_request_lock, changeVars,
                   last_network_state, last_known_ip, is_in_background, idleVars, outside>>

\* The portal is known, the network trusted, and accounts are there.
ManualQueues ==
    /\ manual.phase = "detecting" /\ net = manual.net
    /\ \E n \in 1 .. NumAccounts : manual' = [phase |-> "queued", net |-> net, left |-> n]
    /\ UNCHANGED <<env, events, checkVars, manual_login_in_progress, login_operation_generation,
                   login_request_lock, changeVars, last_network_state, last_known_ip,
                   is_in_background, idleVars, outside>>

\* Refused or cancelled before anything is sent.
ManualRefused ==
    /\ manual.phase \in {"detecting", "preparing"}
    /\ ManualTo("ending")
    /\ UNCHANGED <<env, events, checkVars, manual_login_in_progress, login_operation_generation,
                   login_request_lock, changeVars, last_network_state, last_known_ip,
                   is_in_background, idleVars, outside>>

\* The lock is granted: cancelled or refused, switching accounts, or first account.
ManualTakesLock ==
    /\ manual.phase = "queued" /\ LockGranted
    /\ login_request_lock' = "manual"
    /\ \/ ManualTo("ending")
       \/ ManualTo("loggingOut")
       \/ net = manual.net /\ ManualTo("preparing")
    /\ UNCHANGED <<env, events, checkVars, manual_login_in_progress, login_operation_generation,
                   changeVars, last_network_state, last_known_ip, is_in_background, idleVars, outside>>

ManualLoggedOut ==
    /\ manual.phase = "loggingOut"
    /\ \/ /\ session' = (session /\ net # manual.net)
          /\ Publish("BjutCampus", manual.net)
          /\ ManualTo("converging")
       \/ /\ session' \in {session, session /\ net # manual.net}
          /\ ManualTo("ending")
          /\ UNCHANGED last_network_state
    /\ UNCHANGED <<net, events, checkVars, manual_login_in_progress, login_operation_generation,
                   login_request_lock, changeVars, last_known_ip, is_in_background, idleVars, outside>>

\* The two seconds after a logout are over.
ManualConverged ==
    /\ manual.phase = "converging"
    /\ ManualTo(IF net = manual.net THEN "preparing" ELSE "ending")
    /\ UNCHANGED <<env, events, checkVars, manual_login_in_progress, login_operation_generation,
                   login_request_lock, changeVars, last_network_state, last_known_ip,
                   is_in_background, idleVars, outside>>

\* before_submit
ManualSubmits ==
    /\ manual.phase = "preparing" /\ net = manual.net
    /\ phase' = Invalidated(phase)
    /\ ManualTo("sent")
    /\ UNCHANGED <<env, events, is_checking, pending_full_check, context, overtaken,
                   manual_login_in_progress, login_operation_generation, login_request_lock,
                   changeVars, last_network_state, last_known_ip, is_in_background, idleVars, outside>>

ManualAnswered ==
    /\ manual.phase = "sent"
    /\ \E answer \in {"accepted", "rejected", "unknown"} :
          /\ session' \in SessionAfter(answer, manual.net)
          /\ \/ /\ answer = "accepted" /\ net = manual.net
                /\ ManualTo("verifying")
                /\ UNCHANGED <<phase, changeVars, last_network_state>>
             \/ /\ answer = "accepted" /\ net # manual.net
                /\ Schedule(phase)
                /\ ManualTo("ending")
             \/ /\ answer = "rejected" /\ manual.left > 1 /\ net = manual.net
                /\ manual' = [phase |-> "preparing", net |-> net, left |-> manual.left - 1]
                /\ UNCHANGED <<phase, changeVars, last_network_state>>
             \/ /\ answer = "rejected" /\ (manual.left = 1 \/ net # manual.net)
                /\ ManualTo("ending")
                /\ UNCHANGED <<phase, changeVars, last_network_state>>
             \/ /\ answer = "unknown"
                /\ \E p \in {"recheck", "ending"} : ManualTo(p)
                /\ UNCHANGED <<phase, changeVars, last_network_state>>
    /\ UNCHANGED <<net, events, is_checking, pending_full_check, context, overtaken,
                   manual_login_in_progress, login_operation_generation, login_request_lock,
                   last_known_ip, is_in_background, idleVars, outside>>

\* The verification has ended, or found the session the gateway spoke of.  An
\* accepted login is reported as online whatever the public probes say.
ManualVerified ==
    /\ \/ manual.phase = "verifying"
       \/ manual.phase = "recheck" /\ Online(net, session)
    /\ IF net = manual.net
       THEN Publish("Online", manual.net) /\ UNCHANGED <<phase, changeVars>>
       ELSE Schedule(phase)
    /\ ManualTo("ending")
    /\ UNCHANGED <<env, events, is_checking, pending_full_check, context, overtaken,
                   manual_login_in_progress, login_operation_generation, login_request_lock,
                   last_known_ip, is_in_background, idleVars, outside>>

ManualUnconfirmed ==
    /\ manual.phase = "recheck"
    /\ ManualTo("ending")
    /\ UNCHANGED <<env, events, checkVars, manual_login_in_progress, login_operation_generation,
                   login_request_lock, changeVars, last_network_state, last_known_ip,
                   is_in_background, idleVars, outside>>

ManualEndsUnbumped ==      \* variant: the generation advances only when the login begins
    /\ manual.phase = "ending"
    /\ login_request_lock' = IF login_request_lock = "manual" THEN "free" ELSE login_request_lock
    /\ ManualTo("leaving")
    /\ UNCHANGED <<env, events, checkVars, manual_login_in_progress, login_operation_generation,
                   changeVars, last_network_state, last_known_ip, is_in_background, idleVars, outside>>

\* The guards are dropped: the lock, then the generation, then the flag.
ManualEnds ==
    /\ manual.phase = "ending"
    /\ login_request_lock' = IF login_request_lock = "manual" THEN "free" ELSE login_request_lock
    /\ login_operation_generation' = login_operation_generation + 1
    /\ ManualTo("leaving")
    /\ UNCHANGED <<env, events, checkVars, manual_login_in_progress, changeVars,
                   last_network_state, last_known_ip, is_in_background, idleVars, outside>>

ManualLeaves ==
    /\ manual.phase = "leaving"
    /\ manual_login_in_progress' = FALSE
    /\ manual' = [phase |-> "idle", net |-> NoNetwork, left |-> 0]
    /\ UNCHANGED <<env, events, checkVars, login_operation_generation, login_request_lock,
                   changeVars, last_network_state, last_known_ip, is_in_background, idleVars, outside>>

ManualStep ==
    \/ ManualQueues \/ ManualRefused \/ ManualTakesLock \/ ManualLoggedOut \/ ManualConverged
    \/ ManualSubmits \/ ManualAnswered \/ ManualVerified \/ ManualUnconfirmed
    \/ ManualEnds \/ ManualLeaves

-----------------------------------------------------------------------------
(* Network changes and the background loop. *)

ReadyUnlessDead(g) ==      \* variant: without an address the task just returns
    /\ g \in ready
    /\ ready' = ready \ {g}
    /\ IF g = network_change_generation /\ net \notin Dead
       THEN network_change_waiting' = FALSE /\ last_known_ip' = net /\ Trigger(TRUE)
       ELSE UNCHANGED <<network_change_waiting, last_known_ip, checkVars>>
    /\ UNCHANGED <<env, events, loginVars, network_change_generation, last_network_state,
                   is_in_background, idleVars, outside>>

\* An address has been found, or ten attempts have found none.
Ready(g) ==
    /\ g \in ready
    /\ ready' = ready \ {g}
    /\ IF g = network_change_generation
       THEN network_change_waiting' = FALSE /\ last_known_ip' = net /\ Trigger(TRUE)
       ELSE UNCHANGED <<network_change_waiting, last_known_ip, checkVars>>
    /\ UNCHANGED <<env, events, loginVars, network_change_generation, last_network_state,
                   is_in_background, idleVars, outside>>

\* The loop goes on past its first tests.
Ticks == ~manual_login_in_progress /\ ~network_change_waiting

ServesPendingByCountdown ==      \* variant: the check that serves it is the ordinary one
    /\ Ticks /\ ~is_checking /\ pending_full_check
    /\ Trigger(~is_in_background)
    /\ UNCHANGED <<env, events, loginVars, changeVars, last_network_state, last_known_ip,
                   is_in_background, idleVars, outside>>

ServesPending ==
    /\ Ticks /\ ~is_checking /\ pending_full_check
    /\ Trigger(TRUE)
    /\ UNCHANGED <<env, events, loginVars, changeVars, last_network_state, last_known_ip,
                   is_in_background, idleVars, outside>>

\* The poll of the local address; the first one only records it.
PollsAddress ==
    /\ Ticks /\ (is_checking \/ ~pending_full_check)
    /\ last_known_ip # net
    /\ last_known_ip' = net
    /\ IF last_known_ip = NoNetwork
       THEN UNCHANGED <<phase, changeVars, last_network_state, idleVars>>
       ELSE Schedule(phase) /\ ResetIdle
    /\ UNCHANGED <<env, events, is_checking, pending_full_check, context, overtaken, loginVars,
                   is_in_background, outside>>

Resumes ==
    /\ Ticks /\ ~is_checking /\ ~pending_full_check
    /\ ~is_in_background /\ is_suspended
    /\ ResetIdle
    /\ Trigger(TRUE)
    /\ UNCHANGED <<env, events, loginVars, changeVars, last_network_state, last_known_ip,
                   is_in_background, outside>>

\* The countdown has reached zero.
CountsDown ==
    /\ Ticks /\ ~is_checking /\ ~pending_full_check
    /\ ~is_suspended
    /\ Trigger(~is_in_background)
    /\ UNCHANGED <<env, events, loginVars, changeVars, last_network_state, last_known_ip,
                   is_in_background, idleVars, outside>>

\* More than 20 seconds passed between two ticks.
Wakes ==
    /\ Event
    /\ is_suspended' = FALSE
    /\ Schedule(phase)
    /\ UNCHANGED <<env, is_checking, pending_full_check, context, overtaken, loginVars,
                   last_known_ip, is_in_background, non_campus_count, outside>>

LoopStep == ServesPending \/ PollsAddress \/ Resumes \/ CountsDown

-----------------------------------------------------------------------------
(* The user and the environment. *)

\* The platform may or may not notify the app of it (Notified).
NetworkChanges ==
    /\ Event
    /\ net' \in Networks \ {net}
    /\ session' = FALSE
    /\ UNCHANGED <<checkVars, loginVars, changeVars, last_network_state, last_known_ip,
                   is_in_background, idleVars, outside>>

SessionExpires ==
    /\ Event
    /\ session /\ session' = FALSE
    /\ UNCHANGED <<net, checkVars, loginVars, changeVars, last_network_state, last_known_ip,
                   is_in_background, idleVars, outside>>

\* notify_network_change
Notified ==
    /\ Event
    /\ ResetIdle
    /\ Schedule(phase)
    /\ UNCHANGED <<env, is_checking, pending_full_check, context, overtaken, loginVars,
                   last_known_ip, is_in_background, outside>>

\* trigger_manual_check
RequestsCheck ==
    /\ Event
    /\ ResetIdle
    /\ Trigger(TRUE)
    /\ UNCHANGED <<env, loginVars, changeVars, last_network_state, last_known_ip,
                   is_in_background, outside>>

Hides ==
    /\ Event
    /\ ~is_in_background /\ is_in_background' = TRUE
    /\ UNCHANGED <<env, checkVars, loginVars, changeVars, last_network_state, last_known_ip,
                   idleVars, outside>>

\* show_main_window: a full check follows
Shows ==
    /\ Event
    /\ is_in_background /\ is_in_background' = FALSE
    /\ Trigger(TRUE)
    /\ UNCHANGED <<env, loginVars, changeVars, last_network_state, last_known_ip, idleVars, outside>>

Tray(p, n) == [tray |-> p, trayNet |-> n, logout |-> outside.logout, logoutNet |-> outside.logoutNet]

Logout(p, n) == [tray |-> outside.tray, trayNet |-> outside.trayNet, logout |-> p, logoutNet |-> n]

\* tray_manual_login
TrayBegins ==
    /\ OutsideLock /\ Event
    /\ outside.tray = "idle"
    /\ outside' = Tray("detecting", net)
    /\ UNCHANGED <<env, checkVars, loginVars, changeVars, last_network_state, last_known_ip,
                   is_in_background, idleVars>>

TraySubmits ==
    /\ outside.tray = "detecting"
    /\ \/ net = outside.trayNet /\ outside' = [outside EXCEPT !.tray = "sent"]
       \/ outside' = Tray("idle", NoNetwork)
    /\ UNCHANGED <<env, events, checkVars, loginVars, changeVars, last_network_state, last_known_ip,
                   is_in_background, idleVars>>

TrayAnswered ==
    /\ outside.tray = "sent"
    /\ outside' = Tray("idle", NoNetwork)
    /\ \E answer \in {"accepted", "rejected", "unknown"} :
          /\ session' \in SessionAfter(answer, outside.trayNet)
          /\ IF answer = "accepted" THEN Trigger(TRUE) ELSE UNCHANGED checkVars
    /\ UNCHANGED <<net, events, loginVars, changeVars, last_network_state, last_known_ip,
                   is_in_background, idleVars>>

\* logout_current_campus_session
LogoutSubmits ==
    /\ OutsideLock /\ Event
    /\ outside.logout = "idle" /\ net \in Campus /\ ~is_in_background
    /\ outside' = Logout("sent", net)
    /\ UNCHANGED <<env, checkVars, loginVars, changeVars, last_network_state, last_known_ip,
                   is_in_background, idleVars>>

LogoutAnswered ==
    /\ outside.logout = "sent"
    /\ outside' = Logout("idle", NoNetwork)
    /\ \/ /\ session' = (session /\ net # outside.logoutNet)
          /\ Publish("BjutCampus", outside.logoutNet)
       \/ /\ session' \in {session, session /\ net # outside.logoutNet}
          /\ UNCHANGED last_network_state
    /\ UNCHANGED <<net, events, checkVars, loginVars, changeVars, last_known_ip,
                   is_in_background, idleVars>>

OutsideStep == TraySubmits \/ TrayAnswered \/ LogoutAnswered

Environment ==
    \/ ManualBegins \/ Wakes \/ NetworkChanges \/ SessionExpires \/ Notified \/ RequestsCheck
    \/ Hides \/ Shows \/ TrayBegins \/ LogoutSubmits
    \/ \E c \in Checks : RouteFails(c)

Next ==
    \/ \E c \in Checks : CheckStep(c)
    \/ ManualStep
    \/ \E g \in ready : Ready(g)
    \/ LoopStep
    \/ OutsideStep
    \/ Environment

\* Every task of the runtime goes on, and the loop ticks for ever.  The poll of
\* the address is not fair: config.wifi_change_detect may switch it off.
Fairness ==
    /\ \A c \in Checks : WF_vars(CheckStep(c))
    /\ WF_vars(ManualStep)
    /\ WF_vars(\E g \in ready : Ready(g))
    /\ WF_vars(ServesPending) /\ WF_vars(Resumes) /\ WF_vars(CountsDown)
    /\ WF_vars(OutsideStep)

Spec == Init /\ [][Next]_vars
FairSpec == Spec /\ Fairness

-----------------------------------------------------------------------------
(* Safety. *)

\* is_checking is set exactly while one check task is alive: a flag left behind
\* would stop every later check, one cleared early would let two run.
CheckFlagExact ==
    /\ is_checking <=> \E c \in Checks : Live(c)
    /\ \A c, d \in Checks : Live(c) /\ Live(d) => c = d

ManualRequests == manual.phase \in {"loggingOut", "sent"}

\* No login or logout request of a check is under way while one of the manual
\* login is: both sides send only under login_request_lock.
RequestsSerialized ==
    \A c \in Checks : phase[c] = "sent" => ~ManualRequests

\* A check that finds the lock taken by somebody else is superseded, so that it
\* may go on without another look at the network when it gets the lock.
WaitersAreSuperseded ==
    \A c \in Checks : phase[c] = "waitLock" /\ login_request_lock # "free" => Superseded(c)

\* While the loop pauses for a network change, the task of the latest change is
\* there to end the pause: otherwise no check would ever start again.
WaitingHasTask == network_change_waiting => network_change_generation \in ready

\* A check that was triggered before the end of a manual login never submits
\* credentials after the login has begun (the comment at trigger_network_check).
OvertakenNeverSubmits ==
    [][\A c \in Checks : c \in overtaken /\ phase[c] # "sent" => phase'[c] # "sent"]_vars

\* Nor does it report that a login is needed, or has failed, over a newer result,
\* once it has come to look at the network.  Before that, one whose Wi-Fi could
\* not be bound does report it, against that comment: no test stands between.
OvertakenEnds(c) == c \in overtaken /\ Live(c) /\ phase'[c] = "idle"
OvertakenNeverReports ==
    [][\A c \in Checks :
          OvertakenEnds(c) /\ phase[c] # "binding" /\ last_network_state'.state = "BjutCampus"
             => UNCHANGED last_network_state]_vars

\* The rest of that comment: it does not overwrite the newer result.  The manual
\* login has published one when it has logged the old account out.
NewerResultStands ==
    [][\A c \in Checks :
          OvertakenEnds(c) /\ manual.phase = "converging" /\ last_network_state'.state # "Checking"
             => UNCHANGED last_network_state]_vars

-----------------------------------------------------------------------------
(* Liveness. *)

\* A full check that came while another check ran is served: a check that is full
\* begins to look at the network, or is about to and meets a manual login, the
\* only thing that makes it give up.  It outlives the check it met and any login
\* that comes before it is triggered, and is not replaced by a lesser check.
Served(c) ==
    /\ context[c].full
    /\ \/ phase[c] \in {"binding", "probing"}
       \/ phase[c] = "spawned" /\ manual_login_in_progress
FullCheckServed == pending_full_check ~> \E c \in Checks : Served(c)

\* Once nothing happens any more the state shown is true of the network the
\* machine is on, unless checks are suspended in the background.
ShownIsTrue ==
    \/ is_in_background /\ is_suspended
    \/ /\ last_network_state.net = net
       /\ last_network_state.state = "Online" <=> Online(net, session)
EventuallyTrue == <>[]ShownIsTrue

=============================================================================
