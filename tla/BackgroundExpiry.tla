-------------------------- MODULE BackgroundExpiry --------------------------
(***************************************************************************)
(* The end of billing sessions after fifteen minutes in the background     *)
(* (update_billing_background_lifecycle in lib.rs).  The window reports    *)
(* when it leaves and returns; showing the window and starting a check     *)
(* write the same flag without a report.                                   *)
(***************************************************************************)
EXTENDS Naturals, FiniteSets

CONSTANTS
    Limit,              \* fifteen minutes
    MaxGeneration       \* bound: reports that changed the flag

VARIABLES
    background,         \* is_in_background
    hidden,             \* what app_is_in_background sees
    generation,         \* billing_session_expiry_generation
    timers,             \* the tasks that wait: generation and age; history: whether a return was reported since, and
                        \* whether the flag was cleared, and then set again, without a report since
    clearing,           \* a task found its stay over and waits for the WebVPN manager
    sessions, webvpn    \* there are billing sessions; there is a WebVPN session

expiryVars == <<background, hidden, generation, timers, clearing, sessions, webvpn>>

Timer == [generation : 1 .. MaxGeneration, age : 0 .. Limit, returned : BOOLEAN, silent : {"no", "cleared", "set"}]

ExpiryTypeOK ==
    /\ background \in BOOLEAN /\ hidden \in BOOLEAN /\ generation \in 0 .. MaxGeneration
    /\ timers \subseteq Timer /\ clearing \subseteq Timer /\ sessions \in BOOLEAN /\ webvpn \in BOOLEAN

ExpiryInit ==
    /\ background = FALSE /\ hidden = FALSE /\ generation = 0 /\ timers = {} /\ clearing = {}
    /\ sessions = FALSE /\ webvpn = FALSE

Returned == {[t EXCEPT !.returned = TRUE] : t \in timers}

\* set_background_state: a report that changes nothing starts and ends nothing.
Report(isBackground) ==
    /\ background' = isBackground
    /\ IF background = isBackground THEN UNCHANGED generation
       ELSE generation < MaxGeneration /\ generation' = generation + 1
    /\ timers' = IF ~isBackground THEN Returned
                 ELSE IF background THEN timers
                 ELSE timers \cup {[generation |-> generation', age |-> 0, returned |-> FALSE, silent |-> "no"]}
    /\ UNCHANGED <<hidden, clearing, sessions, webvpn>>

\* The window is hidden or shown, which it reports later.
Turns == hidden' = ~hidden /\ UNCHANGED <<background, generation, timers, clearing, sessions, webvpn>>

\* The flag is written without a report.
AfterWrite(silent, isBackground) ==
    CASE ~isBackground /\ silent = "no" -> "cleared" [] isBackground /\ silent = "cleared" -> "set" [] OTHER -> silent

Writes(isBackground) ==
    /\ background' = isBackground
    /\ timers' = IF background = isBackground THEN timers
                 ELSE {[t EXCEPT !.silent = AfterWrite(@, isBackground)] : t \in timers}

\* frontend_ready.
Show == hidden' = FALSE /\ Writes(FALSE) /\ UNCHANGED <<generation, clearing, sessions, webvpn>>

\* trigger_network_check: on Windows the state of the window counts, elsewhere also the flag itself.
Check ==
    /\ \E isBackground \in {hidden, background \/ hidden} : Writes(isBackground)
    /\ UNCHANGED <<hidden, generation, clearing, sessions, webvpn>>

\* A billing command, only of a window in the foreground, leaves sessions behind.
Use ==
    /\ ~background /\ sessions' = TRUE /\ webvpn' \in {webvpn, TRUE}
    /\ UNCHANGED <<background, hidden, generation, timers, clearing>>

OverAnyStay(t) == background       \* variant: a later stay counts for the task of an earlier one

\* The stay that the task was made for is not over.
Over(t) == background /\ generation = t.generation

Fire(t) ==
    /\ t \in timers /\ t.age = Limit /\ timers' = timers \ {t}
    /\ IF Over(t) THEN sessions' = FALSE /\ clearing' = clearing \cup {t} ELSE UNCHANGED <<sessions, clearing>>
    /\ UNCHANGED <<background, hidden, generation, webvpn>>

\* The manager is free: whatever the window did meanwhile, its session is dropped.
ClearWebVpn(t) ==
    /\ t \in clearing /\ clearing' = clearing \ {t} /\ webvpn' = FALSE
    /\ UNCHANGED <<background, hidden, generation, timers, sessions>>

Minute ==
    /\ timers # {} /\ \A t \in timers : t.age < Limit
    /\ timers' = {[t EXCEPT !.age = @ + 1] : t \in timers}
    /\ UNCHANGED <<background, hidden, generation, clearing, sessions, webvpn>>

ExpiryNext ==
    \/ \E b \in BOOLEAN : Report(b)
    \/ Turns \/ Show \/ Check \/ Use \/ Minute
    \/ \E t \in timers : Fire(t)
    \/ \E t \in clearing : ClearWebVpn(t)

ExpirySpec == ExpiryInit /\ [][ExpiryNext]_expiryVars

\* Sessions are ended by the task of a stay that no reported return has interrupted: one that goes and
\* comes back does not lose them to the task of an earlier stay (update_billing_background_lifecycle).  It does
\* where the return found the flag cleared already, by the display of the window or by a check, and another check
\* set it again before the next stay was reported.
EndsItsOwnStay == \A t \in clearing : t.returned => t.silent = "set"
=============================================================================
