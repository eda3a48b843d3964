----------------------------- MODULE DeviceUsage -----------------------------
(***************************************************************************)
(* The sampling of an account's traffic counters (device_usage.rs) and the *)
(* history of the differences (usage_history.rs): one account, one of its  *)
(* devices on one interface.  The loop reads the configuration, samples,   *)
(* looks at the configuration again and only then records; the window      *)
(* changes the configuration at any point in between.                      *)
(***************************************************************************)
EXTENDS Integers

CONSTANTS
    Gap,                            \* 180: a longer time between two samples is a gap, not usage
    Scopes,                         \* traffic_monitor_scope: "all", "local"
    MaxUsed, MaxAge, MaxPasswords, MaxSaves   \* bounds

VARIABLES
    enabled, scope, password, saves,    \* the configuration, and how often it was changed
    saving,                 \* a save has written the configuration and not yet paused the history
    used, changed,          \* the school's counter; the network has changed since the loop looked
    next, failed, stamp,    \* AccountUsage: next_attempt, error, credential_stamp (0: none)
    baseline, counted,      \* History: the baseline of the device; the usage its rows were given since the last pause
    loop,                   \* the sampling loop
    first, high             \* ghosts: the first and the highest counter seen since the history was paused

config == <<enabled, scope, password, saves>>
item == <<next, failed, stamp>>
history == <<baseline, counted, first, high>>
usageVars == <<config, saving, used, changed, item, history, loop>>

None == -1
NoBaseline == [age |-> 0, used |-> None]
Resting == [step |-> "rest", paused |-> TRUE, scope |-> "none", password |-> 0, used |-> None, answer |-> "none"]
Answers == {"sample", "rejected", "failed"}

TypeOK ==
    /\ enabled \in BOOLEAN /\ scope \in Scopes /\ password \in 0 .. MaxPasswords /\ saves \in 0 .. MaxSaves
    /\ saving \in {"no", "interrupt", "pause"} /\ used \in 0 .. MaxUsed /\ changed \in BOOLEAN
    /\ next \in {"now", "later", "never"} /\ failed \in BOOLEAN /\ stamp \in 0 .. MaxPasswords
    /\ baseline \in [age : 0 .. MaxAge, used : None .. MaxUsed] /\ counted \in 0 .. MaxUsed
    /\ loop \in [step : {"rest", "sample", "check", "record"}, paused : BOOLEAN, scope : Scopes \cup {"none"},
                 password : 0 .. MaxPasswords, used : None .. MaxUsed, answer : Answers \cup {"none"}]
    /\ first \in None .. MaxUsed /\ high \in None .. MaxUsed

Init ==
    /\ enabled = FALSE /\ scope = "local" /\ password \in 0 .. 1 /\ saves = 0 /\ saving = "no"
    /\ used = 0 /\ changed = FALSE /\ next = "now" /\ failed = FALSE /\ stamp = 0
    /\ baseline = NoBaseline /\ counted = 0 /\ loop = Resting /\ first = None /\ high = None

-----------------------------------------------------------------------------
(* The window and the school *)

Pause == baseline' = NoBaseline /\ counted' = 0 /\ first' = None /\ high' = None

\* save_config: a change of the switch or of the scope interrupts the sampling and pauses the history,
\* each after the configuration is already written.
Save ==
    /\ saving = "no" /\ saves < MaxSaves /\ saves' = saves + 1
    /\ \/ enabled' = ~enabled /\ UNCHANGED <<scope, password>> /\ saving' = "interrupt"
       \/ scope' \in Scopes \ {scope} /\ UNCHANGED <<enabled, password>> /\ saving' = "interrupt"
       \/ password < MaxPasswords /\ password' = password + 1 /\ UNCHANGED <<enabled, scope, saving>>
    /\ UNCHANGED <<used, changed, item, history, loop>>

Interrupted == loop' = IF loop.step = "sample" THEN [loop EXCEPT !.step = "rest"] ELSE loop

SaveInterrupts ==
    /\ saving = "interrupt" /\ saving' = "pause" /\ Interrupted
    /\ UNCHANGED <<config, used, changed, item, history>>

SavePauses ==
    /\ saving = "pause" /\ saving' = "no" /\ Pause /\ next' = "now"
    /\ UNCHANGED <<config, used, changed, failed, stamp, loop>>

\* account_changed, after a login or a logout of the account; other requests of the user only interrupt.
AccountChanged ==
    /\ Interrupted
    /\ \/ enabled /\ next' = "now" /\ failed' = FALSE
       \/ UNCHANGED <<next, failed>>
    /\ UNCHANGED <<config, saving, used, changed, stamp, history>>

Grows == used < MaxUsed /\ used' = used + 1
         /\ UNCHANGED <<config, saving, changed, item, history, loop>>

NetworkChanges ==
    /\ loop.step # "rest" /\ changed' = TRUE
    /\ UNCHANGED <<config, saving, used, item, history, loop>>

Later ==
    /\ next' = IF next = "later" THEN "now" ELSE next
    /\ baseline' = IF baseline.used = None \/ baseline.age = MaxAge THEN baseline ELSE [baseline EXCEPT !.age = @ + 1]
    /\ UNCHANGED <<config, saving, used, changed, failed, stamp, counted, first, high, loop>>

-----------------------------------------------------------------------------
(* The loop *)

\* A second has passed and monitoring is off, or its scope is another than that of the last round: a
\* new history begins.  The first round after a start always pauses.
Pauses == ~enabled \/ loop.scope # scope \/ loop.paused

RoundPauses ==
    /\ loop.step = "rest" /\ Pauses /\ Pause
    /\ loop' = [loop EXCEPT !.scope = scope, !.paused = ~enabled]
    /\ UNCHANGED <<config, saving, used, changed, item>>

\* due: the round's common time takes every account without an error along, an error waits on its own.
Due == password # 0 /\ (next = "now" \/ ~failed)

\* A round takes the configuration as it is; another password than the last makes the account due.
RoundBegins ==
    LET fresh == stamp # password IN
    /\ loop.step = "rest" /\ ~Pauses
    /\ next' = IF fresh THEN "now" ELSE next
    /\ stamp' = password
    /\ IF password # 0 /\ (fresh \/ Due)
       THEN loop' = [loop EXCEPT !.step = "sample", !.password = password] /\ changed' = FALSE
       ELSE UNCHANGED <<loop, changed>>
    /\ UNCHANGED <<config, saving, used, failed, history>>

\* sample_account: the school answers with a counter, that may be an older one, or does not.
Sample ==
    /\ loop.step = "sample"
    /\ \/ \E seen \in 0 .. used : loop' = [loop EXCEPT !.step = "check", !.answer = "sample", !.used = seen]
       \/ \E answer \in Answers \ {"sample"} : loop' = [loop EXCEPT !.step = "check", !.answer = answer]
    /\ UNCHANGED <<config, saving, used, changed, item, history>>

Stale == ~enabled \/ scope # loop.scope \/ password # loop.password

CheckAgain ==
    /\ loop.step = "check"
    /\ loop' = [loop EXCEPT !.step = IF Stale THEN "rest" ELSE "record"]
    /\ UNCHANGED <<config, saving, used, changed, item, history>>

HighForgotten(seen) == seen        \* variant: the baseline is the last counter seen

\* A lower, older counter does not lower the baseline: its recovery is not usage again.
High(seen) == IF baseline.used > seen THEN baseline.used ELSE seen

\* observe_with_retention.
Observe(seen) ==
    /\ counted' = IF baseline.used # None /\ baseline.age \in 1 .. Gap /\ seen >= baseline.used
                  THEN counted + seen - baseline.used ELSE counted
    /\ baseline' = [age |-> 0, used |-> High(seen)]
    /\ first' = IF first = None THEN seen ELSE first
    /\ high' = IF seen > high THEN seen ELSE high

\* The answer is recorded; of a device of another interface than this computer's only in scope "all".
Record ==
    /\ loop.step = "record" /\ loop' = [loop EXCEPT !.step = "rest"]
    /\ stamp' = loop.password
    /\ CASE changed -> next' = "later" /\ failed' = TRUE /\ UNCHANGED history
         [] ~changed /\ loop.answer = "sample" ->
              /\ next' = "later" /\ failed' = FALSE
              /\ Observe(loop.used) \/ (loop.scope = "local" /\ UNCHANGED history)
         [] ~changed /\ loop.answer = "rejected" -> next' = "never" /\ failed' = TRUE /\ UNCHANGED history
         [] OTHER -> next' = "later" /\ failed' = TRUE /\ UNCHANGED history
    /\ UNCHANGED <<config, saving, used, changed>>

\* The program ends and starts: the stored history is loaded, deadlines and passwords are not kept.
Restart ==
    /\ saving = "no" /\ loop' = Resting /\ next' = "now" /\ stamp' = 0
    /\ UNCHANGED <<config, saving, used, changed, failed, history>>

UsageNext ==
    \/ Save \/ SaveInterrupts \/ SavePauses \/ AccountChanged \/ Grows \/ NetworkChanges \/ Later
    \/ RoundPauses \/ RoundBegins \/ Sample \/ CheckAgain \/ Record \/ Restart

Spec == Init /\ [][UsageNext]_usageVars

-----------------------------------------------------------------------------
(* Properties *)

\* However late, low or old the counters are that the school shows, the usage that is recorded between
\* two pauses is never more than what the counter grew by (observe_with_retention).
CountedOnce == counted = 0 \/ counted <= high - first

=============================================================================
