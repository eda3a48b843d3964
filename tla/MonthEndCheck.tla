---------------------------- MODULE MonthEndCheck ----------------------------
(***************************************************************************)
(* The check of the last days of a month that warns when the balance does  *)
(* not cover the next package (schedule_month_end_check in lib.rs, the     *)
(* stamp file of month_end.rs), for one account.  Every look at the        *)
(* account's information may start it; the program may end at any point.   *)
(***************************************************************************)
EXTENDS Integers

CONSTANTS
    Spacing,                \* six hours between attempts
    Retry,                  \* fifteen minutes, after a payment was in the way
    DayLength,              \* the hours of a day
    MaxNow                  \* bound: time

VARIABLES
    hour,                   \* the time
    attempt, done,          \* usage_alert_history: the last attempt, the day of the last check
    stampAttempt, stampDay, \* the stamp file
    task,                   \* the check that runs
    alerts, networkChanged, \* the alerts are switched on; the network has changed since the check began
    billingBusy, campusBusy,\* a command of the user has the billing system; a payment has the portal
    allowed,                \* history: the earliest time of the next read of the billing system
    unstamped, lost         \* history: the last write of the stamp failed; the program ended then, with what it knew

memory == <<attempt, done>>
stampFile == <<stampAttempt, stampDay>>
world == <<alerts, networkChanged, billingBusy, campusBusy>>
history == <<allowed, unstamped, lost>>
monthVars == <<hour, memory, stampFile, task, world, history>>

Unknown == -100
NoTask == [step |-> "none", now |-> 0, day |-> 0]
Days == 0 .. MaxNow \div DayLength
Today == hour \div DayLength

MonthTypeOK ==
    /\ hour \in 0 .. MaxNow /\ attempt \in {Unknown} \cup (-Spacing .. MaxNow) /\ done \in Days \cup {Unknown}
    /\ stampAttempt \in {Unknown} \cup (-Spacing .. MaxNow) /\ stampDay \in Days \cup {Unknown}
    /\ task \in [step : {"none", "locking", "stamping", "plan", "campus", "balances", "stamp", "finish"},
                 now : 0 .. MaxNow, day : Days]
    /\ \A b \in {alerts, networkChanged, billingBusy, campusBusy, unstamped, lost} : b \in BOOLEAN

MonthInit ==
    /\ hour = 0 /\ attempt = Unknown /\ done = Unknown /\ stampAttempt = Unknown /\ stampDay = Unknown
    /\ task = NoTask /\ alerts \in BOOLEAN /\ networkChanged = FALSE /\ billingBusy = FALSE /\ campusBusy = FALSE
    /\ allowed = Unknown /\ unstamped = FALSE /\ lost = FALSE

-----------------------------------------------------------------------------

\* What the stamp file says is taken over while the memory knows of no attempt.
FromStamp == attempt = Unknown /\ stampAttempt # Unknown /\ stampAttempt <= hour
Attempt == IF FromStamp THEN stampAttempt ELSE attempt
Done == IF FromStamp THEN stampDay ELSE done

Waits == Done = Today \/ (Attempt # Unknown /\ hour - Attempt < Spacing)

\* A look at the account's information: the attempt is noted before anything else is done.
Schedule ==
    /\ alerts /\ task = NoTask /\ done' = Done     \* a check takes a minute: the next finds it ended
    /\ IF Waits THEN attempt' = Attempt /\ UNCHANGED task
       ELSE attempt' = hour /\ task' = [step |-> "locking", now |-> hour, day |-> Today]
    /\ UNCHANGED <<hour, stampFile, world, history>>

Goes(step) == task' = [task EXCEPT !.step = step]
Stops == task' = NoTask

\* A command of the user goes first; the attempt is taken back.
Lock ==
    /\ task.step = "locking"
    /\ IF billingBusy THEN attempt' = Unknown /\ Stops ELSE Goes("stamping") /\ UNCHANGED attempt
    /\ UNCHANGED <<hour, done, stampFile, world, history>>

\* save_stamp: a write that fails is not told, and the check goes on.
Stamp(at, day) ==
    /\ \/ stampAttempt' = at /\ stampDay' = day /\ unstamped' = FALSE
       \/ UNCHANGED stampFile /\ unstamped' = TRUE
    /\ UNCHANGED lost

\* The attempt is written before the billing system is asked.
SaveAttempt ==
    /\ task.step = "stamping" /\ Goes("plan") /\ Stamp(task.now, Unknown) /\ networkChanged' = FALSE
    /\ UNCHANGED <<hour, memory, alerts, billingBusy, campusBusy, allowed>>

\* The package of the next month: there is one, the account has none, or no answer.
ReadPlan ==
    /\ task.step = "plan" /\ allowed' = task.now + Spacing /\ lost' = FALSE
    /\ \/ Goes("campus") \/ Goes("stamp") \/ Stops
    /\ UNCHANGED <<hour, memory, stampFile, world, unstamped>>

\* A payment is under way: the next attempt comes sooner.
FindPortal ==
    /\ task.step = "campus"
    /\ IF ~campusBusy THEN Goes("balances") /\ UNCHANGED <<attempt, stampFile, history>>
       ELSE LET again == task.now - Spacing + Retry IN
            attempt' = again /\ Stamp(again, Unknown) /\ allowed' = task.now + Retry /\ Stops
    /\ UNCHANGED <<hour, done, world>>

\* The balance, and whether the answer is still of this network and still asked for.
ReadBalances ==
    /\ task.step = "balances"
    /\ \/ ~networkChanged /\ alerts /\ Goes("stamp")
       \/ Stops
    /\ UNCHANGED <<hour, memory, stampFile, world, history>>

\* The check is written before it is told.
SaveDone ==
    /\ task.step = "stamp" /\ Goes("finish") /\ Stamp(task.now, task.day)
    /\ UNCHANGED <<hour, memory, world, allowed>>

Finish ==
    /\ task.step = "finish" /\ Stops /\ done' = task.day
    /\ allowed' = IF allowed > (task.day + 1) * DayLength THEN allowed ELSE (task.day + 1) * DayLength
    /\ UNCHANGED <<hour, attempt, stampFile, world, unstamped, lost>>

-----------------------------------------------------------------------------

ForgetsUnstamped ==      \* variant: a start with an unfinished attempt on disk begins anew
    attempt' = Unknown /\ done' = Unknown /\ (IF stampDay = Unknown THEN stampAttempt' = Unknown ELSE UNCHANGED stampAttempt)

\* What a start knows.
Forgets == attempt' = Unknown /\ done' = Unknown /\ UNCHANGED stampAttempt

Restart ==
    /\ Stops /\ Forgets /\ lost' = (lost \/ unstamped)
    /\ UNCHANGED <<hour, stampDay, world, allowed, unstamped>>

Passes ==
    /\ hour < MaxNow /\ hour' = hour + 1
    /\ UNCHANGED <<memory, stampFile, task, world, history>>

World ==
    /\ alerts' \in BOOLEAN /\ networkChanged' \in {networkChanged, TRUE}
    /\ billingBusy' \in BOOLEAN /\ campusBusy' \in BOOLEAN
    /\ UNCHANGED <<hour, memory, stampFile, task, history>>

MonthNext ==
    \/ Schedule \/ Lock \/ SaveAttempt \/ ReadPlan \/ FindPortal \/ ReadBalances \/ SaveDone \/ Finish
    \/ Restart \/ Passes \/ World

MonthSpec == MonthInit /\ [][MonthNext]_monthVars

-----------------------------------------------------------------------------

\* The billing system is asked again only six hours after the attempt before, fifteen minutes after one
\* that a payment was in the way of, and on another day after a check that was told, also when the
\* program ended in between at whatever point (schedule_month_end_check): unless it ended after the last write
\* of the stamp had failed, which save_stamp ignores, and then for one attempt.
ReadsAreSpaced == [][ReadPlan => hour >= allowed \/ lost]_monthVars
=============================================================================
