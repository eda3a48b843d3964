-------------------------- MODULE AdaptiveSchedule --------------------------
(***************************************************************************)
(* How often the network is checked (network_schedule.rs): each check that *)
(* ends tells what it found, and the plan for the next one follows from    *)
(* how often in a row the same network was found online or offline.        *)
(***************************************************************************)
EXTENDS Integers, Sequences, FiniteSets, SequencesExt

CONSTANTS
    Interfaces,          \* what identifies a network: an interface with its address
    Settings,            \* what a check may find besides, and what the user has set: records like NoSettings
    MaxObserved,         \* bound: checks that end between two resets
    MaxChanges           \* bound: network changes

VARIABLES
    schedule,            \* AdaptiveSchedule without its plan
    plan,
    scheduleGeneration,  \* network_change_generation
    ending,              \* a check that is about to end: its generation, or None
    observed, asked      \* ghosts: what checks found since the last reset, and the input of the last

scheduleVars == <<schedule, plan, scheduleGeneration, ending, observed, asked>>

None == -1
Unidentified == "unidentified"
Larger(a, b) == IF a > b THEN a ELSE b
Smaller(a, b) == IF a < b THEN a ELSE b

Found == [identity : Interfaces, online : BOOLEAN]
NoSettings == [has_link |-> FALSE, background |-> FALSE, mobile_data |-> FALSE, power_saving |-> FALSE,
               enabled |-> FALSE, configured |-> 15]

NewSchedule == [identity |-> Unidentified, online_count |-> 0, offline_count |-> 0]
NewPlan == [interval_seconds |-> 15, interface_poll_seconds |-> 3]

ScheduleTypeOK ==
    /\ schedule.identity \in Interfaces \cup {Unidentified}
    /\ schedule.online_count \in 0 .. MaxObserved /\ schedule.offline_count \in 0 .. MaxObserved
    /\ plan.interval_seconds \in Nat /\ plan.interface_poll_seconds \in {3, 15, 30}
    /\ scheduleGeneration \in 0 .. MaxChanges /\ ending \in None .. MaxChanges /\ Len(observed) <= MaxObserved

ScheduleInit ==
    /\ schedule = NewSchedule /\ plan = NewPlan /\ scheduleGeneration = 0 /\ ending = None
    /\ observed = <<>> /\ asked = NoSettings

-----------------------------------------------------------------------------
(* observe *)

CountedAnew(found) ==
    [identity |-> found.identity, online_count |-> IF found.online THEN 1 ELSE 0,
     offline_count |-> IF found.online THEN 0 ELSE 1]

AfterKept(found) ==        \* variant: a failure does not end the row of successes
    IF schedule.identity # found.identity THEN CountedAnew(found)
    ELSE IF found.online THEN [schedule EXCEPT !.online_count = @ + 1, !.offline_count = 0]
    ELSE [schedule EXCEPT !.offline_count = @ + 1]

\* Another identity begins anew; a success ends the row of failures and a failure that of successes.
After(found) ==
    IF schedule.identity # found.identity THEN CountedAnew(found)
    ELSE IF found.online THEN [schedule EXCEPT !.online_count = @ + 1, !.offline_count = 0]
    ELSE [schedule EXCEPT !.offline_count = @ + 1, !.online_count = 0]

\* The interval that successes and failures in a row call for.
Adapted(s, online_count, offline_count) ==
    LET base == Larger(s.configured, 5)
        slowed(times) == Smaller(base * times, Larger(base, 300))
    IN  CASE ~s.enabled -> base
          [] s.enabled /\ online_count >= 3 /\ s.background -> slowed(IF online_count >= 6 THEN 5 ELSE 2)
          [] s.enabled /\ offline_count \in 1 .. 3 /\ s.has_link -> Smaller(base, 5)
          [] s.enabled /\ offline_count > 0 /\ s.background /\ ~(s.has_link /\ offline_count <= 3) -> slowed(2)
          [] OTHER -> base

\* Saving power and mobile data have least intervals of their own.
Interval(s, online_count, offline_count) ==
    LET saving == IF s.enabled /\ s.power_saving THEN (IF s.background THEN 120 ELSE 60) ELSE 0
        mobile == IF s.mobile_data THEN (IF s.background THEN 300 ELSE 120) ELSE 0
    IN  Larger(Adapted(s, online_count, offline_count), Larger(saving, mobile))

Poll(s, online_count, offline_count) ==
    CASE s.mobile_data \/ (s.enabled /\ s.power_saving) -> 30
      [] ~(s.mobile_data \/ (s.enabled /\ s.power_saving)) /\ s.enabled /\ s.background
            /\ (online_count >= 3 \/ offline_count > 3) -> 15
      [] OTHER -> 3

PlanFor(s, online_count, offline_count) ==
    [interval_seconds |-> Interval(s, online_count, offline_count),
     interface_poll_seconds |-> Poll(s, online_count, offline_count)]

Observe(found, s) ==
    /\ Len(observed) < MaxObserved /\ schedule' = After(found)
    /\ plan' = PlanFor(s, schedule'.online_count, schedule'.offline_count)
    /\ observed' = Append(observed, found) /\ asked' = s

-----------------------------------------------------------------------------

Reset == schedule' = NewSchedule /\ plan' = NewPlan /\ observed' = <<>> /\ asked' = NoSettings

CheckBegins == ending = None /\ ending' = scheduleGeneration /\ UNCHANGED <<schedule, plan, scheduleGeneration, observed, asked>>

\* NetworkScheduleGuard::drop: a check of an earlier network, or one that a login overtook, tells nothing.
CheckEnds ==
    /\ ending # None /\ ending' = None /\ UNCHANGED scheduleGeneration
    /\ \/ ending = scheduleGeneration /\ \E found \in Found, s \in Settings : Observe(found, s)
       \/ UNCHANGED <<schedule, plan, observed, asked>>

\* schedule_network_change_readiness; trigger_manual_check only resets.
NetworkChange ==
    /\ scheduleGeneration < MaxChanges /\ scheduleGeneration' = scheduleGeneration + 1
    /\ Reset /\ UNCHANGED ending

ManualCheck == observed # <<>> /\ Reset /\ UNCHANGED <<scheduleGeneration, ending>>

ScheduleNext == CheckBegins \/ CheckEnds \/ NetworkChange \/ ManualCheck

ScheduleSpec == ScheduleInit /\ [][ScheduleNext]_scheduleVars

-----------------------------------------------------------------------------

\* How many of the last checks found the same as the very last one, on the same network.
Streak ==
    LET n == Len(observed) IN
    Cardinality({i \in 1 .. n : \A j \in i .. n : observed[j] = observed[n]})

\* The plan is the one that the row of like results at the end of the history calls for, whatever
\* networks and results came before it: one failure, another network, a reset or a network change
\* undoes every slowing down (observe, reset).
PlanFollowsTheStreak ==
    plan = IF observed = <<>> THEN NewPlan
           ELSE IF Last(observed).online THEN PlanFor(asked, Streak, 0) ELSE PlanFor(asked, 0, Streak)
=============================================================================
