----------------------------- MODULE MCNetwork -----------------------------
(***************************************************************************)
(* What the application does on a network, for TLC: the probes, their      *)
(* transport, the schedule of checks and the networks that are trusted.    *)
(* These models share no state, so they are checked side by side as in     *)
(* MCServices: part names the one that moves in a behaviour, the others    *)
(* rest in one of their initial states.                                    *)
(***************************************************************************)
EXTENDS ProbePool, TLC

CONSTANTS
    Targets, Servers, Addresses, Direct,    \* LinkProbe
    Interfaces, MaxObserved,                \* AdaptiveSchedule
    TrustNetworks                           \* NetworkTrust

VARIABLES
    part,
    adapter, configured, report, target, dns, error, address,
    schedule, plan, scheduleGeneration, ending, observed, asked,
    here, lists, window, saving, question, check, login, decided, undone

linkVars == <<adapter, configured, report, target, dns, error, address>>
scheduleVars == <<schedule, plan, scheduleGeneration, ending, observed, asked>>
trustVars == <<here, lists, window, saving, question, check, login, decided, undone>>
allVars == <<part, vars, linkVars, scheduleVars, trustVars>>

\* The settings and states of the application that change the plan.
Foreground ==
    [has_link |-> TRUE, background |-> FALSE, mobile_data |-> FALSE, power_saving |-> FALSE, enabled |-> TRUE,
     configured |-> 60]
Background == [Foreground EXCEPT !.background = TRUE]
Settings ==
    {Foreground, Background, [Background EXCEPT !.has_link = FALSE], [Background EXCEPT !.power_saving = TRUE],
     [Background EXCEPT !.mobile_data = TRUE], [Background EXCEPT !.enabled = FALSE]}

\* A wireless network of the dormitories, which the rules know for one kind of login and not for another, and two wired
\* ones, which have one key for both.
CampusNetworks ==
    {[name |-> "dormitory", transport |-> "wifi", usable |-> TRUE, campus |-> TRUE, looks |-> "dormitory"],
     [name |-> "office", transport |-> "ethernet", usable |-> FALSE, campus |-> TRUE, looks |-> "unknown"],
     [name |-> "home", transport |-> "ethernet", usable |-> FALSE, campus |-> FALSE, looks |-> "unknown"]}

ASSUME ScheduleAssumption == MaxObserved \in Nat
ASSUME TrustAssumption == \A n \in TrustNetworks : n.name \notin {"none", "|"}

Link == INSTANCE LinkProbe
Schedule == INSTANCE AdaptiveSchedule
Trust == INSTANCE NetworkTrust WITH Networks <- TrustNetworks

\* The families of a probe share nothing: one of them, or none, is there to be probed.
AllInit ==
    /\ part \in {"pool", "link", "schedule", "trust"}
    /\ Init /\ (part # "pool" => net = CHOOSE n \in Networks : TRUE)
    /\ Link!Init /\ (\E f \in Link!Families : ~configured[f]) /\ (part # "link" => ~adapter /\ \A f \in Link!Families : ~configured[f])
    /\ Schedule!ScheduleInit
    /\ Trust!TrustInit /\ (part # "trust" => here.name = "home")

AllNext ==
    /\ UNCHANGED part
    /\ IF part = "pool" THEN Next ELSE UNCHANGED vars
    /\ IF part = "link" THEN Link!Next ELSE UNCHANGED linkVars
    /\ IF part = "schedule" THEN Schedule!ScheduleNext ELSE UNCHANGED scheduleVars
    /\ IF part = "trust" THEN Trust!TrustNext ELSE UNCHANGED trustVars

AllSpec == AllInit /\ [][AllNext]_allVars

Alike == Permutations(Observers) \cup Permutations(Networks)

-----------------------------------------------------------------------------
\* Every variable of the component that moves keeps its type.
AllTypeOK ==
    CASE part = "pool" -> TypeOK
      [] part = "link" -> Link!TypeOK
      [] part = "schedule" -> Schedule!ScheduleTypeOK
      [] part = "trust" -> Trust!TrustTypeOK

\* The probe of a family and the request of a target both implement the abstract race: the first success wins
\* and only the failure of all loses (LinkProbe, Race).
LinkRaces == (part = "link" => Link!RacesBegin) /\ [][part = "link" => Link!RaceStep]_allVars

\* The plan follows from the row of like results at the end of the history (AdaptiveSchedule).
PlanFollowsTheStreak == Schedule!PlanFollowsTheStreak

\* A password is sent only on a network the user trusts or has not rejected, as the run knows it (NetworkTrust).
OnlyWithConsent == Trust!OnlyWithConsent
=============================================================================
