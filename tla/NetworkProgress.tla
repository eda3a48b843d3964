-------------------------- MODULE NetworkProgress --------------------------
(***************************************************************************)
(* The progress of a network check on display (network_progress.rs).       *)
(* Checks and the tasks that wait for an address after a network change    *)
(* each hold a Run, the number and generation under which they may publish *)
(* to the one display.  Begin, the test of the generation and the update   *)
(* of the display are steps of their own, since other threads run between  *)
(* them; what decides whether a check begins is kept from lib.rs.          *)
(***************************************************************************)
EXTENDS Integers, FiniteSets

CONSTANTS
    Checks,         \* check tasks that may exist at the same time
    MaxChanges,     \* bound: network changes
    MaxLogins       \* bound: manual logins

ASSUME ProgressAssumption == IsFiniteSet(Checks) /\ MaxChanges \in Nat /\ MaxLogins \in Nat

VARIABLES
    network_change_generation,
    display,                        \* Control: the progress shown
    is_checking, pending_full_check, manual_login_in_progress, network_change_waiting,
    logins,                         \* manual logins the user may still begin
    change,                         \* generations of changes whose Run has not begun yet
    ready,                          \* Runs of the tasks that wait for an address
    check                           \* check -> where it is and its Run

flags == <<is_checking, pending_full_check, manual_login_in_progress, network_change_waiting>>
vars == <<network_change_generation, display, flags, logins, change, ready, check>>

Generations == 0 .. MaxChanges
\* Numbers are told apart by the Runs that hold them: one per holder and one on display.
Ids == 1 .. Cardinality(Checks) + MaxChanges + 2
Run == [id : Ids \cup {0}, generation : Generations]
NoRun == [id |-> 0, generation |-> 0]
CheckPhase == {"idle", "spawned", "captured", "running", "ending", "dropping"}

TypeOK ==
    /\ network_change_generation \in Generations
    /\ display \in [id : Ids \cup {0}, generation : Generations, complete : BOOLEAN]
    /\ is_checking \in BOOLEAN /\ pending_full_check \in BOOLEAN
    /\ manual_login_in_progress \in BOOLEAN /\ network_change_waiting \in BOOLEAN
    /\ logins \in 0 .. MaxLogins /\ change \subseteq Generations
    /\ ready \subseteq [run : Run, phase : {"waiting", "found"}]
    /\ check \in [Checks -> [phase : CheckPhase, run : Run]]

Init ==
    /\ network_change_generation = 0
    /\ display = [id |-> 0, generation |-> 0, complete |-> TRUE]
    /\ is_checking = FALSE /\ pending_full_check = FALSE
    /\ manual_login_in_progress = FALSE /\ network_change_waiting = FALSE
    /\ logins = MaxLogins /\ change = {} /\ ready = {} /\ check = [c \in Checks |-> [phase |-> "idle", run |-> NoRun]]

-----------------------------------------------------------------------------
(* Control *)

Held == {display.id} \cup {check[c].run.id : c \in Checks} \cup {r.run.id : r \in ready}
Fresh == CHOOSE i \in Ids : i \notin Held

ShownAt(i, generation) == [id |-> i, generation |-> generation, complete |-> FALSE]

NewerShown(generation) == display.id # 0 /\ display.generation > generation

\* The Run given to whoever begins: its own number, or that of the newer progress on display.
Begun(generation) ==
    [id |-> IF NewerShown(generation) THEN display.id ELSE Fresh, generation |-> generation]

Begin(generation) ==
    display' = IF NewerShown(generation) THEN display ELSE ShownAt(Fresh, generation)

Holds(run) == display.id = run.id /\ display.generation = run.generation /\ ~display.complete

\* update(.., complete = true); the messages and percentages of phase() change nothing else.
Complete(run) ==
    display' = IF Holds(run) THEN [display EXCEPT !.complete = TRUE] ELSE display

Current(run) == run.generation = network_change_generation

-----------------------------------------------------------------------------
(* Network changes *)

Changes ==
    /\ network_change_generation < MaxChanges
    /\ network_change_generation' = network_change_generation + 1
    /\ change' = change \cup {network_change_generation'}
    /\ UNCHANGED <<display, flags, logins, ready, check>>

ChangeBegins(g) ==
    /\ g \in change /\ change' = change \ {g}
    /\ Begin(g) /\ ready' = ready \cup {[run |-> Begun(g), phase |-> "waiting"]}
    /\ network_change_waiting' = TRUE
    /\ UNCHANGED <<network_change_generation, logins, is_checking, pending_full_check,
                   manual_login_in_progress, check>>

-----------------------------------------------------------------------------
(* Checks *)

Trigger(full) ==
    IF is_checking
    THEN pending_full_check' = (pending_full_check \/ full) /\ UNCHANGED <<is_checking, check>>
    ELSE \E c \in Checks :
            /\ check[c].phase = "idle"
            /\ is_checking' = TRUE /\ pending_full_check' = (pending_full_check /\ ~full)
            /\ check' = [check EXCEPT ![c].phase = "spawned"]

Spawned(c) ==
    /\ check[c].phase = "spawned"
    /\ is_checking' = ~manual_login_in_progress
    /\ check' = [check EXCEPT ![c].phase = IF manual_login_in_progress THEN "idle" ELSE "captured",
                              ![c].run.generation = IF manual_login_in_progress THEN 0
                                                    ELSE network_change_generation]
    /\ UNCHANGED <<network_change_generation, logins, display, pending_full_check, manual_login_in_progress,
                   network_change_waiting, change, ready>>

CheckBegins(c) ==
    LET g == check[c].run.generation IN
    /\ check[c].phase = "captured"
    /\ Begin(g) /\ check' = [check EXCEPT ![c] = [phase |-> "running", run |-> Begun(g)]]
    /\ UNCHANGED <<network_change_generation, logins, flags, change, ready>>

\* Every return of the check clears is_checking before it drops its Run.
CheckEnds(c) ==
    /\ check[c].phase = "running"
    /\ is_checking' = FALSE /\ check' = [check EXCEPT ![c].phase = "ending"]
    /\ UNCHANGED <<network_change_generation, logins, display, pending_full_check, manual_login_in_progress,
                   network_change_waiting, change, ready>>

Dropped(c) ==
    /\ check[c].phase = "ending"
    /\ check' = [check EXCEPT ![c] =
           IF Current(@.run) THEN [@ EXCEPT !.phase = "dropping"]
           ELSE [phase |-> "idle", run |-> NoRun]]
    /\ UNCHANGED <<network_change_generation, logins, display, flags, change, ready>>

Finishes(c) ==
    /\ check[c].phase = "dropping" /\ Complete(check[c].run)
    /\ check' = [check EXCEPT ![c] = [phase |-> "idle", run |-> NoRun]]
    /\ UNCHANGED <<network_change_generation, logins, flags, change, ready>>

-----------------------------------------------------------------------------
(* The tasks that wait for an address *)

\* The task sleeps for a second before it looks: a change that had advanced the generation by then
\* has begun its Run (SleepsPastBegin; the code relies on it for network_change_waiting too).
SleepsPastBegin == change = {}

Waits(r) ==
    /\ r.phase = "waiting" /\ SleepsPastBegin /\ Current(r.run)
    /\ ready' = (ready \ {r}) \cup {[r EXCEPT !.phase = "found"]}
    /\ UNCHANGED <<network_change_generation, display, logins, flags, change, check>>

\* An overtaken task returns and its Run, of an old generation, publishes nothing.
Overtaken(r) ==
    /\ SleepsPastBegin /\ ~Current(r.run) /\ ready' = ready \ {r}
    /\ UNCHANGED <<network_change_generation, logins, display, flags, change, check>>

HandsOffUnlimited(r) ==      \* variant: the attempts are not counted
    /\ r.phase = "found" /\ SleepsPastBegin /\ Current(r.run)
    /\ ready' = (ready \ {r}) \cup {[r EXCEPT !.phase = "waiting"]}
    /\ UNCHANGED <<network_change_generation, logins, display, flags, change, check>>

\* handoff: the Run is dropped without a word, the check that follows has one of its own.
HandsOff(r) ==
    /\ r.phase = "found" /\ SleepsPastBegin /\ Current(r.run) /\ ready' = ready \ {r}
    /\ network_change_waiting' = FALSE /\ Trigger(TRUE)
    /\ UNCHANGED <<network_change_generation, logins, display, manual_login_in_progress, change>>

-----------------------------------------------------------------------------
(* The background loop and manual logins *)

Ticks == ~manual_login_in_progress /\ ~network_change_waiting /\ ~is_checking

ServesPending ==
    /\ Ticks /\ pending_full_check
    /\ \E c \in Checks :
          /\ check[c].phase = "idle" /\ check' = [check EXCEPT ![c].phase = "spawned"]
    /\ is_checking' = TRUE /\ pending_full_check' = FALSE
    /\ UNCHANGED <<network_change_generation, logins, display, manual_login_in_progress,
                   network_change_waiting, change, ready>>

CountsDown ==
    /\ Ticks /\ ~pending_full_check /\ \E full \in BOOLEAN : Trigger(full)
    /\ UNCHANGED <<network_change_generation, logins, display, manual_login_in_progress,
                   network_change_waiting, change, ready>>

ManualLogin ==
    /\ manual_login_in_progress' = ~manual_login_in_progress
    /\ IF manual_login_in_progress THEN UNCHANGED logins ELSE logins > 0 /\ logins' = logins - 1
    /\ UNCHANGED <<network_change_generation, display, is_checking, pending_full_check,
                   network_change_waiting, change, ready, check>>

-----------------------------------------------------------------------------
CheckStep(c) == Spawned(c) \/ CheckBegins(c) \/ CheckEnds(c) \/ Dropped(c) \/ Finishes(c)
ReadyStep(r) == Waits(r) \/ Overtaken(r) \/ HandsOff(r)
Next ==
    \/ Changes \/ (\E g \in Generations : ChangeBegins(g))
    \/ (\E c \in Checks : CheckStep(c))
    \/ (\E r \in ready : ReadyStep(r))
    \/ ServesPending \/ CountsDown \/ ManualLogin

\* Tasks are scheduled, the loop ticks, and a manual login that began comes to an end.
Fairness ==
    /\ \A g \in Generations : WF_vars(ChangeBegins(g))
    /\ \A c \in Checks : WF_vars(CheckStep(c))
    /\ WF_vars(\E r \in ready : ReadyStep(r))
    /\ SF_vars(ServesPending \/ CountsDown)
    /\ WF_vars(manual_login_in_progress /\ ManualLogin)

Spec == Init /\ [][Next]_vars
FairSpec == Spec /\ Fairness

-----------------------------------------------------------------------------
(* Properties *)

\* No message stays on display as if a check were running: again and again it is complete or a
\* check is at work on it, also after a handoff to a check that was refused, skipped or overtaken.
ProgressSettles ==
    []<>(display.complete \/ \E c \in Checks : check[c].run.id = display.id /\ Current(check[c].run))
=============================================================================
