----------------------------- MODULE ProbePool -----------------------------
(***************************************************************************)
(* One read-only probe run shared by connectivity checks, diagnostics and  *)
(* the verification of a login (connectivity.rs).  Observers subscribe to  *)
(* the run of the pool or replace it; a run is a task of several probes    *)
(* that report into the channel of their run; a network change or a login  *)
(* invalidates the run.  The pool is a mutex: an operation of ProbePool is *)
(* one step.  A callback that asks the operating system for the network    *)
(* between its test of the generation and its report takes two.            *)
(***************************************************************************)
EXTENDS Integers, FiniteSets

CONSTANTS
    Observers,          \* readers that may wait at the same time
    Networks,           \* identities of the network (same_network)
    NoNetwork,          \* the network of a run that does not exist
    RequirePhysical,    \* Android on Wi-Fi or Ethernet: the bound network decides
    RequireSession,     \* several wired adapters: the portal's session decides
    MaxRuns,            \* bound: runs started (PoolState.next also counts invalidations)
    MaxReads,           \* bound: observations begun
    MaxChanges          \* bound: network changes and logins

ASSUME PoolAssumption ==
    /\ NoNetwork \notin Networks
    /\ RequirePhysical \in BOOLEAN /\ RequireSession \in BOOLEAN
    /\ MaxRuns \in Nat /\ MaxReads \in Nat /\ MaxChanges \in Nat

VARIABLES
    net,                        \* the network the machine is on
    network_change_generation, changes, changing,   \* and how far a change has been handled
    next, run, channel,         \* PoolState, and the watch channel of every run
    task,                       \* the spawned task of every run
    link_health,                \* run whose dual-stack report is on display
    observer, reads,            \* what every reader captured and received
    epoch, since                \* history: invalidations; the epoch every run began in

vars == <<net, network_change_generation, changes, changing, next, run, channel, task,
          link_health, observer, reads, epoch, since>>
control == <<network_change_generation, changes, changing, epoch, reads>>

Runs == 1 .. MaxRuns
None == 0
Probes == {"families"} \cup (IF RequirePhysical THEN {"physical"} ELSE {"public"})
          \cup (IF RequireSession THEN {"session"} ELSE {})
Kinds == {"check", "login", "diagnostics"}
Unmeasured == [ok |-> FALSE, by |-> None]
Snapshot == [result : [Probes -> [ok : BOOLEAN, by : Runs \cup {None}]],
             complete : BOOLEAN, cancelled : BOOLEAN]
Default == [result |-> [p \in Probes |-> Unmeasured], complete |-> FALSE, cancelled |-> FALSE]
NoRun == [id |-> None, generation |-> 0, net |-> NoNetwork, age |-> 0]
Away == [phase |-> "idle", kind |-> "check", generation |-> 0, net |-> NoNetwork, id |-> None,
         epoch |-> 0, answer |-> "none"]
Stage == {"running", "passing", "reported"}
NoTask == [phase |-> "none", generation |-> 0, net |-> NoNetwork,
           stage |-> [p \in Probes |-> "running"]]

TypeOK ==
    /\ net \in Networks
    /\ network_change_generation \in Nat /\ changes \in 0 .. MaxChanges
    /\ changing \in {"no", "cleared", "login", "submitted"} \cup {"taken", "loginTaken"}
    /\ next \in 0 .. MaxRuns /\ epoch \in Nat /\ since \in [Runs -> Nat]
    /\ run \in [id : Runs \cup {None}, generation : Nat, net : Networks \cup {NoNetwork}, age : 0 .. 2]
    /\ channel \in [Runs -> Snapshot]
    /\ task \in [Runs -> [phase : {"none", "working", "gone"}, generation : Nat,
                          net : Networks \cup {NoNetwork}, stage : [Probes -> Stage]]]
    /\ link_health \in Runs \cup {None} /\ reads \in 0 .. MaxReads
    /\ observer \in [Observers -> [phase : {"idle", "keyed", "waiting", "returned"}, kind : Kinds,
                                   generation : Nat, net : Networks \cup {NoNetwork}, id : Runs \cup {None},
                                   epoch : Nat, answer : {"none", "cancelled", "offline", "online"}]]

Init ==
    /\ net \in Networks
    /\ network_change_generation = 0 /\ changes = MaxChanges /\ changing = "no"
    /\ next = 0 /\ run = NoRun /\ channel = [i \in Runs |-> Default]
    /\ task = [i \in Runs |-> NoTask] /\ link_health = None
    /\ reads = MaxReads /\ observer = [o \in Observers |-> Away] /\ epoch = 0 /\ since = [i \in Runs |-> 0]

-----------------------------------------------------------------------------
(* What a snapshot says *)

Ok(v, p) == p \in Probes /\ v.result[p].ok

Checked(v, p) == v.result[p].by # None

SnapshotOnline(v) == ~v.cancelled /\ (Ok(v, "public") \/ Ok(v, "families"))

AccessOnline(v) ==
    IF RequirePhysical THEN ~v.cancelled /\ Ok(v, "physical") ELSE SnapshotOnline(v)

AuthenticatedOnline(v) == AccessOnline(v) /\ (RequireSession => Ok(v, "session"))

-----------------------------------------------------------------------------
(* The pool *)

\* What a cancelled run had found no longer counts (online() and access_online() are false for it).
Ended(v) == [Default EXCEPT !.cancelled = TRUE, !.complete = TRUE]

InvalidateKeepsRun ==      \* variant: the run stays in the pool
    epoch' = epoch + 1 /\ UNCHANGED <<run, channel>>

Invalidate ==
    /\ run' = NoRun /\ epoch' = epoch + 1
    /\ channel' = IF run.id = None THEN channel ELSE [channel EXCEPT ![run.id] = Ended(@)]

ShareableAnyKey(generation, n) ==      \* variant: the key leaves the network out
    /\ run.id # None /\ run.generation = generation /\ run.age < 2
    /\ ~channel[run.id].cancelled
    /\ ~channel[run.id].complete \/ (AuthenticatedOnline(channel[run.id]) /\ run.age = 0)

Shareable(generation, n) ==
    /\ run.id # None /\ run.generation = generation /\ run.net = n /\ run.age < 2
    /\ ~channel[run.id].cancelled
    /\ ~channel[run.id].complete \/ (AuthenticatedOnline(channel[run.id]) /\ run.age = 0)

Replaced ==
    IF run.id = None THEN channel ELSE [channel EXCEPT ![run.id] = Ended(@)]

\* The channel that takes what the task of run i reports, if any does.
Receiver(i) == IF run.id = i /\ ~channel[i].cancelled THEN i ELSE None

Update(i, change(_)) ==
    channel' = IF Receiver(i) = None THEN channel ELSE [channel EXCEPT ![Receiver(i)] = change(@)]

Cancel(i) == Update(i, Ended)

Ages == run.id # None /\ run.age < 2 /\ run' = [run EXCEPT !.age = @ + 1]
        /\ UNCHANGED <<net, control, next, channel, task, link_health, observer, since>>

-----------------------------------------------------------------------------
(* Readers: observe, then wait, wait_for_login or wait_with_updates *)

ObserveEarly(o, kind) ==      \* variant: the generation before the current one
    /\ observer[o].phase = "idle" /\ reads > 0 /\ reads' = reads - 1
    /\ kind = "login" => changing = "submitted" /\ \A x \in Observers : observer[x].kind # "login"
    /\ observer' = [observer EXCEPT ![o] =
           [Away EXCEPT !.phase = "keyed", !.kind = kind, !.net = net, !.epoch = epoch,
                        !.generation = network_change_generation - 1]]
    /\ UNCHANGED <<net, network_change_generation, changes, changing, epoch, next, run, channel,
                   task, link_health, since>>

Observe(o, kind) ==
    /\ observer[o].phase = "idle" /\ reads > 0 /\ reads' = reads - 1
    /\ kind = "login" => changing = "submitted" /\ \A x \in Observers : observer[x].kind # "login"
    /\ observer' = [observer EXCEPT ![o] =
           [Away EXCEPT !.phase = "keyed", !.kind = kind, !.net = net, !.epoch = epoch,
                        !.generation = network_change_generation]]
    /\ UNCHANGED <<net, network_change_generation, changes, changing, epoch, next, run, channel,
                   task, link_health, since>>

\* While it waits a check keeps what it compares afterwards, a login the moment of its request.
Waiting(reader, i) ==
    [reader EXCEPT !.phase = "waiting", !.id = i,
                   !.generation = IF reader.kind = "check" THEN @ ELSE 0,
                   !.net = IF reader.kind = "check" THEN @ ELSE NoNetwork,
                   !.epoch = IF reader.kind = "login" THEN @ ELSE 0]

Joins(o) ==
    /\ observer[o].phase = "keyed" /\ Shareable(observer[o].generation, observer[o].net)
    /\ observer' = [observer EXCEPT ![o] = Waiting(@, run.id)]
    /\ UNCHANGED <<net, control, next, run, channel, task, link_health, since>>

Starts(o) ==
    LET i == next + 1 IN
    /\ observer[o].phase = "keyed" /\ ~Shareable(observer[o].generation, observer[o].net)
    /\ next < MaxRuns
    /\ next' = i /\ since' = [since EXCEPT ![i] = epoch]
    /\ run' = [id |-> i, generation |-> observer[o].generation, net |-> observer[o].net, age |-> 0]
    /\ channel' = [Replaced EXCEPT ![i] = Default]
    /\ task' = [task EXCEPT ![i] = [NoTask EXCEPT !.phase = "working", !.net = observer[o].net,
                                                  !.generation = observer[o].generation]]
    /\ observer' = [observer EXCEPT ![o] = Waiting(@, i)]
    /\ UNCHANGED <<net, control, link_health>>

EnoughFor(kind, v) ==
    \/ v.complete \/ v.cancelled
    \/ ~RequirePhysical /\ kind = "check" /\ AccessOnline(v) /\ (RequireSession => Checked(v, "session"))
    \/ ~RequirePhysical /\ kind = "login" /\ AccessOnline(v)

\* A check reads authenticated_online, the others access_online.
Says(kind, v) ==
    IF v.cancelled THEN "cancelled"
    ELSE IF IF kind = "check" THEN AuthenticatedOnline(v) ELSE AccessOnline(v) THEN "online"
    ELSE "offline"

Returns(o) ==
    /\ observer[o].phase = "waiting" /\ EnoughFor(observer[o].kind, channel[observer[o].id])
    /\ observer' = [observer EXCEPT ![o].phase = "returned", ![o].answer = Says(observer[o].kind, channel[observer[o].id])]
    /\ UNCHANGED <<net, control, next, run, channel, task, link_health, since>>

\* A check uses its answer only if the generation and the network are still those it captured.
Acceptable(o) ==
    /\ observer[o].answer # "cancelled"
    /\ observer[o].generation = network_change_generation /\ observer[o].net = net

Leaves(o) ==
    /\ observer[o].phase = "returned" /\ observer' = [observer EXCEPT ![o] = Away]
    /\ UNCHANGED <<net, control, next, run, channel, task, link_health, since>>

-----------------------------------------------------------------------------
(* The task of a run *)

Working(i) == task[i].phase = "working"

SameGeneration(i) == task[i].generation = network_change_generation

Passes(i, p) ==
    \/ p = "session"
    \/ p = "public" /\ SameGeneration(i)
    \/ p \in {"families", "physical"} /\ SameGeneration(i) /\ task[i].net = net

Asks(i, p) ==
    /\ Working(i) /\ p \in {"families", "physical"} /\ task[i].stage[p] = "running"
    /\ task' = [task EXCEPT ![i].stage[p] = IF Passes(i, p) THEN "passing" ELSE "reported"]
    /\ IF Passes(i, p) THEN UNCHANGED channel ELSE Cancel(i)
    /\ UNCHANGED <<net, control, next, run, link_health, observer, since>>

Found(i, p) == \E ok \in BOOLEAN : Update(i, LAMBDA v : [v EXCEPT !.result[p] = [ok |-> ok, by |-> i]])

Reports(i, p) ==
    /\ Working(i)
    /\ IF p \in {"families", "physical"} THEN task[i].stage[p] = "passing" /\ Found(i, p)
       ELSE task[i].stage[p] = "running" /\ (IF Passes(i, p) THEN Found(i, p) ELSE Cancel(i))
    /\ task' = [task EXCEPT ![i].stage[p] = "reported"]
    /\ link_health' = IF p = "families" /\ Receiver(i) # None THEN i ELSE link_health
    /\ UNCHANGED <<net, control, next, run, observer, since>>

Joined(i) == \A p \in Probes : task[i].stage[p] = "reported"

Gone(i) == task' = [task EXCEPT ![i] = [@ EXCEPT !.phase = "gone", !.stage = NoTask.stage]]

Closes(i) ==
    /\ Working(i) /\ Joined(i) /\ Gone(i)
    /\ IF SameGeneration(i) THEN Update(i, LAMBDA v : [v EXCEPT !.complete = TRUE]) ELSE Cancel(i)
    /\ UNCHANGED <<net, control, next, run, link_health, observer, since>>

\* The cancelled channel wins the select: the requests in flight are dropped.
Dropped(i) ==
    /\ Working(i) /\ channel[i].cancelled /\ Gone(i)
    /\ UNCHANGED <<net, control, next, run, channel, link_health, observer, since>>

TaskStep(i) == (\E p \in Probes : Asks(i, p) \/ Reports(i, p)) \/ Closes(i) \/ Dropped(i)

-----------------------------------------------------------------------------
(* Network changes and logins *)

NetworkMoves ==
    /\ changing = "no" /\ changes > 0 /\ changes' = changes - 1
    /\ net' \in Networks \ {net}
    /\ UNCHANGED <<network_change_generation, changing, epoch, reads, next, run, channel, task, link_health,
                   observer, since>>

\* schedule_network_change_readiness: the pool, the report on display, then the generation;
\* before_submit of a login: the pool and the report on display only.
ChangeSeen(kind) ==
    /\ changing = "no" /\ changes > 0 /\ changes' = changes - 1 /\ Invalidate
    /\ changing' = kind
    /\ UNCHANGED <<net, next, network_change_generation, reads, task, link_health, observer, since>>

HealthCleared ==
    /\ changing \in {"taken", "loginTaken"} /\ link_health' = None
    /\ changing' = IF changing = "taken" THEN "cleared" ELSE "login"
    /\ UNCHANGED <<net, network_change_generation, changes, epoch, reads, next, run, channel, task,
                   observer, since>>

GenerationAdvances ==
    /\ changing = "cleared" /\ changing' = "no" /\ link_health' = None
    /\ network_change_generation' = network_change_generation + 1
    /\ UNCHANGED <<net, changes, epoch, reads, next, run, channel, task, observer, since>>

LoginAnswered ==
    /\ changing = "login" /\ changing' = "submitted"
    /\ UNCHANGED <<net, network_change_generation, changes, epoch, reads, next, run, channel, task,
                   link_health, observer, since>>

\* The login verifies with a reader of its own, once or several times.
LoginVerified(o) ==
    /\ changing = "submitted" /\ observer[o].phase = "returned" /\ observer[o].kind = "login"
    /\ changing' \in {"no", "submitted"} /\ observer' = [observer EXCEPT ![o] = Away]
    /\ UNCHANGED <<net, network_change_generation, changes, epoch, reads, next, run, channel, task,
                   link_health, since>>

-----------------------------------------------------------------------------
ReaderStep(o) == Joins(o) \/ Starts(o) \/ Returns(o)
Next ==
    \/ \E o \in Observers : (\E k \in Kinds : Observe(o, k)) \/ ReaderStep(o) \/ LoginVerified(o)
                            \/ (observer[o].kind # "login" /\ Leaves(o))
    \/ \E i \in Runs : TaskStep(i)
    \/ Ages \/ NetworkMoves \/ ChangeSeen("taken") \/ ChangeSeen("loginTaken")
    \/ HealthCleared \/ GenerationAdvances \/ LoginAnswered

\* Tasks of the runtime are scheduled; probes and requests end by their timeouts.
Fairness ==
    /\ \A o \in Observers : WF_vars(ReaderStep(o))
    /\ \A i \in Runs : WF_vars(TaskStep(i))

Spec == Init /\ [][Next]_vars
FairSpec == Spec /\ Fairness
-----------------------------------------------------------------------------
(* Properties *)

\* connectivity.rs: "invalidated before authentication changes".  An uncancelled answer comes from
\* a run that began after the last invalidation its reader knew of, so that a login is never
\* verified with what was found before its request.
AnswersAreFresh ==
    \A o \in Observers :
        observer[o].phase \in {"waiting", "returned"} => since[observer[o].id] >= observer[o].epoch

\* What a check accepts after comparing generation and network was found by a run of exactly that
\* generation and network, although it may have joined a run another reader had started.
AcceptedOnOwnNetwork ==
    \A o \in Observers :
        observer[o].phase = "returned" /\ Acceptable(o) =>
            LET t == task[observer[o].id] IN
            t.generation = network_change_generation /\ t.net = net

\* Every reader that waits is answered, also when its run is replaced, invalidated or overtaken by
\* a network change: no check, login or diagnosis hangs on a run.
ReadersReturn ==
    \A o \in Observers : observer[o].phase = "waiting" ~> observer[o].phase # "waiting"

\* connectivity.rs:2, "Results are scoped to the network": outside a change the report on display
\* is of the current generation.  (A run that starts between the invalidation and the advance of the
\* generation still passes the test of its callback and reports after the advance.)
HealthOfThisGeneration ==
    changing = "no" /\ link_health # None => task[link_health].generation = network_change_generation
=============================================================================
