----------------------- MODULE LoginCoordinationProofs -----------------------
(***************************************************************************)
(* For every set of checks and networks and every bound: the types of      *)
(* LoginCoordination, and how its flag, lock and generations coordinate    *)
(* the checks with the manual login.                                       *)
(*                                                                         *)
(* CheckFlagExact is inductive by itself.  RequestsSerialized is not: it   *)
(* needs to know who holds the lock (LockOfCheck, LockOfManual).           *)
(* WaitersAreSuperseded needs in addition that the flag of the manual      *)
(* login is set while it runs (ManualFlag).  That an overtaken check is    *)
(* superseded needs both halves of the protection: while the login runs,   *)
(* the flag; afterwards the generation, which has advanced past the one    *)
(* the check captured (OvertakenIsStale, LoginBound).                      *)
(***************************************************************************)
EXTENDS LoginCoordination, TLAPS

ManualFlag == manual_login_in_progress <=> manual.phase # "idle"

LockOfCheck == login_request_lock = "check" <=> \E c \in Checks : phase[c] = "sent"

Submitting == {"loggingOut", "converging", "preparing", "sent", "verifying", "recheck"}

LockOfManual == manual.phase \in Submitting => login_request_lock = "manual"

HolderIsManual == login_request_lock = "manual" => manual.phase \in Submitting \cup {"ending"}

OvertakenIsStale ==
    \A c \in overtaken :
        Live(c) /\ (ManualUnderway \/ context[c].login < login_operation_generation)

LoginBound ==
    \A c \in Checks : Live(c) => context[c].login <= login_operation_generation

Coordinated ==
    /\ CheckFlagExact /\ ManualFlag /\ LockOfCheck /\ LockOfManual /\ HolderIsManual
    /\ OvertakenIsStale /\ LoginBound /\ WaitingHasTask

Inv == TypeOK /\ Coordinated

-----------------------------------------------------------------------------
(* What the operators shared by the actions do to the types. *)

\* An event takes one from what is left.
LEMMA EventEffect ==
  ASSUME events \in 0 .. MaxEvents, Event
  PROVE  events' \in 0 .. MaxEvents
  BY BoundsAssumption DEF Event

\* What an ended check leaves behind is a context again.
LEMMA BlankIsContext == Blank \in Context
  BY BoundsAssumption DEF Blank, Context

\* The end of a check keeps the types; phase is left to the caller.
LEMMA EndedEffect ==
  ASSUME CheckType, NEW c \in Checks, Ended(c), phase' \in [Checks -> CheckPhase]
  PROVE  CheckType'
  <1>1. context' \in [Checks -> Context]
    BY BlankIsContext DEF CheckType, Ended
  <1>. QED
    BY <1>1 DEF CheckType, Ended

LEMMA EndEffect ==
  ASSUME CheckType, NEW c \in Checks, End(c)
  PROVE  CheckType'
  <1>1. phase' \in [Checks -> CheckPhase]
    BY DEF CheckType, CheckPhase, End
  <1>. QED
    BY <1>1, EndedEffect DEF End

\* One field of a captured context changes.
LEMMA ContextEffect ==
  ASSUME context \in [Checks -> Context], NEW c \in Checks, NEW x \in Context,
         context' = [context EXCEPT ![c] = x]
  PROVE  context' \in [Checks -> Context]
  OBVIOUS

\* A trigger keeps the types whether or not it starts a check.
LEMMA TriggerEffect ==
  ASSUME CheckType, login_operation_generation \in Nat, NEW full \in BOOLEAN, Trigger(full)
  PROVE  CheckType'
  <1>1. CASE is_checking
    BY <1>1 DEF CheckType, Trigger
  <1>2. CASE ~is_checking
    <2>. PICK c \in Checks :
            /\ phase' = [phase EXCEPT ![c] = "spawned"]
            /\ context' = [context EXCEPT ![c].login = login_operation_generation, ![c].full = full]
            /\ overtaken' = IF ManualUnderway THEN overtaken \cup {c} ELSE overtaken
      BY <1>2 DEF Trigger, Spawn
    <2>1. phase' \in [Checks -> CheckPhase] /\ overtaken' \in SUBSET Checks
      BY DEF CheckType, CheckPhase
    <2>2. context' \in [Checks -> Context]
      BY DEF CheckType, Context
    <2>3. is_checking' \in BOOLEAN /\ pending_full_check' \in BOOLEAN
      BY <1>2 DEF CheckType, Trigger
    <2>. QED
      BY <2>1, <2>2, <2>3 DEF CheckType
  <1>. QED
    BY <1>1, <1>2

\* Nor does it disturb how checks and the manual login are kept apart.
LEMMA TriggerCoordinates ==
  ASSUME Inv, NEW full \in BOOLEAN, Trigger(full), UNCHANGED loginVars
  PROVE  /\ CheckFlagExact' /\ ManualFlag' /\ LockOfCheck' /\ LockOfManual' /\ HolderIsManual'
         /\ OvertakenIsStale' /\ LoginBound'
  <1>. USE DEF Inv, TypeOK, Coordinated
  <1>1. ManualFlag' /\ LockOfManual' /\ HolderIsManual'
    BY DEF ManualFlag, LockOfManual, HolderIsManual, loginVars
  <1>2. CASE is_checking
    BY <1>1, <1>2
    DEF Trigger, CheckFlagExact, LockOfCheck, OvertakenIsStale, LoginBound, Live, ManualUnderway,
        loginVars
  <1>3. CASE ~is_checking
    <2>. PICK c \in Checks :
            /\ phase' = [phase EXCEPT ![c] = "spawned"]
            /\ context' = [context EXCEPT ![c].login = login_operation_generation, ![c].full = full]
            /\ overtaken' = IF ManualUnderway THEN overtaken \cup {c} ELSE overtaken
      BY <1>3 DEF Trigger, Spawn
    <2>1. \A d \in Checks : phase[d] = "idle"
      BY <1>3 DEF CheckFlagExact, Live
    <2>2. phase'[c] = "spawned" /\ \A d \in Checks \ {c} : phase'[d] = "idle"
      BY <2>1 DEF CheckType
    <2>3. context'[c].login = login_operation_generation
      <3>. PICK x : x = context[c]
        OBVIOUS
      <3>1. x \in Context
        BY DEF CheckType
      <3>2. context'[c] = [x EXCEPT !.login = login_operation_generation, !.full = full]
        BY DEF CheckType
      <3>. QED
        BY <3>1, <3>2 DEF Context
    <2>4. overtaken = {} /\ is_checking'
      BY <1>3, <2>1 DEF OvertakenIsStale, Live, CheckType, Trigger
    <2>5. CheckFlagExact' /\ LockOfCheck'
      BY <2>1, <2>2, <2>4 DEF CheckFlagExact, LockOfCheck, Live, loginVars
    <2>6. OvertakenIsStale'
      BY <2>2, <2>4 DEF OvertakenIsStale, Live, ManualUnderway, loginVars
    <2>7. LoginBound'
      <3>. SUFFICES ASSUME NEW d \in Checks, phase'[d] # "idle"
                    PROVE  context'[d].login <= login_operation_generation'
        BY DEF LoginBound, Live
      <3>1. d = c
        BY <2>2
      <3>2. login_operation_generation' = login_operation_generation /\ login_operation_generation \in Nat
        BY DEF loginVars, LoginType
      <3>3. login_operation_generation <= login_operation_generation
        BY <3>2
      <3>. QED
        BY <2>3, <3>1, <3>2, <3>3
    <2>. QED
      BY <1>1, <2>5, <2>6, <2>7
  <1>. QED
    BY <1>2, <1>3

\* The schedule of a readiness task keeps the types.
LEMMA ScheduleEffect ==
  ASSUME ChangeType, ShownType, NEW phases \in [Checks -> CheckPhase], Schedule(phases)
  PROVE  /\ ChangeType'
         /\ last_network_state' \in Shown
         /\ phase' \in [Checks -> CheckPhase]
  <1>1. phase' \in [Checks -> CheckPhase]
    BY DEF Schedule, Invalidated, CheckPhase
  <1>2. last_network_state' \in Shown
    BY DEF Schedule, ShownType, Shown
  <1>3. /\ network_change_generation' \in Nat
        /\ network_change_waiting' \in BOOLEAN
    BY DEF Schedule, ChangeType
  <1>4. ready' \in SUBSET Nat
    BY DEF Schedule, ChangeType
  <1>. QED
    BY <1>1, <1>2, <1>3, <1>4 DEF ChangeType

\* The report of a check keeps the types.
LEMMA ReportEffect ==
  ASSUME CheckType, IdleType, NEW c \in Checks, NEW succeeded \in BOOLEAN, Report(c, succeeded)
  PROVE  /\ CheckType'
         /\ is_suspended' \in BOOLEAN /\ non_campus_count' \in 0 .. SuspendAfter
         /\ last_network_state' \in Shown
  <1>1. CheckType'
    BY EndEffect DEF Report
  <1>2. non_campus_count' \in 0 .. SuspendAfter
    BY BoundsAssumption DEF Report, IdleType
  <1>3. last_network_state' \in Shown
    BY DEF Report, Publish, CheckType, Context, Shown
  <1>4. is_suspended' \in BOOLEAN
    BY DEF Report, IdleType
  <1>. QED
    BY <1>1, <1>2, <1>3, <1>4

-----------------------------------------------------------------------------
(* A connectivity check. *)

LEMMA SkipCheckKeeps ==
  ASSUME Inv, NEW c \in Checks, SkipCheck(c)
  PROVE  Inv'
  <1>1. CheckType'
    BY EndEffect
    DEF Inv, TypeOK, SkipCheck
  <1>2. EnvType' /\ LoginType' /\ ChangeType' /\ ShownType' /\ IdleType' /\ OutsideType'
    BY BoundsAssumption, NetworksAssumption
    DEF Inv, TypeOK, EnvType, CheckType, LoginType, ChangeType, ShownType, IdleType,
      OutsideType, Context, CheckPhase, ManualPhase, OutsidePhase, Shown, SkipCheck, End,
      Ended, Blank, env, loginVars, changeVars, idleVars
  <1>3. Coordinated'
    BY BoundsAssumption, NetworksAssumption
    DEF Inv, TypeOK, CheckType, LoginType, ChangeType, Context, CheckPhase, ManualPhase,
      Coordinated, CheckFlagExact, ManualFlag, LockOfCheck, LockOfManual, HolderIsManual,
      Submitting, OvertakenIsStale, LoginBound, WaitingHasTask, Live, ManualUnderway,
      SkipCheck, End, Ended, Blank, env, loginVars, changeVars, idleVars
  <1>. QED
    BY <1>1, <1>2, <1>3 DEF Inv, TypeOK

LEMMA StartCheckKeeps ==
  ASSUME Inv, NEW c \in Checks, StartCheck(c)
  PROVE  Inv'
  <1>1. TypeOK'
    BY BoundsAssumption, NetworksAssumption
    DEF Inv, TypeOK, EnvType, CheckType, LoginType, ChangeType, ShownType, IdleType,
      OutsideType, Context, CheckPhase, ManualPhase, OutsidePhase, Shown, StartCheck, env,
      loginVars, changeVars, idleVars
  <1>2. Coordinated'
    BY BoundsAssumption, NetworksAssumption
    DEF Inv, TypeOK, CheckType, LoginType, ChangeType, Context, CheckPhase, ManualPhase,
      Coordinated, CheckFlagExact, ManualFlag, LockOfCheck, LockOfManual, HolderIsManual,
      Submitting, OvertakenIsStale, LoginBound, WaitingHasTask, Live, ManualUnderway,
      StartCheck, env, loginVars, changeVars, idleVars
  <1>. QED
    BY <1>1, <1>2 DEF Inv, TypeOK

LEMMA RouteBoundKeeps ==
  ASSUME Inv, NEW c \in Checks, RouteBound(c)
  PROVE  Inv'
  <1>1. TypeOK'
    BY DEF Inv, TypeOK, EnvType, CheckType, LoginType, ChangeType, ShownType, IdleType,
      OutsideType, CheckPhase, RouteBound, env, loginVars, changeVars, idleVars
  <1>2. Coordinated'
    BY DEF Inv, TypeOK, CheckType, Coordinated, CheckFlagExact, ManualFlag, LockOfCheck,
      LockOfManual, HolderIsManual, Submitting, OvertakenIsStale, LoginBound, WaitingHasTask,
      Live, ManualUnderway, RouteBound, loginVars, changeVars
  <1>. QED
    BY <1>1, <1>2 DEF Inv

LEMMA RouteFailsKeeps ==
  ASSUME Inv, NEW c \in Checks, RouteFails(c)
  PROVE  Inv'
  <1>1. CheckType'
    BY EndEffect DEF Inv, TypeOK, RouteFails
  <1>2. events' \in 0 .. MaxEvents
    BY EventEffect DEF Inv, TypeOK, EnvType, RouteFails
  <1>3. EnvType' /\ LoginType' /\ ChangeType' /\ ShownType' /\ IdleType' /\ OutsideType'
    BY <1>2, BoundsAssumption
    DEF Inv, TypeOK, EnvType, CheckType, LoginType, ChangeType, ShownType, IdleType,
      OutsideType, Context, Shown, RouteFails, Publish, env, loginVars, changeVars
  <1>4. Coordinated'
    BY DEF Inv, TypeOK, CheckType, LoginType, ChangeType, Context, CheckPhase, ManualPhase,
      Coordinated, CheckFlagExact, ManualFlag, LockOfCheck, LockOfManual, HolderIsManual,
      Submitting, OvertakenIsStale, LoginBound, WaitingHasTask, Live, ManualUnderway,
      RouteFails, End, Ended, Blank, env, loginVars, changeVars
  <1>. QED
    BY <1>1, <1>3, <1>4 DEF Inv, TypeOK

LEMMA ObservationLostKeeps ==
  ASSUME Inv, NEW c \in Checks, ObservationLost(c)
  PROVE  Inv'
  <1>1. CheckType'
    BY EndEffect
    DEF Inv, TypeOK, ObservationLost
  <1>2. EnvType' /\ LoginType' /\ ChangeType' /\ ShownType' /\ IdleType' /\ OutsideType'
    BY BoundsAssumption, NetworksAssumption
    DEF Inv, TypeOK, EnvType, CheckType, LoginType, ChangeType, ShownType, IdleType,
      OutsideType, Context, CheckPhase, ManualPhase, OutsidePhase, Shown, ObservationLost,
      End, Ended, Blank, env, loginVars, changeVars, idleVars
  <1>3. Coordinated'
    BY BoundsAssumption, NetworksAssumption
    DEF Inv, TypeOK, CheckType, LoginType, ChangeType, Context, CheckPhase, ManualPhase,
      Coordinated, CheckFlagExact, ManualFlag, LockOfCheck, LockOfManual, HolderIsManual,
      Submitting, OvertakenIsStale, LoginBound, WaitingHasTask, Live, ManualUnderway,
      ObservationLost, End, Ended, Blank, env, loginVars, changeVars, idleVars
  <1>. QED
    BY <1>1, <1>2, <1>3 DEF Inv, TypeOK

LEMMA ObservedKeeps ==
  ASSUME Inv, NEW c \in Checks, Observed(c)
  PROVE  Inv'
  <1>1. CheckType'
    <2>1. CASE Superseded(c)
      BY <2>1, EndEffect DEF Inv, TypeOK, Observed
    <2>2. CASE ~Superseded(c)
      BY <2>2 DEF Inv, TypeOK, CheckType, Context, CheckPhase, Observed
    <2>. QED
      BY <2>1, <2>2
  <1>2. EnvType' /\ LoginType' /\ ChangeType' /\ ShownType' /\ IdleType' /\ OutsideType'
    BY BoundsAssumption, NetworksAssumption
    DEF Inv, TypeOK, EnvType, CheckType, LoginType, ChangeType, ShownType, IdleType,
      OutsideType, Context, CheckPhase, ManualPhase, OutsidePhase, Shown, Observed,
      Superseded, End, Ended, Blank, Online, env, loginVars, changeVars, idleVars
  <1>3. Coordinated'
    BY BoundsAssumption, NetworksAssumption
    DEF Inv, TypeOK, CheckType, LoginType, ChangeType, Context, CheckPhase, ManualPhase,
      Coordinated, CheckFlagExact, ManualFlag, LockOfCheck, LockOfManual, HolderIsManual,
      Submitting, OvertakenIsStale, LoginBound, WaitingHasTask, Live, ManualUnderway,
      Observed, Superseded, End, Ended, Blank, env, loginVars, changeVars, idleVars
  <1>. QED
    BY <1>1, <1>2, <1>3 DEF Inv, TypeOK

LEMMA ResampledKeeps ==
  ASSUME Inv, NEW c \in Checks, Resampled(c)
  PROVE  Inv'
  <1>1. CheckType' /\ ChangeType' /\ ShownType'
    <2>1. CASE /\ Ended(c) /\ Schedule([phase EXCEPT ![c] = "idle"])
               /\ UNCHANGED last_known_ip
      <3>1. [phase EXCEPT ![c] = "idle"] \in [Checks -> CheckPhase]
        BY DEF Inv, TypeOK, CheckType, CheckPhase
      <3>2. /\ ChangeType' /\ last_network_state' \in Shown
            /\ phase' \in [Checks -> CheckPhase]
        BY <2>1, <3>1, ScheduleEffect DEF Inv, TypeOK
      <3>. QED
        BY <2>1, <3>2, EndedEffect DEF Inv, TypeOK, ShownType
    <2>2. CASE /\ End(c) /\ net = context[c].net /\ UNCHANGED <<changeVars, last_known_ip>>
               /\ Publish(IF context[c].online THEN "Online" ELSE "Offline", context[c].net)
      <3>1. CheckType'
        BY <2>2, EndEffect DEF Inv, TypeOK
      <3>2. ChangeType' /\ ShownType'
        BY <2>2 DEF Inv, TypeOK, EnvType, ChangeType, ShownType, Shown, Publish, changeVars
      <3>. QED
        BY <3>1, <3>2
    <2>3. CASE /\ phase' = [phase EXCEPT ![c] = "detecting"]
               /\ UNCHANGED <<is_checking, pending_full_check, context, overtaken, changeVars,
                              last_network_state, last_known_ip>>
      BY <2>3 DEF Inv, TypeOK, CheckType, CheckPhase, ChangeType, ShownType, changeVars
    <2>. QED
      BY <2>1, <2>2, <2>3 DEF Resampled
  <1>2. EnvType' /\ LoginType' /\ IdleType' /\ OutsideType'
    BY BoundsAssumption, NetworksAssumption
    DEF Inv, TypeOK, EnvType, CheckType, LoginType, ChangeType, ShownType, IdleType,
      OutsideType, Context, CheckPhase, ManualPhase, OutsidePhase, Shown, Resampled, Ended,
      Blank, Schedule, Invalidated, Publish, Online, End, changeVars, env, loginVars
  <1>3. Coordinated'
    BY BoundsAssumption, NetworksAssumption
    DEF Inv, TypeOK, CheckType, LoginType, ChangeType, Context, CheckPhase, ManualPhase,
      Coordinated, CheckFlagExact, ManualFlag, LockOfCheck, LockOfManual, HolderIsManual,
      Submitting, OvertakenIsStale, LoginBound, WaitingHasTask, Live, ManualUnderway,
      Resampled, Ended, Blank, Schedule, Invalidated, Publish, End, changeVars, env, loginVars
  <1>. QED
    BY <1>1, <1>2, <1>3 DEF Inv, TypeOK

LEMMA DetectedKeeps ==
  ASSUME Inv, NEW c \in Checks, Detected(c)
  PROVE  Inv'
  <1>1. CheckType'
    <2>1. CASE End(c) \/ Report(c, FALSE)
      BY <2>1, EndEffect DEF Inv, TypeOK, Report
    <2>2. CASE /\ \E n \in 1 .. NumAccounts : context' = [context EXCEPT ![c].left = n]
               /\ phase' = [phase EXCEPT ![c] = "waitLock"]
               /\ UNCHANGED <<is_checking, pending_full_check, overtaken>>
      BY <2>2, BoundsAssumption DEF Inv, TypeOK, CheckType, Context, CheckPhase
    <2>. QED
      BY <2>1, <2>2 DEF Detected
  <1>2. EnvType' /\ LoginType' /\ ChangeType' /\ ShownType' /\ IdleType' /\ OutsideType'
    BY BoundsAssumption, NetworksAssumption
    DEF Inv, TypeOK, EnvType, CheckType, LoginType, ChangeType, ShownType, IdleType,
      OutsideType, Context, CheckPhase, ManualPhase, OutsidePhase, Shown, Detected,
      Superseded, End, Ended, Blank, idleVars, Publish, Report, Online, env, loginVars,
      changeVars
  <1>3. Coordinated'
    BY BoundsAssumption, NetworksAssumption
    DEF Inv, TypeOK, CheckType, LoginType, ChangeType, Context, CheckPhase, ManualPhase,
      Coordinated, CheckFlagExact, ManualFlag, LockOfCheck, LockOfManual, HolderIsManual,
      Submitting, OvertakenIsStale, LoginBound, WaitingHasTask, Live, ManualUnderway,
      Detected, Superseded, End, Ended, Blank, idleVars, Publish, Report, env, loginVars,
      changeVars
  <1>. QED
    BY <1>1, <1>2, <1>3 DEF Inv, TypeOK

LEMMA TakeLockKeeps ==
  ASSUME Inv, NEW c \in Checks, TakeLock(c)
  PROVE  Inv'
  <1>1. CheckType'
    <2>1. CASE End(c)
      BY <2>1, EndEffect DEF Inv, TypeOK
    <2>2. CASE /\ phase' = Invalidated([phase EXCEPT ![c] = "sent"])
               /\ UNCHANGED <<is_checking, pending_full_check, context, overtaken>>
      BY <2>2 DEF Inv, TypeOK, CheckType, CheckPhase, Invalidated
    <2>. QED
      BY <2>1, <2>2 DEF TakeLock
  <1>2. EnvType' /\ LoginType' /\ ChangeType' /\ ShownType' /\ IdleType' /\ OutsideType'
    BY BoundsAssumption, NetworksAssumption
    DEF Inv, TypeOK, EnvType, CheckType, LoginType, ChangeType, ShownType, IdleType,
      OutsideType, Context, CheckPhase, ManualPhase, OutsidePhase, Shown, TakeLock,
      LockGranted, Superseded, End, Ended, Blank, Invalidated, env, changeVars, idleVars
  <1>3. Coordinated'
    BY BoundsAssumption, NetworksAssumption
    DEF Inv, TypeOK, CheckType, LoginType, ChangeType, Context, CheckPhase, ManualPhase,
      Coordinated, CheckFlagExact, ManualFlag, LockOfCheck, LockOfManual, HolderIsManual,
      Submitting, OvertakenIsStale, LoginBound, WaitingHasTask, Live, ManualUnderway,
      TakeLock, LockGranted, Superseded, End, Ended, Blank, Invalidated, env, changeVars,
      idleVars
  <1>. QED
    BY <1>1, <1>2, <1>3 DEF Inv, TypeOK

LEMMA AnsweredKeeps ==
  ASSUME Inv, NEW c \in Checks, Answered(c)
  PROVE  Inv'
  <1>1. CheckType'
    <2>1. CASE End(c) \/ \E succeeded \in BOOLEAN : Report(c, succeeded)
      BY <2>1, EndEffect DEF Inv, TypeOK, Report
    <2>2. CASE /\ NextAccount(c)
               /\ context' = [context EXCEPT ![c].left = @ - 1]
               /\ phase' = [phase EXCEPT ![c] = "waitLock"]
               /\ UNCHANGED <<is_checking, pending_full_check, overtaken>>
      BY <2>2, BoundsAssumption
      DEF Inv, TypeOK, CheckType, Context, CheckPhase, NextAccount
    <2>3. CASE /\ phase' = [phase EXCEPT ![c] = "recheck"]
               /\ UNCHANGED <<is_checking, pending_full_check, context, overtaken>>
      BY <2>3 DEF Inv, TypeOK, CheckType, CheckPhase
    <2>. QED
      BY <2>1, <2>2, <2>3 DEF Answered
  <1>2. IdleType' /\ ShownType'
    <2>1. UNCHANGED <<is_in_background, last_known_ip>>
      BY DEF Answered
    <2>2. CASE \E succeeded \in BOOLEAN : Report(c, succeeded)
      BY <2>1, <2>2, ReportEffect DEF Inv, TypeOK, IdleType, ShownType
    <2>3. CASE UNCHANGED <<last_network_state, idleVars>>
      BY <2>1, <2>3 DEF Inv, TypeOK, IdleType, ShownType, idleVars
    <2>. QED
      BY <2>2, <2>3 DEF Answered
  <1>3. EnvType'
    BY BoundsAssumption, NetworksAssumption
    DEF Inv, TypeOK, EnvType, Answered, SessionAfter, Superseded, End, Ended, Blank, idleVars,
      Report, Publish, Online, NextAccount, changeVars
  <1>4. LoginType'
    BY BoundsAssumption, NetworksAssumption
    DEF Inv, TypeOK, LoginType, EnvType, ManualPhase, Answered, SessionAfter, Superseded, End,
      Ended, Blank, idleVars, Report, Publish, Online, NextAccount, changeVars
  <1>5. ChangeType'
    BY BoundsAssumption, NetworksAssumption
    DEF Inv, TypeOK, ChangeType, Answered, SessionAfter, Superseded, End, Ended, Blank,
      idleVars, Report, Publish, Online, NextAccount, changeVars
  <1>6. OutsideType'
    BY BoundsAssumption, NetworksAssumption
    DEF Inv, TypeOK, OutsideType, EnvType, OutsidePhase, Answered, SessionAfter, Superseded,
      End, Ended, Blank, idleVars, Report, Publish, Online, NextAccount, changeVars
  <1>7. Coordinated'
    <2>1. /\ phase[c] = "sent" /\ login_request_lock' = "free"
          /\ UNCHANGED <<manual_login_in_progress, login_operation_generation, manual,
                         network_change_generation, network_change_waiting, ready>>
      BY DEF Answered, changeVars
    <2>2. \/ End(c)
          \/ /\ \/ context' = [context EXCEPT ![c].left = @ - 1]
                   /\ phase' = [phase EXCEPT ![c] = "waitLock"]
                \/ context' = context /\ phase' = [phase EXCEPT ![c] = "recheck"]
             /\ UNCHANGED <<is_checking, overtaken>>
      BY DEF Answered, Report
    <2>3. \A d \in Checks : d # c => phase'[d] = phase[d] /\ phase[d] = "idle"
      BY <2>1, <2>2 DEF Inv, TypeOK, CheckType, Coordinated, CheckFlagExact, Live, End
    <2>4. context'[c].login = context[c].login \/ phase'[c] = "idle"
      BY <2>2 DEF Inv, TypeOK, CheckType, Context, End
    <2>5. CheckFlagExact' /\ LockOfCheck' /\ phase'[c] # "sent"
      BY <2>1, <2>2, <2>3
      DEF Inv, TypeOK, CheckType, Coordinated, CheckFlagExact, LockOfCheck, Live, End, Ended
    <2>6. ManualFlag' /\ LockOfManual' /\ HolderIsManual' /\ WaitingHasTask'
      BY <2>1
      DEF Inv, TypeOK, CheckType, Coordinated, ManualFlag, LockOfCheck, LockOfManual,
          HolderIsManual, WaitingHasTask
    <2>7. overtaken' \in SUBSET overtaken /\ (phase'[c] = "idle" => c \notin overtaken')
      BY <2>1, <2>2
      DEF Inv, TypeOK, CheckType, End, Ended
    <2>8. OvertakenIsStale'
      BY <2>1, <2>3, <2>4, <2>7
      DEF Inv, TypeOK, CheckType, Coordinated, OvertakenIsStale, Live, ManualUnderway
    <2>9. LoginBound'
      BY <2>1, <2>3, <2>4 DEF Inv, Coordinated, LoginBound, Live
    <2>. QED
      BY <2>5, <2>6, <2>8, <2>9 DEF Coordinated
  <1>. QED
    BY <1>1, <1>2, <1>3, <1>4, <1>5, <1>6, <1>7 DEF Inv, TypeOK

LEMMA RecheckedKeeps ==
  ASSUME Inv, NEW c \in Checks, Rechecked(c)
  PROVE  Inv'
  <1>1. CheckType'
    BY EndEffect DEF Inv, TypeOK, Rechecked, Report
  <1>2. EnvType' /\ LoginType' /\ ChangeType' /\ ShownType' /\ IdleType' /\ OutsideType'
    BY BoundsAssumption, NetworksAssumption
    DEF Inv, TypeOK, EnvType, CheckType, LoginType, ChangeType, ShownType, IdleType,
      OutsideType, Context, CheckPhase, ManualPhase, OutsidePhase, Shown, Rechecked,
      Superseded, End, Ended, Blank, idleVars, Online, Report, Publish, env, loginVars,
      changeVars
  <1>3. Coordinated'
    BY BoundsAssumption, NetworksAssumption
    DEF Inv, TypeOK, CheckType, LoginType, ChangeType, Context, CheckPhase, ManualPhase,
      Coordinated, CheckFlagExact, ManualFlag, LockOfCheck, LockOfManual, HolderIsManual,
      Submitting, OvertakenIsStale, LoginBound, WaitingHasTask, Live, ManualUnderway,
      Rechecked, Superseded, End, Ended, Blank, idleVars, Report, Publish, env, loginVars,
      changeVars
  <1>. QED
    BY <1>1, <1>2, <1>3 DEF Inv, TypeOK

-----------------------------------------------------------------------------
(* The manual login. *)

LEMMA ManualBeginsKeeps ==
  ASSUME Inv, ManualBegins
  PROVE  Inv'
  <1>1. TypeOK'
    BY BoundsAssumption, NetworksAssumption
    DEF Inv, TypeOK, EnvType, CheckType, LoginType, ChangeType, ShownType, IdleType,
      OutsideType, Context, CheckPhase, ManualPhase, OutsidePhase, Shown, ManualBegins, Event,
      Invalidated, env, changeVars, idleVars
  <1>2. Coordinated'
    BY BoundsAssumption, NetworksAssumption
    DEF Inv, TypeOK, CheckType, LoginType, ChangeType, Context, CheckPhase, ManualPhase,
      Coordinated, CheckFlagExact, ManualFlag, LockOfCheck, LockOfManual, HolderIsManual,
      Submitting, OvertakenIsStale, LoginBound, WaitingHasTask, Live, ManualUnderway,
      ManualBegins, Event, Invalidated, env, changeVars, idleVars
  <1>. QED
    BY <1>1, <1>2 DEF Inv, TypeOK

LEMMA ManualQueuesKeeps ==
  ASSUME Inv, ManualQueues
  PROVE  Inv'
  <1>1. TypeOK'
    BY BoundsAssumption, NetworksAssumption
    DEF Inv, TypeOK, EnvType, CheckType, LoginType, ChangeType, ShownType, IdleType,
      OutsideType, Context, CheckPhase, ManualPhase, OutsidePhase, Shown, ManualQueues, env,
      checkVars, changeVars, idleVars
  <1>2. Coordinated'
    BY BoundsAssumption, NetworksAssumption
    DEF Inv, TypeOK, CheckType, LoginType, ChangeType, Context, CheckPhase, ManualPhase,
      Coordinated, CheckFlagExact, ManualFlag, LockOfCheck, LockOfManual, HolderIsManual,
      Submitting, OvertakenIsStale, LoginBound, WaitingHasTask, Live, ManualUnderway,
      ManualQueues, env, checkVars, changeVars, idleVars
  <1>. QED
    BY <1>1, <1>2 DEF Inv, TypeOK

LEMMA ManualRefusedKeeps ==
  ASSUME Inv, ManualRefused
  PROVE  Inv'
  <1>1. TypeOK'
    BY BoundsAssumption, NetworksAssumption
    DEF Inv, TypeOK, EnvType, CheckType, LoginType, ChangeType, ShownType, IdleType,
      OutsideType, Context, CheckPhase, ManualPhase, OutsidePhase, Shown, ManualRefused,
      ManualTo, env, checkVars, changeVars, idleVars
  <1>2. Coordinated'
    BY BoundsAssumption, NetworksAssumption
    DEF Inv, TypeOK, CheckType, LoginType, ChangeType, Context, CheckPhase, ManualPhase,
      Coordinated, CheckFlagExact, ManualFlag, LockOfCheck, LockOfManual, HolderIsManual,
      Submitting, OvertakenIsStale, LoginBound, WaitingHasTask, Live, ManualUnderway,
      ManualRefused, ManualTo, env, checkVars, changeVars, idleVars
  <1>. QED
    BY <1>1, <1>2 DEF Inv, TypeOK

LEMMA ManualTakesLockKeeps ==
  ASSUME Inv, ManualTakesLock
  PROVE  Inv'
  <1>1. TypeOK'
    BY BoundsAssumption, NetworksAssumption
    DEF Inv, TypeOK, EnvType, CheckType, LoginType, ChangeType, ShownType, IdleType,
      OutsideType, Context, CheckPhase, ManualPhase, OutsidePhase, Shown, ManualTakesLock,
      LockGranted, ManualTo, env, checkVars, changeVars, idleVars
  <1>2. Coordinated'
    BY BoundsAssumption, NetworksAssumption
    DEF Inv, TypeOK, CheckType, LoginType, ChangeType, Context, CheckPhase, ManualPhase,
      Coordinated, CheckFlagExact, ManualFlag, LockOfCheck, LockOfManual, HolderIsManual,
      Submitting, OvertakenIsStale, LoginBound, WaitingHasTask, Live, ManualUnderway,
      ManualTakesLock, LockGranted, ManualTo, env, checkVars, changeVars, idleVars
  <1>. QED
    BY <1>1, <1>2 DEF Inv, TypeOK

LEMMA ManualLoggedOutKeeps ==
  ASSUME Inv, ManualLoggedOut
  PROVE  Inv'
  <1>1. EnvType'
    BY BoundsAssumption, NetworksAssumption
    DEF Inv, TypeOK, EnvType, ManualLoggedOut, Publish, ManualTo, checkVars, changeVars,
      idleVars
  <1>2. CheckType'
    BY BoundsAssumption, NetworksAssumption
    DEF Inv, TypeOK, CheckType, CheckPhase, ManualLoggedOut, Publish, ManualTo, checkVars,
      changeVars, idleVars
  <1>3. LoginType'
    BY BoundsAssumption, NetworksAssumption
    DEF Inv, TypeOK, LoginType, EnvType, ManualPhase, ManualLoggedOut, Publish, ManualTo,
      checkVars, changeVars, idleVars
  <1>4. ChangeType'
    BY BoundsAssumption, NetworksAssumption
    DEF Inv, TypeOK, ChangeType, ManualLoggedOut, Publish, ManualTo, checkVars, changeVars,
      idleVars
  <1>5. ShownType'
    BY BoundsAssumption, NetworksAssumption
    DEF Inv, TypeOK, ShownType, EnvType, CheckType, LoginType, Context, Shown,
      ManualLoggedOut, Publish, ManualTo, checkVars, changeVars, idleVars
  <1>6. IdleType'
    BY BoundsAssumption, NetworksAssumption
    DEF Inv, TypeOK, IdleType, ManualLoggedOut, Publish, ManualTo, checkVars, changeVars,
      idleVars
  <1>7. OutsideType'
    BY BoundsAssumption, NetworksAssumption
    DEF Inv, TypeOK, OutsideType, EnvType, OutsidePhase, ManualLoggedOut, Publish, ManualTo,
      checkVars, changeVars, idleVars
  <1>8. Coordinated'
    BY BoundsAssumption, NetworksAssumption
    DEF Inv, TypeOK, CheckType, LoginType, ChangeType, Context, CheckPhase, ManualPhase,
      Coordinated, CheckFlagExact, ManualFlag, LockOfCheck, LockOfManual, HolderIsManual,
      Submitting, OvertakenIsStale, LoginBound, WaitingHasTask, Live, ManualUnderway,
      ManualLoggedOut, Publish, ManualTo, checkVars, changeVars, idleVars
  <1>. QED
    BY <1>1, <1>2, <1>3, <1>4, <1>5, <1>6, <1>7, <1>8 DEF Inv, TypeOK

LEMMA ManualConvergedKeeps ==
  ASSUME Inv, ManualConverged
  PROVE  Inv'
  <1>1. TypeOK'
    BY BoundsAssumption, NetworksAssumption
    DEF Inv, TypeOK, EnvType, CheckType, LoginType, ChangeType, ShownType, IdleType,
      OutsideType, Context, CheckPhase, ManualPhase, OutsidePhase, Shown, ManualConverged,
      ManualTo, env, checkVars, changeVars, idleVars
  <1>2. Coordinated'
    BY BoundsAssumption, NetworksAssumption
    DEF Inv, TypeOK, CheckType, LoginType, ChangeType, Context, CheckPhase, ManualPhase,
      Coordinated, CheckFlagExact, ManualFlag, LockOfCheck, LockOfManual, HolderIsManual,
      Submitting, OvertakenIsStale, LoginBound, WaitingHasTask, Live, ManualUnderway,
      ManualConverged, ManualTo, env, checkVars, changeVars, idleVars
  <1>. QED
    BY <1>1, <1>2 DEF Inv, TypeOK

LEMMA ManualSubmitsKeeps ==
  ASSUME Inv, ManualSubmits
  PROVE  Inv'
  <1>1. EnvType'
    BY BoundsAssumption, NetworksAssumption
    DEF Inv, TypeOK, EnvType, ManualSubmits, Invalidated, ManualTo, env, changeVars, idleVars
  <1>2. CheckType'
    BY BoundsAssumption, NetworksAssumption
    DEF Inv, TypeOK, CheckType, CheckPhase, ManualSubmits, Invalidated, ManualTo, env,
      changeVars, idleVars
  <1>3. LoginType'
    BY BoundsAssumption, NetworksAssumption
    DEF Inv, TypeOK, LoginType, EnvType, ManualPhase, ManualSubmits, Invalidated, ManualTo,
      env, changeVars, idleVars
  <1>4. ChangeType'
    BY BoundsAssumption, NetworksAssumption
    DEF Inv, TypeOK, ChangeType, ManualSubmits, Invalidated, ManualTo, env, changeVars,
      idleVars
  <1>5. ShownType'
    BY BoundsAssumption, NetworksAssumption
    DEF Inv, TypeOK, ShownType, EnvType, CheckType, LoginType, Context, Shown, ManualSubmits,
      Invalidated, ManualTo, env, changeVars, idleVars
  <1>6. IdleType'
    BY BoundsAssumption, NetworksAssumption
    DEF Inv, TypeOK, IdleType, ManualSubmits, Invalidated, ManualTo, env, changeVars, idleVars
  <1>7. OutsideType'
    BY BoundsAssumption, NetworksAssumption
    DEF Inv, TypeOK, OutsideType, EnvType, OutsidePhase, ManualSubmits, Invalidated, ManualTo,
      env, changeVars, idleVars
  <1>8. Coordinated'
    <2>1. \A d \in Checks : /\ (phase'[d] = "idle") = (phase[d] = "idle")
                            /\ (phase'[d] = "sent") = (phase[d] = "sent")
      BY DEF Inv, TypeOK, CheckType, ManualSubmits, Invalidated
    <2>2. /\ manual.phase = "preparing" /\ manual'.phase = "sent"
          /\ UNCHANGED <<is_checking, context, overtaken, manual_login_in_progress,
                         login_operation_generation, login_request_lock, changeVars>>
      BY DEF Inv, TypeOK, LoginType, ManualSubmits, ManualTo
    <2>3. CheckFlagExact' /\ LockOfCheck' /\ WaitingHasTask'
      BY <2>1, <2>2 DEF Inv, Coordinated, CheckFlagExact, LockOfCheck, WaitingHasTask, Live, changeVars
    <2>4. ManualFlag' /\ LockOfManual' /\ HolderIsManual'
      BY <2>2 DEF Inv, Coordinated, ManualFlag, LockOfManual, HolderIsManual, Submitting
    <2>5. OvertakenIsStale' /\ LoginBound'
      BY <2>1, <2>2
      DEF Inv, TypeOK, CheckType, Coordinated, OvertakenIsStale, LoginBound, Live, ManualUnderway
    <2>. QED
      BY <2>3, <2>4, <2>5 DEF Coordinated
  <1>. QED
    BY <1>1, <1>2, <1>3, <1>4, <1>5, <1>6, <1>7, <1>8 DEF Inv, TypeOK

LEMMA ManualAnsweredKeeps ==
  ASSUME Inv, ManualAnswered
  PROVE  Inv'
  <1>1. ChangeType'
    BY ScheduleEffect DEF Inv, TypeOK, CheckType, ChangeType, ManualAnswered, changeVars
  <1>2. EnvType'
    BY BoundsAssumption, NetworksAssumption
    DEF Inv, TypeOK, EnvType, ManualAnswered, SessionAfter, ManualTo, changeVars, Schedule,
      Invalidated, idleVars
  <1>3. CheckType'
    BY BoundsAssumption, NetworksAssumption
    DEF Inv, TypeOK, CheckType, CheckPhase, ManualAnswered, SessionAfter, ManualTo,
      changeVars, Schedule, Invalidated, idleVars
  <1>4. LoginType'
    BY BoundsAssumption, NetworksAssumption
    DEF Inv, TypeOK, LoginType, EnvType, ManualPhase, ManualAnswered, SessionAfter, ManualTo,
      changeVars, Schedule, Invalidated, idleVars
  <1>5. ShownType'
    BY BoundsAssumption, NetworksAssumption
    DEF Inv, TypeOK, ShownType, EnvType, CheckType, LoginType, Context, Shown, ManualAnswered,
      SessionAfter, ManualTo, changeVars, Schedule, Invalidated, idleVars
  <1>6. IdleType'
    BY BoundsAssumption, NetworksAssumption
    DEF Inv, TypeOK, IdleType, ManualAnswered, SessionAfter, ManualTo, changeVars, Schedule,
      Invalidated, idleVars
  <1>7. OutsideType'
    BY BoundsAssumption, NetworksAssumption
    DEF Inv, TypeOK, OutsideType, EnvType, OutsidePhase, ManualAnswered, SessionAfter,
      ManualTo, changeVars, Schedule, Invalidated, idleVars
  <1>8. Coordinated'
    BY BoundsAssumption, NetworksAssumption
    DEF Inv, TypeOK, CheckType, LoginType, ChangeType, Context, CheckPhase, ManualPhase,
      Coordinated, CheckFlagExact, ManualFlag, LockOfCheck, LockOfManual, HolderIsManual,
      Submitting, OvertakenIsStale, LoginBound, WaitingHasTask, Live, ManualUnderway,
      ManualAnswered, ManualTo, changeVars, Schedule, Invalidated, idleVars
  <1>. QED
    BY <1>1, <1>2, <1>3, <1>4, <1>5, <1>6, <1>7, <1>8 DEF Inv, TypeOK

LEMMA ManualVerifiedKeeps ==
  ASSUME Inv, ManualVerified
  PROVE  Inv'
  <1>1. ChangeType'
    BY ScheduleEffect DEF Inv, TypeOK, CheckType, ChangeType, ManualVerified, changeVars
  <1>2. EnvType' /\ CheckType' /\ LoginType' /\ ShownType' /\ IdleType' /\ OutsideType'
    BY BoundsAssumption, NetworksAssumption
    DEF Inv, TypeOK, EnvType, CheckType, LoginType, ChangeType, ShownType, IdleType,
      OutsideType, Context, CheckPhase, ManualPhase, OutsidePhase, Shown, ManualVerified,
      Online, Publish, changeVars, Schedule, Invalidated, ManualTo, env, idleVars
  <1>3. Coordinated'
    BY BoundsAssumption, NetworksAssumption
    DEF Inv, TypeOK, CheckType, LoginType, ChangeType, Context, CheckPhase, ManualPhase,
      Coordinated, CheckFlagExact, ManualFlag, LockOfCheck, LockOfManual, HolderIsManual,
      Submitting, OvertakenIsStale, LoginBound, WaitingHasTask, Live, ManualUnderway,
      ManualVerified, Publish, changeVars, Schedule, Invalidated, ManualTo, env, idleVars
  <1>. QED
    BY <1>1, <1>2, <1>3 DEF Inv, TypeOK

LEMMA ManualUnconfirmedKeeps ==
  ASSUME Inv, ManualUnconfirmed
  PROVE  Inv'
  <1>1. TypeOK'
    BY BoundsAssumption, NetworksAssumption
    DEF Inv, TypeOK, EnvType, CheckType, LoginType, ChangeType, ShownType, IdleType,
      OutsideType, Context, CheckPhase, ManualPhase, OutsidePhase, Shown, ManualUnconfirmed,
      ManualTo, env, checkVars, changeVars, idleVars
  <1>2. Coordinated'
    BY BoundsAssumption, NetworksAssumption
    DEF Inv, TypeOK, CheckType, LoginType, ChangeType, Context, CheckPhase, ManualPhase,
      Coordinated, CheckFlagExact, ManualFlag, LockOfCheck, LockOfManual, HolderIsManual,
      Submitting, OvertakenIsStale, LoginBound, WaitingHasTask, Live, ManualUnderway,
      ManualUnconfirmed, ManualTo, env, checkVars, changeVars, idleVars
  <1>. QED
    BY <1>1, <1>2 DEF Inv, TypeOK

LEMMA ManualEndsKeeps ==
  ASSUME Inv, ManualEnds
  PROVE  Inv'
  <1>1. TypeOK'
    BY BoundsAssumption, NetworksAssumption
    DEF Inv, TypeOK, EnvType, CheckType, LoginType, ChangeType, ShownType, IdleType,
      OutsideType, Context, CheckPhase, ManualPhase, OutsidePhase, Shown, ManualEnds,
      ManualTo, env, checkVars, changeVars, idleVars
  <1>2. Coordinated'
    BY BoundsAssumption, NetworksAssumption
    DEF Inv, TypeOK, CheckType, LoginType, ChangeType, Context, CheckPhase, ManualPhase,
      Coordinated, CheckFlagExact, ManualFlag, LockOfCheck, LockOfManual, HolderIsManual,
      Submitting, OvertakenIsStale, LoginBound, WaitingHasTask, Live, ManualUnderway,
      ManualEnds, ManualTo, env, checkVars, changeVars, idleVars
  <1>. QED
    BY <1>1, <1>2 DEF Inv, TypeOK

LEMMA ManualLeavesKeeps ==
  ASSUME Inv, ManualLeaves
  PROVE  Inv'
  <1>1. LoginType'
    <2>1. manual' \in [phase : ManualPhase, net : Networks \cup {NoNetwork}, left : 0 .. NumAccounts]
      BY BoundsAssumption DEF ManualLeaves, ManualPhase
    <2>2. manual_login_in_progress' \in BOOLEAN
      BY DEF ManualLeaves
    <2>. QED
      BY <2>1, <2>2 DEF Inv, TypeOK, LoginType, ManualLeaves
  <1>2. EnvType' /\ CheckType' /\ ChangeType' /\ ShownType' /\ IdleType' /\ OutsideType'
    BY BoundsAssumption, NetworksAssumption
    DEF Inv, TypeOK, EnvType, CheckType, LoginType, ChangeType, ShownType, IdleType,
      OutsideType, Context, CheckPhase, ManualPhase, OutsidePhase, Shown, ManualLeaves, env,
      checkVars, changeVars, idleVars
  <1>3. Coordinated'
    BY BoundsAssumption, NetworksAssumption
    DEF Inv, TypeOK, CheckType, LoginType, ChangeType, Context, CheckPhase, ManualPhase,
      Coordinated, CheckFlagExact, ManualFlag, LockOfCheck, LockOfManual, HolderIsManual,
      Submitting, OvertakenIsStale, LoginBound, WaitingHasTask, Live, ManualUnderway,
      ManualLeaves, env, checkVars, changeVars, idleVars
  <1>. QED
    BY <1>1, <1>2, <1>3 DEF Inv, TypeOK

-----------------------------------------------------------------------------
(* Network changes and the background loop. *)

LEMMA ReadyKeeps ==
  ASSUME Inv, NEW g \in ready, Ready(g)
  PROVE  Inv'
  <1>1. CheckType'
    BY TriggerEffect DEF Inv, TypeOK, CheckType, LoginType, Ready, checkVars
  <1>2. EnvType'
    BY BoundsAssumption, NetworksAssumption
    DEF Inv, TypeOK, EnvType, Ready, Trigger, Spawn, checkVars, env, loginVars, idleVars
  <1>3. LoginType'
    BY BoundsAssumption, NetworksAssumption
    DEF Inv, TypeOK, LoginType, EnvType, ManualPhase, Ready, Trigger, Spawn, checkVars, env,
      loginVars, idleVars
  <1>4. ChangeType'
    BY BoundsAssumption, NetworksAssumption
    DEF Inv, TypeOK, ChangeType, Ready, Trigger, Spawn, checkVars, env, loginVars, idleVars
  <1>5. ShownType'
    BY BoundsAssumption, NetworksAssumption
    DEF Inv, TypeOK, ShownType, EnvType, CheckType, LoginType, Context, Shown, Ready, Trigger,
      Spawn, checkVars, env, loginVars, idleVars
  <1>6. IdleType'
    BY BoundsAssumption, NetworksAssumption
    DEF Inv, TypeOK, IdleType, Ready, Trigger, Spawn, checkVars, env, loginVars, idleVars
  <1>7. OutsideType'
    BY BoundsAssumption, NetworksAssumption
    DEF Inv, TypeOK, OutsideType, EnvType, OutsidePhase, Ready, Trigger, Spawn, checkVars,
      env, loginVars, idleVars
  <1>8. Coordinated'
    <2>1. WaitingHasTask'
      BY DEF Inv, TypeOK, ChangeType, Coordinated, WaitingHasTask, Ready
    <2>2. CASE UNCHANGED checkVars
      BY <2>1, <2>2
      DEF Inv, Coordinated, CheckFlagExact, ManualFlag, LockOfCheck, LockOfManual, HolderIsManual,
          OvertakenIsStale, LoginBound, Live, ManualUnderway, Ready, checkVars, loginVars
    <2>3. CASE Trigger(TRUE)
      BY <2>1, <2>3, TriggerCoordinates DEF Inv, Coordinated, Ready
    <2>. QED
      BY <2>2, <2>3 DEF Ready
  <1>. QED
    BY <1>1, <1>2, <1>3, <1>4, <1>5, <1>6, <1>7, <1>8 DEF Inv, TypeOK

LEMMA ServesPendingKeeps ==
  ASSUME Inv, ServesPending
  PROVE  Inv'
  <1>1. CheckType'
    BY TriggerEffect DEF Inv, TypeOK, LoginType, ServesPending
  <1>2. EnvType' /\ LoginType' /\ ChangeType' /\ ShownType' /\ IdleType' /\ OutsideType'
    BY BoundsAssumption, NetworksAssumption
    DEF Inv, TypeOK, EnvType, CheckType, LoginType, ChangeType, ShownType, IdleType,
      OutsideType, Context, CheckPhase, ManualPhase, OutsidePhase, Shown, ServesPending,
      Ticks, Trigger, Spawn, env, loginVars, changeVars, idleVars
  <1>3. Coordinated'
    BY TriggerCoordinates DEF Inv, Coordinated, WaitingHasTask, ServesPending, changeVars
  <1>. QED
    BY <1>1, <1>2, <1>3 DEF Inv, TypeOK

LEMMA PollsAddressKeeps ==
  ASSUME Inv, PollsAddress
  PROVE  Inv'
  <1>1. ChangeType'
    BY ScheduleEffect DEF Inv, TypeOK, CheckType, ChangeType, PollsAddress, changeVars
  <1>2. IdleType'
    <2>1. is_suspended' \in BOOLEAN /\ is_in_background' \in BOOLEAN
      BY DEF Inv, TypeOK, IdleType, PollsAddress, ResetIdle, idleVars
    <2>2. non_campus_count' \in 0 .. SuspendAfter
      BY BoundsAssumption DEF Inv, TypeOK, IdleType, PollsAddress, ResetIdle, idleVars
    <2>. QED
      BY <2>1, <2>2 DEF IdleType
  <1>3. EnvType' /\ CheckType' /\ LoginType' /\ ShownType' /\ OutsideType'
    BY BoundsAssumption, NetworksAssumption
    DEF Inv, TypeOK, EnvType, CheckType, LoginType, ChangeType, ShownType, IdleType,
      OutsideType, Context, CheckPhase, ManualPhase, OutsidePhase, Shown, PollsAddress, Ticks,
      changeVars, idleVars, Schedule, Invalidated, ResetIdle, env, loginVars
  <1>4. Coordinated'
    BY BoundsAssumption, NetworksAssumption
    DEF Inv, TypeOK, CheckType, LoginType, ChangeType, Context, CheckPhase, ManualPhase,
      Coordinated, CheckFlagExact, ManualFlag, LockOfCheck, LockOfManual, HolderIsManual,
      Submitting, OvertakenIsStale, LoginBound, WaitingHasTask, Live, ManualUnderway,
      PollsAddress, Ticks, changeVars, idleVars, Schedule, Invalidated, ResetIdle, env,
      loginVars
  <1>. QED
    BY <1>1, <1>2, <1>3, <1>4 DEF Inv, TypeOK

LEMMA ResumesKeeps ==
  ASSUME Inv, Resumes
  PROVE  Inv'
  <1>1. CheckType'
    BY TriggerEffect DEF Inv, TypeOK, LoginType, Resumes
  <1>2. IdleType'
    <2>1. is_suspended' \in BOOLEAN /\ is_in_background' \in BOOLEAN
      BY DEF Inv, TypeOK, IdleType, Resumes, ResetIdle
    <2>2. non_campus_count' \in 0 .. SuspendAfter
      BY BoundsAssumption DEF Resumes, ResetIdle
    <2>. QED
      BY <2>1, <2>2 DEF IdleType
  <1>3. EnvType' /\ LoginType' /\ ChangeType' /\ ShownType' /\ OutsideType'
    BY BoundsAssumption, NetworksAssumption
    DEF Inv, TypeOK, EnvType, CheckType, LoginType, ChangeType, ShownType, IdleType,
      OutsideType, Context, CheckPhase, ManualPhase, OutsidePhase, Shown, Resumes, Ticks,
      ResetIdle, Trigger, Spawn, env, loginVars, changeVars
  <1>4. Coordinated'
    BY TriggerCoordinates DEF Inv, Coordinated, WaitingHasTask, Resumes, changeVars
  <1>. QED
    BY <1>1, <1>2, <1>3, <1>4 DEF Inv, TypeOK

LEMMA CountsDownKeeps ==
  ASSUME Inv, CountsDown
  PROVE  Inv'
  <1>1. CheckType'
    BY TriggerEffect DEF Inv, TypeOK, LoginType, CountsDown
  <1>2. EnvType' /\ LoginType' /\ ChangeType' /\ ShownType' /\ IdleType' /\ OutsideType'
    BY BoundsAssumption, NetworksAssumption
    DEF Inv, TypeOK, EnvType, CheckType, LoginType, ChangeType, ShownType, IdleType,
      OutsideType, Context, CheckPhase, ManualPhase, OutsidePhase, Shown, CountsDown, Ticks,
      Trigger, Spawn, env, loginVars, changeVars, idleVars
  <1>3. Coordinated'
    BY TriggerCoordinates DEF Inv, Coordinated, WaitingHasTask, CountsDown, changeVars
  <1>. QED
    BY <1>1, <1>2, <1>3 DEF Inv, TypeOK

LEMMA WakesKeeps ==
  ASSUME Inv, Wakes
  PROVE  Inv'
  <1>1. EnvType'
    BY BoundsAssumption, NetworksAssumption
    DEF Inv, TypeOK, EnvType, Wakes, Event, Schedule, Invalidated, env, loginVars
  <1>2. CheckType'
    BY BoundsAssumption, NetworksAssumption
    DEF Inv, TypeOK, CheckType, CheckPhase, Wakes, Event, Schedule, Invalidated, env,
      loginVars
  <1>3. LoginType'
    BY BoundsAssumption, NetworksAssumption
    DEF Inv, TypeOK, LoginType, EnvType, ManualPhase, Wakes, Event, Schedule, Invalidated,
      env, loginVars
  <1>4. ChangeType'
    BY BoundsAssumption, NetworksAssumption
    DEF Inv, TypeOK, ChangeType, Wakes, Event, Schedule, Invalidated, env, loginVars
  <1>5. ShownType'
    BY BoundsAssumption, NetworksAssumption
    DEF Inv, TypeOK, ShownType, EnvType, CheckType, LoginType, Context, Shown, Wakes, Event,
      Schedule, Invalidated, env, loginVars
  <1>6. IdleType'
    BY BoundsAssumption, NetworksAssumption
    DEF Inv, TypeOK, IdleType, Wakes, Event, Schedule, Invalidated, env, loginVars
  <1>7. OutsideType'
    BY BoundsAssumption, NetworksAssumption
    DEF Inv, TypeOK, OutsideType, EnvType, OutsidePhase, Wakes, Event, Schedule, Invalidated,
      env, loginVars
  <1>8. Coordinated'
    BY BoundsAssumption, NetworksAssumption
    DEF Inv, TypeOK, CheckType, LoginType, ChangeType, Context, CheckPhase, ManualPhase,
      Coordinated, CheckFlagExact, ManualFlag, LockOfCheck, LockOfManual, HolderIsManual,
      Submitting, OvertakenIsStale, LoginBound, WaitingHasTask, Live, ManualUnderway, Wakes,
      Event, Schedule, Invalidated, env, loginVars
  <1>. QED
    BY <1>1, <1>2, <1>3, <1>4, <1>5, <1>6, <1>7, <1>8 DEF Inv, TypeOK

-----------------------------------------------------------------------------
(* The user and the environment. *)

LEMMA NetworkChangesKeeps ==
  ASSUME Inv, NetworkChanges
  PROVE  Inv'
  <1>1. EnvType'
    <2>1. events' \in 0 .. MaxEvents
      BY EventEffect DEF Inv, TypeOK, EnvType, NetworkChanges
    <2>2. net' \in Networks /\ session' \in BOOLEAN
      BY DEF Inv, TypeOK, EnvType, NetworkChanges
    <2>. QED
      BY <2>1, <2>2 DEF EnvType
  <1>2. CheckType' /\ LoginType' /\ ChangeType' /\ ShownType' /\ IdleType' /\ OutsideType'
    BY BoundsAssumption, NetworksAssumption
    DEF Inv, TypeOK, EnvType, CheckType, LoginType, ChangeType, ShownType, IdleType,
      OutsideType, Context, CheckPhase, ManualPhase, OutsidePhase, Shown, NetworkChanges,
      Event, checkVars, loginVars, changeVars, idleVars
  <1>3. Coordinated'
    BY BoundsAssumption, NetworksAssumption
    DEF Inv, TypeOK, CheckType, LoginType, ChangeType, Context, CheckPhase, ManualPhase,
      Coordinated, CheckFlagExact, ManualFlag, LockOfCheck, LockOfManual, HolderIsManual,
      Submitting, OvertakenIsStale, LoginBound, WaitingHasTask, Live, ManualUnderway,
      NetworkChanges, Event, checkVars, loginVars, changeVars, idleVars
  <1>. QED
    BY <1>1, <1>2, <1>3 DEF Inv, TypeOK

LEMMA SessionExpiresKeeps ==
  ASSUME Inv, SessionExpires
  PROVE  Inv'
  <1>1. EnvType'
    <2>1. events' \in 0 .. MaxEvents
      BY EventEffect DEF Inv, TypeOK, EnvType, SessionExpires
    <2>2. net' \in Networks /\ session' \in BOOLEAN
      BY DEF Inv, TypeOK, EnvType, SessionExpires
    <2>. QED
      BY <2>1, <2>2 DEF EnvType
  <1>2. CheckType' /\ LoginType' /\ ChangeType' /\ ShownType' /\ IdleType' /\ OutsideType'
    BY BoundsAssumption, NetworksAssumption
    DEF Inv, TypeOK, EnvType, CheckType, LoginType, ChangeType, ShownType, IdleType,
      OutsideType, Context, CheckPhase, ManualPhase, OutsidePhase, Shown, SessionExpires,
      Event, checkVars, loginVars, changeVars, idleVars
  <1>3. Coordinated'
    BY BoundsAssumption, NetworksAssumption
    DEF Inv, TypeOK, CheckType, LoginType, ChangeType, Context, CheckPhase, ManualPhase,
      Coordinated, CheckFlagExact, ManualFlag, LockOfCheck, LockOfManual, HolderIsManual,
      Submitting, OvertakenIsStale, LoginBound, WaitingHasTask, Live, ManualUnderway,
      SessionExpires, Event, checkVars, loginVars, changeVars, idleVars
  <1>. QED
    BY <1>1, <1>2, <1>3 DEF Inv, TypeOK

LEMMA NotifiedKeeps ==
  ASSUME Inv, Notified
  PROVE  Inv'
  <1>1. IdleType'
    <2>1. is_suspended' \in BOOLEAN /\ is_in_background' \in BOOLEAN
      BY DEF Inv, TypeOK, IdleType, Notified, ResetIdle
    <2>2. non_campus_count' \in 0 .. SuspendAfter
      BY BoundsAssumption DEF Notified, ResetIdle
    <2>. QED
      BY <2>1, <2>2 DEF IdleType
  <1>2. EnvType' /\ CheckType' /\ LoginType' /\ ChangeType' /\ ShownType' /\ OutsideType'
    BY BoundsAssumption, NetworksAssumption
    DEF Inv, TypeOK, EnvType, CheckType, LoginType, ChangeType, ShownType, IdleType,
      OutsideType, Context, CheckPhase, ManualPhase, OutsidePhase, Shown, Notified, Event,
      ResetIdle, Schedule, Invalidated, env, loginVars
  <1>3. Coordinated'
    BY BoundsAssumption, NetworksAssumption
    DEF Inv, TypeOK, CheckType, LoginType, ChangeType, Context, CheckPhase, ManualPhase,
      Coordinated, CheckFlagExact, ManualFlag, LockOfCheck, LockOfManual, HolderIsManual,
      Submitting, OvertakenIsStale, LoginBound, WaitingHasTask, Live, ManualUnderway,
      Notified, Event, ResetIdle, Schedule, Invalidated, env, loginVars
  <1>. QED
    BY <1>1, <1>2, <1>3 DEF Inv, TypeOK

LEMMA RequestsCheckKeeps ==
  ASSUME Inv, RequestsCheck
  PROVE  Inv'
  <1>1. CheckType'
    BY TriggerEffect DEF Inv, TypeOK, LoginType, RequestsCheck
  <1>2. IdleType'
    <2>1. is_suspended' \in BOOLEAN /\ is_in_background' \in BOOLEAN
      BY DEF Inv, TypeOK, IdleType, RequestsCheck, ResetIdle
    <2>2. non_campus_count' \in 0 .. SuspendAfter
      BY BoundsAssumption DEF RequestsCheck, ResetIdle
    <2>. QED
      BY <2>1, <2>2 DEF IdleType
  <1>3. EnvType' /\ LoginType' /\ ChangeType' /\ ShownType' /\ OutsideType'
    BY BoundsAssumption, NetworksAssumption
    DEF Inv, TypeOK, EnvType, CheckType, LoginType, ChangeType, ShownType, IdleType,
      OutsideType, Context, CheckPhase, ManualPhase, OutsidePhase, Shown, RequestsCheck,
      Event, ResetIdle, Trigger, Spawn, env, loginVars, changeVars
  <1>4. Coordinated'
    BY TriggerCoordinates DEF Inv, Coordinated, WaitingHasTask, RequestsCheck, changeVars
  <1>. QED
    BY <1>1, <1>2, <1>3, <1>4 DEF Inv, TypeOK

LEMMA HidesKeeps ==
  ASSUME Inv, Hides
  PROVE  Inv'
  <1>1. TypeOK'
    BY BoundsAssumption, NetworksAssumption
    DEF Inv, TypeOK, EnvType, CheckType, LoginType, ChangeType, ShownType, IdleType,
      OutsideType, Context, CheckPhase, ManualPhase, OutsidePhase, Shown, Hides, Event, env,
      checkVars, loginVars, changeVars, idleVars
  <1>2. Coordinated'
    BY BoundsAssumption, NetworksAssumption
    DEF Inv, TypeOK, CheckType, LoginType, ChangeType, Context, CheckPhase, ManualPhase,
      Coordinated, CheckFlagExact, ManualFlag, LockOfCheck, LockOfManual, HolderIsManual,
      Submitting, OvertakenIsStale, LoginBound, WaitingHasTask, Live, ManualUnderway, Hides,
      Event, env, checkVars, loginVars, changeVars, idleVars
  <1>. QED
    BY <1>1, <1>2 DEF Inv, TypeOK

LEMMA ShowsKeeps ==
  ASSUME Inv, Shows
  PROVE  Inv'
  <1>1. CheckType'
    BY TriggerEffect DEF Inv, TypeOK, LoginType, Shows
  <1>2. EnvType'
    BY BoundsAssumption, NetworksAssumption
    DEF Inv, TypeOK, EnvType, Shows, Event, Trigger, Spawn, env, loginVars, changeVars,
      idleVars
  <1>3. LoginType'
    BY BoundsAssumption, NetworksAssumption
    DEF Inv, TypeOK, LoginType, EnvType, ManualPhase, Shows, Event, Trigger, Spawn, env,
      loginVars, changeVars, idleVars
  <1>4. ChangeType'
    BY BoundsAssumption, NetworksAssumption
    DEF Inv, TypeOK, ChangeType, Shows, Event, Trigger, Spawn, env, loginVars, changeVars,
      idleVars
  <1>5. ShownType'
    BY BoundsAssumption, NetworksAssumption
    DEF Inv, TypeOK, ShownType, EnvType, CheckType, LoginType, Context, Shown, Shows, Event,
      Trigger, Spawn, env, loginVars, changeVars, idleVars
  <1>6. IdleType'
    BY BoundsAssumption, NetworksAssumption
    DEF Inv, TypeOK, IdleType, Shows, Event, Trigger, Spawn, env, loginVars, changeVars,
      idleVars
  <1>7. OutsideType'
    BY BoundsAssumption, NetworksAssumption
    DEF Inv, TypeOK, OutsideType, EnvType, OutsidePhase, Shows, Event, Trigger, Spawn, env,
      loginVars, changeVars, idleVars
  <1>8. Coordinated'
    BY TriggerCoordinates DEF Inv, Coordinated, WaitingHasTask, Shows, changeVars
  <1>. QED
    BY <1>1, <1>2, <1>3, <1>4, <1>5, <1>6, <1>7, <1>8 DEF Inv, TypeOK

LEMMA TrayBeginsKeeps ==
  ASSUME Inv, TrayBegins
  PROVE  Inv'
  <1>1. TypeOK'
    BY BoundsAssumption, NetworksAssumption
    DEF Inv, TypeOK, EnvType, CheckType, LoginType, ChangeType, ShownType, IdleType,
      OutsideType, Context, CheckPhase, ManualPhase, OutsidePhase, Shown, TrayBegins, Event,
      Tray, env, checkVars, loginVars, changeVars, idleVars
  <1>2. Coordinated'
    BY BoundsAssumption, NetworksAssumption
    DEF Inv, TypeOK, CheckType, LoginType, ChangeType, Context, CheckPhase, ManualPhase,
      Coordinated, CheckFlagExact, ManualFlag, LockOfCheck, LockOfManual, HolderIsManual,
      Submitting, OvertakenIsStale, LoginBound, WaitingHasTask, Live, ManualUnderway,
      TrayBegins, Event, Tray, env, checkVars, loginVars, changeVars, idleVars
  <1>. QED
    BY <1>1, <1>2 DEF Inv, TypeOK

LEMMA TraySubmitsKeeps ==
  ASSUME Inv, TraySubmits
  PROVE  Inv'
  <1>1. TypeOK'
    BY BoundsAssumption, NetworksAssumption
    DEF Inv, TypeOK, EnvType, CheckType, LoginType, ChangeType, ShownType, IdleType,
      OutsideType, Context, CheckPhase, ManualPhase, OutsidePhase, Shown, TraySubmits, Tray,
      env, checkVars, loginVars, changeVars, idleVars
  <1>2. Coordinated'
    BY BoundsAssumption, NetworksAssumption
    DEF Inv, TypeOK, CheckType, LoginType, ChangeType, Context, CheckPhase, ManualPhase,
      Coordinated, CheckFlagExact, ManualFlag, LockOfCheck, LockOfManual, HolderIsManual,
      Submitting, OvertakenIsStale, LoginBound, WaitingHasTask, Live, ManualUnderway,
      TraySubmits, Tray, env, checkVars, loginVars, changeVars, idleVars
  <1>. QED
    BY <1>1, <1>2 DEF Inv, TypeOK

LEMMA TrayAnsweredKeeps ==
  ASSUME Inv, TrayAnswered
  PROVE  Inv'
  <1>1. CheckType'
    BY TriggerEffect DEF Inv, TypeOK, CheckType, LoginType, TrayAnswered, checkVars
  <1>2. EnvType'
    BY BoundsAssumption, NetworksAssumption
    DEF Inv, TypeOK, EnvType, TrayAnswered, Tray, SessionAfter, Trigger, Spawn, checkVars,
      loginVars, changeVars, idleVars
  <1>3. LoginType'
    BY BoundsAssumption, NetworksAssumption
    DEF Inv, TypeOK, LoginType, EnvType, ManualPhase, TrayAnswered, Tray, SessionAfter,
      Trigger, Spawn, checkVars, loginVars, changeVars, idleVars
  <1>4. ChangeType'
    BY BoundsAssumption, NetworksAssumption
    DEF Inv, TypeOK, ChangeType, TrayAnswered, Tray, SessionAfter, Trigger, Spawn, checkVars,
      loginVars, changeVars, idleVars
  <1>5. ShownType'
    BY BoundsAssumption, NetworksAssumption
    DEF Inv, TypeOK, ShownType, EnvType, CheckType, LoginType, Context, Shown, TrayAnswered,
      Tray, SessionAfter, Trigger, Spawn, checkVars, loginVars, changeVars, idleVars
  <1>6. IdleType'
    BY BoundsAssumption, NetworksAssumption
    DEF Inv, TypeOK, IdleType, TrayAnswered, Tray, SessionAfter, Trigger, Spawn, checkVars,
      loginVars, changeVars, idleVars
  <1>7. OutsideType'
    BY BoundsAssumption, NetworksAssumption
    DEF Inv, TypeOK, OutsideType, EnvType, OutsidePhase, TrayAnswered, Tray, SessionAfter,
      Trigger, Spawn, checkVars, loginVars, changeVars, idleVars
  <1>8. Coordinated'
    <2>1. CASE UNCHANGED checkVars
      BY <2>1
      DEF Inv, Coordinated, CheckFlagExact, ManualFlag, LockOfCheck, LockOfManual, HolderIsManual,
          OvertakenIsStale, LoginBound, WaitingHasTask, Live, ManualUnderway, TrayAnswered,
          checkVars, loginVars, changeVars
    <2>2. CASE Trigger(TRUE)
      BY <2>2, TriggerCoordinates DEF Inv, Coordinated, WaitingHasTask, TrayAnswered, changeVars
    <2>. QED
      BY <2>1, <2>2 DEF TrayAnswered
  <1>. QED
    BY <1>1, <1>2, <1>3, <1>4, <1>5, <1>6, <1>7, <1>8 DEF Inv, TypeOK

LEMMA LogoutSubmitsKeeps ==
  ASSUME Inv, LogoutSubmits
  PROVE  Inv'
  <1>1. TypeOK'
    BY BoundsAssumption, NetworksAssumption
    DEF Inv, TypeOK, EnvType, CheckType, LoginType, ChangeType, ShownType, IdleType,
      OutsideType, Context, CheckPhase, ManualPhase, OutsidePhase, Shown, LogoutSubmits,
      Event, Logout, env, checkVars, loginVars, changeVars, idleVars
  <1>2. Coordinated'
    BY BoundsAssumption, NetworksAssumption
    DEF Inv, TypeOK, CheckType, LoginType, ChangeType, Context, CheckPhase, ManualPhase,
      Coordinated, CheckFlagExact, ManualFlag, LockOfCheck, LockOfManual, HolderIsManual,
      Submitting, OvertakenIsStale, LoginBound, WaitingHasTask, Live, ManualUnderway,
      LogoutSubmits, Event, Logout, env, checkVars, loginVars, changeVars, idleVars
  <1>. QED
    BY <1>1, <1>2 DEF Inv, TypeOK

LEMMA LogoutAnsweredKeeps ==
  ASSUME Inv, LogoutAnswered
  PROVE  Inv'
  <1>1. ShownType'
    BY DEF Inv, TypeOK, ShownType, Shown, OutsideType, LogoutAnswered, Publish
  <1>2. EnvType'
    BY BoundsAssumption, NetworksAssumption
    DEF Inv, TypeOK, EnvType, LogoutAnswered, Logout, Publish, checkVars, loginVars,
      changeVars, idleVars
  <1>3. CheckType'
    BY BoundsAssumption, NetworksAssumption
    DEF Inv, TypeOK, CheckType, CheckPhase, LogoutAnswered, Logout, Publish, checkVars,
      loginVars, changeVars, idleVars
  <1>4. LoginType'
    BY BoundsAssumption, NetworksAssumption
    DEF Inv, TypeOK, LoginType, EnvType, ManualPhase, LogoutAnswered, Logout, Publish,
      checkVars, loginVars, changeVars, idleVars
  <1>5. ChangeType'
    BY BoundsAssumption, NetworksAssumption
    DEF Inv, TypeOK, ChangeType, LogoutAnswered, Logout, Publish, checkVars, loginVars,
      changeVars, idleVars
  <1>6. IdleType'
    BY BoundsAssumption, NetworksAssumption
    DEF Inv, TypeOK, IdleType, LogoutAnswered, Logout, Publish, checkVars, loginVars,
      changeVars, idleVars
  <1>7. OutsideType'
    BY BoundsAssumption, NetworksAssumption
    DEF Inv, TypeOK, OutsideType, EnvType, OutsidePhase, LogoutAnswered, Logout, Publish,
      checkVars, loginVars, changeVars, idleVars
  <1>8. Coordinated'
    BY BoundsAssumption, NetworksAssumption
    DEF Inv, TypeOK, CheckType, LoginType, ChangeType, Context, CheckPhase, ManualPhase,
      Coordinated, CheckFlagExact, ManualFlag, LockOfCheck, LockOfManual, HolderIsManual,
      Submitting, OvertakenIsStale, LoginBound, WaitingHasTask, Live, ManualUnderway,
      LogoutAnswered, Logout, Publish, checkVars, loginVars, changeVars, idleVars
  <1>. QED
    BY <1>1, <1>2, <1>3, <1>4, <1>5, <1>6, <1>7, <1>8 DEF Inv, TypeOK

-----------------------------------------------------------------------------
(* The theorems. *)

LEMMA InitEstablishes == Init => Inv
  <1>. SUFFICES ASSUME Init PROVE Inv
    OBVIOUS
  <1>1. CheckType
    BY BlankIsContext DEF Init, CheckType, CheckPhase
  <1>2. EnvType
    BY BoundsAssumption DEF Init, EnvType
  <1>6. ChangeType /\ IdleType
    <2>1. non_campus_count \in 0 .. SuspendAfter
      BY BoundsAssumption DEF Init
    <2>. QED
      BY <2>1 DEF Init, ChangeType, IdleType
  <1>4. LoginType
    <2>1. manual \in [phase : ManualPhase, net : Networks \cup {NoNetwork}, left : 0 .. NumAccounts]
      BY BoundsAssumption DEF Init, ManualPhase
    <2>. QED
      BY <2>1 DEF Init, LoginType
  <1>5. ShownType /\ OutsideType
    BY DEF Init, ShownType, OutsideType, OutsidePhase, Shown
  <1>3. Coordinated
    BY DEF Init, Coordinated, CheckFlagExact, ManualFlag, LockOfCheck, LockOfManual,
           HolderIsManual, Submitting, OvertakenIsStale, LoginBound, WaitingHasTask, Live
  <1>. QED
    BY <1>1, <1>2, <1>3, <1>4, <1>5, <1>6 DEF Inv, TypeOK

LEMMA StutterKeeps ==
  ASSUME Inv, UNCHANGED vars
  PROVE  Inv'
  <1>1. TypeOK'
    BY DEF Inv, TypeOK, EnvType, CheckType, LoginType, ChangeType, ShownType, IdleType,
           OutsideType, vars, env, checkVars, loginVars, changeVars, idleVars
  <1>2. Coordinated'
    BY DEF Inv, Coordinated, CheckFlagExact, ManualFlag, LockOfCheck, LockOfManual,
           HolderIsManual, OvertakenIsStale, LoginBound, WaitingHasTask, Live, ManualUnderway,
           vars, checkVars, loginVars, changeVars
  <1>. QED
    BY <1>1, <1>2 DEF Inv

LEMMA NextKeeps ==
  ASSUME Inv, [Next]_vars
  PROVE  Inv'
  <1>1. CASE \E c \in Checks : CheckStep(c)
    BY <1>1, SkipCheckKeeps, StartCheckKeeps, RouteBoundKeeps, ObservationLostKeeps, ObservedKeeps, ResampledKeeps,
       DetectedKeeps, TakeLockKeeps, AnsweredKeeps, RecheckedKeeps DEF CheckStep
  <1>2. CASE ManualStep
    BY <1>2, ManualQueuesKeeps, ManualRefusedKeeps, ManualTakesLockKeeps, ManualLoggedOutKeeps,
       ManualConvergedKeeps, ManualSubmitsKeeps, ManualAnsweredKeeps, ManualVerifiedKeeps,
       ManualUnconfirmedKeeps, ManualEndsKeeps, ManualLeavesKeeps DEF ManualStep
  <1>3. CASE \E g \in ready : Ready(g)
    BY <1>3, ReadyKeeps
  <1>4. CASE LoopStep
    BY <1>4, ServesPendingKeeps, PollsAddressKeeps, ResumesKeeps, CountsDownKeeps DEF LoopStep
  <1>5. CASE OutsideStep
    BY <1>5, TraySubmitsKeeps, TrayAnsweredKeeps, LogoutAnsweredKeeps DEF OutsideStep
  <1>6. CASE Environment
    BY <1>6, ManualBeginsKeeps, WakesKeeps, NetworkChangesKeeps, SessionExpiresKeeps, NotifiedKeeps,
       RequestsCheckKeeps, HidesKeeps, ShowsKeeps, TrayBeginsKeeps, LogoutSubmitsKeeps, RouteFailsKeeps
    DEF Environment
  <1>7. CASE UNCHANGED vars
    BY <1>7, StutterKeeps
  <1>. QED
    BY <1>1, <1>2, <1>3, <1>4, <1>5, <1>6, <1>7 DEF Next

\* The strengthened invariant holds in every reachable state.
THEOREM Invariance == Spec => []Inv
  BY InitEstablishes, NextKeeps, PTL DEF Spec

\* Every variable keeps its type.
THEOREM TypeCorrect == Spec => []TypeOK
  <1>1. Inv => TypeOK
    BY DEF Inv
  <1>. QED
    BY <1>1, Invariance, PTL

\* is_checking is set exactly while one check task is alive.
THEOREM FlagExact == Spec => []CheckFlagExact
  <1>1. Inv => CheckFlagExact
    BY DEF Inv, Coordinated
  <1>. QED
    BY <1>1, Invariance, PTL

\* Checks and the manual login never have requests under way at the same time.
THEOREM Serialized == Spec => []RequestsSerialized
  <1>1. Inv => RequestsSerialized
    BY DEF Inv, Coordinated, LockOfCheck, LockOfManual, Submitting, RequestsSerialized,
           ManualRequests
  <1>. QED
    BY <1>1, Invariance, PTL

\* A check that finds the lock taken is superseded.
THEOREM WaitersSuperseded == Spec => []WaitersAreSuperseded
  <1>. SUFFICES ASSUME Inv PROVE WaitersAreSuperseded
    BY Invariance, PTL
  <1>. SUFFICES ASSUME NEW c \in Checks, phase[c] = "waitLock", login_request_lock # "free"
                PROVE  Superseded(c)
    BY DEF WaitersAreSuperseded
  <1>1. login_request_lock # "check"
    BY DEF Inv, Coordinated, CheckFlagExact, LockOfCheck, Live
  <1>2. login_request_lock = "manual"
    BY <1>1 DEF Inv, TypeOK, LoginType
  <1>. QED
    BY <1>2 DEF Inv, Coordinated, HolderIsManual, Submitting, ManualFlag, Superseded

\* While the loop pauses for a network change, a task is there to end the pause.
THEOREM PauseEnds == Spec => []WaitingHasTask
  <1>1. Inv => WaitingHasTask
    BY DEF Inv, Coordinated
  <1>. QED
    BY <1>1, Invariance, PTL

\* A manual login supersedes every check that it overtakes.
LEMMA OvertakenIsSuperseded ==
  ASSUME Inv, NEW c \in overtaken
  PROVE  Superseded(c)
  BY DEF Inv, TypeOK, CheckType, LoginType, Context, Coordinated, OvertakenIsStale, ManualFlag,
         ManualUnderway, Superseded

\* Only a check that is not superseded takes the lock and submits.
LEMMA SubmitNeedsCurrent ==
  ASSUME Inv, [Next]_vars, NEW c \in Checks, phase[c] # "sent", phase'[c] = "sent"
  PROVE  TakeLock(c) /\ ~Superseded(c)
  <1>. USE DEF Inv, TypeOK, CheckType
  <1>1. CASE \E d \in Checks : CheckStep(d)
    <2>. PICK d \in Checks : CheckStep(d)
      BY <1>1
    <2>1. CASE TakeLock(d)
      BY <2>1 DEF TakeLock, End, Invalidated
    <2>2. CASE Observed(d) \/ Resampled(d)
      BY <2>2 DEF Observed, Resampled, End, Ended, Schedule, Invalidated
    <2>3. CASE SkipCheck(d) \/ StartCheck(d) \/ RouteBound(d) \/ ObservationLost(d)
      BY <2>3 DEF SkipCheck, StartCheck, RouteBound, ObservationLost, End
    <2>4. CASE Detected(d)
      BY <2>4 DEF Detected, End, Report
    <2>5. CASE Answered(d) \/ Rechecked(d)
      BY <2>5 DEF Answered, Rechecked, End, Report
    <2>. QED
      BY <2>1, <2>2, <2>3, <2>4, <2>5 DEF CheckStep
  <1>2. ASSUME NEW full, Trigger(full)
        PROVE  FALSE
    BY <1>2 DEF Trigger, Spawn
  <1>3. ASSUME Schedule(phase)
        PROVE  FALSE
    BY <1>3 DEF Schedule, Invalidated
  <1>4. phase' # phase /\ phase' # Invalidated(phase)
    BY DEF Invalidated
  <1>5. CASE ManualStep
    BY <1>3, <1>4, <1>5
    DEF ManualStep, ManualQueues, ManualRefused, ManualTakesLock, ManualLoggedOut, ManualConverged,
        ManualSubmits, ManualAnswered, ManualVerified, ManualUnconfirmed, ManualEnds, ManualLeaves,
        checkVars
  <1>6. CASE \E g \in ready : Ready(g)
    BY <1>2, <1>4, <1>6 DEF Ready, checkVars
  <1>7. CASE LoopStep \/ OutsideStep
    BY <1>2, <1>3, <1>4, <1>7
    DEF LoopStep, ServesPending, PollsAddress, Resumes, CountsDown,
        OutsideStep, TraySubmits, TrayAnswered, LogoutAnswered, checkVars
  <1>8. CASE Environment
    BY <1>2, <1>3, <1>4, <1>8
    DEF Environment, ManualBegins, Wakes, NetworkChanges, SessionExpires, Notified, RequestsCheck,
        Hides, Shows, TrayBegins, LogoutSubmits, RouteFails, End, checkVars
  <1>9. CASE UNCHANGED vars
    BY <1>4, <1>9 DEF vars, checkVars
  <1>. QED
    BY <1>1, <1>5, <1>6, <1>7, <1>8, <1>9 DEF Next

\* An overtaken check never submits credentials.
THEOREM OvertakenSilent == Spec => OvertakenNeverSubmits
  <1>1. Inv /\ [Next]_vars
          => [\A c \in Checks : c \in overtaken /\ phase[c] # "sent" => phase'[c] # "sent"]_vars
    BY SubmitNeedsCurrent, OvertakenIsSuperseded
  <1>. QED
    BY <1>1, Invariance, PTL DEF Spec, OvertakenNeverSubmits
\* Only its own step ends a check, and one that is superseded reports neither a failure nor that a login is needed.
LEMMA EndsByItself ==
  ASSUME Inv, [Next]_vars, NEW c \in Checks, Live(c), phase'[c] = "idle"
  PROVE  CheckStep(c) \/ RouteFails(c)
  <1>. USE DEF Inv, TypeOK, CheckType, Live
  <1>1. CASE \E d \in Checks : CheckStep(d)
    <2>. PICK d \in Checks : CheckStep(d)
      BY <1>1
    <2>1. Live(d)
      BY DEF CheckStep, SkipCheck, StartCheck, RouteBound, ObservationLost, Observed, Resampled, Detected, TakeLock, Answered,
             Rechecked
    <2>2. c = d
      BY <2>1 DEF Coordinated, CheckFlagExact
    <2>. QED
      BY <2>2
  <1>2. ASSUME NEW full, Trigger(full)
        PROVE  FALSE
    BY <1>2 DEF Trigger, Spawn
  <1>3. ASSUME Schedule(phase)
        PROVE  FALSE
    BY <1>3 DEF Schedule, Invalidated
  <1>4. phase' # phase /\ phase' # Invalidated(phase)
    BY DEF Invalidated
  <1>5. CASE ManualStep
    BY <1>3, <1>4, <1>5
    DEF ManualStep, ManualQueues, ManualRefused, ManualTakesLock, ManualLoggedOut, ManualConverged,
        ManualSubmits, ManualAnswered, ManualVerified, ManualUnconfirmed, ManualEnds, ManualLeaves,
        checkVars
  <1>6. CASE \E g \in ready : Ready(g)
    BY <1>2, <1>4, <1>6 DEF Ready, checkVars
  <1>7. CASE LoopStep \/ OutsideStep
    BY <1>2, <1>3, <1>4, <1>7
    DEF LoopStep, ServesPending, PollsAddress, Resumes, CountsDown,
        OutsideStep, TraySubmits, TrayAnswered, LogoutAnswered, checkVars
  <1>8. CASE Environment /\ ~\E d \in Checks : RouteFails(d)
    BY <1>2, <1>3, <1>4, <1>8
    DEF Environment, ManualBegins, Wakes, NetworkChanges, SessionExpires, Notified, RequestsCheck,
        Hides, Shows, TrayBegins, LogoutSubmits, checkVars
  <1>10. CASE \E d \in Checks : RouteFails(d)
    <2>. PICK d \in Checks : RouteFails(d)
      BY <1>10
    <2>1. c = d
      BY DEF Coordinated, CheckFlagExact, RouteFails
    <2>. QED
      BY <2>1
  <1>9. CASE UNCHANGED vars
    BY <1>4, <1>9 DEF vars, checkVars
  <1>. QED
    BY <1>1, <1>5, <1>6, <1>7, <1>8, <1>9, <1>10 DEF Next

\* A superseded check that ends leaves what is shown, or shows that the network is looked at again or answers.
LEMMA SupersededReportsNothing ==
  ASSUME ShownType, NEW c \in Checks, Superseded(c), CheckStep(c), last_network_state'.state = "BjutCampus"
  PROVE  UNCHANGED last_network_state
  <1>1. CASE Resampled(c)
    BY <1>1 DEF Resampled, Schedule, Publish, ShownType, Shown
  <1>2. CASE Detected(c) \/ Answered(c) \/ Rechecked(c)
    BY <1>2 DEF Detected, Answered, Rechecked
  <1>3. CASE \/ SkipCheck(c) \/ StartCheck(c) \/ RouteBound(c) \/ ObservationLost(c)
             \/ Observed(c) \/ TakeLock(c)
    BY <1>3 DEF SkipCheck, StartCheck, RouteBound, ObservationLost, Observed, TakeLock
  <1>. QED
    BY <1>1, <1>2, <1>3 DEF CheckStep

\* A check overtaken by a manual login never reports that a login is needed, or has failed, over a newer result
\* (network_check_login_operation_superseded in trigger_network_check), unless it could not bind itself to the Wi-Fi.
THEOREM OvertakenReportsNothing == Spec => OvertakenNeverReports
  <1>1. ASSUME Inv, [Next]_vars, NEW c \in Checks, OvertakenEnds(c), phase[c] # "binding",
               last_network_state'.state = "BjutCampus"
        PROVE  UNCHANGED last_network_state
    <2>1. Superseded(c)
      BY <1>1, OvertakenIsSuperseded DEF OvertakenEnds
    <2>2. CheckStep(c)
      BY <1>1, EndsByItself DEF OvertakenEnds, RouteFails
    <2>. QED
      BY <1>1, <2>1, <2>2, SupersededReportsNothing DEF Inv, TypeOK
  <1>2. Inv /\ [Next]_vars
          => [\A c \in Checks :
                 OvertakenEnds(c) /\ phase[c] # "binding" /\ last_network_state'.state = "BjutCampus"
                    => UNCHANGED last_network_state]_vars
    BY <1>1
  <1>. QED
    BY <1>2, Invariance, PTL DEF Spec, OvertakenNeverReports

=============================================================================
