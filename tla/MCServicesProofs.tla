-------------------------- MODULE MCServicesProofs --------------------------
(***************************************************************************)
(* For any values of the constants: what the services promise, each in a   *)
(* section of its own, in the form in which TLC checks it on MCServices.   *)
(* A service moves by its own next-state relation or rests, so that its    *)
(* promise is that of its own specification: every section shows an        *)
(* inductive invariant of the service and ends in a theorem about Spec.    *)
(***************************************************************************)
EXTENDS MCServices, FiniteSetTheorems, SequenceTheorems, WellFoundedInduction, TLAPS

-----------------------------------------------------------------------------
(* A service moves or rests. *)

LEMMA ServicesBegin ==
  Init => /\ Expiry!ExpiryInit /\ Update!DownloadInit /\ Discovery!DiscoveryInit /\ Config!ConfigInit
          /\ Health!HealthInit /\ MonthEnd!MonthInit /\ Actions!Init /\ Center!Init /\ WebVpn!Init /\ Usage!Init
          /\ Portal!PortalInit
  BY DEF Init

LEMMA ServicesMove ==
  [Next]_vars => /\ [Expiry!ExpiryNext]_Expiry!expiryVars /\ [Update!DownloadNext]_Update!downloadVars
                 /\ [Discovery!DiscoveryNext]_Discovery!discoveryVars /\ [Config!ConfigNext]_Config!configVars
                 /\ [Health!HealthNext]_Health!healthVars /\ [MonthEnd!MonthNext]_MonthEnd!monthVars
                 /\ [Actions!Next]_Actions!vars /\ [Center!Next]_Center!vars /\ [WebVpn!Next]_WebVpn!vars
                 /\ [Usage!UsageNext]_Usage!usageVars /\ [Portal!PortalNext]_Portal!portalVars
  <1> SUFFICES ASSUME [Next]_vars
               PROVE  /\ [Expiry!ExpiryNext]_Expiry!expiryVars /\ [Update!DownloadNext]_Update!downloadVars
                      /\ [Discovery!DiscoveryNext]_Discovery!discoveryVars /\ [Config!ConfigNext]_Config!configVars
                      /\ [Health!HealthNext]_Health!healthVars /\ [MonthEnd!MonthNext]_MonthEnd!monthVars
                      /\ [Actions!Next]_Actions!vars /\ [Center!Next]_Center!vars /\ [WebVpn!Next]_WebVpn!vars
                      /\ [Usage!UsageNext]_Usage!usageVars /\ [Portal!PortalNext]_Portal!portalVars
    OBVIOUS
  <1>1. /\ [Expiry!ExpiryNext]_Expiry!expiryVars /\ [Update!DownloadNext]_Update!downloadVars
        /\ [Discovery!DiscoveryNext]_Discovery!discoveryVars /\ [Config!ConfigNext]_Config!configVars
    BY DEF Next, vars, expiryVars, downloadVars, discoveryVars, configVars,
           Expiry!expiryVars, Update!downloadVars, Discovery!discoveryVars, Config!configVars
  <1>2. [Health!HealthNext]_Health!healthVars /\ [MonthEnd!MonthNext]_MonthEnd!monthVars /\ [Center!Next]_Center!vars
    BY DEF Next, vars, healthVars, monthVars, centerVars, Health!healthVars, Center!vars, MonthEnd!history,
           MonthEnd!monthVars, MonthEnd!memory, MonthEnd!stampFile, MonthEnd!world
  <1>3. [Actions!Next]_Actions!vars /\ [WebVpn!Next]_WebVpn!vars
    BY DEF Next, vars, actionVars, webVpnVars, Actions!vars, WebVpn!vars, WebVpn!manager, WebVpn!ghosts
  <1>4. [Usage!UsageNext]_Usage!usageVars /\ [Portal!PortalNext]_Portal!portalVars
    BY DEF Next, vars, deviceVars, portalVars, Usage!usageVars, Usage!config, Usage!item, Usage!history,
           Portal!portalVars, Portal!detection, Portal!traversal
  <1> QED  BY <1>1, <1>2, <1>3, <1>4

-----------------------------------------------------------------------------
(* A stay in the background: a return that was reported has also advanced the generation, so that the tasks *)
(* of earlier stays fail the test of the generation, unless the flag was cleared without a report before it  *)
(* (ReturnedIsOlder): then that task ends nothing until the flag is set without a report too.                *)

\* The invariant needs no bound on ages and generations.
Task == [generation : Nat, age : Nat, returned : BOOLEAN, silent : {"no", "cleared", "set"}]
ExpiryTyped == background \in BOOLEAN /\ hidden \in BOOLEAN /\ generation \in Nat /\ timers \subseteq Task

TimersIssued == \A t \in timers : t.generation <= generation
ReturnedIsOlder ==
    \A t \in timers : t.generation = generation =>
        /\ t.silent = "no" => background /\ ~t.returned
        /\ t.silent = "cleared" => ~background

ExpiryInv == ExpiryTyped /\ TimersIssued /\ ReturnedIsOlder /\ Expiry!EndsItsOwnStay

LEMMA ExpiryInitInv == Expiry!ExpiryInit => ExpiryInv
  <1> SUFFICES ASSUME Expiry!ExpiryInit PROVE ExpiryInv
    OBVIOUS
  <1>1. background = FALSE /\ hidden = FALSE /\ generation = 0 /\ timers = {} /\ clearing = {}
    BY DEF Expiry!ExpiryInit
  <1>2. ExpiryTyped
    BY <1>1 DEF ExpiryTyped
  <1>3. TimersIssued /\ ReturnedIsOlder /\ Expiry!EndsItsOwnStay
    BY <1>1 DEF TimersIssued, ReturnedIsOlder, Expiry!EndsItsOwnStay
  <1> QED  BY <1>2, <1>3 DEF ExpiryInv

\* A report of the window advances the generation past all tasks that exist.
LEMMA ExpiryReportStep ==
  ASSUME ExpiryInv, NEW b \in BOOLEAN, Expiry!Report(b)
  PROVE  ExpiryInv'
  <1> USE DEF ExpiryInv, ExpiryTyped, TimersIssued, ReturnedIsOlder, Expiry!EndsItsOwnStay
  <1>1. /\ background' = b /\ UNCHANGED clearing
        /\ IF background = b THEN generation' = generation ELSE generation' = generation + 1
    BY DEF Expiry!Report
  <1>2. CASE ~b
    <2>1. timers' = {[t EXCEPT !.returned = TRUE] : t \in timers}
      BY <1>2 DEF Expiry!Report, Expiry!Returned
    <2>2. \A u \in timers' : \E t \in timers :
            /\ u \in Task /\ u.returned /\ u.silent = t.silent /\ u.generation = t.generation
      BY <2>1 DEF Task
    <2>3. ExpiryTyped' /\ TimersIssued' /\ Expiry!EndsItsOwnStay'
      <3>1. generation' \in Nat /\ generation <= generation'
        BY <1>1
      <3>2. TimersIssued'
        BY <2>2, <3>1 DEF Task
      <3> QED  BY <1>1, <1>2, <2>2, <3>1, <3>2 DEF Expiry!Report
    <2>4. ReturnedIsOlder'
      <3> SUFFICES ASSUME NEW u \in timers', u.generation = generation'
                   PROVE  (u.silent = "no" => FALSE) /\ (u.silent = "cleared" => ~b)
        BY <1>1, <1>2
      <3>1. PICK t \in timers : u.silent = t.silent /\ u.generation = t.generation
        BY <2>2
      <3>2. background = b
        BY <1>1, <3>1 DEF Task
      <3> QED  BY <1>1, <1>2, <3>1, <3>2
    <2> QED  BY <2>3, <2>4
  <1>3. CASE b /\ background
    BY <1>1, <1>3 DEF Expiry!Report
  <1>4. CASE b /\ ~background
    <2> DEFINE fresh == [generation |-> generation', age |-> 0, returned |-> FALSE, silent |-> "no"]
    <2>1. generation' = generation + 1 /\ timers' = timers \cup {fresh}
      BY <1>1, <1>4 DEF Expiry!Report
    <2>2. /\ fresh \in Task /\ fresh.generation = generation' /\ fresh.returned = FALSE /\ fresh.silent = "no"
      BY <2>1 DEF Task
    <2>3. \A t \in timers : t.generation \in Nat /\ t.generation < generation'
      BY <2>1 DEF Task
    <2> HIDE DEF fresh
    <2>4. \A t \in timers' : t = fresh \/ (t \in timers /\ t.generation # generation')
      BY <2>1, <2>3 DEF Task
    <2>5. ExpiryTyped' /\ TimersIssued'
      BY <1>1, <1>4, <2>1, <2>2, <2>3 DEF Expiry!Report
    <2>6. ReturnedIsOlder' /\ Expiry!EndsItsOwnStay'
      BY <1>1, <1>4, <2>2, <2>4
    <2> QED  BY <2>5, <2>6
  <1> QED  BY <1>2, <1>3, <1>4

LEMMA ExpiryWriteStep ==
  ASSUME ExpiryInv, NEW b \in BOOLEAN, Expiry!Writes(b), hidden' \in BOOLEAN, UNCHANGED <<generation, clearing>>
  PROVE  ExpiryInv'
  <1> USE DEF ExpiryInv, ExpiryTyped, TimersIssued, ReturnedIsOlder, Expiry!EndsItsOwnStay
  <1>1. CASE background = b
    BY <1>1 DEF Expiry!Writes
  <1>2. CASE background # b
    <2>1. background' = b /\ timers' = {[t EXCEPT !.silent = Expiry!AfterWrite(@, b)] : t \in timers}
      BY <1>2 DEF Expiry!Writes
    <2>2. \A u \in timers' : \E t \in timers :
            /\ u \in Task /\ u.returned = t.returned /\ u.generation = t.generation
            /\ u.silent = Expiry!AfterWrite(t.silent, b)
      BY <2>1 DEF Task, Expiry!AfterWrite
    <2> QED  BY <1>2, <2>1, <2>2 DEF Task, Expiry!AfterWrite
  <1> QED  BY <1>1, <1>2

LEMMA ExpiryStepInv == ExpiryInv /\ [Expiry!ExpiryNext]_Expiry!expiryVars => ExpiryInv'
  <1> SUFFICES ASSUME ExpiryInv, [Expiry!ExpiryNext]_Expiry!expiryVars PROVE ExpiryInv'
    OBVIOUS
  <1> USE DEF ExpiryInv, ExpiryTyped, TimersIssued, ReturnedIsOlder, Expiry!EndsItsOwnStay
  <1>1. CASE \E b \in BOOLEAN : Expiry!Report(b)
    BY <1>1, ExpiryReportStep
  <1>2. CASE Expiry!Turns \/ Expiry!Use
    <2>1. hidden' \in BOOLEAN /\ UNCHANGED <<background, generation, timers, clearing>>
      BY <1>2 DEF Expiry!Turns, Expiry!Use
    <2> QED  BY <2>1
  <1>3. CASE Expiry!Show \/ Expiry!Check
    BY <1>3, ExpiryWriteStep DEF Expiry!Show, Expiry!Check
  <1>4. CASE Expiry!Minute
    <2>1. /\ timers' = {[t EXCEPT !.age = @ + 1] : t \in timers}
          /\ UNCHANGED <<background, hidden, generation, clearing>>
      BY <1>4 DEF Expiry!Minute
    <2>2. \A u \in timers' : \E t \in timers :
            /\ u \in Task /\ u.returned = t.returned /\ u.silent = t.silent /\ u.generation = t.generation
      BY <2>1 DEF Task
    <2> QED  BY <2>1, <2>2
  <1>5. ASSUME NEW t \in timers, Expiry!Fire(t) PROVE ExpiryInv'
    <2>1. Expiry!Over(t) => (t.returned => t.silent = "set")
      BY DEF Expiry!Over, Task
    <2> QED  BY <1>5, <2>1 DEF Expiry!Fire
  <1>6. ASSUME NEW t \in clearing, Expiry!ClearWebVpn(t) PROVE ExpiryInv'
    BY <1>6 DEF Expiry!ClearWebVpn
  <1>7. CASE UNCHANGED Expiry!expiryVars
    BY <1>7 DEF Expiry!expiryVars
  <1> QED  BY <1>1, <1>2, <1>3, <1>4, <1>5, <1>6, <1>7 DEF Expiry!ExpiryNext

\* Sessions are ended only by the task of a stay that no reported return has interrupted, but for a return and a
\* new stay of which the flag told before the reports did (update_billing_background_lifecycle), for every limit
\* and every number of reports.
THEOREM EndsItsOwnStayAlways == Spec => []EndsItsOwnStay
  <1>1. ExpiryInv => EndsItsOwnStay
    BY DEF ExpiryInv, EndsItsOwnStay
  <1> QED  BY ServicesBegin, ServicesMove, ExpiryInitInv, ExpiryStepInv, <1>1, PTL DEF Spec

-----------------------------------------------------------------------------
(* A download: at most one command has the flags (OneHolds), as active stays set while one has them.  From  *)
(* the reset of cancelled on, the flag says that a stop was written since (CancelledIsStopped); the ghost    *)
(* that remembers it is reset only by the command that has the flags, which is not one that was cancelled. *)

HoldingPhases == Update!Phases \ {"idle", "manifest"}
DownloadPhases == {"look", "wait", "verify", "install", "cancelled", "drop", "dropCancelled"}

DownloadTyped ==
    /\ at \in [Commands -> Update!Phases] /\ active \in BOOLEAN /\ cancelled \in BOOLEAN /\ stopped \in BOOLEAN
    /\ crossed \in BOOLEAN
    /\ control \in [action : Update!Actions \cup {"none"}, at : {"idle", "found", "resuming"}, late : BOOLEAN]

HoldsActive == \A c \in Commands : at[c] \in HoldingPhases => active
OneHolds == \A c, d \in Commands : at[c] \in HoldingPhases /\ at[d] \in HoldingPhases => c = d
CancelledIsStopped == \A c \in Commands : at[c] \in DownloadPhases /\ cancelled => stopped \/ crossed
LateIsCrossed == control.late => crossed

DownloadInv ==
    DownloadTyped /\ HoldsActive /\ OneHolds /\ CancelledIsStopped /\ LateIsCrossed /\ Update!CancelledByItsOwnStop

LEMMA DownloadInitInv == Update!DownloadInit => DownloadInv
  <1> SUFFICES ASSUME Update!DownloadInit PROVE DownloadInv
    OBVIOUS
  <1>1. DownloadTyped
    BY DEF Update!DownloadInit, DownloadTyped, Update!NoControl, Update!Actions, Update!Phases
  <1>2. LateIsCrossed
    BY DEF Update!DownloadInit, LateIsCrossed, Update!NoControl
  <1>3. HoldsActive /\ OneHolds /\ CancelledIsStopped /\ Update!CancelledByItsOwnStop
    BY DEF Update!DownloadInit, HoldsActive, OneHolds, CancelledIsStopped, Update!CancelledByItsOwnStop,
       HoldingPhases, DownloadPhases, Update!Phases
  <1> QED  BY <1>1, <1>2, <1>3 DEF DownloadInv

\* A step of one command: the flags it leaves to the others are as before.
LEMMA DownloadCommandStep ==
  ASSUME DownloadInv, NEW c \in Commands,
         \/ Update!Asks(c) \/ Update!Begins(c) \/ Update!ResetsPaused(c) \/ Update!ResetsCancelled(c)
         \/ Update!Looks(c) \/ Update!Receives(c)
         \/ Update!Verifies(c) \/ Update!Fails(c) \/ Update!Drops(c) \/ Update!DropsCancelled(c)
         \/ Update!DropsActive(c)
  PROVE  DownloadInv'
  <1> USE DEF DownloadInv, DownloadTyped, HoldsActive, OneHolds, CancelledIsStopped, LateIsCrossed,
              Update!CancelledByItsOwnStop, HoldingPhases, DownloadPhases, Update!Phases, Update!Goes
  <1>1. CASE Update!Asks(c)             BY <1>1 DEF Update!Asks
  <1>2. CASE Update!Begins(c)
    <2>1. CASE active                   BY <1>2, <2>1 DEF Update!Begins
    <2>2. CASE ~active
      <3>1. /\ \A d \in Commands : at[d] \notin HoldingPhases
            /\ at' = [at EXCEPT ![c] = "resetPaused"] /\ active' /\ UNCHANGED <<cancelled, stopped>>
            /\ crossed' = (control.at = "found") /\ control' = [control EXCEPT !.late = (control.at = "found")]
        BY <1>2, <2>2 DEF Update!Begins
      <3>2. LateIsCrossed' /\ DownloadTyped'
        BY <3>1
      <3> QED  BY <3>1, <3>2
    <2> QED  BY <2>1, <2>2
  <1>3. CASE Update!ResetsPaused(c)     BY <1>3 DEF Update!ResetsPaused
  <1>4. CASE Update!ResetsCancelled(c)
    <2>1. /\ at[c] = "resetCancelled" /\ at' = [at EXCEPT ![c] = "look"]
          /\ cancelled' = FALSE /\ stopped' = FALSE /\ UNCHANGED <<active, control, crossed>>
      BY <1>4 DEF Update!ResetsCancelled
    <2>2. \A d \in Commands : at[d] # "cancelled"      \* it would have the flags as well
      BY <2>1
    <2>3. Update!CancelledByItsOwnStop'
      BY <2>1, <2>2
    <2>4. \A d \in Commands : at'[d] = IF d = c THEN "look" ELSE at[d]
      BY <2>1
    <2>5. HoldsActive' /\ OneHolds'
      BY <2>1, <2>4
    <2>6. DownloadTyped' /\ CancelledIsStopped' /\ LateIsCrossed'
      BY <2>1
    <2> QED  BY <2>3, <2>5, <2>6
  <1>5. CASE Update!Looks(c)            BY <1>5 DEF Update!Looks
  <1>6. CASE Update!Receives(c)         BY <1>6 DEF Update!Receives
  <1>7. CASE Update!Verifies(c)         BY <1>7 DEF Update!Verifies
  <1>8. CASE Update!Fails(c)            BY <1>8 DEF Update!Fails
  <1>9. CASE Update!Drops(c)            BY <1>9 DEF Update!Drops
  <1>10. CASE Update!DropsCancelled(c)
    <2>1. /\ at[c] = "dropCancelled" /\ at' = [at EXCEPT ![c] = "dropActive"] /\ cancelled' = FALSE
          /\ UNCHANGED <<active, control, stopped, crossed>>
      BY <1>10 DEF Update!DropsCancelled
    <2>2. DownloadTyped' /\ \A d \in Commands : at'[d] = IF d = c THEN "dropActive" ELSE at[d]
      BY <2>1
    <2>3. HoldsActive' /\ OneHolds'
      BY <2>1, <2>2
    <2>4. CancelledIsStopped' /\ LateIsCrossed' /\ Update!CancelledByItsOwnStop'
      BY <2>1
    <2> QED  BY <2>2, <2>3, <2>4
  <1>11. CASE Update!DropsActive(c)     BY <1>11 DEF Update!DropsActive
  <1> QED  BY <1>1, <1>2, <1>3, <1>4, <1>5, <1>6, <1>7, <1>8, <1>9, <1>10, <1>11

LEMMA DownloadStepInv == DownloadInv /\ [Update!DownloadNext]_Update!downloadVars => DownloadInv'
  <1> SUFFICES ASSUME DownloadInv, [Update!DownloadNext]_Update!downloadVars PROVE DownloadInv'
    OBVIOUS
  <1>1. CASE \E c \in Commands :
               \/ Update!Asks(c) \/ Update!Begins(c) \/ Update!ResetsPaused(c) \/ Update!ResetsCancelled(c)
               \/ Update!Looks(c) \/ Update!Receives(c)
               \/ Update!Verifies(c) \/ Update!Fails(c) \/ Update!Drops(c) \/ Update!DropsCancelled(c)
               \/ Update!DropsActive(c)
    BY <1>1, DownloadCommandStep
  <1> USE DEF DownloadInv, DownloadTyped, HoldsActive, OneHolds, CancelledIsStopped, LateIsCrossed,
              Update!CancelledByItsOwnStop
  <1>2. CASE \E c \in Update!Actions : Update!Finds(c)
    <2>1. PICK a \in Update!Actions : control' = [action |-> a, at |-> "found", late |-> FALSE]
      BY <1>2 DEF Update!Finds, Update!NoControl
    <2>2. UNCHANGED <<active, cancelled, at, stopped, crossed>>
      BY <1>2 DEF Update!Finds
    <2>3. DownloadTyped' /\ LateIsCrossed'
      BY <2>1, <2>2
    <2> QED  BY <2>2, <2>3
  <1>3. CASE Update!Writes
    <2>1. /\ UNCHANGED <<active, at, crossed>>
          /\ \/ UNCHANGED <<cancelled, stopped>>
             \/ cancelled' = TRUE /\ stopped' = (stopped \/ ~control.late)
          /\ control' = Update!NoControl \/ control' = [control EXCEPT !.at = "resuming"]
      BY <1>3 DEF Update!Writes
    <2>2. DownloadTyped' /\ LateIsCrossed'
      <3>1. control' \in [action : Update!Actions \cup {"none"}, at : {"idle", "found", "resuming"}, late : BOOLEAN]
            /\ (control'.late => control.late)
        <4>1. CASE control' = [action |-> "none", at |-> "idle", late |-> FALSE]
          BY <4>1 DEF Update!Actions
        <4>2. CASE control' = [control EXCEPT !.at = "resuming"]
          BY <4>2
        <4> QED  BY <2>1, <4>1, <4>2 DEF Update!NoControl
      <3> QED  BY <2>1, <3>1
    <2>3. stopped \/ crossed => stopped' \/ crossed'
      BY <2>1
    <2>4. cancelled' => cancelled \/ stopped' \/ crossed'
      BY <2>1
    <2>5. HoldsActive' /\ OneHolds' /\ CancelledIsStopped' /\ Update!CancelledByItsOwnStop'
      BY <2>1, <2>3, <2>4
    <2> QED  BY <2>2, <2>5
  <1>4. CASE Update!Resumes
    BY <1>4 DEF Update!Resumes, Update!NoControl
  <1>5. CASE UNCHANGED Update!downloadVars
    BY <1>5 DEF Update!downloadVars
  <1> QED  BY <1>1, <1>2, <1>3, <1>4, <1>5 DEF Update!DownloadNext

\* A download is cancelled only by a stop that found it active, unless a control that had found the one before
\* was still to write as it began (UpdateDownloadControl::begin, UpdateDownloadGuard::drop,
\* control_update_download), whatever the number of commands and of controls that come late.
THEOREM CancelledByItsOwnStopAlways == Spec => []CancelledByItsOwnStop
  <1>1. DownloadInv => CancelledByItsOwnStop
    BY DEF DownloadInv, CancelledByItsOwnStop
  <1> QED  BY ServicesBegin, ServicesMove, DownloadInitInv, DownloadStepInv, <1>1, PTL DEF Spec

-----------------------------------------------------------------------------
(* An account that was found: the offer that is kept (OfferStands) was shown, names a password of the user's *)
(* own, and its token has not been rejected: tokens are not given twice (TokensGiven), and a rejection drops *)
(* the offer it names. *)

\* The invariant needs no bound on the tokens.
DiscoveryTyped == tokens \in Nat /\ answered \in [{"accepted", "rejected"} -> SUBSET Nat]

TokensGiven ==
    /\ \A s \in shown : s.token \in 1 .. tokens
    /\ answered["rejected"] \subseteq 1 .. tokens

OfferStands ==
    offer # Discovery!NoOffer =>
        /\ offer.pass = "own" /\ offer.token \notin answered["rejected"]
        /\ [user |-> offer.user, token |-> offer.token] \in shown

DiscoveryInv == DiscoveryTyped /\ TokensGiven /\ OfferStands

LEMMA DiscoveryInitInv == Discovery!DiscoveryInit => DiscoveryInv
  BY DEF Discovery!DiscoveryInit, DiscoveryInv, DiscoveryTyped, TokensGiven, OfferStands

\* A new offer takes a token that nobody has answered.
LEMMA OfferStep ==
  ASSUME DiscoveryInv, NEW d \in Discoveries, NEW pass \in Discovery!Passwords, Discovery!Offer(d, pass)
  PROVE  DiscoveryInv'
  <1> DEFINE new == [user |-> call[d].user, pass |-> pass, token |-> tokens', until |-> clock + Lifetime]
  <1>1. /\ tokens' = tokens + 1 /\ offer' = new /\ pass = "own"
        /\ shown' = shown \cup {[user |-> call[d].user, token |-> tokens']} /\ UNCHANGED answered
    BY DEF Discovery!Offer, Discovery!MayOffer
  <1>2. /\ tokens' \in Nat /\ tokens' \notin 1 .. tokens /\ tokens' \in 1 .. tokens'
        /\ 1 .. tokens \subseteq 1 .. tokens'
    BY <1>1 DEF DiscoveryInv, DiscoveryTyped
  <1>3. /\ new.pass = "own" /\ new.token = tokens' /\ new.user = call[d].user
        /\ [user |-> call[d].user, token |-> tokens'].token = tokens'
    BY <1>1
  <1> HIDE DEF new
  <1>4. DiscoveryTyped'
    BY <1>1, <1>2 DEF DiscoveryInv, DiscoveryTyped
  <1>5. TokensGiven'
    BY <1>1, <1>2, <1>3 DEF DiscoveryInv, TokensGiven
  <1>6. OfferStands'
    BY <1>1, <1>2, <1>3 DEF DiscoveryInv, TokensGiven, OfferStands
  <1> QED  BY <1>4, <1>5, <1>6 DEF DiscoveryInv

\* An answer, whichever: an offer is left standing only when it was not the one rejected.
LEMMA AnswerStep ==
  ASSUME DiscoveryInv, NEW reply \in shown, Discovery!Accept(reply) \/ Discovery!Reject(reply)
  PROVE  DiscoveryInv'
  <1> USE DEF DiscoveryInv, DiscoveryTyped, TokensGiven, OfferStands
  <1>0. reply.token \in 1 .. tokens /\ reply.token \in Nat
    OBVIOUS
  <1>1. CASE Discovery!Accept(reply)
    <2>1. /\ answered' = [answered EXCEPT !["accepted"] = @ \cup {reply.token}]
          /\ offer' = Discovery!NoOffer /\ UNCHANGED <<tokens, shown>>
      BY <1>1 DEF Discovery!Accept
    <2>2. answered'["rejected"] = answered["rejected"] /\ DiscoveryTyped'
      BY <2>1, <1>0
    <2> QED  BY <2>1, <2>2
  <1>2. CASE Discovery!Reject(reply)
    <2>1. /\ answered' = [answered EXCEPT !["rejected"] = @ \cup {reply.token}] /\ UNCHANGED <<tokens, shown>>
          /\ offer' = IF offer.token = reply.token THEN Discovery!NoOffer ELSE offer
      BY <1>2 DEF Discovery!Reject, Discovery!Rejects
    <2>2. answered'["rejected"] = answered["rejected"] \cup {reply.token} /\ DiscoveryTyped'
      BY <2>1, <1>0
    <2> QED  BY <2>1, <2>2, <1>0
  <1> QED  BY <1>1, <1>2

LEMMA DiscoveryStepInv == DiscoveryInv /\ [Discovery!DiscoveryNext]_Discovery!discoveryVars => DiscoveryInv'
  <1> SUFFICES ASSUME DiscoveryInv, [Discovery!DiscoveryNext]_Discovery!discoveryVars PROVE DiscoveryInv'
    OBVIOUS
  <1>1. ASSUME NEW d \in Discoveries, NEW pass \in Discovery!Passwords, Discovery!Offer(d, pass) PROVE DiscoveryInv'
    BY <1>1, OfferStep
  <1>2. ASSUME NEW reply \in shown, Discovery!Accept(reply) \/ Discovery!Reject(reply) PROVE DiscoveryInv'
    BY <1>2, AnswerStep
  <1> USE DEF DiscoveryInv, DiscoveryTyped, TokensGiven, OfferStands
  <1>3. ASSUME NEW d \in Discoveries, Discovery!Discover(d) PROVE DiscoveryInv'
    BY <1>3 DEF Discovery!Discover
  <1>4. ASSUME NEW d \in Discoveries,
               Discovery!Signed(d) \/ Discovery!SentOn(d) \/ Discovery!GivesUp(d) \/ Discovery!Refreshes(d)
       PROVE  DiscoveryInv'
    BY <1>4 DEF Discovery!Signed, Discovery!SentOn, Discovery!GivesUp, Discovery!Refreshes
  <1>5. ASSUME NEW user \in Accounts \cup {Discovery!Nothing}, Discovery!LogsIn(user) PROVE DiscoveryInv'
    BY <1>5 DEF Discovery!LogsIn
  <1>6. CASE Discovery!Moves \/ Discovery!DiscoveryTick
    BY <1>6 DEF Discovery!Moves, Discovery!DiscoveryTick
  <1>7. CASE UNCHANGED Discovery!discoveryVars
    BY <1>7 DEF Discovery!discoveryVars
  <1> QED  BY <1>1, <1>2, <1>3, <1>4, <1>5, <1>6, <1>7 DEF Discovery!DiscoveryNext

-----------------------------------------------------------------------------
Confirmed(k) ==
    /\ k.offer.pass = "own" /\ k.at <= k.offer.until
    /\ k.offer.token \in answered'["accepted"] \ answered["rejected"]
    /\ [user |-> k.offer.user, token |-> k.offer.token] \in shown
    /\ Discovery!Cardinality({other \in kept' : other.offer.user = k.offer.user}) = 1

\* Only accept_discovered_campus_account saves, and only the offer that stands.
LEMMA AcceptConfirms ==
  ASSUME DiscoveryInv, NEW reply \in shown, Discovery!Accept(reply), NEW k \in kept' \ kept
  PROVE  Confirmed(k)
  <1>1. /\ offer # Discovery!NoOffer /\ Discovery!Answers(offer, reply)
        /\ \A other \in kept : other.offer.user # reply.user
        /\ kept' = kept \cup {[offer |-> offer, at |-> clock]}
    BY DEF Discovery!Accept
  <1>2. k = [offer |-> offer, at |-> clock] /\ k.offer = offer /\ k.at = clock
    BY <1>1
  <1>3. offer.user = reply.user /\ offer.token = reply.token /\ clock <= offer.until
    BY <1>1 DEF Discovery!Answers
  <1>4. reply.token \in answered'["accepted"]
    BY DEF Discovery!Accept, DiscoveryInv, DiscoveryTyped
  <1>5. {other \in kept' : other.offer.user = k.offer.user} = {k}
    BY <1>1, <1>2, <1>3
  <1>6. Discovery!Cardinality({k}) = 1
    BY FS_Singleton DEF Discovery!Cardinality, Cardinality
  <1> QED  BY <1>1, <1>2, <1>3, <1>4, <1>5, <1>6 DEF Confirmed, DiscoveryInv, OfferStands

LEMMA OnlyAcceptSaves ==
  ASSUME [Discovery!DiscoveryNext]_Discovery!discoveryVars, kept' # kept
  PROVE  \E reply \in shown : Discovery!Accept(reply)
  BY DEF Discovery!DiscoveryNext, Discovery!discoveryVars, Discovery!Discover, Discovery!Signed, Discovery!SentOn,
         Discovery!GivesUp, Discovery!Refreshes, Discovery!Offer, Discovery!Reject, Discovery!LogsIn, Discovery!Moves,
         Discovery!DiscoveryTick

\* An account is saved only as it was offered, in the time of the offer, after the user accepted it and had not
\* rejected it, and once (discover, accept and reject of a campus account), for any number of calls and offers.
THEOREM SavesAsConfirmed == Spec => SavedAsConfirmed
  <1>1. ASSUME DiscoveryInv, [Discovery!DiscoveryNext]_Discovery!discoveryVars
        PROVE  \A k \in kept' \ kept : Confirmed(k)
    BY <1>1, OnlyAcceptSaves, AcceptConfirms
  <1>2. DiscoveryInv /\ [Discovery!DiscoveryNext]_Discovery!discoveryVars =>
          [\A k \in kept' \ kept : Confirmed(k)]_Discovery!discoveryVars
    BY <1>1
  <1> QED  BY ServicesBegin, ServicesMove, DiscoveryInitInv, DiscoveryStepInv, <1>2, PTL
           DEF Spec, SavedAsConfirmed, Discovery!SavedAsConfirmed, Confirmed

-----------------------------------------------------------------------------
(* The password of an account: the store's own proof (ConfigStoreProofs), of the store that the services have. *)

ConfigP == INSTANCE ConfigStoreProofs WITH
    Passwords <- SavedPasswords, task <- configTask, saves <- entered, MaxSaves <- MaxEntered

LEMMA SameInit == Config!ConfigInit = ConfigP!ConfigInit
  BY DEF Config!ConfigInit, ConfigP!ConfigInit, Config!NoAccount, ConfigP!NoAccount, Config!Absent, ConfigP!Absent,
         Config!Idle, ConfigP!Idle

LEMMA SameNext == Config!ConfigNext = ConfigP!ConfigNext
  <1> USE DEF Config!NoAccount, ConfigP!NoAccount, Config!Absent, ConfigP!Absent, Config!Idle, ConfigP!Idle,
              Config!Filled, ConfigP!Filled, Config!Public, ConfigP!Public, Config!Written, ConfigP!Written,
              Config!Kept, ConfigP!Kept, Config!Up, ConfigP!Up, Config!Begins, ConfigP!Begins,
              Config!Copies, ConfigP!Copies, Config!Alone, ConfigP!Alone
  <1>1. Config!Load = ConfigP!Load
    BY DEF Config!Load, ConfigP!Load, Config!LoadsRecord, ConfigP!LoadsRecord, Config!LoadsFile, ConfigP!LoadsFile,
           Config!LoadsBlind, ConfigP!LoadsBlind, Config!Merged, ConfigP!Merged, Config!Erases, ConfigP!Erases,
           Config!InMemory, ConfigP!InMemory
  <1>2. \A pass \in SavedPasswords :
          Config!Enter(pass) = ConfigP!Enter(pass) /\ Config!Change(pass) = ConfigP!Change(pass)
    BY DEF Config!Enter, ConfigP!Enter, Config!Change, ConfigP!Change
  <1>3. Config!Keep = ConfigP!Keep /\ Config!Trust = ConfigP!Trust /\ Config!Record = ConfigP!Record
    BY DEF Config!Keep, ConfigP!Keep, Config!Trust, ConfigP!Trust, Config!Record, ConfigP!Record
  <1>4. Config!Blinks = ConfigP!Blinks /\ Config!Ends = ConfigP!Ends /\ Config!Router = ConfigP!Router
    BY DEF Config!Blinks, ConfigP!Blinks, Config!Ends, ConfigP!Ends, Config!Router, ConfigP!Router
  <1>5. \A op, after : Config!Stores(op, after) = ConfigP!Stores(op, after)
    BY DEF Config!Stores, ConfigP!Stores, Config!Missing, ConfigP!Missing, Config!ToStore, ConfigP!ToStore
  <1>6. \A op : Config!Publishes(op) = ConfigP!Publishes(op)
    BY DEF Config!Publishes, ConfigP!Publishes
  <1>7. Config!Ops = ConfigP!Ops
    BY DEF Config!Ops, ConfigP!Ops, Config!Values, ConfigP!Values
  <1> QED  BY <1>1, <1>2, <1>3, <1>4, <1>5, <1>6, <1>7
           DEF Config!ConfigNext, ConfigP!ConfigNext, Config!MainStores, ConfigP!MainStores, Config!TaskStores,
               ConfigP!TaskStores, Config!MainPublishes, ConfigP!MainPublishes, Config!TaskPublishes,
               ConfigP!TaskPublishes

\* Unless commands overlapped, or a file or a record went wrong while memory had the blank of an unreadable
\* start, no password is lost, whatever fails and whenever the application ends (load_config, save_config).
THEOREM NoPasswordIsLost ==
  ASSUME ConfigP!ValuesDiffer
  PROVE  Spec => []PasswordIsSomewhere
  <1>1. ConfigP!ConfigSpec => []ConfigP!PasswordIsSomewhere
    BY ConfigP!NoPasswordIsLost
  <1>2. Init => ConfigP!ConfigInit
    BY ServicesBegin, SameInit
  <1>3. [Next]_vars => [ConfigP!ConfigNext]_ConfigP!configVars
    BY ServicesMove, SameNext DEF Config!configVars, ConfigP!configVars
  <1>4. ConfigP!PasswordIsSomewhere => PasswordIsSomewhere
    BY DEF PasswordIsSomewhere, Config!PasswordIsSomewhere, ConfigP!PasswordIsSomewhere, Config!NoAccount,
           ConfigP!NoAccount, Config!Kept, ConfigP!Kept, Config!Absent, ConfigP!Absent
  <1> QED  BY <1>1, <1>2, <1>3, <1>4, PTL DEF Spec, ConfigP!ConfigSpec

-----------------------------------------------------------------------------
(* A refused password: good records make every account wait as long as its refusal asks.  Until one of those  *)
(* who send passwords can have missed an answer (parted), whoever is about to send one looks at good records:  *)
(* of the memory, unless the service has begun or ended since it was read (MemoryIsKept); of the service, which  *)
(* then works alone (ServiceIsKept); and of the file once nobody has a copy to write (FileIsKept).              *)

HealthRecord == [fails : Nat, until : Nat]
HealthRecords == [Persons -> HealthRecord]
CopyTyped(copy) == copy = Health!NoCopy \/ copy \in HealthRecords

HealthTypes ==
    /\ desktop \in BOOLEAN /\ time \in 0 .. LatestHealth /\ health \in HealthRecords /\ healthFile \in HealthRecords
    /\ chosen \subseteq Persons /\ tryingUser \in Persons \cup {Health!Nobody}
    /\ tray \in Persons \cup {Health!Nobody} /\ serviceAttempt \in Persons \cup {Health!Nobody}
    /\ CopyTyped(loginCopy) /\ CopyTyped(trayCopy) /\ CopyTyped(windowCopy) /\ CopyTyped(service)
    /\ inBackground \in BOOLEAN /\ refused \in [Persons -> Nat] /\ parted \in BOOLEAN
    /\ serviceAttempt # Health!Nobody => service # Health!NoCopy
    /\ desktop => service = Health!NoCopy
    /\ ~desktop => tray = Health!Nobody /\ trayCopy = Health!NoCopy

Lifted(u) == time >= refused[u]
WaitIsKept(records) == \A u \in Persons : records[u].until >= refused[u]

Idle ==
    /\ tryingUser = Health!Nobody /\ chosen = {}
    /\ loginCopy = Health!NoCopy /\ trayCopy = Health!NoCopy /\ windowCopy = Health!NoCopy

MemoryIsKept == ~(Health!Behind /\ Idle) => WaitIsKept(health)
FileIsKept == ~Health!Unwritten => WaitIsKept(healthFile)
ServiceIsKept == service # Health!NoCopy => inBackground /\ Idle /\ WaitIsKept(service)
ChosenAreLifted == tryingUser \notin chosen /\ \A u \in chosen : Lifted(u)

HealthKept == MemoryIsKept /\ FileIsKept /\ ServiceIsKept /\ ChosenAreLifted
HealthInv == HealthTypes /\ (~parted => HealthKept)

LEMMA HealthConstants ==
  /\ CredentialWait \in Nat /\ BalanceWait \in Nat /\ ServerBase \in Nat /\ NetworkBase \in Nat /\ Longest \in Nat
  /\ LatestHealth \in Nat /\ Health!Nobody \notin Persons
  BY HealthAssumption DEF Health!Nobody

\* The wait after a failure of any kind is a number.
LEMMA WaitIsNat ==
  ASSUME NEW fails \in Nat \ {0}, NEW kind \in Health!Kinds
  PROVE  Health!Wait(kind, fails) \in Nat
  <1>1. Health!Smaller(fails, 7) \in 1 .. 7
    BY DEF Health!Smaller
  <1>2. Health!Doubled \in [1 .. 7 -> Nat]
    BY DEF Health!Doubled
  <1>3. PICK factor \in Nat : factor = Health!Doubled[Health!Smaller(fails, 7)]
    BY <1>1, <1>2
  <1>4. ASSUME NEW base \in Nat PROVE Health!Growing(base, fails) \in Nat
    <2>1. base * factor \in Nat
      BY <1>3
    <2> QED  BY <1>3, <2>1, HealthConstants DEF Health!Growing, Health!Smaller
  <1>5. Health!Growing(ServerBase, fails) \in Nat /\ Health!Growing(NetworkBase, fails) \in Nat
    BY <1>4, HealthConstants
  <1> QED  BY <1>5, HealthConstants DEF Health!Wait, Health!Kinds

LEMMA RecordsAreNoCopy ==
  ASSUME NEW records \in HealthRecords, NEW u \in Persons
  PROVE  records # Health!NoCopy
  <1>1. DOMAIN records = Persons
    BY DEF HealthRecords
  <1>2. DOMAIN Health!NoCopy = {}
    BY DEF Health!NoCopy
  <1> QED  BY <1>1, <1>2

LEMMA FreshIsRecord == Health!Fresh \in HealthRecord
  BY DEF Health!Fresh, HealthRecord

LEMMA FailedIsRecord ==
  ASSUME NEW records \in HealthRecords, NEW u \in Persons, NEW kind \in Health!Kinds, time \in Nat
  PROVE  Health!Failed(records[u], kind) \in HealthRecord
  <1>1. records[u] \in HealthRecord
    BY DEF HealthRecords
  <1>2. Health!Wait(kind, records[u].fails + 1) \in Nat
    BY <1>1, WaitIsNat DEF HealthRecord
  <1> QED  BY <1>1, <1>2 DEF Health!Failed, HealthRecord

\* What an answer makes of good records and of what is known of the passwords: the record of the account waits
\* as long as the answer asks.
LEMMA AnswerKeepsWait ==
  ASSUME NEW records \in HealthRecords, NEW u \in Persons, NEW record \in HealthRecord, NEW until \in Nat,
         refused \in [Persons -> Nat], refused' = [refused EXCEPT ![u] = until]
  PROVE  LET renewed == [records EXCEPT ![u] = record]
         IN  /\ renewed \in HealthRecords /\ refused' \in [Persons -> Nat]
             /\ WaitIsKept(records) /\ record.until >= until
                   => \A v \in Persons : renewed[v].until >= refused'[v]
  <1> DEFINE renewed == [records EXCEPT ![u] = record]
  <1>1. renewed \in HealthRecords /\ refused' \in [Persons -> Nat]
    BY DEF HealthRecords
  <1>2. ASSUME WaitIsKept(records), record.until >= until, NEW v \in Persons
        PROVE  renewed[v].until >= refused'[v]
    <2>1. CASE v = u
      BY <1>2, <2>1 DEF HealthRecords
    <2>2. CASE v # u
      BY <1>2, <2>2 DEF HealthRecords, WaitIsKept
    <2> QED  BY <2>1, <2>2
  <1> QED  BY <1>1, <1>2

LEMMA HealthTypesAre == HealthTypes => Health!HealthTypeOK
  BY DEF HealthTypes, CopyTyped, HealthRecords, HealthRecord, Health!HealthTypeOK, Health!Healths, Health!Records

LEMMA BlankIsRecords == Health!NoRecords \in HealthRecords
  BY FreshIsRecord DEF Health!NoRecords, HealthRecords

LEMMA HealthTypesInit == Health!HealthInit => HealthTypes
  <1> SUFFICES ASSUME Health!HealthInit PROVE HealthTypes
    OBVIOUS
  <1>1. health \in HealthRecords /\ healthFile \in HealthRecords
    BY BlankIsRecords DEF Health!HealthInit
  <1>2. time \in 0 .. LatestHealth /\ refused \in [Persons -> Nat]
    BY HealthConstants DEF Health!HealthInit
  <1> QED  BY <1>1, <1>2 DEF Health!HealthInit, HealthTypes, CopyTyped

\* The types after an answer to the application, and after one to the service.
LEMMA AnswerTypes ==
  ASSUME HealthTypes, NEW u \in Persons, NEW record \in HealthRecord, NEW until \in Nat, Health!Becomes(u, record, until)
  PROVE  /\ health' \in HealthRecords /\ refused' \in [Persons -> Nat]
         /\ UNCHANGED <<desktop, time, healthFile, windowCopy, inBackground, service, serviceAttempt>>
         /\ WaitIsKept(health) /\ record.until >= until => \A v \in Persons : health'[v].until >= refused'[v]
  <1>1. /\ health \in HealthRecords /\ refused \in [Persons -> Nat]
        /\ health' = [health EXCEPT ![u] = record] /\ refused' = [refused EXCEPT ![u] = until]
    BY DEF Health!Becomes, HealthTypes
  <1>2. /\ health' \in HealthRecords /\ refused' \in [Persons -> Nat]
        /\ WaitIsKept(health) /\ record.until >= until => \A v \in Persons : health'[v].until >= refused'[v]
    BY <1>1, AnswerKeepsWait
  <1> QED  BY <1>2 DEF Health!Becomes, Health!still, Health!engine

LEMMA ServiceAnswerTypes ==
  ASSUME HealthTypes, NEW record \in HealthRecord, NEW until \in Nat, Health!ServiceHears(record, until)
  PROVE  /\ service \in HealthRecords /\ service' \in HealthRecords /\ refused' \in [Persons -> Nat]
         /\ serviceAttempt \in Persons /\ serviceAttempt' = Health!Nobody /\ service' # Health!NoCopy
         /\ service # Health!NoCopy
         /\ UNCHANGED <<desktop, time, health, healthFile, chosen, tryingUser, tray, loginCopy, trayCopy, windowCopy,
                        inBackground, parted>>
         /\ WaitIsKept(service) /\ record.until >= until => \A v \in Persons : service'[v].until >= refused'[v]
  <1>1. /\ serviceAttempt \in Persons /\ service \in HealthRecords /\ refused \in [Persons -> Nat]
        /\ service' = [service EXCEPT ![serviceAttempt] = record]
        /\ refused' = [refused EXCEPT ![serviceAttempt] = until]
    BY DEF Health!ServiceHears, HealthTypes, CopyTyped
  <1>2. /\ service' \in HealthRecords /\ refused' \in [Persons -> Nat]
        /\ WaitIsKept(service) /\ record.until >= until => \A v \in Persons : service'[v].until >= refused'[v]
    BY <1>1, AnswerKeepsWait
  <1> QED  BY <1>1, <1>2, RecordsAreNoCopy
           DEF Health!ServiceHears, Health!still, Health!logins, Health!copies

\* A refusal, and an acceptance, as records.
LEMMA RefusalRecord ==
  ASSUME NEW records \in HealthRecords, NEW u \in Persons, NEW kind \in Health!Kinds, time \in Nat
  PROVE  LET record == Health!Failed(records[u], kind)
         IN  record \in HealthRecord /\ record.until \in Nat /\ record.until >= record.until
  BY FailedIsRecord DEF HealthRecord

LEMMA AcceptanceRecord == Health!Fresh \in HealthRecord /\ Health!Fresh.until >= 0
  BY DEF Health!Fresh, HealthRecord

\* The user has the records of some accounts begin anew.
LEMMA ForgetTypes ==
  ASSUME HealthTypes, NEW users, Health!Forget(users)
  PROVE  /\ health' \in HealthRecords /\ refused' \in [Persons -> Nat] /\ windowCopy' = health' /\ ~inBackground
         /\ UNCHANGED <<desktop, time, healthFile, chosen, tryingUser, tray, loginCopy, trayCopy, inBackground, service,
                        serviceAttempt, parted>>
         /\ \A v \in Persons : v \in users \/ refused'[v] = refused[v]
         /\ \A v \in Persons : v \in users => refused'[v] = 0
         /\ WaitIsKept(health) => \A v \in Persons : health'[v].until >= refused'[v]
  <1>1. /\ health' = [u \in Persons |-> IF u \in users THEN Health!Fresh ELSE health[u]]
        /\ refused' = [u \in Persons |-> IF u \in users THEN 0 ELSE refused[u]]
        /\ windowCopy' = health' /\ ~inBackground
        /\ UNCHANGED <<desktop, time, healthFile, chosen, tryingUser, tray, loginCopy, trayCopy, inBackground, service,
                       serviceAttempt, parted>>
    BY DEF Health!Forget, Health!still, Health!logins, Health!engine
  <1>2. health' \in HealthRecords /\ refused' \in [Persons -> Nat]
    BY <1>1, FreshIsRecord DEF HealthTypes, HealthRecords
  <1>3. WaitIsKept(health) => \A v \in Persons : health'[v].until >= refused'[v]
    BY <1>1, AcceptanceRecord DEF WaitIsKept
  <1> QED  BY <1>1, <1>2, <1>3

LEMMA HealthTypesStep == HealthTypes /\ [Health!HealthNext]_Health!healthVars => HealthTypes'
  <1> SUFFICES ASSUME HealthTypes, [Health!HealthNext]_Health!healthVars PROVE HealthTypes'
    OBVIOUS
  <1> USE DEF HealthTypes, CopyTyped, Health!still, Health!answers, Health!copies, Health!logins, Health!engine,
              Health!Parts
  <1>1. time \in Nat
    BY HealthConstants
  <1>2. CASE \/ Health!Considers \/ Health!CheckStops \/ Health!Unanswered \/ Health!TrayUnanswered
             \/ \E u \in Persons : Health!CheckSends(u) \/ Health!UserSends(u) \/ Health!TraySends(u)
    BY <1>2 DEF Health!Considers, Health!CheckStops, Health!Unanswered, Health!TrayUnanswered, Health!CheckSends,
                Health!UserSends, Health!TraySends, Health!Behind
  <1>3. ASSUME NEW u \in Persons, NEW record \in HealthRecord, NEW until \in Nat, Health!Becomes(u, record, until),
               \/ /\ tryingUser' = Health!Nobody /\ chosen' \in {chosen, {}} /\ loginCopy' = health'
                  /\ UNCHANGED <<tray, trayCopy, parted>>
               \/ /\ desktop /\ tray' = Health!Nobody /\ trayCopy' = health' /\ parted' \in BOOLEAN
                  /\ UNCHANGED <<chosen, tryingUser, loginCopy>>
        PROVE  HealthTypes'
    BY <1>3, AnswerTypes
  <1>4. CASE Health!Accepted \/ Health!TrayAccepted
    <2>1. Health!Fresh \in HealthRecord /\ 0 \in Nat
      BY AcceptanceRecord
    <2>2. CASE Health!Accepted      BY <2>1, <2>2, <1>3 DEF Health!Accepted
    <2>3. CASE Health!TrayAccepted  BY <2>1, <2>3, <1>3 DEF Health!TrayAccepted
    <2> QED  BY <1>4, <2>2, <2>3
  <1>5. ASSUME NEW kind \in Health!Kinds, Health!Refused(kind) \/ Health!TrayRefused(kind) PROVE HealthTypes'
    <2>1. ASSUME NEW u \in Persons
          PROVE  Health!Failed(health[u], kind) \in HealthRecord /\ Health!Failed(health[u], kind).until \in Nat
      BY <1>1, RefusalRecord
    <2>2. CASE Health!Refused(kind)
      BY <2>1, <2>2, <1>3 DEF Health!Refused, Health!BecomesFailed
    <2>3. CASE Health!TrayRefused(kind)
      BY <2>1, <2>3, <1>3 DEF Health!TrayRefused, Health!BecomesFailed
    <2> QED  BY <1>5, <2>2, <2>3
  <1>6. ASSUME NEW users, Health!Forget(users) PROVE HealthTypes'
    BY <1>6, ForgetTypes
  <1>7. CASE Health!LoginWrites \/ Health!TrayWrites \/ Health!WindowWrites \/ Health!WriteFails
    <2>1. CASE Health!LoginWrites   BY <2>1 DEF Health!LoginWrites, Health!Stores
    <2>2. CASE Health!TrayWrites    BY <2>2 DEF Health!TrayWrites, Health!Stores
    <2>3. CASE Health!WindowWrites  BY <2>3 DEF Health!WindowWrites, Health!Stores
    <2>4. CASE Health!WriteFails
      <3>1. healthFile' \in HealthRecords
        BY <2>4, BlankIsRecords DEF Health!WriteFails
      <3> QED  BY <2>4, <3>1 DEF Health!WriteFails
    <2> QED  BY <1>7, <2>1, <2>2, <2>3, <2>4
  <1>8. CASE Health!GoesAway \/ Health!Returns \/ Health!Restarts
    <2>1. CASE Health!GoesAway  BY <2>1 DEF Health!GoesAway
    <2>2. CASE Health!Returns   BY <2>2 DEF Health!Returns, Health!Returned, Health!Unwritten
    <2>3. CASE Health!Restarts
      <3>1. healthFile' \in HealthRecords
        BY <2>3, BlankIsRecords DEF Health!Restarts
      <3> QED  BY <2>3, <3>1 DEF Health!Restarts, Health!Unwritten
    <2> QED  BY <1>8, <2>1, <2>2, <2>3
  <1>9. CASE Health!ServiceBegins \/ Health!ServiceEnds \/ (\E u \in Persons : Health!ServiceTries(u))
    BY <1>9 DEF Health!ServiceBegins, Health!ServiceEnds, Health!ServiceTries, Health!Unwritten
  <1>10. CASE Health!ServiceAccepted
    BY <1>10, AcceptanceRecord, ServiceAnswerTypes DEF Health!ServiceAccepted
  <1>11. ASSUME NEW kind \in Health!Kinds, Health!ServiceRefused(kind) PROVE HealthTypes'
    <2>1. serviceAttempt \in Persons /\ service \in HealthRecords
      BY <1>11 DEF Health!ServiceRefused
    <2> QED  BY <1>1, <1>11, <2>1, RefusalRecord, ServiceAnswerTypes DEF Health!ServiceRefused
  <1>12. CASE Health!HealthTick
    BY <1>12, HealthConstants DEF Health!HealthTick
  <1>13. CASE UNCHANGED Health!healthVars
    BY <1>13 DEF Health!healthVars
  <1> QED  BY <1>2, <1>4, <1>5, <1>6, <1>7, <1>8, <1>9, <1>10, <1>11, <1>12, <1>13 DEF Health!HealthNext

\* Before anything that does not part them, the application that may send, or that is at work, has good records,
\* and then the service rests.
LEMMA AtWork ==
  ASSUME HealthInv, ~parted
  PROVE  /\ desktop \/ ~inBackground \/ ~Idle \/ ~Health!Behind => WaitIsKept(health)
         /\ desktop \/ ~inBackground \/ ~Idle \/ ~Health!Behind => service = Health!NoCopy
  BY DEF HealthInv, HealthTypes, HealthKept, MemoryIsKept, ServiceIsKept, Health!Behind

LEMMA HealthInitInv == Health!HealthInit => HealthInv
  <1> SUFFICES ASSUME Health!HealthInit PROVE HealthInv
    OBVIOUS
  <1>1. \A u \in Persons : Health!NoRecords[u].until >= 0
    BY DEF Health!NoRecords, Health!Fresh
  <1>2. WaitIsKept(health) /\ WaitIsKept(healthFile)
    BY <1>1 DEF Health!HealthInit, WaitIsKept
  <1> QED  BY <1>2, HealthTypesInit, HealthConstants
           DEF Health!HealthInit, HealthInv, HealthKept, MemoryIsKept, FileIsKept, ServiceIsKept, ChosenAreLifted

\* A check chooses accounts, or a login of the application sends a password.
LEMMA HealthSendSteps ==
  ASSUME HealthInv, HealthTypes', ~parted, ~parted',
         Health!Considers \/ \E u \in Persons : Health!CheckSends(u) \/ Health!UserSends(u) \/ Health!TraySends(u)
  PROVE  HealthKept' /\ \A u \in Persons : Health!IsSent(u) => Lifted(u)
  <1>1. /\ UNCHANGED <<desktop, time, health, refused, healthFile, loginCopy, trayCopy, windowCopy, inBackground, service,
                       serviceAttempt>>
    BY DEF Health!Considers, Health!CheckSends, Health!UserSends, Health!TraySends, Health!still, Health!answers,
           Health!copies, Health!engine
  <1>2. WaitIsKept(health) /\ service = Health!NoCopy
    BY AtWork DEF Health!Considers, Health!CheckSends, Health!UserSends, Health!TraySends, Health!Parts, Idle
  <1>3. MemoryIsKept' /\ FileIsKept' /\ ServiceIsKept'
    BY <1>1, <1>2 DEF MemoryIsKept, FileIsKept, ServiceIsKept, WaitIsKept, HealthInv, HealthKept, Health!Unwritten
  <1>4. \A u \in Persons : Health!MayTry(health, u) => Lifted(u)
    BY <1>2 DEF Health!MayTry, Lifted, WaitIsKept, HealthInv, HealthTypes, HealthRecords, HealthRecord
  <1>5. \A u \in Persons : Lifted(u)' <=> Lifted(u)
    BY <1>1 DEF Lifted
  <1>6. ChosenAreLifted
    BY DEF HealthInv, HealthKept
  <1>7. CASE Health!Considers
    <2>1. chosen' = {u \in Persons : Health!MayTry(health, u)} /\ UNCHANGED <<tryingUser, tray>>
          /\ tryingUser = Health!Nobody
      BY <1>7 DEF Health!Considers, Health!Free
    <2>2. ChosenAreLifted'
      BY <2>1, <1>4, <1>5, HealthConstants DEF ChosenAreLifted
    <2> QED  BY <1>1, <1>3, <2>1, <2>2 DEF HealthKept, Health!IsSent
  <1>8. ASSUME NEW u \in Persons, Health!CheckSends(u) PROVE HealthKept' /\ \A v \in Persons : Health!IsSent(v) => Lifted(v)
    <2>1. u \in chosen /\ chosen' = chosen \ {u} /\ tryingUser' = u /\ UNCHANGED tray
      BY <1>8 DEF Health!CheckSends
    <2>2. ChosenAreLifted' /\ Lifted(u)
      BY <2>1, <1>5, <1>6 DEF ChosenAreLifted, HealthInv, HealthTypes
    <2> QED  BY <1>1, <1>3, <2>1, <2>2 DEF HealthKept, Health!IsSent
  <1>9. ASSUME NEW u \in Persons, Health!UserSends(u) PROVE HealthKept' /\ \A v \in Persons : Health!IsSent(v) => Lifted(v)
    <2>1. Health!MayTry(health, u) /\ chosen' = {} /\ tryingUser' = u /\ UNCHANGED tray
      BY <1>9 DEF Health!UserSends
    <2> QED  BY <1>1, <1>3, <1>4, <2>1 DEF HealthKept, Health!IsSent, ChosenAreLifted
  <1>10. ASSUME NEW u \in Persons, Health!TraySends(u) PROVE HealthKept' /\ \A v \in Persons : Health!IsSent(v) => Lifted(v)
    <2>1. Health!MayTry(health, u) /\ tray' = u /\ UNCHANGED <<chosen, tryingUser>>
      BY <1>10 DEF Health!TraySends
    <2>2. ChosenAreLifted'
      BY <2>1, <1>5, <1>6 DEF ChosenAreLifted, HealthInv, HealthTypes
    <2> QED  BY <1>1, <1>3, <1>4, <2>1, <2>2 DEF HealthKept, Health!IsSent
  <1> QED  BY <1>7, <1>8, <1>9, <1>10

\* An answer that the application makes a record of: the records are good and not in the file.
LEMMA HealthAnswerStep ==
  ASSUME HealthInv, ~parted, NEW u \in Persons, NEW record \in HealthRecord, NEW until \in Nat,
         Health!Becomes(u, record, until), record.until >= until, WaitIsKept(health), service = Health!NoCopy,
         loginCopy' = health' \/ trayCopy' = health', ChosenAreLifted'
  PROVE  HealthKept'
  <1>1. /\ health' \in HealthRecords /\ WaitIsKept(health)' /\ service' = Health!NoCopy
        /\ UNCHANGED <<desktop, time, healthFile, windowCopy, inBackground, service, serviceAttempt>>
    BY AnswerTypes DEF HealthInv, WaitIsKept
  <1>2. health' # Health!NoCopy
    BY <1>1, RecordsAreNoCopy
  <1>3. FileIsKept'
    BY <1>1, <1>2 DEF FileIsKept, Health!Unwritten
  <1> QED  BY <1>1, <1>3 DEF HealthKept, MemoryIsKept, ServiceIsKept

LEMMA HealthAnswers ==
  ASSUME HealthInv, ~parted, ~parted',
         \/ Health!Accepted \/ Health!TrayAccepted
         \/ \E kind \in Health!Kinds : Health!Refused(kind) \/ Health!TrayRefused(kind)
  PROVE  HealthKept'
  <1> DEFINE Answered(u, record, until) ==
               /\ Health!Becomes(u, record, until)
               /\ \/ u = tryingUser /\ tryingUser' = Health!Nobody /\ chosen' \subseteq chosen /\ loginCopy' = health'
                  \/ u = tray /\ u \notin chosen /\ UNCHANGED <<chosen, tryingUser>> /\ trayCopy' = health'
                  \/ u = tray /\ until = 0 /\ UNCHANGED <<chosen, tryingUser>> /\ trayCopy' = health'
  <1>1. WaitIsKept(health) /\ service = Health!NoCopy
    BY AtWork, HealthConstants
       DEF Health!Accepted, Health!TrayAccepted, Health!Refused, Health!TrayRefused, Idle, HealthInv, HealthTypes
  <1>2. ChosenAreLifted /\ time \in Nat /\ health \in HealthRecords
    BY HealthConstants DEF HealthInv, HealthKept, HealthTypes
  <1>3. ASSUME NEW u \in Persons, NEW record \in HealthRecord, NEW until \in Nat, Answered(u, record, until),
               record.until >= until
        PROVE  HealthKept'
    <2>1. refused' = [refused EXCEPT ![u] = until] /\ UNCHANGED time /\ refused \in [Persons -> Nat]
      BY <1>3 DEF Health!Becomes, Health!still, HealthInv, HealthTypes
    <2>2. ASSUME NEW v \in chosen' PROVE Lifted(v)' /\ v # tryingUser'
      <3>1. v \in chosen /\ Lifted(v) /\ v \in Persons /\ v # tryingUser
        BY <1>2, <1>3 DEF ChosenAreLifted, HealthInv, HealthTypes
      <3>2. v # Health!Nobody
        BY <3>1, HealthConstants
      <3>3. v # u \/ until = 0
        BY <1>3, <3>1
      <3> QED  BY <1>2, <1>3, <2>1, <3>1, <3>2, <3>3 DEF Lifted
    <2>3. ChosenAreLifted'
      BY <2>2 DEF ChosenAreLifted
    <2> QED  BY <1>1, <1>3, <2>3, HealthAnswerStep
  <1>4. CASE Health!Accepted \/ Health!TrayAccepted
    <2>1. Health!Fresh \in HealthRecord /\ Health!Fresh.until >= 0 /\ 0 \in Nat
      BY AcceptanceRecord
    <2>2. \E u \in Persons : Answered(u, Health!Fresh, 0)
      BY <1>4 DEF Health!Accepted, Health!TrayAccepted, HealthInv, HealthTypes
    <2> QED  BY <1>3, <2>1, <2>2
  <1>5. ASSUME NEW kind \in Health!Kinds, Health!Refused(kind) \/ Health!TrayRefused(kind) PROVE HealthKept'
    <2>1. PICK u \in Persons : LET record == Health!Failed(health[u], kind) IN Answered(u, record, record.until)
      BY <1>5 DEF Health!Refused, Health!TrayRefused, Health!BecomesFailed, Health!Parts, HealthInv, HealthTypes
    <2> QED  BY <1>2, <1>3, <2>1, RefusalRecord
  <1> QED  BY <1>4, <1>5

\* The user has the records of some accounts begin anew.
LEMMA HealthForgetStep ==
  ASSUME HealthInv, ~parted, NEW users, Health!Forget(users)
  PROVE  HealthKept'
  <1>1. /\ health' \in HealthRecords /\ refused' \in [Persons -> Nat] /\ windowCopy' = health' /\ ~inBackground
        /\ UNCHANGED <<desktop, time, healthFile, chosen, tryingUser, tray, loginCopy, trayCopy, inBackground, service,
                       serviceAttempt, parted>>
        /\ \A v \in Persons : refused'[v] = 0 \/ refused'[v] = refused[v]
        /\ WaitIsKept(health) => \A v \in Persons : health'[v].until >= refused'[v]
    BY ForgetTypes DEF HealthInv
  <1>2. WaitIsKept(health)' /\ service = Health!NoCopy
    BY <1>1, AtWork DEF WaitIsKept
  <1>3. FileIsKept'
    BY <1>1, RecordsAreNoCopy DEF FileIsKept, WaitIsKept, Health!Unwritten
  <1>4. ChosenAreLifted'
    BY <1>1, HealthConstants DEF ChosenAreLifted, Lifted, HealthInv, HealthKept, HealthTypes
  <1> QED  BY <1>1, <1>2, <1>3, <1>4 DEF HealthKept, MemoryIsKept, ServiceIsKept

\* Copies that are written, the ways to the background and back, the end of the application, and time.
LEMMA HealthFileSteps ==
  ASSUME HealthInv, ~parted, ~parted',
         \/ Health!CheckStops \/ Health!Unanswered \/ Health!TrayUnanswered
         \/ Health!LoginWrites \/ Health!TrayWrites \/ Health!WindowWrites \/ Health!WriteFails
         \/ Health!GoesAway \/ Health!Returns \/ Health!Restarts \/ Health!HealthTick
  PROVE  HealthKept'
  <1> USE DEF HealthInv, HealthKept, MemoryIsKept, FileIsKept, ServiceIsKept, ChosenAreLifted, Lifted, WaitIsKept,
              Health!Parts, Health!Unwritten, Health!Behind, Idle, Health!still, Health!answers, Health!copies,
              Health!logins, Health!engine
  <1>1. CASE Health!CheckStops      BY <1>1 DEF Health!CheckStops
  <1>2. CASE Health!Unanswered      BY <1>2, HealthConstants DEF Health!Unanswered
  <1>3. CASE Health!TrayUnanswered
    <2>1. desktop
      BY <1>3 DEF Health!TrayUnanswered, HealthTypes
    <2> QED  BY <1>3, <2>1, AtWork DEF Health!TrayUnanswered, HealthTypes
  <1>4. ASSUME NEW copy \in HealthRecords, Health!Stores(copy), WaitIsKept(health), service = Health!NoCopy
        PROVE  HealthKept'
    BY <1>4 DEF Health!Stores
  <1>5. CASE Health!LoginWrites \/ Health!TrayWrites \/ Health!WindowWrites
    <2>1. WaitIsKept(health) /\ service = Health!NoCopy
      BY <1>5, AtWork DEF Health!LoginWrites, Health!TrayWrites, Health!WindowWrites, Health!Stores
    <2> QED  BY <1>5, <2>1, <1>4
             DEF Health!LoginWrites, Health!TrayWrites, Health!WindowWrites, Health!Stores, HealthTypes, CopyTyped
  <1>6. CASE Health!WriteFails      BY <1>6 DEF Health!WriteFails
  <1>7. CASE Health!GoesAway        BY <1>7, AtWork DEF Health!GoesAway
  <1>8. CASE Health!Returns
    <2>1. service = Health!NoCopy
      BY <1>8 DEF Health!Returns, HealthTypes
    <2> QED  BY <1>8, <2>1 DEF Health!Returns, Health!Returned
  <1>9. CASE Health!Restarts
    <2>1. ~Health!Unwritten /\ WaitIsKept(healthFile) /\ healthFile' = healthFile
      BY <1>9 DEF Health!Restarts
    <2> QED  BY <1>9, <2>1 DEF Health!Restarts
  <1>10. CASE Health!HealthTick
    <2>1. time' \in Nat /\ time \in Nat /\ time' >= time /\ refused \in [Persons -> Nat] /\ chosen \subseteq Persons
      BY <1>10, HealthConstants DEF Health!HealthTick, HealthTypes
    <2>2. UNCHANGED <<desktop, health, healthFile, chosen, tryingUser, tray, loginCopy, trayCopy, windowCopy,
                      inBackground, service, serviceAttempt, refused>>
      BY <1>10 DEF Health!HealthTick
    <2>3. \A u \in Persons : Lifted(u) => Lifted(u)'
      BY <2>1, <2>2
    <2> QED  BY <2>1, <2>2, <2>3
  <1> QED  BY <1>1, <1>2, <1>3, <1>5, <1>6, <1>7, <1>8, <1>9, <1>10

\* The service, which works alone.
LEMMA HealthServiceSteps ==
  ASSUME HealthInv, ~parted, ~parted',
         \/ Health!ServiceBegins \/ Health!ServiceEnds \/ Health!ServiceAccepted
         \/ (\E u \in Persons : Health!ServiceTries(u)) \/ (\E kind \in Health!Kinds : Health!ServiceRefused(kind))
  PROVE  HealthKept' /\ \A u \in Persons : Health!IsSent(u) => Lifted(u)
  <1>1. CASE Health!ServiceBegins
    <2>1. /\ ~desktop /\ inBackground /\ service' = healthFile /\ ~Health!Unwritten /\ tryingUser = Health!Nobody
          /\ chosen = {}
          /\ UNCHANGED <<desktop, time, health, refused, healthFile, chosen, tryingUser, tray, loginCopy, trayCopy,
                         windowCopy, inBackground, serviceAttempt>>
      BY <1>1 DEF Health!ServiceBegins, Health!Parts, Health!still, Health!answers, Health!logins, Health!copies
    <2>2. Idle /\ Idle' /\ WaitIsKept(healthFile) /\ healthFile \in HealthRecords
      BY <2>1 DEF Idle, Health!Unwritten, HealthInv, HealthKept, FileIsKept, HealthTypes
    <2>3. WaitIsKept(service)' /\ WaitIsKept(healthFile)'
      BY <2>1, <2>2 DEF WaitIsKept
    <2>4. MemoryIsKept'
      BY <2>1, <2>2, RecordsAreNoCopy DEF MemoryIsKept, Health!Behind, WaitIsKept
    <2> QED  BY <2>1, <2>2, <2>3, <2>4
             DEF HealthKept, FileIsKept, ServiceIsKept, ChosenAreLifted, Health!IsSent
  <1>2. ASSUME service # Health!NoCopy
        PROVE  ~desktop /\ inBackground /\ Idle /\ WaitIsKept(service) /\ service \in HealthRecords
    BY <1>2 DEF HealthInv, HealthKept, ServiceIsKept, HealthTypes, CopyTyped
  <1>3. CASE Health!ServiceEnds
    <2>1. /\ healthFile' = service /\ service' = Health!NoCopy /\ service # Health!NoCopy
          /\ serviceAttempt' = Health!Nobody
          /\ UNCHANGED <<desktop, time, health, refused, chosen, tryingUser, tray, loginCopy, trayCopy, windowCopy,
                         inBackground>>
      BY <1>3 DEF Health!ServiceEnds, Health!still, Health!answers, Health!logins, Health!copies
    <2>2. WaitIsKept(healthFile)' /\ Idle'
      BY <2>1, <1>2 DEF WaitIsKept, Idle
    <2>3. MemoryIsKept'
      BY <2>1, <2>2, <1>2 DEF MemoryIsKept, Health!Behind, WaitIsKept
    <2> QED  BY <2>1, <2>2, <2>3, <1>2, HealthConstants
             DEF HealthKept, FileIsKept, ServiceIsKept, ChosenAreLifted, Idle, Health!IsSent
  <1>4. ASSUME NEW record \in HealthRecord, NEW until \in Nat, record.until >= until, Health!ServiceHears(record, until)
        PROVE  HealthKept' /\ \A u \in Persons : Health!IsSent(u) => Lifted(u)
    <2>1. /\ serviceAttempt' = Health!Nobody /\ service' # Health!NoCopy /\ service # Health!NoCopy
          /\ UNCHANGED <<desktop, time, health, healthFile, chosen, tryingUser, tray, loginCopy, trayCopy, windowCopy,
                         inBackground, parted>>
          /\ WaitIsKept(service) => WaitIsKept(service)'
      BY <1>4, ServiceAnswerTypes DEF HealthInv, WaitIsKept
    <2>2. ~desktop' /\ inBackground' /\ Idle' /\ WaitIsKept(service)'
      BY <2>1, <1>2 DEF Idle
    <2> QED  BY <2>1, <2>2, HealthConstants
             DEF HealthKept, MemoryIsKept, FileIsKept, ServiceIsKept, ChosenAreLifted, Idle, Health!Behind,
                 Health!Unwritten, Health!IsSent
  <1>5. CASE Health!ServiceAccepted
    BY <1>5, <1>4, AcceptanceRecord DEF Health!ServiceAccepted
  <1>6. ASSUME NEW kind \in Health!Kinds, Health!ServiceRefused(kind)
        PROVE  HealthKept' /\ \A u \in Persons : Health!IsSent(u) => Lifted(u)
    <2>1. serviceAttempt \in Persons /\ service \in HealthRecords /\ time \in Nat
      BY <1>6, HealthConstants DEF Health!ServiceRefused, HealthInv, HealthTypes, CopyTyped
    <2> QED  BY <1>4, <1>6, <2>1, RefusalRecord DEF Health!ServiceRefused
  <1>7. ASSUME NEW u \in Persons, Health!ServiceTries(u)
        PROVE  HealthKept' /\ \A v \in Persons : Health!IsSent(v) => Lifted(v)
    <2>1. /\ service # Health!NoCopy /\ service[u].until <= time /\ serviceAttempt' = u
          /\ UNCHANGED <<desktop, time, health, refused, healthFile, chosen, tryingUser, tray, loginCopy, trayCopy,
                         windowCopy, inBackground, service>>
      BY <1>7 DEF Health!ServiceTries, Health!MayTry, Health!still, Health!answers, Health!logins, Health!copies
    <2>2. Lifted(u)
      BY <2>1, <1>2 DEF Lifted, WaitIsKept, HealthRecords, HealthRecord, HealthInv, HealthTypes
    <2> QED  BY <2>1, <2>2
             DEF HealthInv, HealthKept, MemoryIsKept, FileIsKept, ServiceIsKept, ChosenAreLifted, Idle, Health!Behind,
                 Health!Unwritten, Health!IsSent, Lifted, WaitIsKept
  <1> QED  BY <1>1, <1>3, <1>5, <1>6, <1>7

\* Only a password whose wait is over is sent, until the records are parted.
LEMMA HealthStepInv ==
  HealthInv /\ [Health!HealthNext]_Health!healthVars
      => HealthInv' /\ \A u \in Persons : Health!IsSent(u) => parted' \/ Lifted(u)
  <1> SUFFICES ASSUME HealthInv, [Health!HealthNext]_Health!healthVars
               PROVE  HealthInv' /\ \A u \in Persons : Health!IsSent(u) => parted' \/ Lifted(u)
    OBVIOUS
  <1>1. HealthTypes'
    BY HealthTypesStep DEF HealthInv
  <1>2. parted => parted'
    BY DEF Health!HealthNext, Health!healthVars, Health!Considers, Health!CheckStops, Health!Accepted,
           Health!Unanswered, Health!TrayAccepted, Health!TrayUnanswered, Health!LoginWrites, Health!TrayWrites,
           Health!WindowWrites, Health!WriteFails, Health!GoesAway, Health!Returns, Health!Restarts,
           Health!ServiceBegins, Health!ServiceAccepted, Health!ServiceEnds, Health!HealthTick, Health!CheckSends,
           Health!UserSends, Health!TraySends, Health!ServiceTries, Health!Forget, Health!Refused,
           Health!TrayRefused, Health!ServiceRefused, Health!ServiceHears, Health!Stores, Health!Parts
  <1>3. ASSUME ~parted' PROVE HealthKept' /\ \A u \in Persons : Health!IsSent(u) => Lifted(u)
    <2>1. ~parted
      BY <1>2, <1>3
    <2>2. CASE Health!Considers
               \/ \E u \in Persons : Health!CheckSends(u) \/ Health!UserSends(u) \/ Health!TraySends(u)
      BY <1>1, <1>3, <2>1, <2>2, HealthSendSteps
    <2>3. CASE \/ Health!ServiceBegins \/ Health!ServiceEnds \/ Health!ServiceAccepted
               \/ (\E u \in Persons : Health!ServiceTries(u))
               \/ (\E kind \in Health!Kinds : Health!ServiceRefused(kind))
      BY <1>3, <2>1, <2>3, HealthServiceSteps
    <2>4. CASE \/ Health!Accepted \/ Health!TrayAccepted
               \/ \E kind \in Health!Kinds : Health!Refused(kind) \/ Health!TrayRefused(kind)
      <3>1. /\ tryingUser' \in {tryingUser, Health!Nobody} /\ tray' \in {tray, Health!Nobody} /\ UNCHANGED serviceAttempt
        BY <2>4 DEF Health!Accepted, Health!TrayAccepted, Health!Refused, Health!TrayRefused, Health!BecomesFailed,
                    Health!Becomes, Health!engine
      <3> QED  BY <1>3, <2>1, <2>4, <3>1, HealthAnswers, HealthConstants DEF Health!IsSent
    <2>5. ASSUME NEW users, Health!Forget(users) PROVE HealthKept' /\ \A u \in Persons : Health!IsSent(u) => Lifted(u)
      BY <2>1, <2>5, HealthForgetStep DEF Health!Forget, Health!logins, Health!engine, Health!IsSent
    <2>6. CASE \/ Health!CheckStops \/ Health!Unanswered \/ Health!TrayUnanswered
               \/ Health!LoginWrites \/ Health!TrayWrites \/ Health!WindowWrites \/ Health!WriteFails
               \/ Health!GoesAway \/ Health!Returns \/ Health!Restarts \/ Health!HealthTick
      <3>1. /\ tryingUser' \in {tryingUser, Health!Nobody} /\ tray' \in {tray, Health!Nobody}
            /\ serviceAttempt' \in {serviceAttempt, Health!Nobody}
        BY <2>6 DEF Health!CheckStops, Health!Unanswered, Health!TrayUnanswered, Health!LoginWrites, Health!TrayWrites,
                    Health!WindowWrites, Health!WriteFails, Health!GoesAway, Health!Returns, Health!Restarts,
                    Health!HealthTick, Health!Stores, Health!logins, Health!engine
      <3> QED  BY <1>3, <2>1, <2>6, <3>1, HealthFileSteps, HealthConstants DEF Health!IsSent
    <2>7. CASE UNCHANGED Health!healthVars
      BY <2>1, <2>7
         DEF Health!healthVars, HealthInv, HealthKept, MemoryIsKept, FileIsKept, ServiceIsKept, ChosenAreLifted, Lifted,
             WaitIsKept, Idle, Health!Behind, Health!Unwritten, Health!IsSent
    <2> QED  BY <2>2, <2>3, <2>4, <2>5, <2>6, <2>7 DEF Health!HealthNext
  <1> QED  BY <1>1, <1>3 DEF HealthInv

\* A refused password is not sent again before its wait is over, by the application, its tray or the service,
\* until one of them can miss what another was told (record_account_failure, account_attempt_allowed), for any
\* accounts, waits and ends of the application.
THEOREM RefusedIsNotSentAgainAlways == Spec => RefusedIsNotSentAgain
  <1>1. HealthInv /\ [Next]_vars
          => HealthInv' /\ [\A u \in Persons : Health!IsSent(u) => parted' \/ time >= refused[u]]_Health!healthVars
    BY ServicesMove, HealthStepInv DEF Lifted
  <1> QED  BY ServicesBegin, HealthInitInv, <1>1, PTL DEF Spec, RefusedIsNotSentAgain, Health!RefusedIsNotSentAgain

-----------------------------------------------------------------------------
(* The check of the end of a month.  An attempt makes the hours up to a later time quiet: those of the       *)
(* spacing after it, and after a finished check the rest of its day.  While nothing runs, the quiet hours that  *)
(* remain follow from what the memory knows or, where it knows nothing, from what the stamp file says         *)
(* (QuietIsKnown); a check that has not yet asked began in no quiet hour, and once it has asked, its attempt  *)
(* is in the memory and in the file (TaskIsNoted).                                                            *)

MonthSteps == {"none", "locking", "stamping", "plan", "campus", "balances", "stamp", "finish"}

MonthTyped ==
    /\ hour \in Nat /\ attempt \in Int /\ stampAttempt \in Int /\ done \in Int /\ stampDay \in Int /\ allowed \in Int
    /\ monthTask \in [step : MonthSteps, now : Nat, day : Nat]

\* A known attempt, and the day of the check if it was finished, make all quiet hours wait.
Covers(known, day) ==
    /\ known # MonthEnd!Unknown /\ known <= hour
    /\ \/ allowed <= known + Spacing
       \/ known \in Nat /\ day = known \div DayLength /\ allowed <= (day + 1) * DayLength

QuietIsKnown ==
    monthTask.step = "none" =>
        \/ lost \/ hour >= allowed
        \/ attempt = MonthEnd!Unknown /\ Covers(stampAttempt, stampDay)
        \/ Covers(attempt, done) /\ (unstamped \/ Covers(stampAttempt, stampDay))

TaskIsNoted ==
    /\ monthTask.step # "none" => /\ monthTask.now <= hour /\ attempt = monthTask.now
                                  /\ monthTask.day = monthTask.now \div DayLength
    /\ monthTask.step \in {"locking", "stamping", "plan"} => lost \/ allowed <= monthTask.now
    /\ monthTask.step \in {"plan", "campus", "balances", "stamp", "finish"} => unstamped \/ stampAttempt = monthTask.now
    /\ monthTask.step \in {"campus", "balances", "stamp", "finish"} => allowed = monthTask.now + Spacing
    /\ monthTask.step = "finish" => unstamped \/ stampDay = monthTask.day

MonthInv == MonthTyped /\ QuietIsKnown /\ TaskIsNoted

LEMMA MonthConstants ==
  /\ Spacing \in Nat /\ Retry \in Nat /\ DayLength \in Nat /\ DayLength > 0 /\ Retry <= Spacing /\ Spacing < 100
  BY MonthAssumption

\* The hours from an attempt to the end of its day are hours of that day.
LEMMA SameDay ==
  ASSUME NEW a \in Nat, NEW h \in Nat, a <= h, h < (a \div DayLength + 1) * DayLength
  PROVE  h \div DayLength = a \div DayLength
  <1> PICK k \in Nat : k = DayLength /\ k > 0
    BY MonthConstants
  <1>1. PICK p \in Nat : p = a \div k /\ p * k <= a
    OBVIOUS
  <1>2. PICK q \in Nat : q = h \div k /\ q * k <= h /\ h < (q + 1) * k
    OBVIOUS
  <1>3. ~(q < p)
    <2>1. q < p => (q + 1) * k <= p * k
      OBVIOUS
    <2>2. (q + 1) * k \in Nat /\ p * k \in Nat
      OBVIOUS
    <2> QED  BY <1>1, <1>2, <2>1, <2>2
  <1>4. ~(p < q)
    <2>1. p < q => (p + 1) * k <= q * k
      OBVIOUS
    <2>2. (p + 1) * k \in Nat /\ q * k \in Nat /\ h < (p + 1) * k
      BY <1>1
    <2> QED  BY <1>2, <2>1, <2>2
  <1> QED  BY <1>1, <1>2, <1>3, <1>4

LEMMA MonthInitInv == MonthEnd!MonthInit => MonthInv
  BY DEF MonthEnd!MonthInit, MonthInv, MonthTyped, MonthSteps, QuietIsKnown, TaskIsNoted, MonthEnd!NoTask,
         MonthEnd!Unknown

\* What is known makes the check wait through the quiet hours.
LEMMA CoveredWaits ==
  ASSUME MonthTyped, NEW known \in Int, NEW day \in Int, Covers(known, day), hour < allowed
  PROVE  day = MonthEnd!Today \/ hour - known < Spacing
  <1>1. CASE allowed <= known + Spacing
    BY <1>1, MonthConstants DEF MonthTyped, Covers
  <1>2. CASE known \in Nat /\ day = known \div DayLength /\ allowed <= (day + 1) * DayLength
    <2>1. (day + 1) * DayLength \in Int
      BY MonthConstants
    <2>2. hour < (known \div DayLength + 1) * DayLength
      BY <1>2, <2>1 DEF MonthTyped
    <2> QED  BY <1>2, <2>2, SameDay DEF MonthTyped, Covers, MonthEnd!Today
  <1> QED  BY <1>1, <1>2 DEF Covers

\* A look at the account: with quiet hours to come the check waits and knows as much as before; otherwise it
\* begins in an hour that is not quiet.
LEMMA MonthScheduleStep == MonthInv /\ MonthEnd!Schedule => MonthInv'
  <1> SUFFICES ASSUME MonthInv, MonthEnd!Schedule PROVE MonthInv'
    OBVIOUS
  <1> USE DEF MonthInv
  <1>1. /\ monthTask = MonthEnd!NoTask /\ monthTask.step = "none" /\ done' = MonthEnd!Done
        /\ UNCHANGED <<hour, stampAttempt, stampDay, allowed, unstamped, lost>>
    BY DEF MonthEnd!Schedule, MonthEnd!NoTask, MonthEnd!stampFile, MonthEnd!history
  <1>2. /\ MonthEnd!Attempt \in Int /\ MonthEnd!Done \in Int
        /\ MonthEnd!Today \in Nat /\ MonthEnd!Today = hour \div DayLength
    BY MonthConstants DEF MonthEnd!Attempt, MonthEnd!Done, MonthTyped, MonthEnd!Today
  <1>3. \/ lost \/ hour >= allowed
        \/ Covers(MonthEnd!Attempt, MonthEnd!Done) /\ (unstamped \/ Covers(stampAttempt, stampDay))
    BY <1>1 DEF QuietIsKnown, Covers, MonthEnd!Attempt, MonthEnd!Done, MonthEnd!FromStamp
  <1>4. CASE MonthEnd!Waits
    <2>1. attempt' = MonthEnd!Attempt /\ UNCHANGED monthTask
      BY <1>4 DEF MonthEnd!Schedule
    <2>2. MonthTyped' /\ TaskIsNoted'
      BY <1>1, <1>2, <2>1 DEF MonthTyped, TaskIsNoted
    <2>3. QuietIsKnown'
      BY <1>1, <1>3, <2>1 DEF QuietIsKnown, Covers
    <2> QED  BY <2>2, <2>3
  <1>5. CASE ~MonthEnd!Waits
    <2>1. attempt' = hour /\ monthTask' = [step |-> "locking", now |-> hour, day |-> MonthEnd!Today]
      BY <1>5 DEF MonthEnd!Schedule
    <2>2. lost \/ hour >= allowed
      <3>1. ASSUME Covers(MonthEnd!Attempt, MonthEnd!Done), hour < allowed PROVE FALSE
        <4>1. MonthEnd!Done = MonthEnd!Today \/ hour - MonthEnd!Attempt < Spacing
          BY <3>1, <1>2, CoveredWaits
        <4> QED  BY <4>1, <3>1, <1>5 DEF MonthEnd!Waits, Covers
      <3> QED  BY <1>3, <3>1 DEF MonthTyped
    <2>3. MonthTyped'
      BY <1>1, <1>2, <2>1 DEF MonthTyped, MonthSteps
    <2>4. QuietIsKnown' /\ TaskIsNoted'
      BY <1>1, <1>2, <2>1, <2>2 DEF QuietIsKnown, TaskIsNoted, MonthTyped
    <2> QED  BY <2>3, <2>4
  <1> QED  BY <1>4, <1>5

\* A check that goes on to its next step, having asked or before it.
LEMMA MonthGoes ==
  ASSUME MonthTyped, NEW step \in MonthSteps, MonthEnd!Goes(step)
  PROVE  /\ monthTask' \in [step : MonthSteps, now : Nat, day : Nat]
         /\ monthTask'.step = step /\ monthTask'.now = monthTask.now /\ monthTask'.day = monthTask.day
  BY DEF MonthTyped, MonthEnd!Goes

LEMMA MonthStops ==
  ASSUME MonthEnd!Stops
  PROVE  monthTask' \in [step : MonthSteps, now : Nat, day : Nat] /\ monthTask'.step = "none"
  BY DEF MonthEnd!Stops, MonthEnd!NoTask, MonthSteps

LEMMA MonthTaskSteps ==
  ASSUME MonthInv,
         \/ MonthEnd!Lock \/ MonthEnd!SaveAttempt \/ MonthEnd!ReadPlan \/ MonthEnd!FindPortal
         \/ MonthEnd!ReadBalances \/ MonthEnd!SaveDone \/ MonthEnd!Finish
  PROVE  MonthInv'
  <1> USE MonthConstants DEF MonthInv, QuietIsKnown, TaskIsNoted, Covers, MonthEnd!stampFile, MonthEnd!memory,
                             MonthEnd!world, MonthEnd!history
  <1>0. /\ hour \in Nat /\ attempt \in Int /\ stampAttempt \in Int /\ done \in Int /\ stampDay \in Int
        /\ allowed \in Int /\ monthTask.now \in Nat /\ monthTask.day \in Nat /\ MonthEnd!Unknown = -100
        /\ \A step \in {"stamping", "plan", "campus", "balances", "stamp", "finish"} : step \in MonthSteps
    BY DEF MonthTyped, MonthEnd!Unknown, MonthSteps
  <1>1. CASE MonthEnd!Lock
    <2>1. CASE billingBusy
      BY <1>0, <1>1, <2>1, MonthStops DEF MonthEnd!Lock, MonthTyped
    <2>2. CASE ~billingBusy
      BY <1>0, <1>1, <2>2, MonthGoes DEF MonthEnd!Lock, MonthTyped
    <2> QED  BY <2>1, <2>2
  <1>2. CASE MonthEnd!SaveAttempt
    BY <1>0, <1>2, MonthGoes DEF MonthEnd!SaveAttempt, MonthEnd!Stamp, MonthTyped
  <1>3. CASE MonthEnd!ReadPlan
    <2>1. CASE MonthEnd!Goes("campus") \/ MonthEnd!Goes("stamp")
      BY <1>0, <1>3, <2>1, MonthGoes DEF MonthEnd!ReadPlan, MonthTyped
    <2>2. CASE MonthEnd!Stops
      BY <1>0, <1>3, <2>2, MonthStops DEF MonthEnd!ReadPlan, MonthTyped
    <2> QED  BY <1>3, <2>1, <2>2 DEF MonthEnd!ReadPlan
  <1>4. CASE MonthEnd!FindPortal
    <2>1. CASE campusBusy
      BY <1>0, <1>4, <2>1, MonthStops DEF MonthEnd!FindPortal, MonthEnd!Stamp, MonthTyped
    <2>2. CASE ~campusBusy
      BY <1>0, <1>4, <2>2, MonthGoes DEF MonthEnd!FindPortal, MonthTyped
    <2> QED  BY <2>1, <2>2
  <1>5. CASE MonthEnd!ReadBalances
    <2>1. CASE MonthEnd!Goes("stamp")
      BY <1>0, <1>5, <2>1, MonthGoes DEF MonthEnd!ReadBalances, MonthTyped
    <2>2. CASE MonthEnd!Stops
      BY <1>0, <1>5, <2>2, MonthStops DEF MonthEnd!ReadBalances, MonthTyped
    <2> QED  BY <1>5, <2>1, <2>2 DEF MonthEnd!ReadBalances
  <1>6. CASE MonthEnd!SaveDone
    BY <1>0, <1>6, MonthGoes DEF MonthEnd!SaveDone, MonthEnd!Stamp, MonthTyped
  <1>7. CASE MonthEnd!Finish
    <2>1. PICK midnight \in Int : midnight = (monthTask.day + 1) * DayLength
      BY <1>0
    <2>2. allowed' = IF allowed > midnight THEN allowed ELSE midnight
      BY <1>7, <2>1 DEF MonthEnd!Finish
    <2>3. /\ UNCHANGED <<hour, attempt, stampAttempt, stampDay>> /\ done' = monthTask.day
          /\ monthTask'.step = "none" /\ monthTask' \in [step : MonthSteps, now : Nat, day : Nat]
          /\ attempt = monthTask.now /\ (unstamped \/ (stampAttempt = monthTask.now /\ stampDay = monthTask.day))
          /\ UNCHANGED <<unstamped, lost>>
          /\ monthTask.day = monthTask.now \div DayLength /\ allowed = monthTask.now + Spacing
          /\ monthTask.now <= hour
      BY <1>7, MonthStops DEF MonthEnd!Finish
    <2>4. MonthTyped' /\ TaskIsNoted'
      BY <1>0, <2>2, <2>3 DEF MonthTyped
    <2>5. PICK now \in Nat, day \in Nat : now = monthTask.now /\ day = monthTask.day
      BY <1>0
    <2>6. now # MonthEnd!Unknown /\ now <= hour' /\ day = now \div DayLength
      BY <1>0, <2>3, <2>5
    <2>7. allowed' <= now + Spacing \/ allowed' <= (day + 1) * DayLength
      BY <1>0, <2>1, <2>2, <2>3, <2>5
    <2>8. attempt' = now /\ done' = day /\ (unstamped' \/ (stampAttempt' = now /\ stampDay' = day))
      BY <2>3, <2>5
    <2>9. Covers(attempt, done)' /\ (unstamped' \/ Covers(stampAttempt, stampDay)')
      BY <2>6, <2>7, <2>8
    <2>10. QuietIsKnown'
      BY <2>9
    <2> QED  BY <2>4, <2>10
  <1> QED  BY <1>1, <1>2, <1>3, <1>4, <1>5, <1>6, <1>7

LEMMA MonthStepInv == MonthInv /\ [MonthEnd!MonthNext]_MonthEnd!monthVars => MonthInv'
  <1> SUFFICES ASSUME MonthInv, [MonthEnd!MonthNext]_MonthEnd!monthVars PROVE MonthInv'
    OBVIOUS
  <1> USE DEF MonthEnd!stampFile, MonthEnd!memory, MonthEnd!world, MonthEnd!history
  <1>1. CASE MonthEnd!Restart
    <2>1. /\ monthTask'.step = "none" /\ monthTask' \in [step : MonthSteps, now : Nat, day : Nat]
          /\ attempt' = MonthEnd!Unknown /\ done' = MonthEnd!Unknown /\ MonthEnd!Unknown \in Int
          /\ UNCHANGED <<hour, stampAttempt, stampDay, allowed, unstamped>> /\ lost' = (lost \/ unstamped)
      BY <1>1, MonthStops DEF MonthEnd!Restart, MonthEnd!Forgets, MonthEnd!Unknown
    <2>2. MonthTyped' /\ TaskIsNoted'
      BY <2>1 DEF MonthInv, MonthTyped, TaskIsNoted
    <2>3. lost \/ unstamped \/ hour >= allowed \/ Covers(stampAttempt, stampDay)
      <3>1. MonthTyped /\ QuietIsKnown /\ TaskIsNoted
        BY DEF MonthInv
      <3>2. CASE monthTask.step = "none"
        BY <3>1, <3>2 DEF QuietIsKnown
      <3>3. CASE monthTask.step \in {"locking", "stamping", "plan"}
        BY <3>1, <3>3 DEF MonthTyped, TaskIsNoted
      <3>4. CASE monthTask.step \in {"campus", "balances", "stamp", "finish"}
        <4>1. allowed = monthTask.now + Spacing /\ monthTask.now <= hour /\ monthTask.now \in Nat
          BY <3>1, <3>4 DEF MonthTyped, TaskIsNoted
        <4>2. unstamped \/ stampAttempt = monthTask.now
          BY <3>1, <3>4 DEF TaskIsNoted
        <4> QED  BY <4>1, <4>2, MonthConstants DEF Covers, MonthEnd!Unknown
      <3> QED  BY <3>1, <3>2, <3>3, <3>4 DEF MonthTyped, MonthSteps
    <2>4. QuietIsKnown'
      BY <2>1, <2>3 DEF QuietIsKnown, Covers
    <2> QED  BY <2>2, <2>4 DEF MonthInv
  <1>2. CASE MonthEnd!Passes
    BY <1>2, MonthConstants DEF MonthEnd!Passes, MonthInv, MonthTyped, QuietIsKnown, TaskIsNoted, Covers
  <1>3. CASE MonthEnd!World \/ UNCHANGED MonthEnd!monthVars
    BY <1>3 DEF MonthEnd!World, MonthEnd!monthVars, MonthInv, MonthTyped, QuietIsKnown, TaskIsNoted, Covers
  <1> QED  BY <1>1, <1>2, <1>3, MonthScheduleStep, MonthTaskSteps DEF MonthEnd!MonthNext

\* The billing system is read only after the hours that earlier attempts made quiet (schedule_month_end_check
\* and the stamp file), for any spacing under a hundred hours, days of any length and any number of restarts,
\* but for the first attempt after a restart that found a write of the stamp had failed.
THEOREM ReadsAreSpacedAlways == Spec => ReadsAreSpaced
  <1>1. MonthInv => (MonthEnd!ReadPlan => hour >= allowed \/ lost)
    BY DEF MonthInv, MonthTyped, TaskIsNoted, MonthEnd!ReadPlan
  <1>2. MonthInv => [MonthEnd!ReadPlan => hour >= allowed \/ lost]_MonthEnd!monthVars
    BY <1>1
  <1> QED  BY ServicesBegin, ServicesMove, MonthInitInv, MonthStepInv, <1>2, PTL
           DEF Spec, ReadsAreSpaced, MonthEnd!ReadsAreSpaced

-----------------------------------------------------------------------------
(* The overview: before it there are four pages of six seconds, so that a reading that is not past them has    *)
(* taken at most the login and six seconds for each page it has done (OverviewInTime).                       *)

CenterTyped == reading \in Nat /\ elapsed \in Nat /\ loginTook \in Nat

OverviewInTime ==
    /\ reading = 0 => elapsed = 0
    /\ center = "reading" /\ reading \in 1 .. 4 => elapsed <= loginTook + 6 * (reading - 1)
    /\ reading >= 5 => "overview" \in published

CenterInv == CenterTyped /\ OverviewInTime /\ Center!OverviewIsShown

LEMMA CenterInitInv == Center!Init => CenterInv
  BY DEF Center!Init, CenterInv, CenterTyped, OverviewInTime, Center!OverviewIsShown

\* The pages before the overview, and the part that the last of them shows.
LEMMA PagesOfTheOverview ==
  /\ DOMAIN Center!Reads = 1 .. 11
  /\ \A i \in 1 .. 4 : Center!Limit(Center!Reads[i]) = 6
  /\ \A i \in 1 .. 11 : Center!Limit(Center!Reads[i]) \in Nat
  /\ Center!PublishedAfter(Center!Reads[4]) = {"overview"}
  /\ Center!CommandLimit = 75
  <1>1. DOMAIN Center!Reads = 1 .. 11
    BY DEF Center!Reads
  <1>2. \A i \in 1 .. 4 : i = 1 \/ i = 2 \/ i = 3 \/ i = 4
    OBVIOUS
  <1>3. /\ Center!Reads[1] = "history" /\ Center!Reads[2] = "online" /\ Center!Reads[3] = "tip"
        /\ Center!Reads[4] = "mauth"
    BY DEF Center!Reads
  <1>4. \A i \in 1 .. 4 : Center!Limit(Center!Reads[i]) = 6
    BY <1>2, <1>3 DEF Center!Limit
  <1>5. \A page : Center!Limit(page) \in Nat
    BY DEF Center!Limit
  <1> QED  BY <1>1, <1>3, <1>4, <1>5 DEF Center!PublishedAfter, Center!CommandLimit

\* The next page, after its limit or at once.
LEMMA CenterMovesStep ==
  ASSUME CenterInv, Center!UnderWay, Center!Moves, UNCHANGED <<loginTook, center>>, elapsed' \in Nat,
         elapsed' = elapsed \/ elapsed' = elapsed + Center!Limit(Center!Reads[reading])
  PROVE  CenterInv'
  <1> USE DEF CenterInv, CenterTyped, OverviewInTime
  <1>1. reading \in 1 .. 11 /\ reading' = reading + 1 /\ center' = "reading"
    BY PagesOfTheOverview DEF Center!UnderWay, Center!Moves
  <1>2. reading <= 4 => elapsed' <= elapsed + 6
    BY <1>1, PagesOfTheOverview
  <1>3. reading >= 4 => "overview" \in published'
    BY <1>1, PagesOfTheOverview DEF Center!Moves
  <1> QED  BY <1>1, <1>2, <1>3 DEF Center!OverviewIsShown

LEMMA CenterStepInv == CenterInv /\ [Center!Next]_Center!vars => CenterInv'
  <1> SUFFICES ASSUME CenterInv, [Center!Next]_Center!vars PROVE CenterInv'
    OBVIOUS
  <1> USE DEF CenterInv, CenterTyped, OverviewInTime, Center!OverviewIsShown
  <1>1. CASE Center!LogIn
    BY <1>1, CenterAssumption DEF Center!LogIn
  <1>2. CASE Center!Answered
    BY <1>2, CenterMovesStep DEF Center!Answered
  <1>3. CASE Center!Failed
    BY <1>3, CenterMovesStep DEF Center!Failed
  <1>4. CASE Center!Hangs
    <2>1. elapsed' \in Nat
      BY <1>4, PagesOfTheOverview DEF Center!Hangs, Center!UnderWay
    <2> QED  BY <1>4, <2>1, CenterMovesStep DEF Center!Hangs
  <1>5. CASE Center!Expires
    <2>1. /\ reading \in 1 .. 11 /\ elapsed + Center!Limit(Center!Reads[reading]) > 75 /\ elapsed' = 75
          /\ center = "reading" /\ UNCHANGED <<reading, loginTook, published>>
      BY <1>5, PagesOfTheOverview DEF Center!Expires, Center!UnderWay
    <2>2. reading <= 4 => loginTook > 45 /\ elapsed + 6 > 75
      BY <2>1, PagesOfTheOverview
    <2> QED  BY <1>5, <2>1, <2>2 DEF Center!Expires
  <1>6. CASE Center!SessionEnds \/ Center!Finish \/ UNCHANGED Center!vars
    BY <1>6 DEF Center!SessionEnds, Center!Finish, Center!vars
  <1> QED  BY <1>1, <1>2, <1>3, <1>4, <1>5, <1>6 DEF Center!Next

\* With a login of up to 45 seconds the overview is shown before the limit of the command, whichever pages
\* answer, fail or hang (fetch_center).
THEOREM OverviewIsShownAlways == Spec => []OverviewIsShown
  <1>1. CenterInv => OverviewIsShown
    BY DEF CenterInv, OverviewIsShown
  <1> QED  BY ServicesBegin, ServicesMove, CenterInitInv, CenterStepInv, <1>1, PTL DEF Spec

-----------------------------------------------------------------------------
(* The usage of a device: the baseline is the highest counter seen since the history was paused, so that a    *)
(* growth is counted from there and never twice (BaselineIsHigh).                                             *)

UsageScopes == Scopes \cup {"local", "none"}
UsageSteps == {"rest", "sample", "check", "record"}
Loops == [step : UsageSteps, paused : BOOLEAN, scope : UsageScopes, password : Nat, used : Int,
          answer : Usage!Answers \cup {"none"}]

UsageTyped ==
    /\ scope \in UsageScopes /\ password \in Nat /\ used \in Nat /\ loop \in Loops
    /\ baseline \in [age : Int, used : Int] /\ counted \in Int /\ first \in Int /\ high \in Int

SampleIsCounter == loop.step \in {"check", "record"} /\ loop.answer = "sample" => loop.used \in Nat

BaselineIsHigh ==
    /\ baseline.used = high
    /\ high = Usage!None \/ high \in Nat
    /\ (first = Usage!None) <=> (high = Usage!None)
    /\ IF high = Usage!None THEN counted = 0 ELSE counted <= high - first /\ first <= high

UsageInv == UsageTyped /\ SampleIsCounter /\ BaselineIsHigh

LEMMA NewBaseline ==
  /\ Usage!NoBaseline \in [age : Int, used : Int] /\ Usage!NoBaseline.used = Usage!None
  /\ Usage!None = -1
  /\ Usage!Resting \in Loops /\ Usage!Resting.step = "rest"
  BY DEF Usage!NoBaseline, Usage!None, Usage!Resting, Loops, UsageSteps, UsageScopes

LEMMA UsageInitInv == Usage!Init => UsageInv
  <1> SUFFICES ASSUME Usage!Init PROVE UsageInv
    OBVIOUS
  <1> USE NewBaseline
  <1>1. UsageTyped
    BY DEF Usage!Init, UsageTyped, UsageScopes
  <1>2. SampleIsCounter
    BY DEF Usage!Init, SampleIsCounter
  <1>3. BaselineIsHigh
    BY DEF Usage!Init, BaselineIsHigh
  <1> QED  BY <1>1, <1>2, <1>3 DEF UsageInv

\* The history begins anew, whatever the loop does.
LEMMA UsagePauses ==
  ASSUME Usage!Pause
  PROVE  /\ BaselineIsHigh'
         /\ baseline' \in [age : Int, used : Int] /\ counted' \in Int /\ first' \in Int /\ high' \in Int
  BY NewBaseline DEF Usage!Pause, BaselineIsHigh, Usage!None

\* A counter that was read is recorded.
LEMMA UsageObserves ==
  ASSUME UsageTyped, BaselineIsHigh, NEW seen \in Nat, Usage!Observe(seen)
  PROVE  /\ BaselineIsHigh'
         /\ baseline' \in [age : Int, used : Int] /\ counted' \in Int /\ first' \in Int /\ high' \in Int
  <1> USE DEF UsageTyped, BaselineIsHigh
  <1>1. /\ baseline.used \in Int /\ high \in Int /\ first \in Int /\ counted \in Int /\ Usage!None = -1
        /\ baseline.used = high
    BY NewBaseline
  <1>2. Usage!High(seen) \in Int /\ Usage!High(seen) = high'
    BY <1>1 DEF Usage!High, Usage!Observe
  <1>3. baseline' \in [age : Int, used : Int] /\ baseline'.used = high'
    BY <1>1, <1>2 DEF Usage!Observe
  <1>4. counted' = counted \/ (counted' = counted + seen - high /\ high # Usage!None /\ seen >= high)
    BY <1>1 DEF Usage!Observe
  <1>5. /\ high' = (IF seen > high THEN seen ELSE high)
        /\ first' = (IF first = Usage!None THEN seen ELSE first)
    BY DEF Usage!Observe
  <1>6. high' \in Nat /\ first' # Usage!None /\ first' <= high' /\ high' # Usage!None /\ first' \in Int
    BY <1>1, <1>5
  <1>7. counted' \in Int /\ counted' <= high' - first'
    BY <1>1, <1>4, <1>5
  <1> QED  BY <1>3, <1>6, <1>7

LEMMA UsageWindowSteps ==
  ASSUME UsageInv,
         \/ Usage!Save \/ Usage!SaveInterrupts \/ Usage!SavePauses \/ Usage!AccountChanged \/ Usage!Grows
         \/ Usage!NetworkChanges \/ Usage!Later
  PROVE  UsageInv'
  <1> USE DEF UsageInv, UsageTyped, SampleIsCounter, BaselineIsHigh, Usage!config, Usage!item, Usage!history
  <1>1. CASE Usage!Save
    <2>1. /\ scope' \in UsageScopes /\ password' \in Nat
          /\ UNCHANGED <<used, loop, baseline, counted, first, high>>
      BY <1>1 DEF Usage!Save, UsageScopes
    <2> QED  BY <2>1
  <1>2. CASE Usage!SaveInterrupts \/ Usage!AccountChanged
    <2>1. Usage!Interrupted /\ UNCHANGED <<enabled, scope, password, used, baseline, counted, first, high>>
      BY <1>2 DEF Usage!SaveInterrupts, Usage!AccountChanged
    <2>2. loop' \in Loops /\ (loop' = loop \/ loop'.step = "rest")
      BY <2>1 DEF Usage!Interrupted, Loops, UsageSteps
    <2> QED  BY <2>1, <2>2
  <1>3. CASE Usage!SavePauses
    BY <1>3, UsagePauses DEF Usage!SavePauses
  <1>4. CASE Usage!Grows \/ Usage!NetworkChanges
    BY <1>4 DEF Usage!Grows, Usage!NetworkChanges
  <1>5. CASE Usage!Later
    <2>1. baseline' \in [age : Int, used : Int] /\ baseline'.used = baseline.used
      BY <1>5 DEF Usage!Later
    <2> QED  BY <1>5, <2>1 DEF Usage!Later
  <1> QED  BY <1>1, <1>2, <1>3, <1>4, <1>5

LEMMA UsageLoopSteps ==
  ASSUME UsageInv,
         \/ Usage!RoundPauses \/ Usage!RoundBegins \/ Usage!Sample \/ Usage!CheckAgain \/ Usage!Record
         \/ Usage!Restart
  PROVE  UsageInv'
  <1> USE DEF UsageInv, UsageTyped, SampleIsCounter, Usage!config, Usage!item, Usage!history
  <1>1. CASE Usage!RoundPauses
    <2>1. loop' \in Loops /\ loop'.step = "rest"
      BY <1>1 DEF Usage!RoundPauses, Loops
    <2> QED  BY <1>1, <2>1, UsagePauses DEF Usage!RoundPauses
  <1>2. CASE Usage!RoundBegins
    <2>1. \/ UNCHANGED loop
          \/ loop' = [loop EXCEPT !.step = "sample", !.password = password]
      BY <1>2 DEF Usage!RoundBegins
    <2>2. loop.step = "rest" /\ loop' \in Loops /\ loop'.step \in {"rest", "sample"}
      <3>1. loop.step = "rest" /\ "sample" \in UsageSteps
        BY <1>2 DEF Usage!RoundBegins, UsageSteps
      <3>2. password \in Nat /\ loop \in Loops
        OBVIOUS
      <3>3. ASSUME loop' = [loop EXCEPT !.step = "sample", !.password = password]
            PROVE  loop' \in Loops /\ loop'.step = "sample"
        BY <3>1, <3>2, <3>3 DEF Loops
      <3> QED  BY <2>1, <3>1, <3>2, <3>3
    <2>3. UNCHANGED <<enabled, scope, password, used, baseline, counted, first, high>>
      BY <1>2 DEF Usage!RoundBegins
    <2> QED  BY <2>2, <2>3 DEF BaselineIsHigh
  <1>3. CASE Usage!Sample
    <2>1. ASSUME NEW seen \in 0 .. used, loop' = [loop EXCEPT !.step = "check", !.answer = "sample", !.used = seen]
          PROVE  loop' \in Loops /\ (loop'.answer = "sample" => loop'.used \in Nat)
      <3>1. "check" \in UsageSteps /\ "sample" \in Usage!Answers \cup {"none"} /\ seen \in Int /\ seen \in Nat
        BY DEF UsageSteps, Usage!Answers
      <3> QED  BY <2>1, <3>1 DEF Loops
    <2>2. ASSUME NEW said \in Usage!Answers \ {"sample"}, loop' = [loop EXCEPT !.step = "check", !.answer = said]
          PROVE  loop' \in Loops /\ (loop'.answer = "sample" => loop'.used \in Nat)
      <3>1. "check" \in UsageSteps /\ said # "sample"
        BY DEF UsageSteps
      <3> QED  BY <2>2, <3>1 DEF Loops
    <2>3. loop' \in Loops /\ (loop'.answer = "sample" => loop'.used \in Nat)
      BY <1>3, <2>1, <2>2 DEF Usage!Sample
    <2> QED  BY <1>3, <2>3 DEF Usage!Sample, BaselineIsHigh
  <1>4. CASE Usage!CheckAgain
    <2>1. loop' \in Loops /\ loop'.answer = loop.answer /\ loop'.used = loop.used
      BY <1>4 DEF Usage!CheckAgain, Loops, UsageSteps
    <2> QED  BY <1>4, <2>1 DEF Usage!CheckAgain, BaselineIsHigh
  <1>5. CASE Usage!Record
    <2>1. loop' \in Loops /\ loop'.step = "rest" /\ UNCHANGED <<enabled, scope, password, used>>
      BY <1>5 DEF Usage!Record, Loops, UsageSteps
    <2>2. UNCHANGED <<baseline, counted, first, high>> \/ (loop.used \in Nat /\ Usage!Observe(loop.used))
      BY <1>5 DEF Usage!Record
    <2> QED  BY <2>1, <2>2, UsageObserves DEF BaselineIsHigh
  <1>6. CASE Usage!Restart
    BY <1>6, NewBaseline DEF Usage!Restart, BaselineIsHigh
  <1> QED  BY <1>1, <1>2, <1>3, <1>4, <1>5, <1>6

LEMMA UsageStepInv == UsageInv /\ [Usage!UsageNext]_Usage!usageVars => UsageInv'
  <1>1. UsageInv /\ UNCHANGED Usage!usageVars => UsageInv'
    BY DEF UsageInv, UsageTyped, SampleIsCounter, BaselineIsHigh, Usage!usageVars, Usage!config, Usage!item, Usage!history
  <1> QED  BY <1>1, UsageWindowSteps, UsageLoopSteps DEF Usage!UsageNext

\* However late, low or old the counters of the school are, no growth of a device's counter is counted twice
\* (observe_with_retention), for any gap and any number of samples.
THEOREM CountedOnceAlways == Spec => []CountedOnce
  <1>1. UsageInv => CountedOnce
    BY DEF UsageInv, BaselineIsHigh, CountedOnce, Usage!CountedOnce
  <1> QED  BY ServicesBegin, ServicesMove, UsageInitInv, UsageStepInv, <1>1, PTL DEF Spec

-----------------------------------------------------------------------------
(* The time of the user: whoever has the manager has spent the time since its start either for the network or  *)
(* for images, of which the one that is open is not yet added to the others (TimesAddUp).                    *)

LoginSteps == {"none", "visit", "image", "prompt", "post", "finish"}

\* A login, with whatever account, challenge and kind.
IsLogin(l) ==
    l \in [step : LoginSteps, kind : {l.kind}, account : {l.account}, tries : {l.tries}, progress : {l.progress},
           elapsed : Int, waited : Int, prompt : Int, network : Int]

TimesOf(l) == l.elapsed - (l.waited + l.prompt) = l.network /\ (l.step # "prompt" => l.prompt = 0)

TimesAddUp == IsLogin(login) /\ TimesOf(login)

LEMMA NobodyAddsUp == IsLogin(WebVpn!Nobody) /\ TimesOf(WebVpn!Nobody)
  BY DEF WebVpn!Nobody, IsLogin, TimesOf, LoginSteps

\* A login that goes on, and one that has counted the image it waited for.
LEMMA LoginGoes ==
  ASSUME TimesAddUp, NEW step \in LoginSteps, NEW tries, NEW progress, NEW goneOn,
         step = "prompt" \/ login.step # "prompt",
         \/ goneOn = [login EXCEPT !.step = step]
         \/ goneOn = [login EXCEPT !.step = step, !.tries = tries]
         \/ goneOn = [login EXCEPT !.step = step, !.progress = progress]
  PROVE  IsLogin(goneOn) /\ TimesOf(goneOn)
  <1> USE DEF TimesAddUp
  <1>1. goneOn \in [step : LoginSteps, kind : {login.kind}, account : {login.account}, tries : {login.tries, tries},
                  progress : {login.progress, progress}, elapsed : Int, waited : Int, prompt : Int, network : Int]
    BY DEF IsLogin
  <1>2. /\ goneOn.step = step /\ goneOn.elapsed = login.elapsed /\ goneOn.waited = login.waited
        /\ goneOn.prompt = login.prompt /\ goneOn.network = login.network
    BY DEF IsLogin
  <1> QED  BY <1>1, <1>2 DEF IsLogin, TimesOf

LEMMA LoginCloses ==
  ASSUME TimesAddUp, NEW step \in LoginSteps, WebVpn!Closed(step)
  PROVE  TimesAddUp'
  <1> USE DEF TimesAddUp
  <1>1. PICK sum \in Int, open \in Int : sum = login.waited + login.prompt /\ open = 0
    BY DEF IsLogin
  <1>2. login' = [login EXCEPT !.step = step, !.prompt = open, !.waited = sum]
    BY <1>1 DEF WebVpn!Closed
  <1>3. login' \in [step : LoginSteps, kind : {login.kind}, account : {login.account}, tries : {login.tries},
                    progress : {login.progress}, elapsed : Int, waited : Int, prompt : Int, network : Int]
    BY <1>2 DEF IsLogin
  <1>4. /\ login'.step = step /\ login'.elapsed = login.elapsed /\ login'.waited = sum
        /\ login'.prompt = open /\ login'.network = login.network
    BY <1>2 DEF IsLogin
  <1> QED  BY <1>1, <1>3, <1>4 DEF IsLogin, TimesOf

\* A command that is given the manager has spent no time.
LEMMA LoginGranted == ASSUME TimesAddUp, WebVpn!Grant PROVE TimesAddUp'
  <1> PICK r : WebVpn!Cancel(r) \/ WebVpn!Begin(r) \/ WebVpn!Verify(r)
    BY DEF WebVpn!Grant
  <1>1. \/ UNCHANGED login
        \/ login' = [WebVpn!Nobody EXCEPT !.step = "visit", !.account = r.account]
        \/ login' = [WebVpn!Nobody EXCEPT !.step = IF WebVpn!Kept(r).image THEN "image" ELSE "post", !.kind = r.kind,
                                          !.account = WebVpn!Kept(r).account]
    BY DEF WebVpn!Cancel, WebVpn!Begin, WebVpn!Verify
  <1>2. ASSUME NEW step \in {"visit", "image", "post"}, NEW kind, NEW account,
               \/ login' = [WebVpn!Nobody EXCEPT !.step = step, !.account = account]
               \/ login' = [WebVpn!Nobody EXCEPT !.step = step, !.kind = kind, !.account = account]
        PROVE  TimesAddUp'
    <2>1. /\ step \in LoginSteps
          /\ WebVpn!Nobody \in [step : LoginSteps, kind : {"begin"}, account : {"none"}, tries : {0},
                                progress : {WebVpn!NoChallenge}, elapsed : {0}, waited : {0}, prompt : {0},
                                network : {0}]
      BY DEF LoginSteps, WebVpn!Nobody
    <2>2. login' \in [step : LoginSteps, kind : {"begin", kind}, account : {account}, tries : {0},
                      progress : {WebVpn!NoChallenge}, elapsed : {0}, waited : {0}, prompt : {0}, network : {0}]
      BY <1>2, <2>1
    <2> QED  BY <2>2 DEF TimesAddUp, IsLogin, TimesOf
  <1>3. CASE UNCHANGED login
    BY <1>3 DEF TimesAddUp
  <1> QED  BY <1>1, <1>2, <1>3

\* A second is the user's while an image is open, and the network's otherwise.
LEMMA LoginTicks == ASSUME TimesAddUp, WebVpn!Tick PROVE TimesAddUp'
  <1> USE DEF TimesAddUp
  <1>1. CASE UNCHANGED login
    BY <1>1
  <1>2. CASE login # WebVpn!Nobody
    <2>1. PICK after, open, net, progress :
                 /\ after \in Int /\ open \in Int /\ net \in Int
                 /\ after = login.elapsed + 1
                 /\ open = IF login.step = "prompt" THEN login.prompt + 1 ELSE login.prompt
                 /\ net = IF login.step = "prompt" THEN login.network ELSE login.network + 1
                 /\ progress = WebVpn!Aged(login.progress)
      <3>1. /\ login.elapsed + 1 \in Int
            /\ (IF login.step = "prompt" THEN login.prompt + 1 ELSE login.prompt) \in Int
            /\ (IF login.step = "prompt" THEN login.network ELSE login.network + 1) \in Int
        BY DEF IsLogin
      <3> QED  BY <3>1
    <2>2. login' = [login EXCEPT !.elapsed = after, !.progress = progress, !.prompt = open, !.network = net]
      BY <1>2, <2>1 DEF WebVpn!Tick
    <2>3. login' \in [step : LoginSteps, kind : {login.kind}, account : {login.account}, tries : {login.tries},
                      progress : {progress}, elapsed : Int, waited : Int, prompt : Int, network : Int]
      <3> after \in Int /\ open \in Int /\ net \in Int
        BY <2>1
      <3> QED  BY <2>2 DEF IsLogin
    <2>4. /\ login'.step = login.step /\ login'.elapsed = after /\ login'.waited = login.waited
          /\ login'.prompt = open /\ login'.network = net
      BY <2>2 DEF IsLogin
    <2>5. TimesOf(login)'
      BY <2>1, <2>4 DEF IsLogin, TimesOf
    <2> QED  BY <2>3, <2>5 DEF IsLogin
  <1> QED  BY <1>1, <1>2 DEF WebVpn!Tick

LEMMA WebVpnStepInv == TimesAddUp /\ [WebVpn!Next]_WebVpn!vars => TimesAddUp'
  <1> SUFFICES ASSUME TimesAddUp, [WebVpn!Next]_WebVpn!vars PROVE TimesAddUp'
    OBVIOUS
  <1>1. CASE WebVpn!Ends
    BY <1>1, NobodyAddsUp DEF WebVpn!Ends, TimesAddUp, IsLogin, TimesOf
  <1>2. ASSUME NEW step \in LoginSteps, WebVpn!Goes(step), step = "prompt" \/ login.step # "prompt" PROVE TimesAddUp'
    BY <1>2, LoginGoes DEF WebVpn!Goes, TimesAddUp, IsLogin, TimesOf
  <1>3. CASE UNCHANGED login
    BY <1>3 DEF TimesAddUp, IsLogin, TimesOf
  <1>4. CASE WebVpn!Visit
    BY <1>1, <1>2, <1>4 DEF WebVpn!Visit, WebVpn!Accept, WebVpn!PageAsks, LoginSteps
  <1>5. CASE WebVpn!Prompt
    BY <1>1, <1>2, <1>5 DEF WebVpn!Prompt, LoginSteps
  <1>6. CASE WebVpn!Answer
    <2>1. "post" \in LoginSteps /\ "image" \in LoginSteps
      BY DEF LoginSteps
    <2> QED  BY <1>1, <1>6, <2>1, LoginCloses DEF WebVpn!Answer
  <1>7. CASE WebVpn!Post
    <2>1. \/ WebVpn!Ends
          \/ login' = [login EXCEPT !.step = "image", !.tries = login.tries + 1]
          \/ login' = [login EXCEPT !.step = "finish", !.progress = pending]
      BY <1>7 DEF WebVpn!Post
    <2>2. login.step # "prompt" /\ "image" \in LoginSteps /\ "finish" \in LoginSteps
      BY <1>7 DEF WebVpn!Post, LoginSteps
    <2>3. ASSUME ~WebVpn!Ends PROVE IsLogin(login') /\ TimesOf(login')
      BY <2>1, <2>2, <2>3, LoginGoes
    <2> QED  BY <1>1, <2>3 DEF TimesAddUp, IsLogin, TimesOf
  <1>8. CASE WebVpn!Finish
    BY <1>1, <1>8 DEF WebVpn!Finish, WebVpn!AsksForMessage, WebVpn!Accept
  <1>9. CASE WebVpn!TimesOut
    BY <1>1, <1>9 DEF WebVpn!TimesOut
  <1>10. CASE WebVpn!Ask \/ WebVpn!ChangeCredentials \/ WebVpn!Clear \/ UNCHANGED WebVpn!vars
    BY <1>3, <1>10 DEF WebVpn!Ask, WebVpn!ChangeCredentials, WebVpn!Clear, WebVpn!vars
  <1> QED  BY <1>4, <1>5, <1>6, <1>7, <1>8, <1>9, <1>10, LoginGranted, LoginTicks DEF WebVpn!Next

\* The time counted against the limit of a command is the time it waited for the network (with_timeout,
\* PromptGuard), for any limits and any number of images, challenges and commands.
THEOREM UserTimeIsFreeAlways == Spec => []UserTimeIsFree
  <1>1. WebVpn!Init => TimesAddUp
    BY NobodyAddsUp DEF WebVpn!Init, TimesAddUp, IsLogin, TimesOf
  <1>2. TimesAddUp => UserTimeIsFree
    BY DEF TimesAddUp, TimesOf, UserTimeIsFree, WebVpn!UserTimeIsFree, WebVpn!NetworkTime
  <1> QED  BY ServicesBegin, ServicesMove, WebVpnStepInv, <1>1, <1>2, PTL DEF Spec

-----------------------------------------------------------------------------
(* An action: as long as the account is not changed elsewhere, it is as the dashboard showed it until the     *)
(* request is sent, and afterwards either still so or as the user asked for (SentSoFar): one request, carried  *)
(* out or not, has nothing in between.                                                                       *)

ActionWhats == {"stopNow", "reopenNow", "cancelPackage", "schedulePackage", "setConsumeLimit", "bindMac", "unbindMac",
                "updateQuestions", "disconnect", "mauth"}

ActionTyped ==
    /\ server \in Actions!Account /\ touched \in BOOLEAN
    /\ action \in [phase : Actions!Phases, request : Actions!Requests, dashboard : Actions!Account,
                   page : Actions!Account, reply : Actions!Replies, writes : Nat]

AsTheDashboard == ~touched /\ action.phase \in {"open", "read", "rejected"} => server = action.dashboard
PageIsTheAccount == ~touched /\ action.phase = "read" => action.page = server

SentSoFar ==
    ~touched /\ action.phase = "sent" =>
        /\ action.reply = "success" => Actions!Asked(server, action.request)
        /\ action.reply = "failure" => server = action.dashboard
        /\ server = action.dashboard \/ Actions!Asked(server, action.request)

DoneIsAsked == ~touched /\ action.phase = "done" => Actions!Asked(server, action.request)

ActionInv == ActionTyped /\ AsTheDashboard /\ PageIsTheAccount /\ SentSoFar /\ DoneIsAsked

\* What is asked for has a value of its own kind.
LEMMA RequestValues ==
  ASSUME NEW r \in Actions!Requests
  PROVE  /\ r.what \in ActionWhats
         /\ r.what = "schedulePackage" => r.value \in Packages
         /\ r.what = "setConsumeLimit" => r.value \in Actions!Limits
         /\ r.what \in {"bindMac", "unbindMac"} => r.value \in Devices
         /\ r.what = "updateQuestions" => r.value \in 0 .. 1
         /\ r.what = "disconnect" => r.value \in Online
         /\ r.what = "mauth" => r.value \in BOOLEAN
  BY DEF Actions!Requests, ActionWhats

LEMMA SomeRequest == (CHOOSE r \in Actions!Requests : TRUE) \in Actions!Requests
  <1>1. [what |-> "stopNow", value |-> NoPackage] \in Actions!Requests
    BY DEF Actions!Requests
  <1> QED  BY <1>1

\* A request leaves an account an account.
LEMMA AfterIsAccount ==
  ASSUME NEW s \in Actions!Account, NEW r \in Actions!Requests
  PROVE  Actions!After(s, r) \in Actions!Account
  <1> USE RequestValues DEF Actions!Account
  <1>1. CASE r.what = "stopNow"           BY <1>1 DEF Actions!After
  <1>2. CASE r.what = "reopenNow"         BY <1>2 DEF Actions!After
  <1>3. CASE r.what = "schedulePackage"   BY <1>3 DEF Actions!After
  <1>4. CASE r.what = "cancelPackage"     BY <1>4 DEF Actions!After
  <1>5. CASE r.what = "setConsumeLimit"   BY <1>5 DEF Actions!After
  <1>6. CASE r.what = "bindMac"           BY <1>6 DEF Actions!After
  <1>7. CASE r.what = "unbindMac"         BY <1>7 DEF Actions!After
  <1>8. CASE r.what = "updateQuestions"   BY <1>8 DEF Actions!After
  <1>9. CASE r.what = "disconnect"        BY <1>9 DEF Actions!After
  <1>10. CASE r.what = "mauth"            BY <1>10 DEF Actions!After
  <1> QED  BY <1>1, <1>2, <1>3, <1>4, <1>5, <1>6, <1>7, <1>8, <1>9, <1>10 DEF ActionWhats

\* A request that is carried out makes what was asked for the case; that of the package that is current anyway is
\* sent as a cancellation, and the automatic login is turned over only when that is what was asked for.
LEMMA CarriedIsAsked ==
  ASSUME NEW d \in Actions!Account, NEW r \in Actions!Requests, NEW sends \in Actions!Requests,
         IF r.what = "schedulePackage" /\ r.value = d.package THEN sends.what = "cancelPackage" ELSE sends = r,
         r.what = "mauth" => d.mauth # r.value
  PROVE  Actions!Asked(Actions!After(d, sends), r)
  <1>3. CASE r.what = "schedulePackage"
    <2>1. CASE r.value = d.package
      <3>1. sends.what = "cancelPackage"
        BY <1>3, <2>1
      <3>2. PICK s : s = Actions!After(d, sends)
        OBVIOUS
      <3>3. s = [d EXCEPT !.reserved = NoPackage]
        BY <3>1, <3>2 DEF Actions!After
      <3>4. s.reserved = NoPackage /\ s.package = d.package
        BY <3>3 DEF Actions!Account
      <3> QED  BY <1>3, <2>1, <3>2, <3>4 DEF Actions!Asked, Actions!NextPackage
    <2>2. CASE r.value # d.package
      <3>1. sends.what = "schedulePackage" /\ sends.value # d.package /\ sends.value = r.value /\ r.value # NoPackage
        BY <1>3, <2>2, RequestValues, ActionsAssumption
      <3>2. PICK s : s = Actions!After(d, sends)
        OBVIOUS
      <3>3. s = [d EXCEPT !.reserved = sends.value]
        BY <3>1, <3>2 DEF Actions!After
      <3>4. s.reserved = r.value
        BY <3>1, <3>3 DEF Actions!Account
      <3> QED  BY <1>3, <3>1, <3>2, <3>4 DEF Actions!Asked, Actions!NextPackage
    <2> QED  BY <2>1, <2>2
  <1> USE RequestValues DEF Actions!Account
  <1>1. CASE r.what = "stopNow"           BY <1>1 DEF Actions!After, Actions!Asked
  <1>2. CASE r.what = "reopenNow"         BY <1>2 DEF Actions!After, Actions!Asked
  <1>4. CASE r.what = "cancelPackage"     BY <1>4 DEF Actions!After, Actions!Asked, Actions!NextPackage
  <1>5. CASE r.what = "setConsumeLimit"   BY <1>5 DEF Actions!After, Actions!Asked
  <1>6. CASE r.what = "bindMac"           BY <1>6 DEF Actions!After, Actions!Asked
  <1>7. CASE r.what = "unbindMac"         BY <1>7 DEF Actions!After, Actions!Asked
  <1>8. CASE r.what = "updateQuestions"   BY <1>8 DEF Actions!After, Actions!Asked
  <1>9. CASE r.what = "disconnect"        BY <1>9 DEF Actions!After, Actions!Asked
  <1>10. CASE r.what = "mauth"            BY <1>10 DEF Actions!After, Actions!Asked
  <1> QED  BY <1>1, <1>2, <1>3, <1>4, <1>5, <1>6, <1>7, <1>8, <1>9, <1>10 DEF ActionWhats

LEMMA IdleAction ==
  ASSUME server \in Actions!Account
  PROVE  /\ Actions!Idle \in [phase : Actions!Phases, request : Actions!Requests, dashboard : Actions!Account,
                              page : Actions!Account, reply : Actions!Replies, writes : Nat]
         /\ Actions!Idle.phase = "idle"
  BY SomeRequest DEF Actions!Idle, Actions!Phases, Actions!Replies

LEMMA ActionInitInv == Actions!Init => ActionInv
  <1> SUFFICES ASSUME Actions!Init PROVE ActionInv
    OBVIOUS
  <1>1. server \in Actions!Account
    BY DEF Actions!Init, Actions!Account, Actions!Limits, Actions!Unlimited
  <1> QED  BY <1>1, IdleAction
           DEF Actions!Init, ActionInv, ActionTyped, AsTheDashboard, PageIsTheAccount, SentSoFar, DoneIsAsked

\* The steps up to the request: the phases in which the account is the dashboard's.
LEMMA ActionReadSteps ==
  ASSUME ActionInv, Actions!Begin \/ Actions!Malformed \/ Actions!Fail \/ Actions!ReadPage \/ Actions!Refuse
  PROVE  ActionInv'
  <1> USE DEF ActionInv, ActionTyped, AsTheDashboard, PageIsTheAccount, SentSoFar, DoneIsAsked
  <1>0. \A phase \in {"open", "read", "sent", "done", "rejected", "failed"} : phase \in Actions!Phases
    BY DEF Actions!Phases
  <1>1. CASE Actions!Begin
    <2>1. PICK r \in Actions!Requests : action' = [Actions!Idle EXCEPT !.phase = "open", !.request = r, !.dashboard = server]
      BY <1>1 DEF Actions!Begin
    <2>2. /\ action' \in [phase : Actions!Phases, request : Actions!Requests, dashboard : Actions!Account,
                          page : Actions!Account, reply : Actions!Replies, writes : Nat]
          /\ action'.phase = "open" /\ action'.dashboard = server
      BY <1>0, <2>1, IdleAction
    <2> QED  BY <1>1, <2>2 DEF Actions!Begin
  <1>2. ASSUME NEW phase \in {"done", "rejected", "failed"}, action' = [action EXCEPT !.phase = phase]
        PROVE  /\ action' \in [phase : Actions!Phases, request : Actions!Requests, dashboard : Actions!Account,
                               page : Actions!Account, reply : Actions!Replies, writes : Nat]
               /\ action'.phase = phase /\ action'.request = action.request /\ action'.dashboard = action.dashboard
    BY <1>0, <1>2
  <1>3. CASE Actions!Malformed
    BY <1>2, <1>3 DEF Actions!Malformed
  <1>4. CASE Actions!Fail
    BY <1>2, <1>4 DEF Actions!Fail
  <1>5. CASE Actions!ReadPage
    <2>1. action' = [action EXCEPT !.phase = "read", !.page = server]
      BY <1>5 DEF Actions!ReadPage
    <2>2. /\ action' \in [phase : Actions!Phases, request : Actions!Requests, dashboard : Actions!Account,
                          page : Actions!Account, reply : Actions!Replies, writes : Nat]
          /\ action'.phase = "read" /\ action'.dashboard = action.dashboard /\ action'.page = server
      BY <1>0, <2>1
    <2> QED  BY <1>5, <2>2 DEF Actions!ReadPage
  <1>6. CASE Actions!Refuse
    <2>1. /\ action.phase = "read" /\ UNCHANGED <<server, touched>>
          /\ \/ action' = [action EXCEPT !.phase = "rejected"]
             \/ Actions!NothingToDo /\ action' = [action EXCEPT !.phase = "done"]
      BY <1>6 DEF Actions!Refuse
    <2>2. CASE action' = [action EXCEPT !.phase = "rejected"]
      BY <1>2, <2>1, <2>2
    <2>3. CASE Actions!NothingToDo /\ action' = [action EXCEPT !.phase = "done"]
      <3>1. ~touched => Actions!Asked(server, action.request)
        BY <2>1, <2>3 DEF Actions!NothingToDo, Actions!Asked
      <3>2. action'.request = action.request /\ action'.phase = "done"
        BY <1>2, <2>3
      <3>3. DoneIsAsked'
        BY <2>1, <3>1, <3>2 DEF Actions!Asked, Actions!NextPackage
      <3> QED  BY <1>2, <2>1, <2>3, <3>2, <3>3
    <2> QED  BY <2>1, <2>2, <2>3
  <1> QED  BY <1>1, <1>3, <1>4, <1>5, <1>6

LEMMA ActionSendStep == ASSUME ActionInv, Actions!Send PROVE ActionInv'
  <1> USE DEF ActionInv, ActionTyped
  <1>1. PICK carried \in BOOLEAN, reply \in {"success", "failure", "garbled"}, count \in Nat :
               /\ reply = "success" => carried
               /\ reply = "failure" => ~carried
               /\ server' = IF carried THEN Actions!After(server, Actions!Sent) ELSE server
               /\ action' = [action EXCEPT !.phase = "sent", !.reply = reply, !.writes = count]
    <2>1. action.writes + 1 \in Nat
      OBVIOUS
    <2> QED  BY <2>1 DEF Actions!Send
  <1>2. Actions!Sent \in Actions!Requests
    <2>1. [what |-> "cancelPackage", value |-> NoPackage] \in Actions!Requests
      BY DEF Actions!Requests
    <2> QED  BY <2>1 DEF Actions!Sent
  <1>3. server' \in Actions!Account
    BY <1>1, <1>2, AfterIsAccount
  <1>4. /\ action' \in [phase : Actions!Phases, request : Actions!Requests, dashboard : Actions!Account,
                        page : Actions!Account, reply : Actions!Replies, writes : Nat]
        /\ action'.phase = "sent" /\ action'.reply = reply /\ action'.dashboard = action.dashboard
        /\ action'.request = action.request
    BY <1>1 DEF Actions!Phases, Actions!Replies
  <1>5. ~touched /\ carried => Actions!Asked(server', action.request)
    <2> SUFFICES ASSUME ~touched, carried PROVE Actions!Asked(server', action.request)
      OBVIOUS
    <2> DEFINE r == action.request
               d == action.dashboard
    <2>1. d = server /\ action.page = server /\ d \in Actions!Account /\ r \in Actions!Requests
      BY DEF Actions!Send, AsTheDashboard, PageIsTheAccount
    <2>2. IF r.what = "schedulePackage" /\ r.value = d.package THEN Actions!Sent.what = "cancelPackage"
          ELSE Actions!Sent = r
      BY DEF Actions!Sent
    <2>3. r.what = "mauth" => d.mauth # r.value
      BY <2>1 DEF Actions!Send, Actions!NothingToDo
    <2>4. server' = Actions!After(d, Actions!Sent)
      BY <1>1, <2>1
    <2> HIDE DEF d, r
    <2>5. Actions!Asked(Actions!After(d, Actions!Sent), r)
      BY <1>2, <2>1, <2>2, <2>3, CarriedIsAsked
    <2> QED  BY <2>4, <2>5 DEF r
  <1>6. ~touched /\ ~carried => server' = action.dashboard
    BY <1>1 DEF Actions!Send, AsTheDashboard
  <1>7. touched' = touched
    BY DEF Actions!Send
  <1>8. SentSoFar'
    <2> SUFFICES ASSUME ~touched'
                 PROVE  /\ reply = "success" => Actions!Asked(server, action.request)'
                        /\ reply = "failure" => server' = action'.dashboard
                        /\ server' = action'.dashboard \/ Actions!Asked(server, action.request)'
      BY <1>4 DEF SentSoFar
    <2>1. carried => Actions!Asked(server, action.request)'
      BY <1>4, <1>5, <1>7 DEF Actions!Asked, Actions!NextPackage
    <2> QED  BY <1>1, <1>4, <1>6, <1>7, <2>1
  <1>9. AsTheDashboard' /\ PageIsTheAccount' /\ DoneIsAsked'
    BY <1>4 DEF AsTheDashboard, PageIsTheAccount, DoneIsAsked
  <1> QED  BY <1>3, <1>4, <1>7, <1>8, <1>9

\* The answer, or the page read again, tells which of the two it is.
LEMMA ActionReportStep == ASSUME ActionInv, Actions!Report PROVE ActionInv'
  <1> USE DEF ActionInv, ActionTyped
  <1>1. PICK phase : /\ action' = [action EXCEPT !.phase = phase]
                     /\ phase = Actions!Outcome \/ phase = Actions!ByAnswer
    BY DEF Actions!Report
  <1>2. Actions!Outcome \in {"done", "rejected", "failed"} /\ Actions!ByAnswer \in {"done", "rejected", "failed"}
    BY DEF Actions!Outcome, Actions!ByAnswer
  <1>3. /\ action' \in [phase : Actions!Phases, request : Actions!Requests, dashboard : Actions!Account,
                        page : Actions!Account, reply : Actions!Replies, writes : Nat]
        /\ action'.phase = phase /\ action'.dashboard = action.dashboard /\ action'.request = action.request
        /\ action'.phase \in {"done", "rejected", "failed"}
    BY <1>1, <1>2 DEF Actions!Phases
  <1>4. action.phase = "sent" /\ UNCHANGED <<server, touched>>
    BY DEF Actions!Report
  <1>5. ~touched => /\ phase = "done" => Actions!Asked(server, action.request)
                    /\ phase = "rejected" => server = action.dashboard
    BY <1>1, <1>4 DEF SentSoFar, Actions!Outcome, Actions!ByAnswer, Actions!Seen
  <1>6. DoneIsAsked'
    BY <1>3, <1>4, <1>5 DEF DoneIsAsked, Actions!Asked, Actions!NextPackage
  <1> QED  BY <1>3, <1>4, <1>5, <1>6 DEF AsTheDashboard, PageIsTheAccount, SentSoFar

LEMMA ActionElsewhereStep == ASSUME ActionInv, Actions!Elsewhere PROVE ActionInv'
  <1> USE DEF ActionInv, ActionTyped
  <1>1. touched' = TRUE /\ UNCHANGED action
    BY DEF Actions!Elsewhere
  <1>2. CASE server' = [server EXCEPT !.package = Actions!NextPackage(server), !.reserved = NoPackage]
    <2>1. Actions!NextPackage(server) \in Packages
      BY DEF Actions!NextPackage, Actions!Account
    <2> QED  BY <1>1, <1>2, <2>1 DEF Actions!Account, AsTheDashboard, PageIsTheAccount, SentSoFar, DoneIsAsked
  <1>3. CASE \E r \in Actions!Requests : server' = Actions!After(server, r)
    BY <1>1, <1>3, AfterIsAccount DEF AsTheDashboard, PageIsTheAccount, SentSoFar, DoneIsAsked
  <1> QED  BY <1>2, <1>3 DEF Actions!Elsewhere

LEMMA ActionStepInv == ActionInv /\ [Actions!Next]_Actions!vars => ActionInv'
  <1>1. ASSUME ActionInv, UNCHANGED Actions!vars PROVE ActionInv'
    <2>1. Actions!Asked(server, action.request)' <=> Actions!Asked(server, action.request)
      BY <1>1 DEF Actions!vars, Actions!Asked, Actions!NextPackage
    <2> QED  BY <1>1, <2>1 DEF ActionInv, ActionTyped, AsTheDashboard, PageIsTheAccount, SentSoFar, DoneIsAsked,
                               Actions!vars
  <1> QED  BY <1>1, ActionReadSteps, ActionSendStep, ActionReportStep, ActionElsewhereStep DEF Actions!Next

\* What is reported of an action is the case unless the account was changed elsewhere (billing.rs), for any
\* packages, devices and sessions and any number of calls.
THEOREM ActionAnswerTellsAlways == Spec => []ActionAnswerTells
  <1>1. ActionInv => ActionAnswerTells
    BY DEF ActionInv, AsTheDashboard, DoneIsAsked, ActionAnswerTells, Actions!AnswerTells
  <1> QED  BY ServicesBegin, ServicesMove, ActionInitInv, ActionStepInv, <1>1, PTL DEF Spec

-----------------------------------------------------------------------------
(* A login to the portal: between the requests of a check of the application the gateway has granted the       *)
(* session to none of its accounts; only an answer after which no other account follows may hide that it has   *)
(* (NoneIsIn).  No account is called "none".                                                                 *)

Resting == trial = "none" /\ todo = {} /\ tried = {} /\ gateway = "none"

PortalPlaces ==
    /\ engine = "none" => Resting
    /\ "none" \notin tried /\ \A following \in todo : following.user # "none"

NoneIsIn == engine = "app" /\ (trial = "none" \/ answer = "rejected") => portalSession \notin tried

PortalInv == PortalPlaces /\ NoneIsIn

LEMMA PortalInitInv == Portal!PortalInit => PortalInv
  BY DEF Portal!PortalInit, PortalInv, PortalPlaces, Resting, NoneIsIn

LEMMA PortalRestSteps ==
  ASSUME PortalInv,
         \/ \E e \in {"app", "headless"}, n \in Networks, how \in Portal!Gateways : Portal!Begin(e, n, how)
         \/ \E p \in expected : Portal!ProbeAnswers(p) \/ Portal!ProbeFails(p)
         \/ \E t \in Portal!Types \cup {"unknown"} : Portal!Select(t)
         \/ \E u \in Portal!Users : Portal!CoolsDown(u)
         \/ Portal!SessionChanges
         \/ \E t \in Portal!Types : Portal!LogOut(t)
         \/ UNCHANGED Portal!portalVars
  PROVE  PortalInv'
  <1> USE DEF PortalInv, PortalPlaces, Resting, NoneIsIn, Portal!detection, Portal!traversal
  <1>1. ASSUME NEW e \in {"app", "headless"}, NEW n \in Networks, NEW how \in Portal!Gateways, Portal!Begin(e, n, how)
        PROVE  PortalInv'
    BY <1>1 DEF Portal!Begin
  <1>2. ASSUME NEW p \in expected, Portal!ProbeAnswers(p) \/ Portal!ProbeFails(p)
        PROVE  PortalInv'
    BY <1>2 DEF Portal!ProbeAnswers, Portal!ProbeFails
  <1>3. ASSUME NEW t \in Portal!Types \cup {"unknown"}, Portal!Select(t)
        PROVE  PortalInv'
    BY <1>3 DEF Portal!Select
  <1>4. ASSUME NEW u \in Portal!Users, Portal!CoolsDown(u) PROVE PortalInv'
    BY <1>4 DEF Portal!CoolsDown
  <1>5. CASE Portal!SessionChanges
    BY <1>5 DEF Portal!SessionChanges
  <1>6. ASSUME NEW t \in Portal!Types, Portal!LogOut(t) PROVE PortalInv'
    BY <1>6 DEF Portal!LogOut
  <1>7. CASE UNCHANGED Portal!portalVars
    BY <1>7 DEF Portal!portalVars
  <1> QED  BY <1>1, <1>2, <1>3, <1>4, <1>5, <1>6, <1>7

LEMMA PortalLoginSteps ==
  ASSUME PortalInv,
         \/ \E order \in Orders : Portal!Choose(order)
         \/ Portal!GivesUp \/ Portal!Submit \/ Portal!NoClient \/ Portal!Unconfirmed \/ Portal!Conclude
  PROVE  PortalInv'
  <1> USE DEF PortalInv, PortalPlaces, Resting, NoneIsIn, Portal!detection, Portal!traversal
  <1>1. ASSUME NEW order \in Orders, Portal!Choose(order) PROVE PortalInv'
    <2>1. \A following \in todo' : following.user # "none"
      BY <1>1, PortalAssumption DEF Portal!Choose, Portal!Warm, Portal!Users
    <2>2. engine # "none"
      BY <1>1 DEF Portal!Choose, Portal!MayLogIn
    <2>3. UNCHANGED <<engine, trial, tried, answer, portalSession>>
      BY <1>1 DEF Portal!Choose
    <2> QED  BY <2>1, <2>2, <2>3
  <1>2. CASE Portal!GivesUp
    BY <1>2 DEF Portal!GivesUp, Portal!Over
  <1>3. ASSUME Portal!Takes, UNCHANGED engine
        PROVE  /\ engine' # "none" /\ trial = "none" /\ trial' # "none"
               /\ \A following \in todo' : following.user # "none"
    BY <1>3 DEF Portal!Takes
  <1>4. CASE Portal!Submit
    <2>1. /\ Portal!Takes /\ UNCHANGED engine /\ tried' = tried \cup {trial'}
          /\ answer' = "rejected" => portalSession' = portalSession /\ portalSession = "none"
      BY <1>4 DEF Portal!Submit, Portal!Replies, Portal!Lost
    <2> QED  BY <1>3, <2>1
  <1>5. CASE Portal!NoClient \/ Portal!Unconfirmed
    <2>1. Portal!Takes /\ answer' = "failed" /\ UNCHANGED <<engine, tried, portalSession>>
      BY <1>5 DEF Portal!NoClient, Portal!Unconfirmed
    <2> QED  BY <1>3, <2>1
  <1>6. CASE Portal!Conclude
    <2>1. CASE answer \in Portal!Follows(engine) /\ todo # {}
      BY <1>6, <2>1 DEF Portal!Conclude, Portal!Follows, Portal!Counts
    <2>2. CASE Portal!Over
      BY <2>2 DEF Portal!Over
    <2> QED  BY <1>6, <2>1, <2>2 DEF Portal!Conclude
  <1> QED  BY <1>1, <1>2, <1>4, <1>5, <1>6

LEMMA PortalStepInv == PortalInv /\ [Portal!PortalNext]_Portal!portalVars => PortalInv'
  BY PortalRestSteps, PortalLoginSteps DEF Portal!PortalNext

\* Only a request adds to the accounts that were tried.
LEMMA OnlySubmitTries ==
  ASSUME Portal!PortalNext, tried' # tried, engine' = "app"
  PROVE  Portal!Submit
  <1> USE DEF Portal!detection, Portal!traversal
  <1>1. ASSUME NEW e \in {"app", "headless"}, NEW n \in Networks, NEW how \in Portal!Gateways, Portal!Begin(e, n, how)
        PROVE  FALSE
    BY <1>1 DEF Portal!Begin
  <1>2. ASSUME NEW p \in expected, Portal!ProbeAnswers(p) \/ Portal!ProbeFails(p) PROVE FALSE
    BY <1>2 DEF Portal!ProbeAnswers, Portal!ProbeFails
  <1>3. ASSUME NEW t \in Portal!Types \cup {"unknown"}, Portal!Select(t) PROVE FALSE
    BY <1>3 DEF Portal!Select
  <1>4. ASSUME NEW order \in Orders, Portal!Choose(order) PROVE FALSE
    BY <1>4 DEF Portal!Choose
  <1>5. ASSUME Portal!GivesUp \/ Portal!NoClient \/ Portal!Unconfirmed \/ Portal!Conclude PROVE FALSE
    BY <1>5 DEF Portal!GivesUp, Portal!NoClient, Portal!Unconfirmed, Portal!Conclude, Portal!Over
  <1>6. ASSUME NEW u \in Portal!Users, Portal!CoolsDown(u) PROVE FALSE
    BY <1>6 DEF Portal!CoolsDown
  <1>7. ASSUME Portal!SessionChanges \/ \E t \in Portal!Types : Portal!LogOut(t) PROVE FALSE
    BY <1>7 DEF Portal!SessionChanges, Portal!LogOut
  <1> QED  BY <1>1, <1>2, <1>3, <1>4, <1>5, <1>6, <1>7 DEF Portal!PortalNext

\* Once the gateway has granted the session to an account of a check, the application sends no other credentials
\* in that check, also when the answer was lost (classify_portal_login_failure, trigger_network_check), for any
\* networks and orders of accounts.
THEOREM OneLoginPerCheckAlways == Spec => OneLoginPerCheck
  <1>1. ASSUME PortalInv, Portal!PortalNext, tried' # tried, engine' = "app"
        PROVE  portalSession \notin tried
    <2>1. Portal!Submit
      BY <1>1, OnlySubmitTries
    <2>2. engine = "app" /\ trial = "none"
      BY <1>1, <2>1 DEF Portal!Submit, Portal!Takes
    <2> QED  BY <1>1, <2>2 DEF PortalInv, NoneIsIn
  <1>2. PortalInv /\ [Portal!PortalNext]_Portal!portalVars =>
          [tried' # tried /\ engine' = "app" => portalSession \notin tried]_Portal!portalVars
    BY <1>1
  <1> QED  BY ServicesBegin, ServicesMove, PortalInitInv, PortalStepInv, <1>2, PTL
           DEF Spec, OneLoginPerCheck, Portal!OneLoginPerCheck

(* The gateway that detection settles on: while no probe has failed, what the probes of a type have found is    *)
(* at most what its gateway amounts to, and all of it once the probes that would show it are over (HeardSoFar), *)
(* so that a type whose probes are over has been found as what it is.                                          *)

Amounts(t) == Portal!Worth(network, there[t])
Findings == {"nothing", "portal", "ready"}
Detecting == engine # "none" /\ gateway = "none" /\ ~missed

DetectionTyped ==
    /\ network \in Networks /\ there \in [Portal!Types -> Findings] /\ found \in [Portal!Types -> Findings]
    /\ there["Type2"] # "portal" /\ there["Type3"] # "portal"
    /\ expected \subseteq Portal!Probes(network)

HeardOf(t) ==
    /\ found[t] = "ready" => Amounts(t) = "ready" /\ Portal!Settled(t)
    /\ found[t] = "portal" => Amounts(t) # "nothing"
    /\ Amounts(t) = "ready" /\ <<t, "primary">> \notin expected => found[t] = "ready"
    /\ Amounts(t) = "portal" /\ <<"Type1", "http">> \notin expected => found[t] # "nothing"

HeardSoFar == Detecting => \A t \in Portal!Candidates(network) : HeardOf(t)

DetectionInv == PortalInv /\ DetectionTyped /\ HeardSoFar /\ Portal!FasterNeverWins

LEMMA PortalTypes == Portal!Types = {"Type1", "Type2", "Type3"}
  BY DEF Portal!Types

\* The ranked types are numbered from one.
LEMMA RankedIsSequence ==
  ASSUME NEW n \in Networks
  PROVE  /\ DOMAIN Portal!Ranked(n) \subseteq Nat \ {0}
         /\ \A i \in DOMAIN Portal!Ranked(n) : 1 .. i - 1 \subseteq DOMAIN Portal!Ranked(n)
         /\ \A i \in DOMAIN Portal!Ranked(n) : Portal!Ranked(n)[i] \in Portal!Types
  <1> DEFINE lgn == n.transport = "ethernet" /\ n.wired
             types == CASE n.transport = "wifi" -> <<"Type1", "Type2">>
                        [] lgn -> <<"Type3", "Type1">>
                        [] n.transport = "ethernet" /\ ~n.wired -> <<"Type1", "Type3">>
                        [] n.transport = "other" /\ n.wired -> <<"Type3", "Type1", "Type2">>
                        [] OTHER -> <<"Type1", "Type2", "Type3">>
             hinted == {i \in DOMAIN types : types[i] = n.ssid}
             hint == [i \in DOMAIN types |-> IF hinted = {} THEN types[i]
                                             ELSE IF i = 1 THEN n.ssid
                                             ELSE IF i \in hinted THEN types[1] ELSE types[i]]
  <1>1. types \in [1 .. 2 -> Portal!Types] \cup [1 .. 3 -> Portal!Types]
    <2>1. types \in {<<"Type1", "Type2">>, <<"Type3", "Type1">>, <<"Type1", "Type3">>, <<"Type3", "Type1", "Type2">>,
                     <<"Type1", "Type2", "Type3">>}
      OBVIOUS
    <2>2. /\ \A s \in {<<"Type1", "Type2">>, <<"Type3", "Type1">>, <<"Type1", "Type3">>} : s \in [1 .. 2 -> Portal!Types]
          /\ \A s \in {<<"Type3", "Type1", "Type2">>, <<"Type1", "Type2", "Type3">>} : s \in [1 .. 3 -> Portal!Types]
      BY DEF Portal!Types
    <2> HIDE DEF types
    <2> QED  BY <2>1, <2>2
  <1>2. Portal!Ranked(n) = IF lgn THEN types ELSE hint
    BY DEF Portal!Ranked
  <1> HIDE DEF types
  <1>3. hint \in [1 .. 2 -> Portal!Types] \cup [1 .. 3 -> Portal!Types]
    <2>1. hinted # {} => n.ssid \in Portal!Types
      BY <1>1
    <2>2. CASE types \in [1 .. 2 -> Portal!Types]
      BY <2>1, <2>2
    <2>3. CASE types \in [1 .. 3 -> Portal!Types]
      BY <2>1, <2>3
    <2> QED  BY <1>1, <2>2, <2>3
  <1> HIDE DEF hint, lgn
  <1>4. Portal!Ranked(n) \in [1 .. 2 -> Portal!Types] \cup [1 .. 3 -> Portal!Types]
    BY <1>1, <1>2, <1>3
  <1> HIDE <1>2
  <1>5. PICK k \in {2, 3} : Portal!Ranked(n) \in [1 .. k -> Portal!Types]
    BY <1>4
  <1> QED  BY <1>5

LEMMA CandidatesAreTypes ==
  ASSUME NEW n \in Networks
  PROVE  Portal!Candidates(n) \subseteq Portal!Types
  BY RankedIsSequence DEF Portal!Candidates

\* The likeliest type is the first in the ranking that is there.
LEMMA LikeliestIsFirst ==
  ASSUME NEW n \in Networks, NEW how, NEW i \in DOMAIN Portal!Ranked(n), how[Portal!Ranked(n)[i]] # "nothing",
         \A j \in 1 .. i - 1 : how[Portal!Ranked(n)[j]] = "nothing"
  PROVE  Portal!Likeliest(n, how) = Portal!Ranked(n)[i]
  <1> DEFINE thereAt == {j \in DOMAIN Portal!Ranked(n) : how[Portal!Ranked(n)[j]] # "nothing"}
             first_of == CHOOSE j \in thereAt : \A k \in thereAt : j <= k
  <1>1. DOMAIN Portal!Ranked(n) \subseteq Nat \ {0}
    BY RankedIsSequence
  <1>2. i \in thereAt /\ \A k \in thereAt : i <= k
    BY <1>1
  <1>3. first_of \in thereAt /\ \A k \in thereAt : first_of <= k
    BY <1>2
  <1>4. first_of = i
    BY <1>1, <1>2, <1>3
  <1>5. Portal!Likeliest(n, how) = Portal!Ranked(n)[first_of]
    BY <1>2 DEF Portal!Likeliest
  <1> QED  BY <1>4, <1>5

LEMMA LikeliestIsUnknown ==
  ASSUME NEW n \in Networks, NEW how, \A t \in Portal!Candidates(n) : how[t] = "nothing"
  PROVE  Portal!Likeliest(n, how) = "unknown"
  BY DEF Portal!Likeliest, Portal!Candidates

\* A gateway that is there amounts to something.
LEMMA WorthOfNothing ==
  ASSUME NEW n, NEW much \in Findings
  PROVE  /\ (Portal!Worth(n, much) = "nothing") <=> (much = "nothing")
         /\ Portal!Worth(n, much) = "portal" => much = "portal" /\ n.https
         /\ Portal!Worth(n, much) \in Findings
  BY DEF Portal!Worth, Findings

\* A type whose probes are over has been found as what it is.
LEMMA SettledIsFound ==
  ASSUME DetectionTyped, HeardSoFar, Detecting, NEW t \in Portal!Candidates(network), Portal!Settled(t)
  PROVE  found[t] = Amounts(t)
  <1>1. t \in Portal!Types /\ HeardOf(t)
    BY CandidatesAreTypes DEF DetectionTyped, HeardSoFar
  <1>2. /\ Amounts(t) \in Findings /\ found[t] \in Findings
        /\ Amounts(t) = "portal" => t = "Type1"
    BY <1>1, WorthOfNothing, PortalTypes DEF Amounts, DetectionTyped
  <1>3. \A kind : <<t, kind>> \notin expected
    BY DEF Portal!Settled
  <1> QED  BY <1>1, <1>2, <1>3 DEF HeardOf, Findings
LEMMA DetectionInitInv == Portal!PortalInit => DetectionInv
  <1> SUFFICES ASSUME Portal!PortalInit PROVE DetectionInv
    OBVIOUS
  <1>1. network \in Networks /\ there = Portal!Nothing /\ found = Portal!Nothing /\ expected = {}
        /\ engine = "none" /\ gateway = "none"
    BY DEF Portal!PortalInit
  <1>2. DetectionTyped
    BY <1>1, PortalTypes DEF DetectionTyped, Portal!Nothing, Findings
  <1>3. HeardSoFar /\ Portal!FasterNeverWins
    BY <1>1 DEF HeardSoFar, Detecting, Portal!FasterNeverWins
  <1> QED  BY <1>2, <1>3, PortalInitInv DEF DetectionInv

\* The probes of all candidates are sent, and nothing has been found.
LEMMA DetectionBeginStep ==
  ASSUME DetectionInv, NEW e \in {"app", "headless"}, NEW n \in Networks, NEW how \in Portal!Gateways,
         Portal!Begin(e, n, how)
  PROVE  DetectionTyped' /\ HeardSoFar' /\ Portal!FasterNeverWins'
  <1>1. /\ network' = n /\ there' = how /\ expected' = Portal!Probes(n) /\ found' = Portal!Nothing
        /\ gateway' = gateway /\ gateway = "none"
    BY DEF Portal!Begin, Portal!traversal, DetectionInv, PortalInv, PortalPlaces, Resting
  <1>2. how \in [Portal!Types -> Findings] /\ how["Type2"] # "portal" /\ how["Type3"] # "portal"
    BY DEF Portal!Gateways, Findings
  <1>3. DetectionTyped'
    BY <1>1, <1>2 DEF DetectionTyped, Portal!Nothing, Findings
  <1>4. ASSUME NEW t \in Portal!Candidates(n) PROVE HeardOf(t)'
    <2>1. t \in Portal!Types /\ found'[t] = "nothing" /\ <<t, "primary">> \in expected'
      BY <1>1, CandidatesAreTypes DEF Portal!Nothing, Portal!Probes
    <2>2. ASSUME Portal!Worth(n, how[t]) = "portal" PROVE <<"Type1", "http">> \in expected'
      <3>1. how[t] \in Findings
        BY <1>2, <2>1
      <3>2. how[t] = "portal" /\ n.https
        BY <2>2, <3>1, WorthOfNothing
      <3>3. t = "Type1"
        BY <1>2, <2>1, <3>2, PortalTypes
      <3> QED  BY <1>1, <3>2, <3>3 DEF Portal!Probes
    <2>3. Amounts(t)' = Portal!Worth(n, how[t])
      BY <1>1 DEF Amounts
    <2> QED  BY <2>1, <2>2, <2>3 DEF HeardOf
  <1>5. HeardSoFar'
    BY <1>1, <1>4 DEF HeardSoFar
  <1> QED  BY <1>1, <1>3, <1>5 DEF Portal!FasterNeverWins

\* A probe of a type is over; the others are as they were.
LEMMA OtherTypesRest ==
  ASSUME DetectionTyped, NEW probe \in expected, NEW what, Portal!Hear(probe, what)
  PROVE  /\ probe[1] \in Portal!Types
         /\ found' = [found EXCEPT ![probe[1]] = IF what = "nothing" THEN found[probe[1]] ELSE what]
         /\ expected' \subseteq expected
         /\ \A p \in expected : p[1] # probe[1] => p \in expected'
         /\ \A p \in expected : what # "ready" /\ p # probe => p \in expected'
         /\ what = "ready" => \A p \in expected' : p[1] # probe[1]
  <1>1. probe \in Portal!Probes(network) /\ network \in Networks
    BY DEF DetectionTyped
  <1>2. probe[1] \in Portal!Types
    BY <1>1, CandidatesAreTypes, PortalTypes DEF Portal!Probes
  <1> QED  BY <1>2 DEF Portal!Hear

LEMMA ProbeFailsStep ==
  ASSUME DetectionInv, NEW probe \in expected, Portal!ProbeFails(probe)
  PROVE  DetectionTyped' /\ HeardSoFar' /\ Portal!FasterNeverWins'
  <1>1. Portal!Hear(probe, "nothing") /\ missed' = TRUE /\ UNCHANGED <<network, there>>
    BY DEF Portal!ProbeFails
  <1>2. found' = [found EXCEPT ![probe[1]] = found[probe[1]]] /\ expected' \subseteq expected
    BY <1>1, OtherTypesRest DEF DetectionInv
  <1>3. DetectionTyped'
    BY <1>1, <1>2 DEF DetectionInv, DetectionTyped
  <1> QED  BY <1>1, <1>3 DEF HeardSoFar, Detecting, Portal!FasterNeverWins

\* A probe answers: it is a primary or IPv6 probe and finds a gateway that is ready, or an HTTP probe of Type 1.
LEMMA ProbeAnswersStep ==
  ASSUME DetectionInv, NEW probe \in expected, Portal!ProbeAnswers(probe)
  PROVE  DetectionTyped' /\ HeardSoFar' /\ Portal!FasterNeverWins'
  <1> DEFINE t0 == probe[1]
             what == Portal!Seen(probe, Amounts(t0))
  <1>1. /\ Portal!Hear(probe, what) /\ UNCHANGED <<engine, network, there, missed, gateway>> /\ gateway = "none"
    BY DEF Portal!ProbeAnswers, Portal!traversal, Amounts
  <1>2. DetectionTyped /\ HeardSoFar /\ t0 \in Portal!Types /\ probe \in Portal!Probes(network)
    BY <1>1, OtherTypesRest DEF DetectionInv, DetectionTyped
  <1>3. Amounts(t0) \in Findings /\ (Amounts(t0) = "portal" => t0 = "Type1")
    BY <1>2, WorthOfNothing, PortalTypes DEF Amounts, DetectionTyped
  <1>4. /\ what \in Findings
        /\ what = "ready" => Amounts(t0) = "ready" /\ probe[2] # "http"
        /\ what = "portal" => Amounts(t0) # "nothing" /\ probe[2] = "http"
        /\ what = "nothing" /\ probe[2] = "http" => Amounts(t0) = "nothing"
        /\ what = "nothing" /\ probe[2] # "http" => Amounts(t0) # "ready"
        /\ what = "portal" /\ Amounts(t0) = "ready" => probe[2] = "http"
    BY <1>3 DEF Portal!Seen, Findings
  <1> HIDE DEF what
  <1>5. /\ found' = [found EXCEPT ![t0] = IF what = "nothing" THEN found[t0] ELSE what]
        /\ expected' \subseteq expected
        /\ \A p \in expected : p[1] # t0 => p \in expected'
        /\ \A p \in expected : what # "ready" /\ p # probe => p \in expected'
        /\ what = "ready" => \A p \in expected' : p[1] # t0
    BY <1>1, <1>2, OtherTypesRest
  <1>6. DetectionTyped'
    BY <1>1, <1>2, <1>4, <1>5 DEF DetectionTyped
  <1>7. ASSUME Detecting, NEW t \in Portal!Candidates(network) PROVE HeardOf(t)'
    <2>1. HeardOf(t) /\ t \in Portal!Types /\ found[t] \in Findings
      BY <1>2, <1>7, CandidatesAreTypes DEF HeardSoFar, DetectionTyped
    <2>2. Amounts(t)' = Amounts(t)
      BY <1>1 DEF Amounts
    <2>3. Portal!Settled(t) => Portal!Settled(t)'
      BY <1>5 DEF Portal!Settled
    <2>4. CASE t # t0
      <3>1. found'[t] = found[t]
        BY <1>2, <1>5, <2>1, <2>4 DEF DetectionTyped
      <3>2. <<t, "primary">> \in expected => <<t, "primary">> \in expected'
        BY <1>5, <2>4
      <3>3. Amounts(t) = "portal" => t = "Type1"
        BY <2>1, <1>2, WorthOfNothing, PortalTypes DEF Amounts, DetectionTyped
      <3>4. t = "Type1" /\ <<"Type1", "http">> \in expected => <<"Type1", "http">> \in expected'
        BY <1>5, <2>4
      <3> QED  BY <2>1, <2>2, <2>3, <3>1, <3>2, <3>3, <3>4 DEF HeardOf
    <2>5. CASE t = t0
      <3>1. found'[t] = IF what = "nothing" THEN found[t] ELSE what
        BY <1>2, <1>5, <2>1, <2>5 DEF DetectionTyped
      <3>2. found[t] # "ready"
        BY <2>1, <2>5 DEF HeardOf, Portal!Settled
      <3>3. what = "ready" => Portal!Settled(t)'
        BY <1>5, <2>5 DEF Portal!Settled
      <3>4. what # "ready" /\ Amounts(t) = "ready" => probe[2] = "http" /\ (<<t, "primary">> \in expected => <<t, "primary">> \in expected')
        BY <1>4, <1>5, <2>5, <1>3 DEF Findings
      <3>5. Amounts(t) = "portal" /\ probe[2] # "http" /\ <<"Type1", "http">> \in expected => <<"Type1", "http">> \in expected'
        BY <1>4, <1>5, <2>5
      <3>6. CASE what = "ready"
        BY <1>4, <2>2, <2>5, <3>1, <3>3, <3>6 DEF HeardOf
      <3>7. CASE what = "portal"
        BY <1>4, <2>1, <2>2, <2>5, <3>1, <3>4, <3>2, <3>7 DEF HeardOf
      <3>8. CASE what = "nothing"
        BY <1>4, <2>1, <2>2, <2>5, <3>1, <3>2, <3>4, <3>5, <3>8 DEF HeardOf
      <3> QED  BY <1>4, <3>6, <3>7, <3>8 DEF Findings
    <2> QED  BY <2>4, <2>5
  <1>8. HeardSoFar'
    <2>1. Detecting' => Detecting
      BY <1>1 DEF Detecting
    <2>2. Portal!Candidates(network)' = Portal!Candidates(network)
      BY <1>1
    <2> QED  BY <1>7, <2>1, <2>2 DEF HeardSoFar
  <1> QED  BY <1>1, <1>6, <1>8 DEF Portal!FasterNeverWins
\* Detection settles on the first type that is there, or on none once all probes are over.
LEMMA SelectStep ==
  ASSUME DetectionInv, NEW t \in Portal!Types \cup {"unknown"}, Portal!Select(t)
  PROVE  DetectionTyped' /\ HeardSoFar' /\ Portal!FasterNeverWins'
  <1>1. /\ engine # "none" /\ gateway = "none" /\ gateway' = t /\ expected' = {}
        /\ gatewayReady' = (t \in Portal!Types /\ found[t] = "ready")
        /\ UNCHANGED <<engine, network, there, found, missed>>
    BY DEF Portal!Select
  <1>2. DetectionTyped /\ HeardSoFar /\ t # "none"
    BY PortalTypes DEF DetectionInv
  <1>3. DetectionTyped'
    BY <1>1, <1>2 DEF DetectionTyped
  <1>4. HeardSoFar'
    BY <1>1, <1>2 DEF HeardSoFar, Detecting
  <1>5. ASSUME ~missed
        PROVE  /\ t = Portal!Likeliest(network, there)
               /\ (t \in Portal!Types /\ found[t] = "ready") = (t # "unknown" /\ Portal!Worth(network, there[t]) = "ready")
    <2>1. Detecting /\ network \in Networks
      BY <1>1, <1>2, <1>5 DEF Detecting, DetectionTyped
    <2>2. ASSUME NEW c \in Portal!Candidates(network), Portal!Settled(c)
          PROVE  /\ found[c] = Portal!Worth(network, there[c])
                 /\ (found[c] = "nothing") <=> (there[c] = "nothing")
      <3>1. found[c] = Portal!Worth(network, there[c])
        BY <1>2, <2>1, <2>2, SettledIsFound DEF Amounts
      <3>2. there[c] \in Findings
        BY <1>2, <2>1, CandidatesAreTypes DEF DetectionTyped
      <3> QED  BY <3>1, <3>2, WorthOfNothing
    <2>3. CASE t \in Portal!Candidates(network) /\ Portal!Leading(t) /\ Portal!Settled(t) /\ found[t] # "nothing"
      <3>1. PICK i \in DOMAIN Portal!Ranked(network) :
              /\ Portal!Ranked(network)[i] = t
              /\ \A j \in 1 .. i - 1 : /\ Portal!Settled(Portal!Ranked(network)[j])
                                       /\ found[Portal!Ranked(network)[j]] = "nothing"
        BY <2>3 DEF Portal!Leading
      <3>2. \A j \in 1 .. i - 1 : Portal!Ranked(network)[j] \in Portal!Candidates(network)
        BY <2>1, RankedIsSequence DEF Portal!Candidates
      <3>3. \A j \in 1 .. i - 1 : there[Portal!Ranked(network)[j]] = "nothing"
        BY <2>2, <3>1, <3>2
      <3>4. there[Portal!Ranked(network)[i]] # "nothing"
        BY <2>2, <2>3, <3>1
      <3>5. Portal!Likeliest(network, there) = Portal!Ranked(network)[i]
        BY <2>1, <3>3, <3>4, LikeliestIsFirst
      <3>6. t \in Portal!Types /\ t # "unknown"
        BY <2>1, <2>3, CandidatesAreTypes, PortalTypes
      <3> QED  BY <2>2, <2>3, <3>1, <3>5, <3>6
    <2>4. CASE t = "unknown" /\ expected = {} /\ \A c \in Portal!Candidates(network) : found[c] = "nothing"
      <3>1. \A c \in Portal!Candidates(network) : there[c] = "nothing"
        BY <2>2, <2>4 DEF Portal!Settled
      <3>2. t \notin Portal!Types
        BY <2>4, PortalTypes
      <3> QED  BY <2>1, <2>4, <3>1, <3>2, LikeliestIsUnknown
    <2> QED  BY <2>3, <2>4 DEF Portal!Select
  <1>6. Portal!FasterNeverWins'
    BY <1>1, <1>5 DEF Portal!FasterNeverWins
  <1> QED  BY <1>3, <1>4, <1>6

\* What detection has found stays, until the check ends.
LEMMA DetectionRests ==
  ASSUME DetectionInv, UNCHANGED <<network, there, expected, found, missed>>,
         \/ UNCHANGED <<engine, gateway, gatewayReady>>
         \/ engine' = "none" /\ gateway' = "none"
  PROVE  DetectionTyped' /\ HeardSoFar' /\ Portal!FasterNeverWins'
  <1>1. DetectionTyped'
    BY DEF DetectionInv, DetectionTyped
  <1>2. CASE UNCHANGED <<engine, gateway, gatewayReady>>
    BY <1>1, <1>2 DEF DetectionInv, HeardSoFar, Detecting, HeardOf, Amounts, Portal!Settled, Portal!FasterNeverWins
  <1>3. CASE engine' = "none" /\ gateway' = "none"
    BY <1>1, <1>3 DEF HeardSoFar, Detecting, Portal!FasterNeverWins
  <1> QED  BY <1>2, <1>3

LEMMA DetectionStepInv == DetectionInv /\ [Portal!PortalNext]_Portal!portalVars => DetectionInv'
  <1> SUFFICES ASSUME DetectionInv, [Portal!PortalNext]_Portal!portalVars
               PROVE  DetectionTyped' /\ HeardSoFar' /\ Portal!FasterNeverWins'
    BY PortalStepInv DEF DetectionInv
  <1> DEFINE Rests == /\ UNCHANGED <<network, there, expected, found, missed>>
                      /\ \/ UNCHANGED <<engine, gateway, gatewayReady>>
                         \/ engine' = "none" /\ gateway' = "none"
  <1>1. ASSUME NEW order \in Orders, Portal!Choose(order) PROVE Rests
    BY <1>1 DEF Portal!Choose, Portal!detection
  <1>2. ASSUME Portal!GivesUp PROVE Rests
    BY <1>2 DEF Portal!GivesUp, Portal!Over, Portal!detection
  <1>3. ASSUME Portal!Submit \/ Portal!NoClient \/ Portal!Unconfirmed PROVE Rests
    BY <1>3 DEF Portal!Submit, Portal!NoClient, Portal!Unconfirmed, Portal!detection
  <1>4. ASSUME Portal!Conclude PROVE Rests
    BY <1>4 DEF Portal!Conclude, Portal!Over, Portal!detection
  <1>5. ASSUME NEW u \in Portal!Users, Portal!CoolsDown(u) PROVE Rests
    BY <1>5 DEF Portal!CoolsDown, Portal!detection, Portal!traversal
  <1>6. ASSUME Portal!SessionChanges \/ \E t \in Portal!Types : Portal!LogOut(t) PROVE Rests
    BY <1>6 DEF Portal!SessionChanges, Portal!LogOut, Portal!detection, Portal!traversal
  <1>7. ASSUME UNCHANGED Portal!portalVars PROVE Rests
    BY <1>7 DEF Portal!portalVars, Portal!detection, Portal!traversal
  <1>8. Rests => DetectionTyped' /\ HeardSoFar' /\ Portal!FasterNeverWins'
    BY DetectionRests
  <1> HIDE DEF Rests
  <1> QED  BY <1>1, <1>2, <1>3, <1>4, <1>5, <1>6, <1>7, <1>8,
              DetectionBeginStep, ProbeAnswersStep, ProbeFailsStep, SelectStep DEF Portal!PortalNext

\* The gateway that detection settles on is the likeliest of those that are there, and a login to it is possible
\* exactly when it says so, in whatever order the probes answer, unless one of them fails or is late
\* (select_prioritized_probes, finish_portal_probes), for any networks.
THEOREM FasterNeverWinsAlways == Spec => []FasterNeverWins
  <1>1. DetectionInv => FasterNeverWins
    BY DEF DetectionInv, FasterNeverWins
  <1> QED  BY ServicesBegin, ServicesMove, DetectionInitInv, DetectionStepInv, <1>1, PTL DEF Spec

-----------------------------------------------------------------------------
(* The rows of the month.  A row holds whole rows of the smaller kinds, so that comparing the beginning of a     *)
(* row with a time at which a row of its kind begins is comparing the sample itself (BucketAgainst).  The days    *)
(* up to the day of the first point, the hours of that day, the minutes of that hour and the points therefore     *)
(* cut the time of the month into pieces that meet without gap or overlap.                                        *)

Divides(k, m) == \E q \in Int : m = k * q

LEMMA DividesIsTransitive ==
  ASSUME NEW k \in Int, NEW l \in Int, NEW m \in Int, Divides(k, l), Divides(l, m)
  PROVE  Divides(k, m)
  <1>1. PICK p \in Int, q \in Int : l = k * p /\ m = l * q
    BY DEF Divides
  <1>2. p * q \in Int /\ (k * p) * q = k * (p * q)
    BY <1>1
  <1> QED  BY <1>1, <1>2 DEF Divides

LEMMA QuotientAndRest ==
  ASSUME NEW x \in Int, NEW k \in Nat \ {0}
  PROVE  /\ x \div k \in Int /\ x % k \in 0 .. k - 1
         /\ x = k * (x \div k) + (x % k)
  OBVIOUS

LEMMA RemainderDivides ==
  ASSUME NEW m \in Nat, NEW k \in Nat \ {0}, m % k = 0
  PROVE  Divides(k, m)
  <1>1. m \div k \in Int /\ m = k * (m \div k) + 0
    BY QuotientAndRest
  <1>2. PICK q : q = m \div k
    OBVIOUS
  <1>3. q \in Int /\ k * q \in Int /\ m = k * q
    BY <1>1, <1>2
  <1> QED  BY <1>3 DEF Divides

\* The row of a time begins before it and less than its length before.
LEMMA BucketBegins ==
  ASSUME NEW x \in Int, NEW k \in Nat \ {0}
  PROVE  /\ Rollups!Bucket(x, k) \in Int /\ Divides(k, Rollups!Bucket(x, k))
         /\ Rollups!Bucket(x, k) <= x /\ x < Rollups!Bucket(x, k) + k
  <1>1. PICK d \in Int, r \in 0 .. k - 1 : x = k * d + r /\ x \div k = d
    BY QuotientAndRest
  <1>2. Rollups!Bucket(x, k) = k * d /\ k * d \in Int
    BY <1>1 DEF Rollups!Bucket
  <1>3. Divides(k, k * d)
    BY <1>1 DEF Divides
  <1>4. PICK begins \in Int : begins = k * d
    BY <1>2
  <1>5. begins <= x /\ x < begins + k
    BY <1>1, <1>4
  <1> QED  BY <1>2, <1>3, <1>4, <1>5

\* Where a row of the kind begins, the beginning of the row of a time is on the same side as the time.
LEMMA BucketAgainst ==
  ASSUME NEW x \in Int, NEW k \in Nat \ {0}, NEW m \in Int, Divides(k, m)
  PROVE  (m <= Rollups!Bucket(x, k)) <=> (m <= x)
  <1>1. PICK d \in Int : Rollups!Bucket(x, k) = k * d
    BY BucketBegins DEF Divides
  <1>2. PICK q \in Int : m = k * q
    BY DEF Divides
  <1>3. k * d <= x /\ x < k * d + k /\ k * d \in Int /\ k * q \in Int
    BY <1>1, BucketBegins
  <1>4. ASSUME k * q <= x PROVE k * q <= k * d
    <2>1. k * q < k * (d + 1)
      BY <1>3, <1>4
    <2>2. q < d + 1
      BY <2>1
    <2>3. q <= d
      BY <2>2
    <2> QED  BY <2>3
  <1> QED  BY <1>1, <1>2, <1>3, <1>4

\* The row of a row's beginning is that of the time.
LEMMA BucketOfBucket ==
  ASSUME NEW x \in Int, NEW k \in Nat \ {0}, NEW l \in Nat \ {0}, Divides(k, l)
  PROVE  Rollups!Bucket(Rollups!Bucket(x, k), l) = Rollups!Bucket(x, l)
  <1>1. PICK small, large, both :
          small = Rollups!Bucket(x, k) /\ large = Rollups!Bucket(x, l) /\ both = Rollups!Bucket(small, l)
    OBVIOUS
  <1>2. small \in Int /\ large \in Int /\ small <= x /\ large <= x /\ Divides(l, large)
    BY <1>1, BucketBegins
  <1>3. both \in Int /\ both <= small /\ Divides(l, both)
    BY <1>1, <1>2, BucketBegins
  <1>4. Divides(k, large)
    BY <1>2, DividesIsTransitive
  <1>5. large <= small
    BY <1>1, <1>2, <1>4, BucketAgainst
  <1>6. large <= both
    BY <1>1, <1>2, <1>5, BucketAgainst
  <1>7. both <= large
    BY <1>1, <1>2, <1>3, BucketAgainst
  <1> QED  BY <1>1, <1>2, <1>3, <1>6, <1>7

LEMMA LengthsDivide ==
  /\ {MinuteLength, Hour, Day, Month} \subseteq Nat \ {0}
  /\ MinuteLength # Hour /\ MinuteLength # Day /\ Hour # Day
  /\ \A k \in {MinuteLength, Hour, Day} : Divides(MinuteLength, k) /\ Divides(k, Day) /\ Divides(k, Month)
  /\ Divides(MinuteLength, Hour) /\ Divides(Hour, Hour) /\ Divides(Hour, Day)
  <1>1. {MinuteLength, Hour, Day, Month} \subseteq Nat \ {0}
    BY RollupAssumption
  <1>2. Divides(MinuteLength, Hour) /\ Divides(Hour, Day) /\ Divides(Day, Month)
    BY <1>1, RollupAssumption, RemainderDivides
  <1>3. ASSUME NEW k \in Nat PROVE Divides(k, k)
    <2>1. k = k * 1
      OBVIOUS
    <2> QED  BY <2>1 DEF Divides
  <1>4. Divides(MinuteLength, Day) /\ Divides(Hour, Month)
    BY <1>1, <1>2, DividesIsTransitive
  <1>5. Divides(MinuteLength, Month)
    BY <1>1, <1>2, <1>4, DividesIsTransitive
  <1>6. MinuteLength # Hour /\ MinuteLength # Day /\ Hour # Day
    BY <1>1, RollupAssumption
  <1> QED  BY <1>1, <1>2, <1>3, <1>4, <1>5, <1>6

\* The pieces: what Prefix says of the rows is said of the samples.
LEMMA PrefixOfSamples ==
  ASSUME NEW s \in Int, NEW a \in Int, Divides(MinuteLength, a)
  PROVE  LET months == Rollups!Bucket(a, Month)
             days   == Rollups!Bucket(a, Day)
             hours  == Rollups!Bucket(a, Hour)
             row(k) == [at |-> Rollups!Bucket(s, k), resolution |-> k]
         IN  /\ Rollups!Prefix(row(Day), a) <=> months <= s /\ s < days
             /\ Rollups!Prefix(row(Hour), a) <=> days <= s /\ s < hours
             /\ Rollups!Prefix(row(MinuteLength), a) <=> hours <= s /\ s < a
             /\ {months, days, hours} \subseteq Int /\ months <= days /\ days <= hours /\ hours <= a
  <1>1. PICK months, days, hours :
          months = Rollups!Bucket(a, Month) /\ days = Rollups!Bucket(a, Day) /\ hours = Rollups!Bucket(a, Hour)
    OBVIOUS
  <1>2. /\ months \in Int /\ days \in Int /\ hours \in Int /\ months <= a /\ days <= a /\ hours <= a
        /\ Divides(Month, months) /\ Divides(Day, days) /\ Divides(Hour, hours)
    BY <1>1, LengthsDivide, BucketBegins
  <1>3. /\ \A k \in {MinuteLength, Hour, Day} : Divides(k, months) /\ Divides(k, days)
        /\ \A k \in {MinuteLength, Hour} : Divides(k, hours)
    BY <1>2, LengthsDivide, DividesIsTransitive
  <1>4. months <= days /\ days <= hours
    BY <1>1, <1>2, <1>3, LengthsDivide, BucketAgainst
  <1>5. PICK day, hourly, minute :
          /\ day = Rollups!Bucket(s, Day) /\ hourly = Rollups!Bucket(s, Hour) /\ minute = Rollups!Bucket(s, MinuteLength)
    OBVIOUS
  <1>6. /\ day \in Int /\ hourly \in Int /\ minute \in Int
        /\ (months <= day) <=> (months <= s)
        /\ (days <= day) <=> (days <= s)
        /\ (months <= hourly) <=> (months <= s)
        /\ (days <= hourly) <=> (days <= s)
        /\ (hours <= hourly) <=> (hours <= s)
        /\ (months <= minute) <=> (months <= s)
        /\ (hours <= minute) <=> (hours <= s)
        /\ (a <= minute) <=> (a <= s)
    BY <1>2, <1>3, <1>5, LengthsDivide, BucketAgainst, BucketBegins
  <1>7. Rollups!Prefix([at |-> day, resolution |-> Day], a) <=> months <= s /\ s < days
    BY <1>1, <1>2, <1>4, <1>6, LengthsDivide DEF Rollups!Prefix
  <1>8. Rollups!Prefix([at |-> hourly, resolution |-> Hour], a) <=> days <= s /\ s < hours
    BY <1>1, <1>2, <1>4, <1>6, LengthsDivide DEF Rollups!Prefix
  <1>9. Rollups!Prefix([at |-> minute, resolution |-> MinuteLength], a) <=> hours <= s /\ s < a
    BY <1>1, <1>2, <1>4, <1>6, LengthsDivide DEF Rollups!Prefix
  <1> QED  BY <1>1, <1>2, <1>4, <1>5, <1>7, <1>8, <1>9

\* What the month had before the beginning of the first point's row is accepted as what it had before the range.
LEMMA PrefixIsAccepted ==
  ASSUME NEW x \in Int, NEW k \in Rollups!Kinds, NEW row, row.at \in Int,
         Rollups!Prefix(row, Rollups!Bucket(x, k))
  PROVE  Rollups!Prefix(row, x)
  <1>0. k \in Nat \ {0} /\ Rollups!Kinds = {MinuteLength, Hour, Day}
    BY LengthsDivide DEF Rollups!Kinds
  <1>1. PICK a : a = Rollups!Bucket(x, k)
    OBVIOUS
  <1>2. a \in Int /\ a <= x /\ Divides(k, a)
    BY <1>0, <1>1, BucketBegins
  <1>3. Rollups!Bucket(a, Month) = Rollups!Bucket(x, Month) /\ Rollups!Bucket(a, Day) = Rollups!Bucket(x, Day)
    BY <1>0, <1>1, LengthsDivide, BucketOfBucket
  <1>4. CASE k = Day
    <2>1. a <= Rollups!Bucket(a, Day) /\ Rollups!Bucket(a, Day) \in Int
      BY <1>0, <1>2, <1>4, BucketAgainst, BucketBegins
    <2>2. a <= Rollups!Bucket(a, Hour) /\ Rollups!Bucket(a, Hour) \in Int
      BY <1>2, <1>4, LengthsDivide, DividesIsTransitive, BucketAgainst, BucketBegins
    <2>3. row.resolution = Day /\ row.at < a /\ row.at >= Rollups!Bucket(a, Month) /\ row.at < Rollups!Bucket(a, Day)
      BY <1>1, <1>2, <2>1, <2>2 DEF Rollups!Prefix
    <2> QED  BY <1>2, <1>3, <2>3 DEF Rollups!Prefix
  <1>5. CASE k \in {MinuteLength, Hour}
    <2>1. Rollups!Bucket(a, Hour) = Rollups!Bucket(x, Hour)
      BY <1>0, <1>1, <1>5, LengthsDivide, BucketOfBucket
    <2>2. row.at < x
      BY <1>1, <1>2 DEF Rollups!Prefix
    <2> QED  BY <1>1, <1>3, <2>1, <2>2 DEF Rollups!Prefix
  <1> QED  BY <1>0, <1>4, <1>5

\* Pieces that do not overlap count together what they hold together.
LEMMA DisjointCount ==
  ASSUME NEW S, NEW T, IsFiniteSet(S), IsFiniteSet(T), S \cap T = {}
  PROVE  /\ IsFiniteSet(S \cup T) /\ Cardinality(S \cup T) = Cardinality(S) + Cardinality(T)
         /\ Cardinality(S) \in Nat /\ Cardinality(T) \in Nat
  <1>1. IsFiniteSet(S \cup T) /\ Cardinality(S \cup T) = Cardinality(S) + Cardinality(T) - Cardinality({})
    BY FS_Union
  <1>2. Cardinality({}) = 0 /\ Cardinality(S) \in Nat /\ Cardinality(T) \in Nat
    BY FS_EmptySet, FS_CardinalityType
  <1> QED  BY <1>1, <1>2

\* A range that the chart asks for.
RangeAsked == Rollups!RollupTypeOK /\ range.start <= range.end

LEMMA WeightOfKinds ==
  ASSUME NEW some
  PROVE  Rollups!Weight(some) =
           Cardinality({s \in samples : [at |-> Rollups!Bucket(s, MinuteLength), resolution |-> MinuteLength] \in some})
             + Cardinality({s \in samples : [at |-> Rollups!Bucket(s, Hour), resolution |-> Hour] \in some})
             + Cardinality({s \in samples : [at |-> Rollups!Bucket(s, Day), resolution |-> Day] \in some})
  <1>1. \A S : Rollups!Cardinality(S) = Cardinality(S)
    BY DEF Rollups!Cardinality, Cardinality
  <1>2. Rollups!Weight(some) =
            Rollups!Cardinality({s \in samples : [at |-> Rollups!Bucket(s, MinuteLength), resolution |-> MinuteLength] \in some})
              + Rollups!Cardinality({s \in samples : [at |-> Rollups!Bucket(s, Hour), resolution |-> Hour] \in some})
              + Rollups!Cardinality({s \in samples : [at |-> Rollups!Bucket(s, Day), resolution |-> Day] \in some})
    BY DEF Rollups!Weight
  <1> QED  BY <1>1, <1>2

\* Pieces of the time that meet.
Piece(S, p, q) == {s \in S : p <= s /\ s < q}

LEMMA PiecesMeet ==
  ASSUME NEW S, S \subseteq Int, NEW p \in Int, NEW q \in Int, NEW r \in Int, p <= q, q <= r
  PROVE  Piece(S, p, q) \cap Piece(S, q, r) = {} /\ Piece(S, p, q) \cup Piece(S, q, r) = Piece(S, p, r)
  <1>1. ASSUME NEW s \in S PROVE /\ ~(p <= s /\ s < q /\ q <= s /\ s < r)
                               /\ (p <= s /\ s < r) <=> (p <= s /\ s < q) \/ (q <= s /\ s < r)
    OBVIOUS
  <1> QED  BY <1>1 DEF Piece

\* The samples of the rows before the first point.
LEMMA PrefixWeight ==
  ASSUME RangeAsked, NEW a \in Int, a = Rollups!Bucket(range.start, range.resolution)
  PROVE  Rollups!Weight({row \in Rollups!Accepted : Rollups!Prefix(row, a)})
           = Cardinality({s \in samples : Rollups!Bucket(a, Month) <= s /\ s < a})
  <1>1. /\ samples \subseteq Int /\ IsFiniteSet(samples) /\ range.start \in Int /\ range.resolution \in Rollups!Kinds
        /\ Rollups!Kinds = {MinuteLength, Hour, Day} /\ Rollups!Kinds \subseteq Nat \ {0}
    <2>1. Rollups!Times \subseteq Int /\ IsFiniteSet(Rollups!Times)
      BY RollupAssumption, FS_Interval DEF Rollups!Times
    <2>2. samples \subseteq Rollups!Times /\ range \in Rollups!Queries
      BY DEF RangeAsked, Rollups!RollupTypeOK
    <2> QED  BY <2>1, <2>2, FS_Subset, LengthsDivide DEF Rollups!Queries, Rollups!Kinds
  <1> DEFINE Before == {row \in Rollups!Accepted : Rollups!Prefix(row, a)}
             Row(s, k) == [at |-> Rollups!Bucket(s, k), resolution |-> k]
             Of(k) == {s \in samples : Row(s, k) \in Before}
             months == Rollups!Bucket(a, Month)
             days == Rollups!Bucket(a, Day)
             hours == Rollups!Bucket(a, Hour)
  <1>2. ASSUME NEW s \in samples, NEW k \in Rollups!Kinds
        PROVE  Row(s, k) \in Before <=> Rollups!Prefix(Row(s, k), a)
    <2>1. Row(s, k) \in Rollups!Rows
      BY DEF Rollups!Rows
    <2>2. Row(s, k).at \in Int
      BY <1>1, BucketBegins
    <2>3. Rollups!Prefix(Row(s, k), a) => Rollups!Prefix(Row(s, k), range.start)
      BY <1>1, <2>2, PrefixIsAccepted
    <2> QED  BY <2>1, <2>3 DEF Rollups!Accepted
  <1>3. Divides(MinuteLength, a)
    <2>1. Divides(range.resolution, a) /\ Divides(MinuteLength, range.resolution)
      BY <1>1, LengthsDivide, BucketBegins
    <2> QED  BY <1>1, <2>1, DividesIsTransitive
  <1>4. ASSUME NEW s \in samples
        PROVE  /\ Rollups!Prefix(Row(s, Day), a) <=> months <= s /\ s < days
               /\ Rollups!Prefix(Row(s, Hour), a) <=> days <= s /\ s < hours
               /\ Rollups!Prefix(Row(s, MinuteLength), a) <=> hours <= s /\ s < a
    BY <1>1, <1>3, PrefixOfSamples
  <1>5. /\ Of(Day) = {s \in samples : months <= s /\ s < days}
        /\ Of(Hour) = {s \in samples : days <= s /\ s < hours}
        /\ Of(MinuteLength) = {s \in samples : hours <= s /\ s < a}
    BY <1>1, <1>2, <1>4
  <1>6. {months, days, hours} \subseteq Int /\ months <= days /\ days <= hours /\ hours <= a
    BY <1>3, PrefixOfSamples
  <1>7. Rollups!Weight(Before) = Cardinality(Of(MinuteLength)) + Cardinality(Of(Hour)) + Cardinality(Of(Day))
    BY WeightOfKinds
  <1> HIDE DEF Before, months, days, hours, Of
  <1>8. /\ IsFiniteSet(Of(Day)) /\ IsFiniteSet(Of(Hour)) /\ IsFiniteSet(Of(MinuteLength))
        /\ Of(Day) \cap Of(Hour) = {} /\ (Of(Day) \cup Of(Hour)) \cap Of(MinuteLength) = {}
        /\ (Of(Day) \cup Of(Hour)) \cup Of(MinuteLength) = {s \in samples : months <= s /\ s < a}
    <2>1. \A S : S \subseteq samples => IsFiniteSet(S)
      BY <1>1, FS_Subset
    <2>2. Of(Day) \subseteq samples /\ Of(Hour) \subseteq samples /\ Of(MinuteLength) \subseteq samples
      BY DEF Of
    <2>3. PICK pm, pd, ph : pm = months /\ pd = days /\ ph = hours
      OBVIOUS
    <2>4. pm \in Int /\ pd \in Int /\ ph \in Int /\ pm <= pd /\ pd <= ph /\ ph <= a
      BY <1>6, <2>3
    <2>5. PICK D, H, M : D = Of(Day) /\ H = Of(Hour) /\ M = Of(MinuteLength)
      OBVIOUS
    <2>6. D = Piece(samples, pm, pd) /\ H = Piece(samples, pd, ph) /\ M = Piece(samples, ph, a)
      BY <1>5, <2>3, <2>5 DEF Piece
    <2>7. D \cap H = {} /\ D \cup H = Piece(samples, pm, ph)
      BY <1>1, <2>4, <2>6, PiecesMeet
    <2>8. (D \cup H) \cap M = {} /\ (D \cup H) \cup M = Piece(samples, pm, a)
      <3>1. pm <= ph
        BY <2>4
      <3>2. /\ Piece(samples, pm, ph) \cap Piece(samples, ph, a) = {}
            /\ Piece(samples, pm, ph) \cup Piece(samples, ph, a) = Piece(samples, pm, a)
        BY <1>1, <2>4, <3>1, PiecesMeet
      <3> QED  BY <2>6, <2>7, <3>2
    <2>9. Piece(samples, pm, a) = {s \in samples : months <= s /\ s < a}
      BY <2>3 DEF Piece
    <2> QED  BY <2>1, <2>2, <2>3, <2>5, <2>7, <2>8, <2>9
  <1>9. Cardinality({s \in samples : months <= s /\ s < a})
          = Cardinality(Of(Day)) + Cardinality(Of(Hour)) + Cardinality(Of(MinuteLength))
    <2>1. /\ IsFiniteSet(Of(Day) \cup Of(Hour))
          /\ Cardinality(Of(Day) \cup Of(Hour)) = Cardinality(Of(Day)) + Cardinality(Of(Hour))
      BY <1>8, DisjointCount
    <2>2. Cardinality((Of(Day) \cup Of(Hour)) \cup Of(MinuteLength))
            = Cardinality(Of(Day) \cup Of(Hour)) + Cardinality(Of(MinuteLength))
      BY <1>8, <2>1, DisjointCount
    <2> QED  BY <1>8, <2>1, <2>2
  <1>10. /\ Cardinality(Of(Day)) \in Nat /\ Cardinality(Of(Hour)) \in Nat /\ Cardinality(Of(MinuteLength)) \in Nat
    BY <1>8, FS_CardinalityType
  <1> QED  BY <1>7, <1>9, <1>10 DEF Before, months

\* The samples of the points.
LEMMA PointsWeight ==
  ASSUME RangeAsked, NEW a \in Int, a = Rollups!Bucket(range.start, range.resolution)
  PROVE  Rollups!Weight(Rollups!Points)
           = Cardinality({s \in samples : a <= s /\ Rollups!Bucket(s, range.resolution) <= range.end})
  <1>1. /\ samples \subseteq Int /\ range.start \in Int /\ range.resolution \in Rollups!Kinds
        /\ Rollups!Kinds = {MinuteLength, Hour, Day} /\ Rollups!Kinds \subseteq Nat \ {0}
    BY RollupAssumption, LengthsDivide DEF RangeAsked, Rollups!RollupTypeOK, Rollups!Times, Rollups!Queries, Rollups!Kinds
  <1> DEFINE Row(s, k) == [at |-> Rollups!Bucket(s, k), resolution |-> k]
             Of(k) == {s \in samples : Row(s, k) \in Rollups!Points}
  <1>2. ASSUME NEW k \in Rollups!Kinds, k # range.resolution PROVE Cardinality(Of(k)) = 0
    <2>1. Of(k) = {}
      BY <1>2 DEF Rollups!Points
    <2> QED  BY <2>1, FS_EmptySet
  <1>3. Of(range.resolution) = {s \in samples : a <= s /\ Rollups!Bucket(s, range.resolution) <= range.end}
    <2>1. Divides(range.resolution, a)
      BY <1>1, BucketBegins
    <2>2. ASSUME NEW s \in samples
          PROVE  Row(s, range.resolution) \in Rollups!Points
                   <=> a <= s /\ Rollups!Bucket(s, range.resolution) <= range.end
      <3>1. Row(s, range.resolution) \in Rollups!Rows
        BY <1>1 DEF Rollups!Rows
      <3>2. (a <= Rollups!Bucket(s, range.resolution)) <=> (a <= s)
        BY <1>1, <2>1, BucketAgainst
      <3>3. PICK start : start = Rollups!Bucket(s, range.resolution) /\ start \in Int
        BY <1>1, BucketBegins
      <3>4. range.end \in Int /\ range.start <= range.end
        BY DEF RangeAsked, Rollups!RollupTypeOK, Rollups!Queries, Rollups!Times
      <3>5. PICK row : row = Row(s, range.resolution)
        OBVIOUS
      <3>6. row.at = start /\ row.resolution = range.resolution /\ row \in Rollups!Rows
        BY <3>1, <3>3, <3>5
      <3>7. Rollups!Prefix(row, range.start) => start < range.start
        BY <3>6 DEF Rollups!Prefix
      <3>8. row \in Rollups!Points <=> a <= start /\ start <= range.end
        BY <1>1, <3>3, <3>4, <3>6, <3>7 DEF Rollups!Points, Rollups!Accepted, Rollups!InRange
      <3> QED  BY <3>2, <3>3, <3>5, <3>8
    <2> QED  BY <2>2
  <1>4. Rollups!Weight(Rollups!Points) = Cardinality(Of(MinuteLength)) + Cardinality(Of(Hour)) + Cardinality(Of(Day))
    BY WeightOfKinds
  <1>5. IsFiniteSet(samples)
    <2>1. IsFiniteSet(Rollups!Times)
      BY RollupAssumption, FS_Interval DEF Rollups!Times
    <2>2. samples \subseteq Rollups!Times
      BY DEF RangeAsked, Rollups!RollupTypeOK
    <2> QED  BY <2>1, <2>2, FS_Subset
  <1>6. Cardinality(Of(range.resolution)) \in Nat
    BY <1>5, FS_Subset, FS_CardinalityType
  <1> HIDE DEF Of
  <1>7. Rollups!Weight(Rollups!Points) = Cardinality(Of(range.resolution))
    BY <1>1, <1>2, <1>4, <1>6, LengthsDivide
  <1> QED  BY <1>3, <1>7

\* What the chart adds up is what was used.
LEMMA MonthAddsUp ==
  ASSUME RangeAsked PROVE Rollups!MonthIsWhole
  <1> SUFFICES ASSUME Rollups!Points # {}, Rollups!FirstPoint = Rollups!Bucket(range.start, range.resolution)
               PROVE  Rollups!ShownForMonth = Rollups!UsedInMonth
    BY DEF Rollups!MonthIsWhole
  <1>1. PICK a, months, resolution, last :
          /\ a = Rollups!FirstPoint /\ months = Rollups!Bucket(a, Month)
          /\ resolution = range.resolution /\ last = range.end
    OBVIOUS
  <1>2. /\ samples \subseteq Int /\ IsFiniteSet(samples) /\ resolution \in Nat \ {0}
        /\ range.start \in Int /\ last \in Int
    <2>1. Rollups!Times \subseteq Int /\ IsFiniteSet(Rollups!Times)
      BY RollupAssumption, FS_Interval DEF Rollups!Times
    <2>2. samples \subseteq Rollups!Times /\ range \in Rollups!Queries
      BY DEF RangeAsked, Rollups!RollupTypeOK
    <2> QED  BY <1>1, <2>1, <2>2, FS_Subset, LengthsDivide DEF Rollups!Queries, Rollups!Kinds
  <1>3. a \in Int /\ months \in Int /\ months <= a
    BY <1>1, <1>2, LengthsDivide, BucketBegins
  <1>4. a <= last
    <2>1. PICK row : row \in Rollups!Points
      OBVIOUS
    <2>2. PICK s, k : s \in samples /\ k \in Rollups!Kinds /\ row = [at |-> Rollups!Bucket(s, k), resolution |-> k]
      BY <2>1 DEF Rollups!Points, Rollups!Accepted, Rollups!Rows
    <2>3. row.at \in Int /\ row.at >= a
      BY <1>1, <1>2, <2>1, <2>2, LengthsDivide, BucketBegins DEF Rollups!Points, Rollups!Kinds
    <2>4. row.at <= last \/ row.at < range.start
      BY <1>1, <2>1 DEF Rollups!Points, Rollups!Accepted, Rollups!InRange, Rollups!Prefix
    <2>5. range.start <= last
      BY <1>1 DEF RangeAsked
    <2> QED  BY <1>2, <1>3, <2>3, <2>4, <2>5
  <1>5. PICK Earlier, Shown, Both :
          /\ Earlier = {s \in samples : months <= s /\ s < a}
          /\ Shown = {s \in samples : a <= s /\ Rollups!Bucket(s, resolution) <= last}
          /\ Both = {s \in samples : s >= months /\ Rollups!Bucket(s, resolution) <= last}
    OBVIOUS
  <1>6. Rollups!ShownForMonth = Cardinality(Earlier) + Cardinality(Shown)
    BY <1>1, <1>3, <1>5, PrefixWeight, PointsWeight DEF Rollups!ShownForMonth
  <1>7. Rollups!UsedInMonth = Cardinality(Both)
    <2>1. Rollups!Cardinality(Both) = Cardinality(Both)
      BY DEF Rollups!Cardinality, Cardinality
    <2> QED  BY <1>1, <1>5, <2>1 DEF Rollups!UsedInMonth
  <1>8. Earlier \cap Shown = {} /\ Both = Earlier \cup Shown
    <2>1. ASSUME NEW s \in samples
          PROVE  /\ ~(s < a /\ a <= s)
                 /\ s >= months /\ Rollups!Bucket(s, resolution) <= last
                      <=> (months <= s /\ s < a) \/ (a <= s /\ Rollups!Bucket(s, resolution) <= last)
      <3>1. PICK start : start = Rollups!Bucket(s, resolution) /\ start \in Int /\ start <= s
        BY <1>2, BucketBegins
      <3> QED  BY <1>2, <1>3, <1>4, <3>1
    <2> QED  BY <1>5, <2>1
  <1>9. IsFiniteSet(Earlier) /\ IsFiniteSet(Shown)
    BY <1>2, <1>5, FS_Subset
  <1> QED  BY <1>6, <1>7, <1>8, <1>9, DisjointCount

\* Without samples there is nothing to show; only the history itself takes some.
RollupInv == IF part = "rollups" THEN RangeAsked ELSE samples = {}

LEMMA RollupInitInv == Init => RollupInv
  <1> SUFFICES ASSUME Init PROVE RollupInv
    OBVIOUS
  <1>1. CASE part = "rollups"
    BY <1>1 DEF Init, RollupInv, RangeAsked, Rollups!RollupInit, Rollups!RollupTypeOK, Rollups!Times, Rollups!Queries
  <1>2. CASE part # "rollups"
    BY <1>2 DEF Init, RollupInv
  <1> QED  BY <1>1, <1>2

LEMMA RollupStepInv == RollupInv /\ [Next]_vars => RollupInv'
  <1> SUFFICES ASSUME RollupInv, [Next]_vars PROVE RollupInv'
    OBVIOUS
  <1>1. part' = part /\ UNCHANGED range
    BY DEF Next, vars, rollupVars, Rollups!RollupNext
  <1>2. CASE part = "rollups" /\ Rollups!RollupNext
    BY <1>1, <1>2 DEF RollupInv, RangeAsked, Rollups!RollupTypeOK, Rollups!RollupNext, Rollups!Sampled,
                      Rollups!Times, Rollups!Queries, Rollups!Kinds
  <1>3. CASE UNCHANGED samples
    BY <1>1, <1>3 DEF RollupInv, RangeAsked, Rollups!RollupTypeOK, Rollups!Times, Rollups!Queries, Rollups!Kinds
  <1> QED  BY <1>2, <1>3 DEF Next, vars, rollupVars

\* Where the points of the chart begin at the start of its range and are of one month, what it shows for the
\* month is what was used in it, whatever kinds of rows it is made up of: no sample is counted twice at the edges
\* of days, hours and minutes, and none is left out (Query::accepts in usage_history.rs gives the rows,
\* device-usage-model.ts adds them up).
THEOREM MonthIsWholeAlways == Spec => []MonthIsWhole
  <1>1. RollupInv => MonthIsWhole
    <2>1. ASSUME samples = {} PROVE Rollups!Points = {}
      BY <2>1 DEF Rollups!Points, Rollups!Accepted, Rollups!Rows
    <2> QED  BY <2>1, MonthAddsUp DEF RollupInv, MonthIsWhole, Rollups!MonthIsWhole
  <1> QED  BY RollupInitInv, RollupStepInv, <1>1, PTL DEF Spec

-----------------------------------------------------------------------------
(* Induction.  The induction theorems of the library are about an operator, which the provers cannot           *)
(* instantiate; what is needed of them is shown here of sets, from the fact that a set of numbers has a least    *)
(* member.  A recursive definition over numbers therefore has a solution, which is the one that is defined.      *)

\* A set of numbers has a least member.
LEMMA LeastMember ==
  ASSUME NEW S \in SUBSET Nat, S # {}
  PROVE  \E m \in S : \A n \in S : m <= n
  <1>1. PICK m \in S : \A n \in S : <<n, m>> \notin OpToRel(<, Nat)
    BY NatLessThanWellFounded, WFMin, Zenon
  <1>2. ASSUME NEW n \in S PROVE m <= n
    <2>1. n < m => <<n, m>> \in OpToRel(<, Nat)
      BY Zenon DEF OpToRel
    <2>2. ~(n < m)
      BY <2>1, <1>1, Zenon
    <2> QED  BY <2>2
  <1> QED  BY <1>2

\* A set that has 0 and with every number, up to a bound, the next one has all numbers up to the bound.
LEMMA SetInduction ==
  ASSUME NEW S, NEW limit \in Nat, 0 \in S, \A n \in 0 .. limit - 1 : n \in S => n + 1 \in S
  PROVE  0 .. limit \subseteq S
  <1> DEFINE T == (0 .. limit) \ S
  <1>1. SUFFICES ASSUME T # {} PROVE FALSE
    OBVIOUS
  <1>2. PICK m \in T : \A n \in T : m <= n
    <2>1. T \in SUBSET Nat
      OBVIOUS
    <2> HIDE DEF T
    <2> QED  BY <1>1, <2>1, LeastMember, Zenon
  <1>3. m # 0 /\ m - 1 \in 0 .. limit - 1 /\ m - 1 \notin T
    BY <1>2
  <1> QED  BY <1>3

\* A recursive definition over the numbers up to a bound has a solution: of the value before and the number, step
\* makes the next value.
Recursive(f, S, start, limit, step) ==
  f \in [0 .. limit -> S] /\ f[0] = start /\ \A i \in 1 .. limit : f[i] = step[<<f[i - 1], i>>]

\* Such a solution exists up to every bound.
LEMMA RecursionHasSolution ==
  ASSUME NEW S, NEW start \in S, NEW limit \in Nat, NEW step \in [S \X (1 .. limit) -> S]
  PROVE  \E f : Recursive(f, S, start, limit, step)
  <1> DEFINE Solves(f, n) == f[0] = start /\ \A i \in 1 .. n : f[i] = step[<<f[i - 1], i>>]
             Solved == {n \in 0 .. limit : \E f \in [0 .. n -> S] : Solves(f, n)}
  <1>1. 0 \in Solved
    <2> DEFINE g == [i \in 0 .. 0 |-> start]
    <2>1. g \in [0 .. 0 -> S] /\ g[0] = start
      OBVIOUS
    <2>2. Solves(g, 0)
      BY <2>1
    <2> HIDE DEF g
    <2> QED  BY <2>1, <2>2
  <1>2. ASSUME NEW n \in 0 .. limit - 1, n \in Solved PROVE n + 1 \in Solved
    <2>1. PICK f \in [0 .. n -> S] : Solves(f, n)
      BY <1>2
    <2> DEFINE g == [i \in 0 .. n + 1 |-> IF i = n + 1 THEN step[<<f[n], n + 1>>] ELSE f[i]]
    <2>2. <<f[n], n + 1>> \in S \X (1 .. limit)
      OBVIOUS
    <2>3. g \in [0 .. n + 1 -> S]
      BY <2>2
    <2>4. ASSUME NEW i \in 1 .. n + 1 PROVE g[i] = step[<<g[i - 1], i>>]
      <3>1. CASE i = n + 1
        <4>1. g[n + 1] = step[<<f[n], n + 1>>] /\ g[n] = f[n] /\ (n + 1) - 1 = n
          OBVIOUS
        <4> QED  BY <3>1, <4>1
      <3>2. CASE i # n + 1
        BY <3>2, <2>1
      <3> QED  BY <3>1, <3>2
    <2>5. g[0] = start
      BY <2>1
    <2> HIDE DEF g
    <2> QED  BY <2>3, <2>4, <2>5
  <1> HIDE DEF Solved
  <1>3. 0 .. limit \subseteq Solved
    BY <1>1, <1>2, SetInduction
  <1>4. limit \in Solved
    BY <1>3
  <1> QED  BY <1>4 DEF Solved, Recursive

-----------------------------------------------------------------------------
(* The records of a period.  The query keeps one table in mind, one that the server had at a moment of the       *)
(* query: the heads are the totals of its windows (HeadsOf), and the rows gathered so far are a run of it that      *)
(* ends where the next slice begins (Gathered).  The windows of a period cut every table into runs that meet, and  *)
(* records that are added go into the first window only, so that a window that still has the total of the table   *)
(* in mind still has its rows (CheckedListing); a head that is read for the first window starts from the table     *)
(* there is.                                                                                                 *)

\* First, what is listed of a table: where a window's rows are a run of the table, that run.

\* The rows of the beginning of a table that are in a window satisfy the equation they are defined by.
LEMMA ListedEquation ==
  ASSUME NEW S, NEW t \in Seq(S), NEW window
  PROVE  \E f \in [0 .. Len(t) -> Seq(S)] :
            /\ Records!Listing(t, window) = f[Len(t)] /\ f[0] = <<>>
            /\ \A i \in 1 .. Len(t) : f[i] = IF t[i].day \in window THEN Append(f[i - 1], t[i]) ELSE f[i - 1]
  <1> DEFINE Equation(f) ==
               f = [i \in 0 .. Len(t) |-> IF i = 0 THEN <<>>
                                          ELSE IF t[i].day \in window THEN Append(f[i - 1], t[i]) ELSE f[i - 1]]
             listed == CHOOSE f : Equation(f)
             step == [p \in Seq(S) \X (1 .. Len(t)) |->
                        IF t[p[2]].day \in window THEN Append(p[1], t[p[2]]) ELSE p[1]]
             count == Len(t)
             V == Seq(S)
  <1>1. step \in [V \X (1 .. count) -> V] /\ <<>> \in V /\ count \in Nat
    OBVIOUS
  <1>2. ASSUME NEW i \in 1 .. count, NEW before \in V
        PROVE  step[<<before, i>>] = IF t[i].day \in window THEN Append(before, t[i]) ELSE before
    OBVIOUS
  <1> HIDE DEF step, V, count
  <1>3. PICK f \in [0 .. count -> V] : f[0] = <<>> /\ \A i \in 1 .. count : f[i] = step[<<f[i - 1], i>>]
    <2>1. \E f : Recursive(f, V, <<>>, count, step)
      BY <1>1, RecursionHasSolution
    <2> QED  BY <2>1 DEF Recursive
  <1>4. ASSUME NEW i \in 1 .. count
        PROVE  f[i] = IF t[i].day \in window THEN Append(f[i - 1], t[i]) ELSE f[i - 1]
    <2>1. f[i - 1] \in V
      BY <1>1
    <2>2. f[i] = step[<<f[i - 1], i>>]
      BY <1>3
    <2> QED  BY <2>1, <2>2, <1>2
  <1>5. Equation(f)
    <2>1. f = [i \in 0 .. count |-> f[i]]
      OBVIOUS
    <2>2. ASSUME NEW i \in 0 .. count
          PROVE  f[i] = IF i = 0 THEN <<>> ELSE IF t[i].day \in window THEN Append(f[i - 1], t[i]) ELSE f[i - 1]
      <3>1. i = 0 \/ i \in 1 .. count
        BY <1>1
      <3> QED  BY <3>1, <1>3, <1>4
    <2> QED  BY <2>1, <2>2, Zenon DEF count
  <1>6. Equation(listed)
    BY <1>5, Zenon
  <1>7. Records!Listing(t, window) = listed[count]
    BY Zenon DEF Records!Listing, count
  <1> DEFINE L == listed
  <1>8. L = [i \in 0 .. count |-> IF i = 0 THEN <<>>
                              ELSE IF t[i].day \in window THEN Append(L[i - 1], t[i]) ELSE L[i - 1]]
    BY <1>6, Zenon DEF count
  <1>9. Records!Listing(t, window) = L[count]
    BY <1>7
  <1> HIDE DEF L
  <1>10. L = f
    <2> DEFINE Same == {i \in 0 .. count : L[i] = f[i]}
    <2>1. 0 \in Same
      <3>1. L[0] = <<>>
        BY <1>8, <1>1
      <3> QED  BY <3>1, <1>3, <1>1
    <2>2. ASSUME NEW i \in 0 .. count - 1, i \in Same PROVE i + 1 \in Same
      <3>1. i + 1 \in 0 .. count /\ i + 1 \in 1 .. count /\ (i + 1) - 1 = i /\ i + 1 # 0
        BY <1>1
      <3>2. L[i + 1] = IF t[i + 1].day \in window THEN Append(L[(i + 1) - 1], t[i + 1]) ELSE L[(i + 1) - 1]
        BY <1>8, <3>1, Zenon
      <3>3. f[i + 1] = IF t[i + 1].day \in window THEN Append(f[(i + 1) - 1], t[i + 1]) ELSE f[(i + 1) - 1]
        BY <1>4, <3>1, Zenon
      <3>4. L[i] = f[i]
        BY <2>2
      <3> QED  BY <3>1, <3>2, <3>3, <3>4, Zenon
    <2> HIDE DEF Same
    <2>3. 0 .. count \subseteq Same
      BY <2>1, <2>2, <1>1, SetInduction
    <2>4. \A i \in 0 .. count : L[i] = f[i]
      BY <2>3 DEF Same
    <2>5. L = [i \in 0 .. count |-> L[i]]
      BY <1>8, Zenon
    <2> QED  BY <2>4, <2>5
  <1> QED  BY <1>3, <1>4, <1>9, <1>10 DEF count, V

\* Where the rows of a window are those between two places of the table, the listing is the run between them.
LEMMA ListingIsARun ==
  ASSUME NEW S, NEW t \in Seq(S), NEW window, NEW p \in Nat, NEW q \in Nat, p <= q, q <= Len(t),
         \A i \in 1 .. Len(t) : t[i].day \in window <=> p < i /\ i <= q
  PROVE  Records!Listing(t, window) = SubSeq(t, p + 1, q)
  <1> DEFINE upTo(i) == IF i < q THEN i ELSE q
  <1>1. PICK f \in [0 .. Len(t) -> Seq(S)] :
            /\ Records!Listing(t, window) = f[Len(t)] /\ f[0] = <<>>
            /\ \A i \in 1 .. Len(t) : f[i] = IF t[i].day \in window THEN Append(f[i - 1], t[i]) ELSE f[i - 1]
    BY ListedEquation
  <1> DEFINE Runs == {i \in 0 .. Len(t) : f[i] = SubSeq(t, p + 1, upTo(i))}
  <1>2. 0 \in Runs
    <2>1. SubSeq(t, p + 1, 0) = <<>>
      BY SubSeqEmpty
    <2>2. upTo(0) = 0 /\ Len(t) \in Nat
      OBVIOUS
    <2> QED  BY <2>1, <2>2, <1>1
  <1>3. ASSUME NEW i \in 0 .. Len(t) - 1, i \in Runs PROVE i + 1 \in Runs
    <2>1. f[i + 1] = IF t[i + 1].day \in window THEN Append(f[i], t[i + 1]) ELSE f[i]
      <3>1. i + 1 \in 1 .. Len(t) /\ (i + 1) - 1 = i
        OBVIOUS
      <3> QED  BY <3>1, <1>1
    <2>2. f[i] = SubSeq(t, p + 1, upTo(i)) /\ i + 1 \in 1 .. Len(t)
      BY <1>3
    <2>3. CASE i < p
      <3>1. SubSeq(t, p + 1, i) = <<>> /\ SubSeq(t, p + 1, i + 1) = <<>>
        BY <2>3, SubSeqEmpty
      <3>2. upTo(i) = i /\ upTo(i + 1) = i + 1 /\ t[i + 1].day \notin window
        BY <2>3, <2>2
      <3>3. f[i + 1] = <<>>
        BY <2>1, <2>2, <3>1, <3>2
      <3> QED  BY <3>1, <3>2, <3>3, <2>2
    <2>4. CASE p <= i /\ i < q
      <3>1. upTo(i) = i /\ upTo(i + 1) = i + 1 /\ t[i + 1].day \in window
        BY <2>4, <2>2
      <3>2. SubSeq(t, p + 1, i + 1) = SubSeq(t, p + 1, i) \o <<t[i + 1]>>
        <4>1. p + 1 \in 1 .. Len(t) /\ i + 1 \in p + 1 .. Len(t) /\ (i + 1) - 1 = i
          BY <2>4
        <4> QED  BY <4>1, SubSeqRecursiveSecond
      <3>3. Append(SubSeq(t, p + 1, i), t[i + 1]) = SubSeq(t, p + 1, i) \o <<t[i + 1]>>
        <4>1. SubSeq(t, p + 1, i) \in Seq(S) /\ t[i + 1] \in S
          <5>1. \A j \in p + 1 .. i : t[j] \in S
            OBVIOUS
          <5>2. p + 1 \in Int /\ i \in Int
            OBVIOUS
          <5> QED  BY <5>1, <5>2, <2>2, SubSeqProperties
        <4> QED  BY <4>1, AppendIsConcat
      <3>4. f[i + 1] = SubSeq(t, p + 1, upTo(i + 1))
        BY <2>1, <2>2, <3>1, <3>2, <3>3
      <3> QED  BY <3>4, <2>2
    <2>5. CASE q <= i
      <3>1. upTo(i) = q /\ upTo(i + 1) = q /\ t[i + 1].day \notin window
        BY <2>5, <2>2
      <3> QED  BY <2>1, <2>2, <3>1
    <2> QED  BY <2>3, <2>4, <2>5
  <1>4. 0 .. Len(t) \subseteq Runs
    <2> HIDE DEF Runs
    <2>1. Len(t) \in Nat
      OBVIOUS
    <2> QED  BY <1>2, <1>3, <2>1, SetInduction
  <1> HIDE DEF Runs
  <1>5. Len(t) \in Runs
    BY <1>4
  <1>6. upTo(Len(t)) = q
    OBVIOUS
  <1> QED  BY <1>1, <1>5, <1>6 DEF Runs

\* The sums of the first totals satisfy theirs.
LEMMA TotalEquation ==
  ASSUME NEW h \in Seq(Nat)
  PROVE  \E f \in [0 .. Len(h) -> Nat] :
            /\ Records!Total(h) = f[Len(h)] /\ f[0] = 0
            /\ \A i \in 1 .. Len(h) : f[i] = f[i - 1] + h[i]
  <1> DEFINE Equation(f) ==
               f = [i \in 0 .. Len(h) |-> IF i = 0 THEN 0 ELSE f[i - 1] + h[i]]
             sum == CHOOSE f : Equation(f)
             step == [p \in Nat \X (1 .. Len(h)) |->
                        p[1] + h[p[2]]]
             count == Len(h)
             V == Nat
  <1>1. step \in [V \X (1 .. count) -> V] /\ 0 \in V /\ count \in Nat
    OBVIOUS
  <1>2. ASSUME NEW i \in 1 .. count, NEW before \in V
        PROVE  step[<<before, i>>] = before + h[i]
    OBVIOUS
  <1> HIDE DEF step, V, count
  <1>3. PICK f \in [0 .. count -> V] : f[0] = 0 /\ \A i \in 1 .. count : f[i] = step[<<f[i - 1], i>>]
    <2>1. \E f : Recursive(f, V, 0, count, step)
      BY <1>1, RecursionHasSolution
    <2> QED  BY <2>1 DEF Recursive
  <1>4. ASSUME NEW i \in 1 .. count
        PROVE  f[i] = f[i - 1] + h[i]
    <2>1. f[i - 1] \in V
      BY <1>1
    <2>2. f[i] = step[<<f[i - 1], i>>]
      BY <1>3
    <2> QED  BY <2>1, <2>2, <1>2
  <1>5. Equation(f)
    <2>1. f = [i \in 0 .. count |-> f[i]]
      OBVIOUS
    <2>2. ASSUME NEW i \in 0 .. count
          PROVE  f[i] = IF i = 0 THEN 0 ELSE f[i - 1] + h[i]
      <3>1. i = 0 \/ i \in 1 .. count
        BY <1>1
      <3> QED  BY <3>1, <1>3, <1>4
    <2> QED  BY <2>1, <2>2, Zenon DEF count
  <1>6. Equation(sum)
    BY <1>5, Zenon
  <1>7. Records!Total(h) = sum[count]
    BY Zenon DEF Records!Total, count
  <1> DEFINE L == sum
  <1>8. L = [i \in 0 .. count |-> IF i = 0 THEN 0 ELSE L[i - 1] + h[i]]
    BY <1>6, Zenon DEF count
  <1>9. Records!Total(h) = L[count]
    BY <1>7
  <1> HIDE DEF L
  <1>10. L = f
    <2> DEFINE Same == {i \in 0 .. count : L[i] = f[i]}
    <2>1. 0 \in Same
      <3>1. L[0] = 0
        BY <1>8, <1>1
      <3> QED  BY <3>1, <1>3, <1>1
    <2>2. ASSUME NEW i \in 0 .. count - 1, i \in Same PROVE i + 1 \in Same
      <3>1. i + 1 \in 0 .. count /\ i + 1 \in 1 .. count /\ (i + 1) - 1 = i /\ i + 1 # 0
        BY <1>1
      <3>2. L[i + 1] = L[(i + 1) - 1] + h[i + 1]
        BY <1>8, <3>1, Zenon
      <3>3. f[i + 1] = f[(i + 1) - 1] + h[i + 1]
        BY <1>4, <3>1, Zenon
      <3>4. L[i] = f[i]
        BY <2>2
      <3> QED  BY <3>1, <3>2, <3>3, <3>4, Zenon
    <2> HIDE DEF Same
    <2>3. 0 .. count \subseteq Same
      BY <2>1, <2>2, <1>1, SetInduction
    <2>4. \A i \in 0 .. count : L[i] = f[i]
      BY <2>3 DEF Same
    <2>5. L = [i \in 0 .. count |-> L[i]]
      BY <1>8, Zenon
    <2> QED  BY <2>4, <2>5
  <1> QED  BY <1>3, <1>4, <1>9, <1>10 DEF count, V

\* Where every total is the difference of two counts, their sum is the last count.
LEMMA TotalOfDifferences ==
  ASSUME NEW h \in Seq(Nat), NEW c \in [1 .. Len(h) + 1 -> Nat], c[1] = 0,
         \A i \in 1 .. Len(h) : h[i] = c[i + 1] - c[i]
  PROVE  Records!Total(h) = c[Len(h) + 1]
  <1>1. PICK f \in [0 .. Len(h) -> Nat] :
            Records!Total(h) = f[Len(h)] /\ f[0] = 0 /\ \A i \in 1 .. Len(h) : f[i] = f[i - 1] + h[i]
    BY TotalEquation
  <1> DEFINE Sums == {i \in 0 .. Len(h) : f[i] = c[i + 1]}
  <1>2. 0 \in Sums
    BY <1>1
  <1>3. ASSUME NEW i \in 0 .. Len(h) - 1, i \in Sums PROVE i + 1 \in Sums
    <2>1. i + 1 \in 1 .. Len(h) /\ (i + 1) - 1 = i
      OBVIOUS
    <2>2. f[i + 1] = f[i] + h[i + 1] /\ h[i + 1] = c[(i + 1) + 1] - c[i + 1]
      BY <2>1, <1>1
    <2>3. c[(i + 1) + 1] \in Nat /\ c[i + 1] \in Nat
      OBVIOUS
    <2> QED  BY <2>1, <2>2, <2>3, <1>3
  <1>4. 0 .. Len(h) \subseteq Sums
    <2> HIDE DEF Sums
    <2>1. Len(h) \in Nat
      OBVIOUS
    <2> QED  BY <1>2, <1>3, <2>1, SetInduction
  <1>5. Len(h) \in Sums
    BY <1>4
  <1> QED  BY <1>1, <1>5

\* Tables are ordered by day, so that a day cuts a table in two, and the windows of a period cut it in runs.
IsTable(t) ==
  /\ t \in Seq(Records!Record)
  /\ \A i, j \in 1 .. Len(t) : i <= j => t[j].day <= t[i].day
  /\ \A i \in 1 .. Len(t) : t[i].day <= query.days

\* The rows that are later than a day are the first p.
CutsAt(t, d, p) == \A i \in 1 .. Len(t) : t[i].day > d <=> i <= p

\* The number of rows of a table that are later than a day.
Later(t, d) == CHOOSE p \in 0 .. Len(t) : CutsAt(t, d, p)

\* The last day of a window.
LastDay(w) == query.days - (w - 1) * WindowDays

\* Days are numbers from 1.
LEMMA RowsOfATable ==
  ASSUME NEW t, IsTable(t)
  PROVE  Len(t) \in Nat /\ \A i \in 1 .. Len(t) : t[i] \in Records!Record /\ t[i].day \in Nat \ {0}
  <1>1. \A r \in Records!Record : r.day \in Nat \ {0}
    BY RecordsAssumption DEF Records!Record
  <1> QED  BY <1>1 DEF IsTable

\* There is a number of rows that are later than a day.
LEMMA LaterCuts ==
  ASSUME NEW t, IsTable(t), NEW d \in Int
  PROVE  Later(t, d) \in 0 .. Len(t) /\ CutsAt(t, d, Later(t, d))
  <1> DEFINE S == {p \in 0 .. Len(t) : \A i \in 1 .. Len(t) : p < i => t[i].day <= d}
  <1>1. Len(t) \in Nat /\ \A i \in 1 .. Len(t) : t[i].day \in Nat
    BY RowsOfATable
  <1>2. PICK p \in S : \A n \in S : p <= n
    <2>1. S \in SUBSET Nat /\ Len(t) \in S
      BY <1>1
    <2> HIDE DEF S
    <2> QED  BY <2>1, LeastMember
  <1>3. CutsAt(t, d, p)
    <2>1. p > 0 => t[p].day > d
      <3> SUFFICES ASSUME p > 0, t[p].day <= d PROVE FALSE
        BY <1>1
      <3>1. p - 1 \in 0 .. Len(t)
        BY <1>1
      <3>2. \A i \in 1 .. Len(t) : p - 1 < i => t[i].day <= d
        BY <1>1
      <3>3. p - 1 \in S
        BY <3>1, <3>2
      <3> QED  BY <3>3, <1>2
    <2>2. ASSUME NEW i \in 1 .. Len(t), i <= p PROVE t[i].day > d
      <3>1. t[p].day <= t[i].day /\ p \in 1 .. Len(t)
        BY <2>2 DEF IsTable
      <3> QED  BY <3>1, <2>1, <1>1
    <2>3. ASSUME NEW i \in 1 .. Len(t), p < i PROVE ~(t[i].day > d)
      BY <2>3, <1>1
    <2> QED  BY <2>2, <2>3, <1>1 DEF CutsAt
  <1> QED  BY <1>3 DEF Later

\* There is only one such number.
LEMMA LaterIs ==
  ASSUME NEW t, IsTable(t), NEW d \in Int, NEW p \in 0 .. Len(t), CutsAt(t, d, p)
  PROVE  Later(t, d) = p
  <1>1. Len(t) \in Nat
    BY DEF IsTable
  <1> DEFINE q == Later(t, d)
  <1>2. q \in 0 .. Len(t) /\ CutsAt(t, d, q)
    BY LaterCuts
  <1> HIDE DEF q
  <1>3. ~(p < q)
    <2>1. p < q => p + 1 \in 1 .. Len(t)
      BY <1>1, <1>2
    <2> QED  BY <2>1, <1>2 DEF CutsAt
  <1>4. ~(q < p)
    <2>1. q < p => q + 1 \in 1 .. Len(t)
      BY <1>1, <1>2
    <2> QED  BY <2>1, <1>2 DEF CutsAt
  <1> QED  BY <1>2, <1>3, <1>4 DEF q

\* More rows are later than an earlier day.
LEMMA LaterGrows ==
  ASSUME NEW t, IsTable(t), NEW d \in Int, NEW e \in Int, e <= d
  PROVE  Later(t, d) <= Later(t, e)
  <1> DEFINE p == Later(t, d)
             q == Later(t, e)
  <1>1. Len(t) \in Nat /\ \A i \in 1 .. Len(t) : t[i].day \in Nat
    BY RowsOfATable
  <1>2. p \in 0 .. Len(t) /\ q \in 0 .. Len(t) /\ CutsAt(t, d, p) /\ CutsAt(t, e, q)
    BY LaterCuts
  <1> HIDE DEF p, q
  <1>3. ~(q < p)
    <2> SUFFICES ASSUME q < p PROVE FALSE
      OBVIOUS
    <2>1. p \in 1 .. Len(t)
      BY <1>1, <1>2
    <2> QED  BY <2>1, <1>1, <1>2 DEF CutsAt
  <1> QED  BY <1>2, <1>3 DEF p, q

\* The windows, from the last day of the period back.
LEMMA WindowsMeet ==
  ASSUME query.days \in Nat \ {0}
  PROVE  /\ Len(Records!Windows) \in Nat \ {0} /\ (Len(Records!Windows) = 1 <=> query.days <= WindowDays)
         /\ LastDay(1) = query.days /\ LastDay(Len(Records!Windows) + 1) <= 0
         /\ \A w \in 1 .. Len(Records!Windows) : Records!Windows[w] = {d \in 1 .. query.days : d <= LastDay(w)
            /\ d > LastDay(w + 1)}
         /\ \A w \in Nat : LastDay(w) \in Int /\ LastDay(w + 1) < LastDay(w)
         /\ \A w \in Nat : w >= 2 => LastDay(w) < query.days
  <1> DEFINE count == (query.days + WindowDays - 1) \div WindowDays
  <1>1. WindowDays \in Nat \ {0}
    BY RecordsAssumption
  <1>2. count \in Nat \ {0} /\ count * WindowDays >= query.days /\ (count - 1) * WindowDays < query.days
    BY <1>1
  <1>3. count = 1 <=> query.days <= WindowDays
    BY <1>1, <1>2
  <1> HIDE DEF count
  <1>4. Records!Windows = [w \in 1 .. count |-> {d \in 1 .. query.days : d <= LastDay(w)
        /\ d > LastDay(w) - WindowDays}]
    BY DEF Records!Windows, LastDay, count
  <1>5. Len(Records!Windows) = count
    BY <1>2, <1>4
  <1>6. \A w \in Nat : LastDay(w) \in Int /\ LastDay(w + 1) = LastDay(w) - WindowDays
    BY <1>1 DEF LastDay
  <1>7. LastDay(1) = query.days
    BY <1>1 DEF LastDay
  <1>8. LastDay(count + 1) <= 0
    BY <1>1, <1>2 DEF LastDay
  <1>9. ASSUME NEW w \in Nat, w >= 2 PROVE LastDay(w) < query.days
    <2>1. (w - 1) * WindowDays >= 1
      BY <1>1, <1>9
    <2>2. (w - 1) * WindowDays \in Int
      BY <1>1
    <2> QED  BY <2>1, <2>2 DEF LastDay
  <1>10. \A w \in 1 .. count : Records!Windows[w] = {d \in 1 .. query.days : d <= LastDay(w) /\ d > LastDay(w + 1)}
    <2> TAKE w \in 1 .. count
    <2>1. Records!Windows[w] = {d \in 1 .. query.days : d <= LastDay(w) /\ d > LastDay(w) - WindowDays}
      BY <1>4
    <2>2. LastDay(w + 1) = LastDay(w) - WindowDays
      BY <1>6, <1>2
    <2> QED  BY <2>1, <2>2
  <1>11. \A w \in Nat : LastDay(w + 1) < LastDay(w)
    BY <1>6, <1>1
  <1> QED  BY <1>2, <1>3, <1>5, <1>6, <1>7, <1>8, <1>9, <1>10, <1>11

\* Of a table, a window lists the rows between two of its cuts.
LEMMA WindowIsARun ==
  ASSUME NEW t, IsTable(t), query.days \in Nat \ {0}, NEW w \in 1 .. Len(Records!Windows)
  PROVE  /\ Later(t, LastDay(w)) \in 0 .. Len(t) /\ Later(t, LastDay(w + 1)) \in 0 .. Len(t)
         /\ Later(t, LastDay(w)) <= Later(t, LastDay(w + 1))
         /\ Records!Listing(t, Records!Windows[w]) = SubSeq(t, Later(t, LastDay(w)) + 1, Later(t, LastDay(w + 1)))
  <1> DEFINE p == Later(t, LastDay(w))
             q == Later(t, LastDay(w + 1))
  <1>1. w \in Nat /\ LastDay(w) \in Int /\ LastDay(w + 1) \in Int /\ LastDay(w + 1) < LastDay(w)
    <2>1. Len(Records!Windows) \in Nat
      BY WindowsMeet
    <2>2. w \in Nat /\ w + 1 \in Nat
      BY <2>1
    <2> QED  BY <2>2, WindowsMeet
  <1>2. p \in 0 .. Len(t) /\ q \in 0 .. Len(t) /\ CutsAt(t, LastDay(w), p) /\ CutsAt(t, LastDay(w + 1), q) /\ p <= q
    BY <1>1, LaterCuts, LaterGrows
  <1> HIDE DEF p, q
  <1>3. Records!Windows[w] = {d \in 1 .. query.days : d <= LastDay(w) /\ d > LastDay(w + 1)}
    BY WindowsMeet
  <1>4. ASSUME NEW i \in 1 .. Len(t) PROVE t[i].day \in Records!Windows[w] <=> p < i /\ i <= q
    <2>1. t[i].day \in 1 .. query.days /\ Len(t) \in Nat
      <3>1. Len(t) \in Nat /\ t[i].day \in Nat \ {0}
        BY RowsOfATable
      <3>2. t[i].day <= query.days
        BY DEF IsTable
      <3> QED  BY <3>1, <3>2
    <2>2. t[i].day \in Records!Windows[w] <=> t[i].day <= LastDay(w) /\ t[i].day > LastDay(w + 1)
      BY <1>3, <2>1
    <2>3. (t[i].day > LastDay(w) <=> i <= p) /\ (t[i].day > LastDay(w + 1) <=> i <= q)
      BY <1>2 DEF CutsAt
    <2> QED  BY <2>1, <2>2, <2>3, <1>1, <1>2
  <1>5. Records!Listing(t, Records!Windows[w]) = SubSeq(t, p + 1, q)
    <2>1. t \in Seq(Records!Record) /\ p \in Nat /\ q \in Nat /\ q <= Len(t)
      BY <1>2, RowsOfATable DEF IsTable
    <2> QED  BY <2>1, <1>2, <1>4, ListingIsARun
  <1> QED  BY <1>2, <1>5 DEF p, q

\* A run of a run.
LEMMA RunOfARun ==
  ASSUME NEW S, NEW s \in Seq(S), NEW i \in Nat \ {0}, NEW j \in 0 .. Len(s), NEW m \in Nat \ {0}, NEW n \in Nat,
         i + n - 1 <= j
  PROVE  SubSeq(SubSeq(s, i, j), m, n) = SubSeq(s, i + m - 1, i + n - 1)
  <1> DEFINE run == SubSeq(s, i, j)
             inner == SubSeq(run, m, n)
             outer == SubSeq(s, i + m - 1, i + n - 1)
  <1>1. CASE n < m
    BY <1>1, SubSeqEmpty
  <1>2. CASE m <= n
    <2>1. i \in Int /\ j \in Int /\ \A k \in i .. j : s[k] \in S
      OBVIOUS
    <2>2. /\ Len(run) = j - i + 1
          /\ \A k \in 1 .. j - i + 1 : run[k] = s[i + k - 1]
      BY <2>1, <1>2, SubSeqProperties
    <2> HIDE DEF run
    <2>3. m \in Int /\ n \in Int /\ \A k \in m .. n : run[k] = s[i + k - 1] /\ run[k] \in S
      BY <2>2
    <2>4. /\ inner \in Seq(S) /\ Len(inner) = n - m + 1
          /\ \A k \in 1 .. n - m + 1 : inner[k] = run[m + k - 1]
      BY <2>3, <1>2, SubSeqProperties
    <2>5. i + m - 1 \in Int /\ i + n - 1 \in Int /\ \A k \in i + m - 1 .. i + n - 1 : s[k] \in S
      OBVIOUS
    <2>6. /\ outer \in Seq(S) /\ Len(outer) = n - m + 1
          /\ \A k \in 1 .. n - m + 1 : outer[k] = s[(i + m - 1) + k - 1]
      <3> DEFINE a == i + m - 1
                 b == i + n - 1
      <3>1. a \in Int /\ b \in Int /\ (\A k \in a .. b : s[k] \in S) /\ a <= b /\ b - a + 1 = n - m + 1
        BY <2>5, <1>2
      <3> HIDE DEF a, b
      <3>2. /\ SubSeq(s, a, b) \in Seq(S) /\ Len(SubSeq(s, a, b)) = b - a + 1
            /\ \A k \in 1 .. b - a + 1 : SubSeq(s, a, b)[k] = s[a + k - 1]
        BY <3>1, SubSeqProperties
      <3> QED  BY <3>1, <3>2 DEF a, b
    <2> HIDE DEF inner, outer
    <2>7. ASSUME NEW k \in 1 .. n - m + 1 PROVE inner[k] = outer[k]
      <3>1. inner[k] = run[m + k - 1] /\ m + k - 1 \in m .. n /\ outer[k] = s[(i + m - 1) + k - 1]
        BY <2>4, <2>6
      <3>2. run[m + k - 1] = s[i + (m + k - 1) - 1]
        BY <3>1, <2>3
      <3>3. i + (m + k - 1) - 1 = (i + m - 1) + k - 1
        OBVIOUS
      <3> QED  BY <3>1, <3>2, <3>3
    <2>8. inner = outer
      BY <2>4, <2>6, <2>7, SeqEqual
    <2> QED  BY <2>8 DEF inner, outer, run
  <1> QED  BY <1>1, <1>2

\* The table as it was before its latest rows were added.
Older(n) == SubSeq(table, n + 1, Len(table))

\* What was added during the query is of the last day of its period.
Grown == added \in Nat /\ added <= Len(table) /\ \A i \in 1 .. added : table[i].day = query.days

\* The older table is a table, whose rows are those of the table after the ones added since.
LEMMA OlderIsTable ==
  ASSUME IsTable(table), Grown, query.days \in Nat \ {0}, NEW n \in 0 .. added
  PROVE  /\ IsTable(Older(n)) /\ Len(Older(n)) = Len(table) - n
         /\ \A i \in 1 .. Len(table) - n : Older(n)[i] = table[n + i]
  <1>1. Len(table) \in Nat /\ added \in Nat /\ added <= Len(table) /\ table \in Seq(Records!Record)
    BY DEF IsTable, Grown
  <1>2. n + 1 \in Int /\ Len(table) \in Int /\ \A k \in n + 1 .. Len(table) : table[k] \in Records!Record
    BY <1>1
  <1>3. /\ Older(n) \in Seq(Records!Record) /\ Len(Older(n)) = Len(table) - n
        /\ \A i \in 1 .. Len(table) - n : Older(n)[i] = table[n + i]
    <2>1. /\ Older(n) \in Seq(Records!Record)
             /\ Len(Older(n)) = IF n + 1 <= Len(table) THEN Len(table) - (n + 1) + 1 ELSE 0
          /\ \A i \in 1 .. Len(table) - (n + 1) + 1 : Older(n)[i] = table[(n + 1) + i - 1]
      BY <1>2, SubSeqProperties DEF Older
    <2>2. Len(table) - (n + 1) + 1 = Len(table) - n /\ (~(n + 1 <= Len(table)) => Len(table) - n = 0)
      BY <1>1
    <2>3. ASSUME NEW i \in 1 .. Len(table) - n PROVE Older(n)[i] = table[n + i]
      <3>1. (n + 1) + i - 1 = n + i
        OBVIOUS
      <3> QED  BY <3>1, <2>1, <2>2
    <2> QED  BY <2>1, <2>2, <2>3
  <1>4. ASSUME NEW i \in 1 .. Len(table) - n PROVE n + i \in 1 .. Len(table)
    BY <1>1
  <1>5. IsTable(Older(n))
    <2> DEFINE T == Older(n)
    <2>1. T \in Seq(Records!Record) /\ Len(T) = Len(table) - n /\ \A i \in 1 .. Len(table) - n : T[i] = table[n + i]
      BY <1>3
    <2> HIDE DEF T
    <2>2. ASSUME NEW i \in 1 .. Len(T), NEW j \in 1 .. Len(T), i <= j PROVE T[j].day <= T[i].day
      <3>1. n + i \in 1 .. Len(table) /\ n + j \in 1 .. Len(table) /\ n + i <= n + j
        BY <1>4, <2>1, <2>2, <1>1
      <3>2. table[n + j].day <= table[n + i].day
        BY <3>1 DEF IsTable
      <3> QED  BY <3>2, <2>1
    <2>3. ASSUME NEW i \in 1 .. Len(T) PROVE T[i].day <= query.days
      <3>1. T[i] = table[n + i] /\ n + i \in 1 .. Len(table)
        BY <1>4, <2>1
      <3> QED  BY <3>1 DEF IsTable
    <2>4. IsTable(T)
      BY <2>1, <2>2, <2>3, Zenon DEF IsTable
    <2> QED  BY <2>4 DEF T
  <1> QED  BY <1>3, <1>5

\* A day before the last cuts both tables at the same row; the last day cuts both before their first.
LEMMA CutsOfOlder ==
  ASSUME IsTable(table), Grown, query.days \in Nat \ {0}, NEW n \in 0 .. added
  PROVE  /\ Later(Older(n), query.days) = 0 /\ Later(table, query.days) = 0
         /\ \A d \in Int : d < query.days => Later(table, d) = n + Later(Older(n), d)
         /\ \A d \in Int : d <= 0 => Later(Older(n), d) = Len(Older(n))
  <1> DEFINE T == Older(n)
  <1>1. /\ IsTable(T) /\ Len(T) = Len(table) - n /\ \A i \in 1 .. Len(table) - n : T[i] = table[n + i]
    BY OlderIsTable
  <1>2. Len(table) \in Nat /\ added \in Nat /\ added <= Len(table) /\ Len(T) \in Nat
    BY <1>1, RowsOfATable DEF IsTable, Grown
  <1> HIDE DEF T
  <1>3. ASSUME NEW t, IsTable(t) PROVE Later(t, query.days) = 0
    <2>1. CutsAt(t, query.days, 0) /\ 0 \in 0 .. Len(t)
      BY <1>3, RowsOfATable DEF IsTable, CutsAt
    <2> QED  BY <2>1, <1>3, LaterIs
  <1>4. ASSUME NEW d \in Int, d < query.days PROVE Later(table, d) = n + Later(T, d)
    <2> DEFINE p == Later(T, d)
    <2>1. p \in 0 .. Len(T) /\ CutsAt(T, d, p)
      BY <1>1, LaterCuts
    <2> HIDE DEF p
    <2>2. n + p \in 0 .. Len(table)
      BY <2>1, <1>1, <1>2
    <2>3. ASSUME NEW i \in 1 .. Len(table) PROVE table[i].day > d <=> i <= n + p
      <3>1. CASE i <= n
        <4>1. table[i].day = query.days
          BY <3>1, <1>2 DEF Grown
        <4> QED  BY <4>1, <3>1, <1>4, <2>1
      <3>2. CASE n < i
        <4>1. i - n \in 1 .. Len(table) - n /\ n + (i - n) = i
          BY <3>2, <1>2
        <4>2. T[i - n] = table[i]
          BY <4>1, <1>1
        <4>3. T[i - n].day > d <=> i - n <= p
          BY <4>1, <1>1, <2>1 DEF CutsAt
        <4>4. i - n <= p <=> i <= n + p
          BY <2>1
        <4> QED  BY <4>2, <4>3, <4>4
      <3> QED  BY <3>1, <3>2
    <2>4. CutsAt(table, d, n + p)
      BY <2>3 DEF CutsAt
    <2> QED  BY <2>2, <2>4, LaterIs DEF p
  <1>5. ASSUME NEW d \in Int, d <= 0 PROVE Later(T, d) = Len(T)
    <2>1. CutsAt(T, d, Len(T)) /\ Len(T) \in 0 .. Len(T)
      BY <1>1, <1>2, <1>5, RowsOfATable DEF CutsAt
    <2> QED  BY <2>1, <1>1, LaterIs
  <1> QED  BY <1>1, <1>3, <1>4, <1>5 DEF T

\* What a window lists of the table is as long as its cuts are apart.
LEMMA LengthOfAListing ==
  ASSUME NEW t, IsTable(t), query.days \in Nat \ {0}, NEW w \in 1 .. Len(Records!Windows)
  PROVE  /\ Len(Records!Listing(t, Records!Windows[w])) = Later(t, LastDay(w + 1)) - Later(t, LastDay(w))
         /\ Records!Listing(t, Records!Windows[w]) \in Seq(Records!Record)
  <1> DEFINE p == Later(t, LastDay(w))
             q == Later(t, LastDay(w + 1))
             run == SubSeq(t, p + 1, q)
  <1>1. p \in 0 .. Len(t) /\ q \in 0 .. Len(t) /\ p <= q /\ Records!Listing(t, Records!Windows[w]) = run
    BY WindowIsARun
  <1>2. Len(t) \in Nat /\ \A i \in 1 .. Len(t) : t[i] \in Records!Record
    BY RowsOfATable
  <1> HIDE DEF p, q
  <1>3. p + 1 \in Int /\ q \in Int /\ \A i \in p + 1 .. q : t[i] \in Records!Record
    BY <1>1, <1>2
  <1>4. run \in Seq(Records!Record) /\ Len(run) = IF p + 1 <= q THEN q - (p + 1) + 1 ELSE 0
    BY <1>3, SubSeqProperties
  <1>5. Len(run) = q - p
    BY <1>1, <1>4
  <1> QED  BY <1>1, <1>4, <1>5 DEF p, q

\* Rows are added to the first window only.
LEMMA LaterWindowsRest ==
  ASSUME IsTable(table), Grown, query.days \in Nat \ {0}, NEW n \in 0 .. added, NEW w \in 2 .. Len(Records!Windows)
  PROVE  /\ Later(table, LastDay(w)) = n + Later(Older(n), LastDay(w))
         /\ Later(table, LastDay(w + 1)) = n + Later(Older(n), LastDay(w + 1))
  <1>1. Len(Records!Windows) \in Nat /\ w \in Nat /\ w + 1 \in Nat /\ w >= 2 /\ w + 1 >= 2
    BY WindowsMeet
  <1>2. LastDay(w) \in Int /\ LastDay(w + 1) \in Int /\ LastDay(w) < query.days /\ LastDay(w + 1) < query.days
    BY <1>1, WindowsMeet
  <1> QED  BY <1>2, CutsOfOlder

\* If a window lists as many rows now as of the older table, it lists the same rows: either nothing was added, or
\* the window is not the first.
LEMMA CheckedListing ==
  ASSUME IsTable(table), Grown, query.days \in Nat \ {0}, NEW n \in 0 .. added, NEW w \in 1 .. Len(Records!Windows),
         Len(Records!Listing(table, Records!Windows[w])) =
             Later(Older(n), LastDay(w + 1)) - Later(Older(n), LastDay(w))
  PROVE  Records!Listing(table, Records!Windows[w]) =
             SubSeq(Older(n), Later(Older(n), LastDay(w)) + 1, Later(Older(n), LastDay(w + 1)))
  <1> DEFINE T == Older(n)
             a == Later(T, LastDay(w))
             b == Later(T, LastDay(w + 1))
  <1>1. IsTable(T) /\ Len(T) = Len(table) - n /\ Len(table) \in Nat /\ table \in Seq(Records!Record)
        /\ added <= Len(table)
    BY OlderIsTable, RowsOfATable DEF IsTable, Grown
  <1>2. a \in 0 .. Len(T) /\ b \in 0 .. Len(T)
    BY <1>1, WindowIsARun
  <1>3. /\ Records!Listing(table, Records!Windows[w]) =
               SubSeq(table, Later(table, LastDay(w)) + 1, Later(table, LastDay(w + 1)))
        /\ Len(Records!Listing(table, Records!Windows[w])) = Later(table, LastDay(w + 1)) - Later(table, LastDay(w))
    BY WindowIsARun, LengthOfAListing
  <1>4. Len(Records!Windows) \in Nat /\ added \in Nat
    BY WindowsMeet DEF Grown
  <1>5. CASE w = 1
    <2>1. LastDay(1) = query.days /\ LastDay(2) \in Int /\ LastDay(2) < query.days
      <3>1. LastDay(1) = query.days /\ \A v \in Nat : LastDay(v) \in Int /\ (v >= 2 => LastDay(v) < query.days)
        BY WindowsMeet
      <3> QED  BY <3>1
    <2>2. Later(table, LastDay(1)) = 0 /\ Later(T, LastDay(1)) = 0
          /\ Later(table, LastDay(2)) = n + Later(T, LastDay(2))
      BY <2>1, CutsOfOlder
    <2>3. 1 + 1 = 2 /\ w + 1 = 2
      BY <1>5
    <2>4. Len(Records!Listing(table, Records!Windows[w])) = (n + Later(T, LastDay(2))) - 0
      BY <1>3, <1>5, <2>2, <2>3
    <2>5. Len(Records!Listing(table, Records!Windows[w])) = Later(T, LastDay(2)) - 0 /\ Later(T, LastDay(2)) \in Nat
      BY <1>2, <1>5, <2>2, <2>3
    <2>6. n = 0
      BY <2>4, <2>5
    <2>7. T = table
      BY <2>6, <1>1, SubSeqFull DEF Older
    <2> QED  BY <2>7, <1>3
  <1>6. CASE w # 1
    <2>1. w \in 2 .. Len(Records!Windows)
      BY <1>6, <1>4
    <2>2. Later(table, LastDay(w)) = n + a /\ Later(table, LastDay(w + 1)) = n + b
      BY <2>1, LaterWindowsRest
    <2> HIDE DEF a, b
    <2>3. SubSeq(SubSeq(table, n + 1, Len(table)), a + 1, b) = SubSeq(table, (n + 1) + (a + 1) - 1, (n + 1) + b - 1)
      <3> DEFINE i == n + 1
                 m == a + 1
                 last == Len(table)
      <3>1. i \in Nat \ {0} /\ m \in Nat \ {0} /\ b \in Nat /\ last \in 0 .. Len(table) /\ i + b - 1 <= last
        BY <1>1, <1>2, <1>4
      <3>2. table \in Seq(Records!Record)
        BY <1>1
      <3> HIDE DEF i, m, last
      <3>3. SubSeq(SubSeq(table, i, last), m, b) = SubSeq(table, i + m - 1, i + b - 1)
        BY <3>1, <3>2, RunOfARun
      <3> QED  BY <3>3 DEF i, m, last
    <2>4. (n + 1) + (a + 1) - 1 = (n + a) + 1 /\ (n + 1) + b - 1 = n + b
      BY <1>2, <1>1, <1>4
    <2> QED  BY <2>2, <2>3, <2>4, <1>3 DEF Older, a, b
  <1> QED  BY <1>5, <1>6

\* What the table was at some moment of the query.
Tables == {Older(n) : n \in 0 .. added}

\* The totals read so far are those of one table.
HeadsOf(T) ==
  /\ Len(heads) <= Len(Records!Windows)
  /\ \A w \in 1 .. Len(heads) : heads[w] = Later(T, LastDay(w + 1)) - Later(T, LastDay(w))

\* The rows before those that are asked for, and how many are asked for.
RowsBefore == IF query.all THEN 0 ELSE (query.page - 1) * Wanted
RowsWanted(T) == IF query.all THEN Len(T) ELSE Wanted

\* The rows gathered so far are a run of that table, and the next one follows in the window at hand.
Gathered(T) ==
  /\ Len(heads) = Len(Records!Windows) /\ position.window <= Len(Records!Windows) + 1
  /\ remaining = RowsWanted(T) - Len(rows)
  /\ rows # <<>> => RowsBefore + Len(rows) <= Len(T)
  /\ rows = SubSeq(T, RowsBefore + 1, RowsBefore + Len(rows))
  /\ remaining > 0 => Later(T, LastDay(position.window)) + position.offset = RowsBefore + Len(rows)

\* Of a table without dates, to which nothing was added, the pages read so far.
Paged ==
  /\ rows = SubSeq(table, 1, Len(rows))
  /\ IF position.offset = 0 THEN rows = <<>>
     ELSE remaining = Len(table) /\ Len(rows) = position.offset * PageRows /\ Len(rows) < Len(table)

\* The table, at every stage of a query.
RecordsBase == Records!TypeOK /\ IsTable(table) /\ Grown /\ Len(table) <= MaxRecords + added

\* The inductive invariant.
RecordsInv ==
  /\ RecordsBase
  /\ stage \in {"heads", "slices"} => \E T \in Tables : HeadsOf(T) /\ (stage = "slices" => Gathered(T))
  /\ stage = "heads" => rows = <<>>
  /\ stage \in {"heads", "slices"} => query.dated
  /\ stage = "pages" => ~query.dated /\ (query.all /\ added = 0 => Paged)
  /\ Records!AnswerIsThePage

\* The types of a state, one by one.
LEMMA RecordsFacts ==
  ASSUME Records!TypeOK
  PROVE  /\ Period \in Nat \ {0} /\ WindowDays \in Nat \ {0} /\ PageRows \in Nat \ {0} /\ Wanted \in Nat \ {0}
         /\ MaxRecords \in Nat \ {0} /\ MaxRows \in Nat /\ MaxAdded \in Nat
         /\ query.days \in 1 .. Period /\ query.days \in Nat \ {0}
         /\ query.page \in Nat \ {0} /\ query.all \in BOOLEAN /\ query.dated \in BOOLEAN
         /\ added \in Nat /\ added <= MaxAdded /\ remaining \in Nat /\ stage \in Records!Stages
         /\ position.window \in Nat \ {0} /\ position.offset \in Nat
         /\ table \in Seq(Records!Record) /\ rows \in Seq(Records!Record) /\ heads \in Seq(Nat)
  <1>1. \A h \in Seq(0 .. MaxRecords + MaxAdded) : h \in Seq(Nat)
    BY RecordsAssumption
  <1>2. query.days \in {WindowDays, Period} /\ query.page \in 1 .. MaxRecords
        /\ query.all \in BOOLEAN /\ query.dated \in BOOLEAN
    BY DEF Records!TypeOK
  <1>3. position.window \in Nat \ {0} /\ position.offset \in Nat
    BY DEF Records!TypeOK
  <1>4. heads \in Seq(Nat)
    BY <1>1 DEF Records!TypeOK
  <1>5. /\ Period \in Nat \ {0} /\ WindowDays \in Nat \ {0} /\ PageRows \in Nat \ {0} /\ Wanted \in Nat \ {0}
        /\ MaxRecords \in Nat \ {0} /\ MaxRows \in Nat /\ MaxAdded \in Nat /\ WindowDays <= Period
    BY RecordsAssumption
  <1>6. /\ query.days \in 1 .. Period /\ query.days \in Nat \ {0}
        /\ query.page \in Nat \ {0} /\ query.all \in BOOLEAN /\ query.dated \in BOOLEAN
    BY <1>2, <1>5
  <1>7. added \in Nat /\ added <= MaxAdded /\ remaining \in Nat /\ stage \in Records!Stages
        /\ table \in Seq(Records!Record) /\ rows \in Seq(Records!Record)
    BY <1>5 DEF Records!TypeOK
  <1> QED  BY <1>3, <1>4, <1>5, <1>6, <1>7

\* What the table was is a table, all of whose rows are of the period; it may be the table that there is.
LEMMA TablesAreTables ==
  ASSUME RecordsBase
  PROVE  /\ table \in Tables
         /\ \A T \in Tables : /\ IsTable(T) /\ Len(T) <= Len(table) /\ Later(T, query.days) = 0
                              /\ \A d \in Int : d <= 0 => Later(T, d) = Len(T)
  <1>1. Records!TypeOK /\ IsTable(table) /\ Grown /\ query.days \in Nat \ {0} /\ added \in Nat
    BY RecordsFacts DEF RecordsBase
  <1>2. Older(0) = table
    BY <1>1, SubSeqFull DEF Older, IsTable
  <1>3. table \in Tables
    BY <1>1, <1>2 DEF Tables
  <1>4. ASSUME NEW n \in 0 .. added
        PROVE  /\ IsTable(Older(n)) /\ Len(Older(n)) <= Len(table) /\ Later(Older(n), query.days) = 0
               /\ \A d \in Int : d <= 0 => Later(Older(n), d) = Len(Older(n))
    <2>1. IsTable(Older(n)) /\ Len(Older(n)) = Len(table) - n /\ Len(table) \in Nat
      BY <1>1, OlderIsTable, RowsOfATable
    <2> QED  BY <2>1, <1>1, CutsOfOlder
  <1> QED  BY <1>3, <1>4 DEF Tables

\* While the query does not change, its windows do not either.
LEMMA QueryRests ==
  ASSUME UNCHANGED query
  PROVE  /\ Records!Windows' = Records!Windows /\ RowsBefore' = RowsBefore /\ \A w : LastDay(w)' = LastDay(w)
         /\ \A T : RowsWanted(T)' = RowsWanted(T) /\ Records!Expected(T)' = Records!Expected(T)
  BY DEF Records!Windows, RowsBefore, LastDay, RowsWanted, Records!Expected

\* A step that leaves the table and the query alone.
LEMMA TableRests ==
  ASSUME RecordsBase, UNCHANGED <<table, query, added>>
  PROVE  /\ Tables' = Tables /\ IsTable(table)' /\ Grown' /\ (Len(table) <= MaxRecords + added)'
         /\ \A T : (UNCHANGED heads /\ HeadsOf(T)) => HeadsOf(T)'
  <1>1. IsTable(table)' /\ Grown' /\ (Len(table) <= MaxRecords + added)'
    BY DEF RecordsBase, IsTable, Grown
  <1>2. Tables' = Tables
    BY DEF Tables, Older
  <1>3. ASSUME NEW T, UNCHANGED heads, HeadsOf(T) PROVE HeadsOf(T)'
    BY <1>3, QueryRests DEF HeadsOf
  <1> QED  BY <1>1, <1>2, <1>3

\* An answer may be that of any table that there was.
LEMMA AnswerOfATable ==
  ASSUME RecordsBase, NEW T \in Tables, rows = Records!Expected(T)
  PROVE  Records!AnswerIsThePage
  BY DEF Records!AnswerIsThePage, Tables, Older

\* What PageOf gives of a listing.
LEMMA PageOfAListing ==
  ASSUME NEW S, NEW listing \in Seq(S), NEW page \in Nat \ {0}, NEW size \in Nat \ {0}
  PROVE  /\ (page - 1) * size \in Nat /\ page * size = (page - 1) * size + size
         /\ Records!PageOf(listing, page, size) =
              SubSeq(listing, (page - 1) * size + 1,
                     IF (page - 1) * size + size < Len(listing) THEN (page - 1) * size + size ELSE Len(listing))
         /\ Records!PageOf(listing, page, size) \in Seq(S)
  <1> DEFINE skip == (page - 1) * size
             last == IF skip + size < Len(listing) THEN skip + size ELSE Len(listing)
  <1>1. skip \in Nat /\ page * size = skip + size /\ Len(listing) \in Nat
    OBVIOUS
  <1>2. Records!PageOf(listing, page, size) = SubSeq(listing, skip + 1, last)
    BY <1>1 DEF Records!PageOf
  <1> HIDE DEF skip
  <1>3. SubSeq(listing, skip + 1, last) \in Seq(S)
    <2>1. skip + 1 \in Int /\ last \in Int /\ \A i \in skip + 1 .. last : listing[i] \in S
      BY <1>1
    <2> HIDE DEF last
    <2> QED  BY <2>1, SubSeqProperties
  <1> QED  BY <1>1, <1>2, <1>3 DEF skip

\* Adding a record: every older table is one of the tables still.
LEMMA RecordsAddStep ==
  ASSUME RecordsInv, Records!Add
  PROVE  RecordsInv'
  <1> DEFINE r == [day |-> query.days, id |-> Len(table) + 1]
  <1>1. /\ Records!TypeOK /\ IsTable(table) /\ Grown /\ Len(table) <= MaxRecords + added /\ RecordsBase
        /\ Len(table) \in Nat /\ added <= Len(table)
    BY RowsOfATable DEF RecordsInv, RecordsBase, Grown
  <1>2. /\ stage \in {"heads", "slices", "pages"} /\ added < MaxAdded /\ added' = added + 1
        /\ table' = <<r>> \o table /\ UNCHANGED Records!queryVars
    BY DEF Records!Add
  <1>3. query.days \in 1 .. Period /\ query.days \in Nat /\ added \in Nat /\ MaxAdded \in Nat /\ MaxRecords \in Nat
    BY <1>1, RecordsFacts
  <1>4. r \in Records!Record /\ r.day = query.days
    <2>1. Len(table) + 1 \in 1 .. MaxRecords + MaxAdded
      BY <1>1, <1>2, <1>3
    <2> QED  BY <1>3, <2>1 DEF Records!Record
  <1> HIDE DEF r
  <1>5. /\ table' \in Seq(Records!Record) /\ Len(table') = Len(table) + 1 /\ table'[1] = r
        /\ \A i \in 1 .. Len(table) : table'[i + 1] = table[i]
    <2>1. <<r>> \in Seq(Records!Record) /\ Len(<<r>>) = 1 /\ <<r>>[1] = r /\ table \in Seq(Records!Record)
      BY <1>4, <1>1 DEF IsTable
    <2>2. /\ table' \in Seq(Records!Record) /\ Len(table') = 1 + Len(table)
          /\ \A i \in 1 .. 1 + Len(table) : table'[i] = IF i <= 1 THEN <<r>>[i] ELSE table[i - 1]
      BY <2>1, <1>2, ConcatProperties
    <2>3. ASSUME NEW i \in 1 .. Len(table) PROVE table'[i + 1] = table[i]
      <3>1. i + 1 \in 1 .. 1 + Len(table) /\ ~(i + 1 <= 1) /\ (i + 1) - 1 = i
        BY <1>1
      <3> QED  BY <3>1, <2>2
    <2> QED  BY <2>1, <2>2, <2>3, <1>1
  <1>6. ASSUME NEW i \in 1 .. Len(table')
        PROVE  /\ table'[i].day <= query.days /\ (i = 1 => table'[i].day = query.days)
               /\ (i > 1 => i - 1 \in 1 .. Len(table) /\ table'[i] = table[i - 1])
    <2>1. CASE i = 1
      BY <2>1, <1>4, <1>5, <1>3
    <2>2. CASE i > 1
      <3>1. i - 1 \in 1 .. Len(table) /\ (i - 1) + 1 = i
        BY <2>2, <1>5, <1>1
      <3>2. table'[i] = table[i - 1]
        BY <3>1, <1>5
      <3> QED  BY <2>2, <3>1, <3>2, <1>1 DEF IsTable
    <2> QED  BY <2>1, <2>2
  <1>7. IsTable(table)'
    <2>1. ASSUME NEW i \in 1 .. Len(table'), NEW j \in 1 .. Len(table'), i <= j PROVE table'[j].day <= table'[i].day
      <3>1. CASE i = 1
        BY <3>1, <1>6
      <3>2. CASE i > 1
        <4>1. table'[i] = table[i - 1] /\ table'[j] = table[j - 1]
              /\ i - 1 \in 1 .. Len(table) /\ j - 1 \in 1 .. Len(table) /\ i - 1 <= j - 1
          BY <3>2, <2>1, <1>6
        <4> QED  BY <4>1, <1>1 DEF IsTable
      <3> QED  BY <3>1, <3>2
    <2>2. query' = query
      BY <1>2 DEF Records!queryVars
    <2> QED  BY <2>1, <2>2, <1>5, <1>6 DEF IsTable
  <1>8. Grown'
    <2>1. added' \in Nat /\ added' <= Len(table') /\ query' = query
      BY <1>1, <1>2, <1>5 DEF Records!queryVars, Grown
    <2>2. ASSUME NEW i \in 1 .. added' PROVE table'[i].day = query.days
      <3>1. i \in 1 .. Len(table') /\ (i > 1 => i - 1 \in 1 .. added)
        BY <2>1, <1>2, <1>1, <1>5 DEF Grown
      <3> QED  BY <3>1, <1>6, <1>1 DEF Grown
    <2> QED  BY <2>1, <2>2 DEF Grown
  <1>9. Records!TypeOK'
    <2>1. added' \in 0 .. MaxAdded
      BY <1>2, <1>3
    <2> QED  BY <2>1, <1>1, <1>2, <1>5 DEF Records!TypeOK, Records!queryVars
  <1>10. RecordsBase'
    <2>1. (Len(table) <= MaxRecords + added)'
      BY <1>1, <1>2, <1>3, <1>5
    <2> QED  BY <2>1, <1>7, <1>8, <1>9 DEF RecordsBase
  <1>11. Tables \subseteq Tables'
    <2> SUFFICES ASSUME NEW n \in 0 .. added PROVE Older(n) \in Tables'
      BY DEF Tables
    <2> DEFINE T == SubSeq(table', (n + 1) + 1, Len(table'))
    <2>1. n + 1 \in 0 .. added'
      BY <1>1, <1>2 DEF Grown
    <2>2. /\ Older(n) \in Seq(Records!Record) /\ Len(Older(n)) = Len(table) - n
          /\ \A i \in 1 .. Len(table) - n : Older(n)[i] = table[n + i]
      BY <1>1, OlderIsTable, RecordsFacts DEF IsTable
    <2>3. /\ T \in Seq(Records!Record) /\ Len(T) = Len(table) - n
          /\ \A i \in 1 .. Len(table) - n : T[i] = table'[(n + 1) + i]
      <3>1. query.days' \in Nat \ {0}
        BY <1>1, <1>2, RecordsFacts DEF Records!queryVars
      <3>2. n + 1 \in Nat /\ Len(table') - (n + 1) = Len(table) - n /\ n + 1 <= Len(table') /\ Len(table') \in Nat
        BY <1>1, <1>5 DEF Grown
      <3> DEFINE m == n + 1
      <3>3. m + 1 \in Int /\ Len(table') \in Int /\ \A k \in m + 1 .. Len(table') : table'[k] \in Records!Record
        BY <3>2, <1>5
      <3> HIDE DEF m
      <3>4. /\ SubSeq(table', m + 1, Len(table')) \in Seq(Records!Record)
            /\ Len(SubSeq(table', m + 1, Len(table'))) = IF m + 1 <= Len(table') THEN Len(table') - (m + 1) + 1 ELSE 0
            /\ \A i \in 1 .. Len(table') - (m + 1) + 1 : SubSeq(table', m + 1, Len(table'))[i] =
                   table'[(m + 1) + i - 1]
        BY <3>3, SubSeqProperties
      <3>5. m \in Nat /\ Len(table') - m = Len(table) - n /\ m <= Len(table')
        BY <3>2 DEF m
      <3>6. /\ SubSeq(table', m + 1, Len(table')) \in Seq(Records!Record)
            /\ Len(SubSeq(table', m + 1, Len(table'))) = Len(table) - n
            /\ \A i \in 1 .. Len(table) - n : SubSeq(table', m + 1, Len(table'))[i] = table'[m + i]
        BY <3>2, <3>4, <3>5
      <3> QED  BY <3>6 DEF m
    <2>4. ASSUME NEW i \in 1 .. Len(table) - n PROVE Older(n)[i] = T[i]
      <3>1. n + i \in 1 .. Len(table) /\ (n + i) + 1 = (n + 1) + i
        BY <1>1 DEF Grown
      <3> QED  BY <3>1, <2>2, <2>3, <1>5
    <2> HIDE DEF T
    <2>5. Older(n) = T
      BY <2>2, <2>3, <2>4, SeqEqual
    <2> QED  BY <2>1, <2>5 DEF Tables, Older, T
  <1>12. \A T : HeadsOf(T) => HeadsOf(T)'
    BY <1>2, QueryRests DEF HeadsOf, Records!queryVars
  <1>13. \A T : Gathered(T) => Gathered(T)'
    BY <1>2, QueryRests DEF Gathered, Records!queryVars
  <1>14. stage' = stage /\ rows' = rows /\ query' = query /\ added' # 0 /\ stage # "done"
    BY <1>2, <1>1 DEF Records!queryVars, Grown
  <1> QED  BY <1>10, <1>11, <1>12, <1>13, <1>14 DEF RecordsInv, Records!AnswerIsThePage

\* A step that ends the query with the page of a table there was.
LEMMA RecordsAnswered ==
  ASSUME RecordsBase, UNCHANGED <<table, query, begun, heads, position, remaining, added>>, stage' = "done",
         rows' \in Seq(Records!Record), \E T \in Tables : rows' = Records!Expected(T)
  PROVE  RecordsInv'
  <1>1. /\ Tables' = Tables /\ IsTable(table)' /\ Grown' /\ (Len(table) <= MaxRecords + added)'
    BY TableRests
  <1>2. Records!TypeOK'
    BY DEF RecordsBase, Records!TypeOK, Records!Stages
  <1>3. RecordsBase'
    BY <1>1, <1>2 DEF RecordsBase
  <1>4. \A T : Records!Expected(T)' = Records!Expected(T)
    BY QueryRests
  <1>5. Records!AnswerIsThePage'
    <2>1. PICK T \in Tables : rows' = Records!Expected(T)
      OBVIOUS
    <2>2. PICK n \in 0 .. added : T = SubSeq(table, n + 1, Len(table))
      BY DEF Tables, Older
    <2>3. rows' = Records!Expected(T)' /\ T = SubSeq(table', n + 1, Len(table')) /\ n \in 0 .. added'
      BY <2>1, <2>2, <1>4
    <2>4. (\E k \in 0 .. added : rows = Records!Expected(SubSeq(table, k + 1, Len(table))))'
      BY <2>3 DEF Records!Expected
    <2> QED  BY <2>4 DEF Records!AnswerIsThePage
  <1> QED  BY <1>3, <1>5 DEF RecordsInv

\* The steps of the query.  A single window lists the whole table.
LEMMA RecordsOnePageStep ==
  ASSUME RecordsInv, Records!OnePage
  PROVE  RecordsInv'
  <1>1. RecordsBase /\ Records!TypeOK /\ IsTable(table) /\ query.days \in Nat \ {0} /\ Len(table) \in Nat
        /\ table \in Seq(Records!Record)
    BY RecordsFacts, RowsOfATable DEF RecordsInv, RecordsBase, IsTable
  <1>2. query.page \in Nat \ {0} /\ Wanted \in Nat \ {0}
    BY <1>1, RecordsFacts
  <1>3. /\ Len(Records!Windows) = 1 /\ ~query.all /\ stage' = "done"
        /\ UNCHANGED <<table, query, begun, heads, position, remaining, added>>
        /\ rows' = Records!PageOf(Records!Listing(table, Records!Windows[1]), query.page, Wanted)
    BY DEF Records!OnePage
  <1>4. Records!Listing(table, Records!Windows[1]) = table
    <2>1. LastDay(1) = query.days /\ LastDay(1 + 1) <= 0 /\ LastDay(1 + 1) \in Int
      <3>1. LastDay(1) = query.days /\ LastDay(Len(Records!Windows) + 1) <= 0 /\ \A w \in Nat : LastDay(w) \in Int
        BY <1>1, WindowsMeet
      <3> QED  BY <3>1, <1>3
    <2>2. Later(table, LastDay(1)) = 0 /\ Later(table, LastDay(1 + 1)) = Len(table)
      BY <2>1, <1>1, TablesAreTables
    <2>3. 1 \in 1 .. Len(Records!Windows)
      BY <1>3
    <2>4. Records!Listing(table, Records!Windows[1]) =
              SubSeq(table, Later(table, LastDay(1)) + 1, Later(table, LastDay(1 + 1)))
      BY <2>3, <1>1, WindowIsARun
    <2> QED  BY <2>2, <2>4, <1>1, SubSeqFull
  <1>5. rows' = Records!Expected(table) /\ rows' \in Seq(Records!Record)
    BY <1>1, <1>2, <1>3, <1>4, PageOfAListing DEF Records!Expected
  <1> QED  BY <1>1, <1>3, <1>5, TablesAreTables, RecordsAnswered

\* The page of a table without dates.
LEMMA RecordsPlainPageStep ==
  ASSUME RecordsInv, Records!PlainPage
  PROVE  RecordsInv'
  <1>1. RecordsBase /\ Records!TypeOK /\ table \in Seq(Records!Record)
    BY DEF RecordsInv, RecordsBase, IsTable
  <1>2. query.page \in Nat \ {0} /\ Wanted \in Nat \ {0}
    BY <1>1, RecordsFacts
  <1>3. rows' = Records!Expected(table) /\ rows' \in Seq(Records!Record)
    BY <1>1, <1>2, PageOfAListing DEF Records!Expected, Records!PlainPage
  <1> QED  BY <1>1, <1>3, TablesAreTables, RecordsAnswered DEF Records!PlainPage

\* The end: nothing remains, or no window does, which is after the last row of the table.
LEMMA RecordsCollectedStep ==
  ASSUME RecordsInv, Records!Collected
  PROVE  RecordsInv'
  <1>1. RecordsBase /\ Records!TypeOK /\ rows \in Seq(Records!Record) /\ Len(rows) \in Nat /\ remaining \in Nat
        /\ position.window \in Nat \ {0} /\ position.offset \in Nat
    BY RecordsFacts DEF RecordsInv, RecordsBase
  <1>2. query.page \in Nat \ {0} /\ Wanted \in Nat \ {0} /\ query.days \in Nat \ {0} /\ query.all \in BOOLEAN
    BY <1>1, RecordsFacts
  <1>3. /\ stage = "slices" /\ (remaining = 0 \/ position.window > Len(heads)) /\ stage' = "done"
        /\ UNCHANGED <<table, query, begun, heads, rows, position, remaining, added>>
    BY DEF Records!Collected
  <1>4. PICK T \in Tables : HeadsOf(T) /\ Gathered(T)
    BY <1>3 DEF RecordsInv
  <1>5. T \in Seq(Records!Record) /\ Len(T) \in Nat /\ \A d \in Int : d <= 0 => Later(T, d) = Len(T)
    BY <1>1, TablesAreTables, RowsOfATable DEF IsTable
  <1>6. remaining > 0 => Len(T) + position.offset = RowsBefore + Len(rows)
    <2>1. Len(Records!Windows) \in Nat /\ LastDay(Len(Records!Windows) + 1) \in Int
          /\ LastDay(Len(Records!Windows) + 1) <= 0
      <3>1. Len(Records!Windows) \in Nat /\ LastDay(Len(Records!Windows) + 1) <= 0
            /\ \A w \in Nat : LastDay(w) \in Int
        BY <1>2, WindowsMeet
      <3> QED  BY <3>1
    <2>2. Later(T, LastDay(Len(Records!Windows) + 1)) = Len(T)
      BY <2>1, <1>5
    <2>3. remaining > 0 => position.window = Len(Records!Windows) + 1
      BY <1>1, <1>3, <1>4, <2>1 DEF Gathered
    <2> QED  BY <2>2, <2>3, <1>4 DEF Gathered
  <1>7. /\ remaining = RowsWanted(T) - Len(rows) /\ (rows # <<>> => RowsBefore + Len(rows) <= Len(T))
        /\ rows = SubSeq(T, RowsBefore + 1, RowsBefore + Len(rows)) /\ (rows = <<>> => Len(rows) = 0)
    BY <1>4, <1>1 DEF Gathered
  <1>8. rows = Records!Expected(T)
    <2>1. CASE query.all
      <3>1. RowsBefore = 0 /\ RowsWanted(T) = Len(T) /\ Records!Expected(T) = T
        BY <2>1 DEF RowsBefore, RowsWanted, Records!Expected
      <3>2. Len(rows) = Len(T)
        BY <3>1, <1>1, <1>5, <1>6, <1>7
      <3> QED  BY <3>1, <3>2, <1>5, <1>7, SubSeqFull
    <2>2. CASE ~query.all
      <3>1. RowsBefore = (query.page - 1) * Wanted /\ RowsWanted(T) = Wanted
            /\ Records!Expected(T) = Records!PageOf(T, query.page, Wanted)
        BY <2>2 DEF RowsBefore, RowsWanted, Records!Expected
      <3>2. RowsBefore \in Nat /\ Records!PageOf(T, query.page, Wanted) =
              SubSeq(T, RowsBefore + 1, IF RowsBefore + Wanted < Len(T) THEN RowsBefore + Wanted ELSE Len(T))
        BY <3>1, <1>2, <1>5, PageOfAListing
      <3>3. remaining = Wanted - Len(rows) /\ RowsBefore \in Nat /\ Wanted \in Nat \ {0} /\ Len(rows) \in Nat
            /\ Len(T) \in Nat /\ remaining \in Nat /\ position.offset \in Nat
        BY <3>1, <3>2, <1>1, <1>2, <1>5, <1>7
      <3>4. CASE rows = <<>>
        <4>1. Len(rows) = 0
          BY <3>4, <1>7
        <4>2. RowsBefore >= Len(T)
          BY <4>1, <3>3, <1>6
        <4>3. SubSeq(T, RowsBefore + 1, Len(T)) = <<>> /\ ~(RowsBefore + Wanted < Len(T))
          BY <4>2, <3>3, SubSeqEmpty
        <4> QED  BY <4>3, <3>1, <3>2, <3>4
      <3>5. CASE rows # <<>>
        <4>1. RowsBefore + Len(rows) <= Len(T)
          BY <3>5, <1>7
        <4>2. RowsBefore + Len(rows) = IF RowsBefore + Wanted < Len(T) THEN RowsBefore + Wanted ELSE Len(T)
          BY <3>3, <4>1, <1>6
        <4> QED  BY <4>2, <3>1, <3>2, <1>7
      <3> QED  BY <3>4, <3>5
    <2> QED  BY <2>1, <2>2, <1>2
  <1> QED  BY <1>1, <1>3, <1>4, <1>8, RecordsAnswered

\* A listing is no longer than its table.
LEMMA ShortListings ==
  ASSUME RecordsBase, NEW w \in 1 .. Len(Records!Windows)
  PROVE  Len(Records!Listing(table, Records!Windows[w])) \in 0 .. MaxRecords + MaxAdded
  <1>1. Records!TypeOK /\ IsTable(table) /\ Len(table) <= MaxRecords + added /\ Len(table) \in Nat
    BY RowsOfATable DEF RecordsBase
  <1>2. query.days \in Nat \ {0} /\ added \in Nat /\ added <= MaxAdded /\ MaxRecords \in Nat /\ MaxAdded \in Nat
    BY <1>1, RecordsFacts
  <1>3. /\ Len(Records!Listing(table, Records!Windows[w])) = Later(table, LastDay(w + 1)) - Later(table, LastDay(w))
        /\ Later(table, LastDay(w)) \in 0 .. Len(table) /\ Later(table, LastDay(w + 1)) \in 0 .. Len(table)
        /\ Later(table, LastDay(w)) <= Later(table, LastDay(w + 1))
    BY <1>1, <1>2, LengthOfAListing, WindowIsARun
  <1> QED  BY <1>1, <1>2, <1>3

\* A head: the first window decides for the table there is, and the later windows are the same in both.
LEMMA RecordsReadHeadStep ==
  ASSUME RecordsInv, Records!ReadHead
  PROVE  RecordsInv'
  <1> DEFINE w == Len(heads) + 1
             head == Len(Records!Listing(table, Records!Windows[w]))
  <1>1. RecordsBase /\ Records!TypeOK /\ IsTable(table) /\ Grown /\ heads \in Seq(0 .. MaxRecords + MaxAdded)
    BY DEF RecordsInv, RecordsBase, Records!TypeOK
  <1>2. query.days \in Nat \ {0} /\ Len(heads) \in Nat /\ added \in Nat /\ Len(Records!Windows) \in Nat
    BY <1>1, RecordsFacts, WindowsMeet
  <1>3. /\ stage = "heads" /\ Len(heads) < Len(Records!Windows) /\ heads' = Append(heads, head)
        /\ stage' \in {"tooMany", "heads"} /\ UNCHANGED <<table, query, begun, rows, position, remaining, added>>
    BY DEF Records!ReadHead
  <1>4. w \in 1 .. Len(Records!Windows) /\ head \in 0 .. MaxRecords + MaxAdded
    BY <1>1, <1>2, <1>3, ShortListings
  <1>5. PICK n \in 0 .. added : HeadsOf(Older(n))
    BY <1>3 DEF RecordsInv, Tables
  <1>6. PICK T \in Tables : T = Older(IF w = 1 THEN 0 ELSE n)
    BY <1>2 DEF Tables
  <1>7. head = Later(T, LastDay(w + 1)) - Later(T, LastDay(w))
    <2>1. head = Later(table, LastDay(w + 1)) - Later(table, LastDay(w))
      BY <1>1, <1>2, <1>4, LengthOfAListing
    <2>2. CASE w = 1
      <3>1. T = table
        BY <2>2, <1>1, <1>6, SubSeqFull DEF Older, IsTable
      <3> QED  BY <2>1, <3>1
    <2>3. CASE w # 1
      <3>1. w \in 2 .. Len(Records!Windows) /\ T = Older(n)
        BY <2>3, <1>2, <1>4, <1>6
      <3>2. /\ Later(table, LastDay(w)) = n + Later(T, LastDay(w))
            /\ Later(table, LastDay(w + 1)) = n + Later(T, LastDay(w + 1))
        BY <3>1, <1>1, <1>2, LaterWindowsRest
      <3>3. Later(T, LastDay(w)) \in Int /\ Later(T, LastDay(w + 1)) \in Int /\ n \in Int
        <4>1. IsTable(T)
          BY <1>1, <1>6, TablesAreTables
        <4>2. Later(T, LastDay(w)) \in 0 .. Len(T) /\ Later(T, LastDay(w + 1)) \in 0 .. Len(T)
          BY <4>1, <1>2, <1>4, WindowIsARun
        <4> QED  BY <4>2
      <3> QED  BY <2>1, <3>2, <3>3
    <2> QED  BY <2>2, <2>3
  <1>8. HeadsOf(T)'
    <2> HIDE DEF head
    <2>1. Len(heads') = w /\ heads'[w] = head /\ \A v \in 1 .. Len(heads) : heads'[v] = heads[v]
      BY <1>1, <1>3, <1>4, AppendProperties
    <2>2. ASSUME NEW v \in 1 .. Len(heads') PROVE heads'[v] = Later(T, LastDay(v + 1)) - Later(T, LastDay(v))
      <3>1. CASE v = w
        BY <3>1, <2>1, <1>7
      <3>2. CASE v # w
        <4>1. v \in 1 .. Len(heads) /\ w # 1
          BY <3>2, <2>1, <1>2
        <4>2. T = Older(n)
          BY <4>1, <1>6
        <4> QED  BY <4>1, <4>2, <2>1, <1>5 DEF HeadsOf
      <3> QED  BY <3>1, <3>2
    <2>3. Len(heads') <= Len(Records!Windows)
      BY <2>1, <1>4
    <2> QED  BY <2>2, <2>3, <1>3, QueryRests DEF HeadsOf
  <1>9. RecordsBase' /\ Tables' = Tables
    <2>1. heads' \in Seq(0 .. MaxRecords + MaxAdded)
      BY <1>1, <1>3, <1>4, AppendProperties
    <2>2. Records!TypeOK'
      BY <2>1, <1>1, <1>3 DEF Records!TypeOK, Records!Stages
    <2> QED  BY <2>2, <1>1, <1>3, TableRests DEF RecordsBase
  <1>10. stage' # "slices" /\ stage' # "pages" /\ stage' # "done" /\ query'.dated = query.dated /\ rows' = rows
    BY <1>3
  <1>11. \E U \in Tables' : HeadsOf(U)'
    BY <1>6, <1>8, <1>9
  <1> QED  BY <1>9, <1>10, <1>11, <1>3 DEF RecordsInv, Records!AnswerIsThePage

\* The totals of all windows add up to the rows of the table.
LEMMA RecordsHeadedStep ==
  ASSUME RecordsInv, Records!Headed
  PROVE  RecordsInv'
  <1>1. RecordsBase /\ Records!TypeOK /\ rows = <<>> /\ query.dated /\ heads \in Seq(Nat)
    BY RecordsFacts DEF RecordsInv, RecordsBase, Records!Headed
  <1>2. /\ query.page \in Nat \ {0} /\ Wanted \in Nat \ {0} /\ query.days \in Nat \ {0} /\ query.all \in BOOLEAN
        /\ MaxRecords \in Nat /\ MaxAdded \in Nat /\ added \in Nat /\ added <= MaxAdded
    BY <1>1, RecordsFacts
  <1>3. /\ stage = "heads" /\ Len(heads) = Len(Records!Windows) /\ stage' = "slices"
        /\ position' = [window |-> 1, offset |-> RowsBefore]
        /\ remaining' = IF query.all THEN Records!Total(heads) ELSE Wanted
        /\ UNCHANGED <<table, query, begun, heads, rows, added>>
    BY DEF Records!Headed, RowsBefore
  <1>4. PICK T \in Tables : HeadsOf(T)
    BY <1>3 DEF RecordsInv
  <1>5. /\ IsTable(T) /\ T \in Seq(Records!Record) /\ Len(T) \in Nat /\ Len(T) <= Len(table)
           /\ Later(T, query.days) = 0
        /\ \A d \in Int : d <= 0 => Later(T, d) = Len(T)
    BY <1>1, <1>4, TablesAreTables, RowsOfATable DEF IsTable
  <1>6. Len(table) \in Nat /\ Len(table) <= MaxRecords + MaxAdded
    BY <1>1, <1>2, RowsOfATable DEF RecordsBase
  <1>7. /\ Len(Records!Windows) \in Nat \ {0} /\ LastDay(1) = query.days /\ LastDay(Len(Records!Windows) + 1) <= 0
        /\ \A w \in Nat : LastDay(w) \in Int
    BY <1>2, WindowsMeet
  <1>8. Records!Total(heads) = Len(T)
    <2> DEFINE c == [w \in 1 .. Len(heads) + 1 |-> Later(T, LastDay(w))]
    <2>1. ASSUME NEW w \in 1 .. Len(heads) + 1 PROVE Later(T, LastDay(w)) \in Nat
      <3>1. LastDay(w) \in Int
        BY <1>7, <1>3
      <3>2. Later(T, LastDay(w)) \in 0 .. Len(T)
        BY <3>1, <1>5, LaterCuts
      <3> QED  BY <3>2, <1>5
    <2>2. c \in [1 .. Len(heads) + 1 -> Nat]
      BY <2>1
    <2>3. c[1] = 0 /\ c[Len(heads) + 1] = Len(T)
      <3>1. LastDay(Len(Records!Windows) + 1) \in Int
        BY <1>7
      <3> QED  BY <3>1, <1>3, <1>5, <1>7
    <2>4. \A w \in 1 .. Len(heads) : heads[w] = c[w + 1] - c[w]
      BY <1>3, <1>4, <1>7 DEF HeadsOf
    <2> HIDE DEF c
    <2>5. Records!Total(heads) = c[Len(heads) + 1]
      BY <1>1, <2>2, <2>3, <2>4, TotalOfDifferences
    <2> QED  BY <2>3, <2>5
  <1>9. RowsBefore \in Nat
    BY <1>2 DEF RowsBefore
  <1>10. Gathered(T)'
    <2>1. RowsBefore' = RowsBefore /\ Records!Windows' = Records!Windows /\ RowsWanted(T)' = RowsWanted(T)
          /\ \A w : LastDay(w)' = LastDay(w)
      BY <1>3, QueryRests
    <2>2. remaining' = RowsWanted(T) /\ Len(rows) = 0
      BY <1>1, <1>3, <1>8 DEF RowsWanted
    <2>3. SubSeq(T, RowsBefore + 1, RowsBefore + 0) = <<>>
      BY <1>9, SubSeqEmpty
    <2>4. RowsWanted(T) \in Nat
      BY <1>2, <1>5 DEF RowsWanted
    <2>5. position'.window = 1 /\ position'.offset = RowsBefore
      BY <1>3
    <2>6. Later(T, LastDay(1)) + RowsBefore = RowsBefore + 0
      BY <1>5, <1>7, <1>9
    <2>7. /\ Len(heads') = Len(Records!Windows) /\ position'.window <= Len(Records!Windows) + 1
          /\ remaining' = RowsWanted(T) - Len(rows') /\ rows' = <<>>
      BY <1>1, <1>3, <1>7, <2>2, <2>4, <2>5
    <2>8. rows' = SubSeq(T, RowsBefore + 1, RowsBefore + Len(rows'))
      BY <1>1, <1>3, <2>2, <2>3
    <2>9. Later(T, LastDay(position'.window)) + position'.offset = RowsBefore + Len(rows')
      BY <1>3, <2>2, <2>5, <2>6
    <2> QED  BY <2>1, <2>7, <2>8, <2>9 DEF Gathered
  <1>11. Records!TypeOK'
    <2>1. remaining' \in 0 .. MaxRecords + MaxAdded + Wanted
      BY <1>2, <1>3, <1>5, <1>6, <1>8
    <2>2. position' \in [window : Nat \ {0}, offset : Nat]
      BY <1>3, <1>9
    <2> QED  BY <2>1, <2>2, <1>1, <1>3 DEF Records!TypeOK, Records!Stages
  <1>12. RecordsBase' /\ Tables' = Tables /\ HeadsOf(T)'
    BY <1>1, <1>3, <1>4, <1>11, TableRests DEF RecordsBase
  <1> QED  BY <1>1, <1>3, <1>4, <1>10, <1>12 DEF RecordsInv, Records!AnswerIsThePage

\* Passing a window over moves the offset by its total.
LEMMA RecordsPassStep ==
  ASSUME RecordsInv, Records!Pass
  PROVE  RecordsInv'
  <1> DEFINE w == position.window
  <1>1. RecordsBase /\ Records!TypeOK /\ rows \in Seq(Records!Record) /\ w \in Nat \ {0} /\ position.offset \in Nat
        /\ heads \in Seq(Nat) /\ Len(rows) \in Nat
    BY RecordsFacts DEF RecordsInv, RecordsBase
  <1>2. /\ stage = "slices" /\ w <= Len(heads) /\ remaining > 0 /\ position.offset >= heads[w]
        /\ position' = [window |-> w + 1, offset |-> position.offset - heads[w]]
        /\ UNCHANGED <<table, query, begun, heads, rows, remaining, stage, added>>
    BY DEF Records!Pass
  <1>3. PICK T \in Tables : HeadsOf(T) /\ Gathered(T)
    BY <1>2 DEF RecordsInv
  <1>4. query.days \in Nat \ {0} /\ IsTable(T)
    BY <1>1, RecordsFacts, TablesAreTables
  <1>5. w \in 1 .. Len(Records!Windows) /\ w \in 1 .. Len(heads)
    BY <1>1, <1>2, <1>3 DEF Gathered
  <1>6. Later(T, LastDay(w)) \in Nat /\ Later(T, LastDay(w + 1)) \in Nat
        /\ heads[w] = Later(T, LastDay(w + 1)) - Later(T, LastDay(w))
    <2>1. Later(T, LastDay(w)) \in 0 .. Len(T) /\ Later(T, LastDay(w + 1)) \in 0 .. Len(T)
      BY <1>4, <1>5, WindowIsARun
    <2> QED  BY <2>1, <1>3, <1>5 DEF HeadsOf
  <1>7. position'.window = w + 1 /\ position'.offset = position.offset - heads[w] /\ position'.offset \in Nat
    BY <1>1, <1>2, <1>5
  <1>8. Gathered(T)'
    <2>1. RowsBefore' = RowsBefore /\ Records!Windows' = Records!Windows /\ RowsWanted(T)' = RowsWanted(T)
          /\ \A v : LastDay(v)' = LastDay(v)
      BY <1>2, QueryRests
    <2>2. Later(T, LastDay(w + 1)) + position'.offset = Later(T, LastDay(w)) + position.offset
      BY <1>1, <1>6, <1>7
    <2>3. Len(Records!Windows) \in Nat
      BY <1>4, WindowsMeet
    <2>4. position'.window <= Len(Records!Windows) + 1
      BY <1>5, <1>7, <2>3
    <2> HIDE DEF w
    <2>5. Later(T, LastDay(position'.window)) + position'.offset = RowsBefore + Len(rows)
      <3>1. Later(T, LastDay(position.window)) + position.offset = RowsBefore + Len(rows)
        BY <1>2, <1>3 DEF Gathered
      <3> QED  BY <3>1, <2>2, <1>7 DEF w
    <2> QED  BY <2>1, <2>4, <2>5, <1>2, <1>3 DEF Gathered
  <1>9. Records!TypeOK'
    <2>1. position' \in [window : Nat \ {0}, offset : Nat]
      BY <1>1, <1>2, <1>7
    <2> QED  BY <2>1, <1>1, <1>2 DEF Records!TypeOK
  <1>10. RecordsBase' /\ Tables' = Tables /\ HeadsOf(T)'
    BY <1>1, <1>2, <1>3, <1>9, TableRests DEF RecordsBase
  <1> QED  BY <1>2, <1>3, <1>8, <1>10 DEF RecordsInv, Records!AnswerIsThePage

\* A page that is not as its head said ends the query.
LEMMA RecordsChangedStep ==
  ASSUME RecordsInv, Records!Changed
  PROVE  RecordsInv'
  <1>1. stage' = "changed" /\ UNCHANGED <<table, query, begun, heads, rows, position, remaining, added>>
    BY DEF Records!Changed
  <1>2. Records!TypeOK'
    BY <1>1 DEF RecordsInv, RecordsBase, Records!TypeOK, Records!Stages
  <1>3. RecordsBase'
    BY <1>1, <1>2, TableRests DEF RecordsInv, RecordsBase
  <1> QED  BY <1>1, <1>3 DEF RecordsInv, Records!AnswerIsThePage

\* The bounds of a slice.
LEMMA SliceInBounds ==
  ASSUME NEW total \in Nat, NEW size \in Nat \ {0}, NEW skip \in Nat, NEW within \in Nat, within < size,
         skip + within < total, NEW wanted \in Nat \ {0},
         NEW last, last = IF skip + size < total THEN skip + size ELSE total,
         NEW end, end = IF total < skip + within + wanted THEN total ELSE skip + within + wanted,
         NEW count,
         count = IF end - (skip + within) < last - skip - within THEN end - (skip + within) ELSE last - skip - within
  PROVE  /\ last \in Nat /\ last <= total /\ skip < last
         /\ count \in Nat \ {0} /\ end \in Nat /\ skip + within + count <= end /\ end <= total
         /\ end <= skip + within + wanted /\ (end = total \/ end = skip + within + wanted)
         /\ skip + within + count <= last
  OBVIOUS

\* The length of a run.
LEMMA LengthOfARun ==
  ASSUME NEW S, NEW s \in Seq(S), NEW skip \in Nat, NEW last \in 0 .. Len(s), skip <= last
  PROVE  SubSeq(s, skip + 1, last) \in Seq(S) /\ Len(SubSeq(s, skip + 1, last)) = last - skip
  <1> DEFINE i == skip + 1
  <1>1. i \in Int /\ last \in Int /\ \A k \in i .. last : s[k] \in S
    OBVIOUS
  <1>2. (IF i <= last THEN last - i + 1 ELSE 0) = last - skip
    OBVIOUS
  <1> HIDE DEF i
  <1>3. SubSeq(s, i, last) \in Seq(S) /\ Len(SubSeq(s, i, last)) = last - skip
    BY <1>1, <1>2, SubSeqProperties
  <1> QED  BY <1>3 DEF i

\* The part of a page that a slice takes is the part of the listing it wants.
LEMMA SliceOfAListing ==
  ASSUME NEW S, NEW listing \in Seq(S), NEW size \in Nat \ {0}, NEW offset \in Nat, offset < Len(listing),
         NEW wanted \in Nat \ {0}
  PROVE  LET got == Records!PageOf(listing, offset \div size + 1, size)
             within == offset % size
             end == IF Len(listing) < offset + wanted THEN Len(listing) ELSE offset + wanted
             count == IF end - offset < Len(got) - within THEN end - offset ELSE Len(got) - within IN
         /\ count \in Nat \ {0} /\ offset + count <= end /\ end <= Len(listing) /\ end <= offset + wanted
         /\ end = Len(listing) \/ end = offset + wanted
         /\ SubSeq(got, within + 1, within + count) = SubSeq(listing, offset + 1, offset + count)
  <1> DEFINE within == offset % size
             page == offset \div size + 1
             got == Records!PageOf(listing, page, size)
             skip == (page - 1) * size
             total == Len(listing)
             last == IF skip + size < total THEN skip + size ELSE total
             end == IF total < offset + wanted THEN total ELSE offset + wanted
             count == IF end - offset < Len(got) - within THEN end - offset ELSE Len(got) - within
  <1>1. /\ page \in Nat \ {0} /\ skip \in Nat /\ within \in Nat /\ within < size /\ offset = skip + within
        /\ total \in Nat
    OBVIOUS
  <1>2. got = Records!PageOf(listing, page, size) /\ total = Len(listing)
    OBVIOUS
  <1> HIDE DEF page, within, total, got
  <1>3. got = SubSeq(listing, skip + 1, last)
    BY <1>1, <1>2, PageOfAListing
  <1> HIDE DEF skip
  <1>4. last \in Nat /\ last <= total /\ skip < last
    BY <1>1, <1>2
  <1>5. Len(got) = last - skip
    <2> HIDE DEF last
    <2>1. last \in 0 .. Len(listing) /\ skip <= last
      BY <1>1, <1>2, <1>4
    <2> QED  BY <1>1, <1>3, <2>1, LengthOfARun
  <1>6. /\ count \in Nat \ {0} /\ end \in Nat /\ skip + within + count <= end /\ end <= total
        /\ end <= skip + within + wanted /\ (end = total \/ end = skip + within + wanted)
        /\ skip + within + count <= last
    <2>1. skip + within < total
      BY <1>1, <1>2
    <2>2. end = IF total < skip + within + wanted THEN total ELSE skip + within + wanted
      BY <1>1
    <2>3. count = IF end - (skip + within) < last - skip - within THEN end - (skip + within) ELSE last - skip - within
      BY <1>1, <1>5
    <2>4. last = IF skip + size < total THEN skip + size ELSE total
      OBVIOUS
    <2> HIDE DEF last, end, count
    <2> QED  BY <2>1, <2>2, <2>3, <2>4, <1>1, SliceInBounds
  <1> HIDE DEF last, end, count
  <1>7. SubSeq(got, within + 1, within + count) = SubSeq(listing, offset + 1, offset + count)
    <2> DEFINE i == skip + 1
               m == within + 1
               n == within + count
    <2>1. i \in Nat \ {0} /\ last \in 0 .. Len(listing) /\ m \in Nat \ {0} /\ n \in Nat /\ i + n - 1 <= last
      BY <1>1, <1>2, <1>4, <1>6
    <2>2. i + m - 1 = offset + 1 /\ i + n - 1 = offset + count
      BY <1>1, <1>6
    <2> HIDE DEF i, m, n
    <2>3. SubSeq(SubSeq(listing, i, last), m, n) = SubSeq(listing, i + m - 1, i + n - 1)
      BY <2>1, RunOfARun
    <2>4. SubSeq(got, m, n) = SubSeq(listing, offset + 1, offset + count)
      BY <2>2, <2>3, <1>3 DEF i
    <2> QED  BY <2>4 DEF m, n
  <1>8. offset + count <= end /\ end <= offset + wanted /\ (end = total \/ end = offset + wanted)
    BY <1>1, <1>6
  <1> QED  BY <1>2, <1>6, <1>7, <1>8 DEF within, end, count, total, got, page

\* A slice is added to the rows gathered, and is the next part of the table.
LEMMA RecordsSliceGathers ==
  ASSUME RecordsInv, Records!Slice, ~Records!Changed
  PROVE  RecordsInv'
  <1> DEFINE w == position.window
             offset == position.offset
             listing == Records!Listing(table, Records!Windows[w])
             total == heads[w]
             got == Records!PageOf(listing, offset \div PageRows + 1, PageRows)
             within == offset % PageRows
             end == IF total < offset + remaining THEN total ELSE offset + remaining
             count == IF end - offset < Len(got) - within THEN end - offset ELSE Len(got) - within
             had == Len(rows)
  <1>1. stage = "slices" /\ w <= Len(heads) /\ remaining > 0 /\ offset < total
    BY Zenon DEF Records!Slice
  <1>2. /\ Len(listing) = total /\ rows' = rows \o SubSeq(got, within + 1, within + count)
        /\ remaining' = remaining - count
        /\ UNCHANGED <<table, query, begun, heads, stage, added>>
    BY Zenon DEF Records!Slice, Records!PageChecked
  <1>3. position' = IF offset + count = end THEN [window |-> w + 1, offset |-> 0]
                    ELSE [position EXCEPT !.offset = offset + count]
    BY Zenon DEF Records!Slice
  <1>4. RecordsBase /\ Records!TypeOK /\ IsTable(table) /\ Grown /\ query.days \in Nat \ {0}
    BY RecordsFacts DEF RecordsInv, RecordsBase
  <1>5. /\ rows \in Seq(Records!Record) /\ had \in Nat /\ remaining \in Nat /\ w \in Nat \ {0} /\ offset \in Nat
        /\ PageRows \in Nat \ {0} /\ Len(heads) \in Nat
        /\ position \in [window : Nat \ {0}, offset : Nat]
    <2>1. /\ rows \in Seq(Records!Record) /\ heads \in Seq(Nat) /\ remaining \in Nat /\ PageRows \in Nat \ {0}
          /\ w \in Nat \ {0} /\ offset \in Nat
      BY <1>4, RecordsFacts
    <2>2. position \in [window : Nat \ {0}, offset : Nat]
      BY <1>4 DEF Records!TypeOK
    <2> QED  BY <2>1, <2>2
  <1>6. RowsBefore \in Nat /\ Len(Records!Windows) \in Nat
    <2>1. query.page \in Nat \ {0} /\ Wanted \in Nat
      BY <1>4, RecordsFacts
    <2>2. RowsBefore \in Nat
      BY <2>1 DEF RowsBefore
    <2> QED  BY <2>2, <1>4, WindowsMeet
  <1>7. PICK T \in Tables : HeadsOf(T) /\ Gathered(T)
    BY <1>1 DEF RecordsInv
  <1> DEFINE a == Later(T, LastDay(w))
             b == Later(T, LastDay(w + 1))
  <1>8. /\ remaining = RowsWanted(T) - had /\ (rows # <<>> => RowsBefore + had <= Len(T))
        /\ rows = SubSeq(T, RowsBefore + 1, RowsBefore + had) /\ a + offset = RowsBefore + had
        /\ Len(heads) = Len(Records!Windows) /\ HeadsOf(T)
    BY <1>1, <1>7 DEF Gathered
  <1>9. w \in 1 .. Len(heads) /\ w \in 1 .. Len(Records!Windows)
    <2> HIDE DEF w
    <2> QED  BY <1>1, <1>5, <1>8
  <1>10. IsTable(T) /\ T \in Seq(Records!Record) /\ Len(T) \in Nat
    BY <1>4, TablesAreTables, RowsOfATable DEF IsTable
  <1>11. a \in 0 .. Len(T) /\ b \in 0 .. Len(T) /\ a <= b
    <2> HIDE DEF w
    <2> QED  BY <1>4, <1>9, <1>10, WindowIsARun
  <1>12. total = b - a
    BY <1>8, <1>9 DEF HeadsOf
  <1>13. listing = SubSeq(T, a + 1, b)
    <2>1. Len(listing) = b - a
      BY <1>2, <1>12
    <2>2. PICK n \in 0 .. added : T = Older(n)
      BY DEF Tables
    <2> HIDE DEF w
    <2> QED  BY <2>1, <2>2, <1>4, <1>9, CheckedListing
  <1>14. listing \in Seq(Records!Record)
    <2> HIDE DEF w
    <2> QED  BY <1>4, <1>9, LengthOfAListing
  <1> HIDE DEF listing, a, b
  <1>15. /\ count \in Nat \ {0} /\ offset + count <= end /\ end <= total /\ end <= offset + remaining
         /\ end = total \/ end = offset + remaining
         /\ SubSeq(got, within + 1, within + count) = SubSeq(listing, offset + 1, offset + count)
    <2> HIDE DEF offset
    <2>1. remaining \in Nat \ {0} /\ offset < Len(listing)
      BY <1>1, <1>2, <1>5
    <2>2. Len(listing) = total
      BY <1>2
    <2> DEFINE last == IF Len(listing) < offset + remaining THEN Len(listing) ELSE offset + remaining
               taken == IF last - offset < Len(got) - within THEN last - offset ELSE Len(got) - within
    <2>3. /\ taken \in Nat \ {0} /\ offset + taken <= last /\ last <= Len(listing) /\ last <= offset + remaining
          /\ last = Len(listing) \/ last = offset + remaining
          /\ SubSeq(got, within + 1, within + taken) = SubSeq(listing, offset + 1, offset + taken)
      BY <2>1, <1>5, <1>14, SliceOfAListing, Zenon
    <2>4. last = end /\ taken = count
      BY <2>2, Zenon
    <2> HIDE DEF last, taken, end, count
    <2> QED  BY <2>2, <2>3, <2>4
  <1> HIDE DEF got, count, end, within, total, had, w, offset
  <1>16. end \in Nat /\ total \in Nat
    <2>1. total \in Nat
      BY <1>11, <1>12
    <2> QED  BY <2>1, <1>5 DEF end
  <1>17. SubSeq(listing, offset + 1, offset + count) = SubSeq(T, (RowsBefore + had) + 1, (RowsBefore + had) + count)
    <2> DEFINE i == a + 1
               m == offset + 1
               k == offset + count
    <2>1. i \in Nat \ {0} /\ b \in 0 .. Len(T) /\ m \in Nat \ {0} /\ k \in Nat /\ i + k - 1 <= b
      BY <1>5, <1>10, <1>11, <1>12, <1>15, <1>16
    <2>2. i + m - 1 = (RowsBefore + had) + 1 /\ i + k - 1 = (RowsBefore + had) + count
      BY <1>5, <1>6, <1>8, <1>10, <1>11, <1>15
    <2> HIDE DEF i, m, k
    <2>3. SubSeq(SubSeq(T, i, b), m, k) = SubSeq(T, i + m - 1, i + k - 1)
      BY <2>1, <1>10, RunOfARun
    <2>4. SubSeq(listing, m, k) = SubSeq(T, (RowsBefore + had) + 1, (RowsBefore + had) + count)
      BY <2>2, <2>3, <1>13 DEF i
    <2> QED  BY <2>4 DEF m, k
  <1>18. /\ rows' = SubSeq(T, RowsBefore + 1, RowsBefore + Len(rows')) /\ RowsBefore + Len(rows') <= Len(T)
         /\ Len(rows') = had + count /\ rows' \in Seq(Records!Record)
    <2> DEFINE k == RowsBefore + had
               j == k + count
    <2>1. k \in Nat /\ j \in Nat /\ k <= j /\ j <= Len(T) /\ j - RowsBefore = had + count /\ RowsBefore <= k
      BY <1>5, <1>6, <1>8, <1>10, <1>11, <1>12, <1>15, <1>16
    <2>2. rows' = SubSeq(T, RowsBefore + 1, k) \o SubSeq(T, k + 1, j)
      BY <1>2, <1>8, <1>15, <1>17
    <2> HIDE DEF k, j
    <2>3. RowsBefore + 1 \in 1 .. Len(T) + 1 /\ k \in (RowsBefore + 1) - 1 .. Len(T) /\ j \in k .. Len(T)
          /\ j \in 0 .. Len(T) /\ RowsBefore <= j
      BY <2>1, <1>6, <1>10
    <2>4. rows' = SubSeq(T, RowsBefore + 1, j)
      BY <2>2, <2>3, <1>10, ConcatAdjacentSubSeq
    <2>5. rows' \in Seq(Records!Record) /\ Len(rows') = j - RowsBefore
      BY <2>3, <2>4, <1>6, <1>10, LengthOfARun
    <2>6. RowsBefore + Len(rows') = j
      BY <2>1, <2>5, <1>6
    <2> QED  BY <2>1, <2>4, <2>5, <2>6
  <1>19. position'.window \in Nat \ {0} /\ position'.window <= Len(Records!Windows) + 1
         /\ position' \in [window : Nat \ {0}, offset : Nat]
         /\ IF offset + count = end THEN position'.window = w + 1 /\ position'.offset = 0
            ELSE position'.window = w /\ position'.offset = offset + count
    <2>1. w + 1 \in Nat \ {0} /\ w <= Len(Records!Windows) /\ offset + count \in Nat
          /\ w + 1 <= Len(Records!Windows) + 1
          /\ w \in Nat \ {0} /\ w <= Len(Records!Windows) + 1
      BY <1>5, <1>6, <1>9, <1>15
    <2>2. CASE offset + count = end
      <3>1. position' = [window |-> w + 1, offset |-> 0]
        BY <2>2, <1>3
      <3> QED  BY <2>1, <2>2, <3>1
    <2>3. CASE offset + count # end
      <3>1. position' = [position EXCEPT !.offset = offset + count]
        BY <2>3, <1>3
      <3>2. position'.window = w /\ position'.offset = offset + count
            /\ position' \in [window : Nat \ {0}, offset : Nat]
        BY <2>1, <3>1, <1>5 DEF w
      <3> QED  BY <2>1, <2>3, <3>2
    <2> QED  BY <2>2, <2>3
  <1>20. remaining' > 0 => Later(T, LastDay(position'.window)) + position'.offset = RowsBefore + Len(rows')
    <2> SUFFICES ASSUME remaining' > 0
                 PROVE  Later(T, LastDay(position'.window)) + position'.offset = RowsBefore + Len(rows')
      OBVIOUS
    <2>1. RowsBefore + Len(rows') = a + offset + count
      BY <1>5, <1>6, <1>8, <1>11, <1>10, <1>15, <1>18
    <2>2. CASE offset + count = end
      <3>1. position'.window = w + 1 /\ position'.offset = 0
        BY <2>2, <1>19
      <3>2. end # offset + remaining
        BY <2>2, <1>2, <1>5, <1>15
      <3>3. end = b - a
        BY <3>2, <1>12, <1>15
      <3>4. a \in Int /\ b \in Int /\ offset \in Int /\ count \in Int
        BY <1>5, <1>10, <1>11, <1>15
      <3>5. RowsBefore + Len(rows') = b + 0
        BY <2>1, <2>2, <3>3, <3>4
      <3> QED  BY <3>1, <3>5 DEF b
    <2>3. CASE offset + count # end
      <3>1. position'.window = w /\ position'.offset = offset + count
        BY <2>3, <1>19
      <3>2. RowsBefore + Len(rows') = a + (offset + count)
        BY <2>1, <1>5, <1>10, <1>11, <1>15
      <3> QED  BY <3>1, <3>2 DEF a
    <2> QED  BY <2>2, <2>3
  <1>21. remaining' = RowsWanted(T) - Len(rows') /\ remaining' \in 0 .. MaxRecords + MaxAdded + Wanted
    <2>1. remaining <= MaxRecords + MaxAdded + Wanted /\ MaxRecords + MaxAdded + Wanted \in Nat
      <3>1. remaining \in 0 .. MaxRecords + MaxAdded + Wanted
        BY <1>4 DEF Records!TypeOK
      <3>2. MaxRecords \in Nat /\ MaxAdded \in Nat /\ Wanted \in Nat
        BY <1>4, RecordsFacts
      <3> QED  BY <3>1, <3>2
    <2>2. count <= remaining
      BY <1>5, <1>15, <1>16
    <2>3. RowsWanted(T) = remaining + had
      <3>1. RowsWanted(T) \in Nat
        BY <1>4, <1>10, RecordsFacts DEF RowsWanted
      <3> QED  BY <3>1, <1>5, <1>8
    <2>4. count \in Nat /\ remaining' = remaining - count /\ Len(rows') = had + count /\ had \in Nat
          /\ remaining \in Nat
      BY <1>2, <1>5, <1>15, <1>18
    <2> QED  BY <2>1, <2>2, <2>3, <2>4
  <1>22. Gathered(T)'
    <2>1. RowsBefore' = RowsBefore /\ Records!Windows' = Records!Windows /\ RowsWanted(T)' = RowsWanted(T)
          /\ \A v : LastDay(v)' = LastDay(v)
      <3>1. query' = query
        BY <1>2
      <3> QED  BY <3>1, QueryRests
    <2>2. Len(heads') = Len(Records!Windows)
      BY <1>2, <1>8
    <2> QED  BY <2>1, <2>2, <1>18, <1>19, <1>20, <1>21 DEF Gathered
  <1>23. Records!TypeOK'
    BY <1>2, <1>4, <1>18, <1>19, <1>21 DEF Records!TypeOK
  <1>24. RecordsBase' /\ Tables' = Tables /\ HeadsOf(T)'
    <2>1. table' = table /\ query' = query /\ added' = added /\ heads' = heads
      BY <1>2
    <2> QED  BY <2>1, <1>4, <1>8, <1>23, TableRests DEF RecordsBase
  <1>25. stage' = "slices" /\ query'.dated /\ \E U \in Tables' : HeadsOf(U)' /\ Gathered(U)'
    <2>1. stage' = "slices" /\ query' = query
      BY <1>1, <1>2
    <2>2. query.dated
      BY <1>1 DEF RecordsInv
    <2> QED  BY <2>1, <2>2, <1>7, <1>22, <1>24
  <1> QED  BY <1>24, <1>25 DEF RecordsInv, Records!AnswerIsThePage

\* A slice of a window.
LEMMA RecordsSliceStep ==
  ASSUME RecordsInv, Records!Slice
  PROVE  RecordsInv'
  BY RecordsChangedStep, RecordsSliceGathers, Zenon

\* Of a table without dates, the pages read are the beginning of the table, as long as nothing is added to it.
LEMMA PagesOfTheTable ==
  ASSUME RecordsInv, stage = "pages", query.all, added = 0
  PROVE  LET page == position.offset + 1
             got == Records!PageOf(table, page, PageRows)
             total == IF page = 1 THEN Len(table) ELSE remaining
             all == rows \o got IN
         /\ total = Len(table) /\ Len(all) <= total /\ all = SubSeq(table, 1, Len(all))
         /\ page * PageRows >= total => all = table
         /\ Len(all) >= total => all = table
         /\ page * PageRows < total => Len(all) = page * PageRows
  <1> DEFINE page == position.offset + 1
             got == Records!PageOf(table, page, PageRows)
             total == IF page = 1 THEN Len(table) ELSE remaining
             all == rows \o got
             skip == (page - 1) * PageRows
             length == Len(table)
             last == IF skip + PageRows < length THEN skip + PageRows ELSE length
  <1>1. RecordsBase /\ Records!TypeOK /\ Paged /\ position.offset \in Nat /\ PageRows \in Nat \ {0}
        /\ table \in Seq(Records!Record)
        /\ rows \in Seq(Records!Record)
    BY RecordsFacts DEF RecordsInv, RecordsBase
  <1>2. page \in Nat \ {0} /\ skip \in Nat /\ length \in Nat /\ skip = position.offset * PageRows
    BY <1>1
  <1>3. total = length /\ Len(rows) = skip /\ skip <= length
    <2>1. CASE position.offset = 0
      <3>1. page = 1 /\ skip = 0 /\ rows = <<>>
        BY <2>1, <1>1, <1>2 DEF Paged
      <3> QED  BY <3>1, <1>2
    <2>2. CASE position.offset # 0
      <3>1. remaining = length /\ Len(rows) = position.offset * PageRows /\ Len(rows) < length /\ page # 1
        BY <2>2, <1>1 DEF Paged
      <3> QED  BY <3>1, <1>2
    <2> QED  BY <2>1, <2>2
  <1>4. rows = SubSeq(table, 1, skip)
    BY <1>1, <1>3 DEF Paged
  <1>5. /\ page * PageRows = skip + PageRows /\ got = SubSeq(table, skip + 1, last)
    <2> HIDE DEF page
    <2> QED  BY <1>1, <1>2, PageOfAListing
  <1>6. last \in Nat /\ skip <= last /\ last <= length
    <2> HIDE DEF skip, length
    <2> QED  BY <1>1, <1>2, <1>3
  <1>7. last < length => last = skip + PageRows
    OBVIOUS
  <1>8. skip + PageRows < length => last = skip + PageRows
    OBVIOUS
  <1> HIDE DEF last, skip, page, got, total
  <1>9. all = SubSeq(table, 1, last)
    <2>1. 1 \in 1 .. Len(table) + 1 /\ skip \in 1 - 1 .. Len(table) /\ last \in skip .. Len(table)
      BY <1>2, <1>3, <1>6
    <2>2. SubSeq(table, 1, skip) \o SubSeq(table, skip + 1, last) = SubSeq(table, 1, last)
      BY <2>1, <1>1, ConcatAdjacentSubSeq
    <2> QED  BY <2>2, <1>4, <1>5
  <1> HIDE DEF all
  <1>10. Len(all) = last
    <2>1. 0 \in Nat /\ last \in 0 .. Len(table) /\ 0 <= last
      BY <1>6
    <2>2. Len(SubSeq(table, 0 + 1, last)) = last - 0
      BY <2>1, <1>1, LengthOfARun
    <2> QED  BY <2>2, <1>6, <1>9
  <1>11. last >= length => all = table
    <2>1. last >= length => last = Len(table)
      BY <1>2, <1>6
    <2> QED  BY <2>1, <1>1, <1>9, SubSeqFull
  <1>12. skip + PageRows >= length => last >= length
    BY <1>1, <1>2, <1>6, <1>7
  <1> HIDE DEF length
  <1>13. length = Len(table)
    BY DEF length
  <1> QED  BY <1>1, <1>2, <1>3, <1>5, <1>6, <1>8, <1>9, <1>10, <1>11, <1>12, <1>13 DEF all, got, total, page

\* A page of a table without dates, when everything is asked for.
LEMMA RecordsPagesStep ==
  ASSUME RecordsInv, Records!Pages
  PROVE  RecordsInv'
  <1> DEFINE page == position.offset + 1
             got == Records!PageOf(table, page, PageRows)
             total == IF page = 1 THEN Len(table) ELSE remaining
             all == rows \o got
             last == page * PageRows >= total \/ Len(all) >= total
  <1>1. /\ stage = "pages" /\ query.all
        /\ heads' = heads /\ remaining' = total /\ position' = [position EXCEPT !.offset = page]
        /\ stage' \in {"tooMany", "changed", "done", "pages"}
        /\ (stage' = "done" => last) /\ (stage' = "pages" => ~last)
        /\ rows' = (IF Len(all) > total THEN SubSeq(all, 1, total) ELSE all)
        /\ UNCHANGED <<table, query, begun, added>>
    BY DEF Records!Pages
  <1>2. /\ RecordsBase /\ Records!TypeOK /\ table \in Seq(Records!Record) /\ rows \in Seq(Records!Record)
           /\ position.offset \in Nat
        /\ PageRows \in Nat \ {0} /\ ~query.dated /\ position \in [window : Nat \ {0}, offset : Nat]
        /\ remaining \in 0 .. MaxRecords + MaxAdded + Wanted
    BY <1>1, RecordsFacts DEF RecordsInv, RecordsBase, Records!TypeOK
  <1>3. page \in Nat \ {0} /\ got \in Seq(Records!Record)
    <2>1. page \in Nat \ {0}
      BY <1>2
    <2> HIDE DEF page
    <2> QED  BY <2>1, <1>2, PageOfAListing
  <1>4. total \in 0 .. MaxRecords + MaxAdded + Wanted
    <2>1. /\ Len(table) <= MaxRecords + added /\ added <= MaxAdded /\ added \in Nat /\ MaxRecords \in Nat
             /\ MaxAdded \in Nat
          /\ Wanted \in Nat
      BY <1>2, RecordsFacts DEF RecordsBase
    <2>2. Len(table) \in Nat
      BY <1>2
    <2> QED  BY <2>1, <2>2, <1>2
  <1> HIDE DEF page, got, total
  <1>5. rows' \in Seq(Records!Record)
    <2>1. all \in Seq(Records!Record) /\ total \in Nat
      BY <1>2, <1>3, <1>4
    <2> HIDE DEF all
    <2>2. CASE Len(all) > total
      <3>1. 0 \in Nat /\ total \in 0 .. Len(all) /\ 0 <= total
        BY <2>1, <2>2
      <3>2. SubSeq(all, 0 + 1, total) \in Seq(Records!Record)
        BY <2>1, <3>1, LengthOfARun
      <3> QED  BY <2>2, <3>2, <1>1
    <2>3. CASE ~(Len(all) > total)
      BY <2>1, <2>3, <1>1
    <2> QED  BY <2>2, <2>3
  <1>6. position' \in [window : Nat \ {0}, offset : Nat] /\ position'.offset = page
    BY <1>1, <1>2, <1>3
  <1>7. Records!TypeOK'
    <2>1. stage' \in Records!Stages
      BY <1>1 DEF Records!Stages
    <2> QED  BY <2>1, <1>1, <1>2, <1>4, <1>5, <1>6 DEF Records!TypeOK
  <1>8. RecordsBase' /\ Tables' = Tables
    <2>1. table' = table /\ query' = query /\ added' = added
      BY <1>1
    <2> QED  BY <2>1, <1>2, <1>7, TableRests DEF RecordsBase
  <1>9. added = 0 => /\ rows' = all /\ total = Len(table) /\ all = SubSeq(table, 1, Len(all))
                     /\ (last => all = table)
                     /\ (~last => Len(all) = page * PageRows /\ Len(all) < total)
    <2> SUFFICES ASSUME added = 0
                 PROVE  /\ rows' = all /\ total = Len(table) /\ all = SubSeq(table, 1, Len(all))
                        /\ (last => all = table)
                        /\ (~last => Len(all) = page * PageRows /\ Len(all) < total)
      OBVIOUS
    <2>1. /\ total = Len(table) /\ Len(all) <= total /\ all = SubSeq(table, 1, Len(all))
          /\ page * PageRows >= total => all = table
          /\ Len(all) >= total => all = table
          /\ page * PageRows < total => Len(all) = page * PageRows
      BY <1>1, PagesOfTheTable, Zenon DEF page, got, total
    <2>2. Len(all) \in Nat /\ total \in Nat /\ page * PageRows \in Nat
      <3>1. page * PageRows \in Nat
        BY <1>2, <1>3
      <3> QED  BY <3>1, <1>2, <1>3, <1>4
    <2>3. last => all = table
      BY <2>1
    <2> DEFINE length == Len(all)
               rowsOf == page * PageRows
    <2>4. /\ length <= total /\ (rowsOf < total => length = rowsOf) /\ length \in Nat /\ rowsOf \in Nat
             /\ total \in Nat
          /\ (last <=> rowsOf >= total \/ length >= total)
      BY <2>1, <2>2
    <2> HIDE DEF length, rowsOf, last
    <2>5. ~last => length = rowsOf /\ length < total
      BY <2>4
    <2>6. ~(length > total)
      BY <2>4
    <2>7. rows' = all
      BY <2>6, <1>1 DEF length
    <2> QED  BY <2>1, <2>3, <2>5, <2>7 DEF length, rowsOf
  <1> HIDE DEF all, last
  <1>10. stage' = "pages" /\ added = 0 => Paged'
    <2> SUFFICES ASSUME stage' = "pages", added = 0 PROVE Paged'
      OBVIOUS
    <2>1. position'.offset = page /\ page # 0 /\ remaining' = Len(table') /\ rows' = all /\ table' = table
      BY <1>1, <1>3, <1>6, <1>9
    <2>2. all = SubSeq(table, 1, Len(all)) /\ Len(all) = page * PageRows /\ Len(all) < Len(table)
      BY <1>1, <1>9
    <2> QED  BY <2>1, <2>2 DEF Paged
  <1>11. stage' = "done" /\ added = 0 => rows' = Records!Expected(table)'
    BY <1>1, <1>9 DEF Records!Expected
  <1>12. Records!AnswerIsThePage'
    <2> SUFFICES ASSUME stage' = "done", added = 0
                 PROVE  (\E n \in 0 .. added : rows = Records!Expected(SubSeq(table, n + 1, Len(table))))'
      BY <1>1, <1>2 DEF Records!AnswerIsThePage
    <2>1. SubSeq(table', 0 + 1, Len(table')) = table'
      BY <1>1, <1>2, SubSeqFull
    <2>2. rows' = Records!Expected(SubSeq(table, 0 + 1, Len(table)))'
      BY <2>1, <1>11 DEF Records!Expected
    <2>3. 0 \in 0 .. added'
      BY <1>1
    <2> QED  BY <2>2, <2>3
  <1> QED  BY <1>1, <1>2, <1>8, <1>10, <1>12 DEF RecordsInv

\* What falls from each place to the next falls over any distance.
LEMMA FallingOverAll ==
  ASSUME NEW n \in Nat, NEW ds \in [1 .. n -> Nat], \A i \in 2 .. n : ds[i] <= ds[i - 1],
         NEW i \in 1 .. n, NEW j \in 1 .. n, i <= j
  PROVE  ds[j] <= ds[i]
  <1> DEFINE Falls == {k \in 0 .. n - i : ds[i + k] <= ds[i]}
  <1>1. 0 \in Falls
    OBVIOUS
  <1>2. ASSUME NEW k \in 0 .. (n - i) - 1, k \in Falls PROVE k + 1 \in Falls
    <2>1. i + (k + 1) \in 2 .. n /\ (i + (k + 1)) - 1 = i + k /\ k + 1 \in 0 .. n - i /\ i + k \in 1 .. n
      OBVIOUS
    <2>2. ds[i + (k + 1)] <= ds[i + k]
      BY <2>1
    <2>3. ds[i + k] <= ds[i] /\ ds[i + k] \in Nat /\ ds[i] \in Nat /\ ds[i + (k + 1)] \in Nat
      BY <2>1, <1>2
    <2> QED  BY <2>1, <2>2, <2>3
  <1>3. 0 .. n - i \subseteq Falls
    <2>1. n - i \in Nat
      OBVIOUS
    <2> HIDE DEF Falls
    <2> QED  BY <2>1, <1>1, <1>2, SetInduction
  <1>4. j - i \in 0 .. n - i /\ i + (j - i) = j
    OBVIOUS
  <1>5. ds[i + (j - i)] <= ds[i]
    BY <1>3, <1>4
  <1> QED  BY <1>4, <1>5

\* A number of records has no more pages than records.
LEMMA PagesOfRecords ==
  ASSUME NEW records \in Nat \ {0}, NEW size \in Nat \ {0}
  PROVE  (records + size - 1) \div size <= records
  <1> DEFINE q == (records + size - 1) \div size
  <1>1. q \in Nat /\ q * size <= records + size - 1
    OBVIOUS
  <1> HIDE DEF q
  <1>2. SUFFICES ASSUME q >= records + 1 PROVE FALSE
    BY <1>1 DEF q
  <1>3. q * size >= (records + 1) * size
    BY <1>1, <1>2
  <1>4. (records + 1) * size = records * size + size
    OBVIOUS
  <1>5. records * size >= records
    OBVIOUS
  <1>6. records * size \in Nat /\ q * size \in Nat
    BY <1>1
  <1> QED  BY <1>1, <1>3, <1>4, <1>5, <1>6

\* The query begins.
LEMMA RecordsInit ==
  ASSUME Records!Init
  PROVE  RecordsInv
  <1>1. /\ query \in [days : {WindowDays, Period}, dated : BOOLEAN, all : BOOLEAN,
                      page : 1 .. (MaxRecords + Wanted - 1) \div Wanted]
        /\ begun = table /\ heads = <<>> /\ rows = <<>> /\ position = [window |-> 1, offset |-> 0]
        /\ remaining = 0 /\ added = 0
        /\ stage = IF query.dated THEN "heads" ELSE "pages"
    BY DEF Records!Init
  <1>2. /\ Period \in Nat \ {0} /\ WindowDays \in Nat \ {0} /\ Wanted \in Nat \ {0} /\ MaxRecords \in Nat \ {0}
        /\ MaxAdded \in Nat /\ WindowDays <= Period
    BY RecordsAssumption
  <1>3. query \in [days : {WindowDays, Period}, dated : BOOLEAN, all : BOOLEAN, page : 1 .. MaxRecords]
    <2>1. (MaxRecords + Wanted - 1) \div Wanted <= MaxRecords
      BY <1>2, PagesOfRecords
    <2> DEFINE last == (MaxRecords + Wanted - 1) \div Wanted
    <2>2. last \in Int
      BY <1>2
    <2> HIDE DEF last
    <2>3. 1 .. last \subseteq 1 .. MaxRecords
      BY <2>1, <2>2, <1>2 DEF last
    <2> QED  BY <2>3, <1>1 DEF last
  <1>4. query.days \in Nat \ {0} /\ query.days <= Period
    BY <1>2, <1>3
  <1>5. PICK n \in 0 .. MaxRecords : \E ds \in [1 .. n -> 1 .. query.days] :
         /\ \A i \in 2 .. n : ds[i] <= ds[i - 1]
         /\ table = [i \in 1 .. n |-> [day |-> ds[i], id |-> n + 1 - i]]
    BY DEF Records!Init
  <1>6. PICK ds \in [1 .. n -> 1 .. query.days] :
          /\ \A i \in 2 .. n : ds[i] <= ds[i - 1]
          /\ table = [i \in 1 .. n |-> [day |-> ds[i], id |-> n + 1 - i]]
    BY <1>5
  <1>7. \A i \in 1 .. n : ds[i] \in 1 .. query.days /\ table[i].day = ds[i] /\ table[i] \in Records!Record
    BY <1>2, <1>4, <1>6 DEF Records!Record
  <1>8. table \in Seq(Records!Record) /\ Len(table) = n /\ n \in Nat
    BY <1>2, <1>6, <1>7
  <1>9. ASSUME NEW i \in 1 .. n, NEW j \in 1 .. n, i <= j PROVE ds[j] <= ds[i]
    <2>1. ds \in [1 .. n -> Nat]
      BY <1>4
    <2> QED  BY <2>1, <1>6, <1>8, <1>9, FallingOverAll
  <1>10. IsTable(table)
    BY <1>4, <1>7, <1>8, <1>9 DEF IsTable
  <1>11. Grown /\ Len(table) <= MaxRecords + added
    BY <1>1, <1>2, <1>8 DEF Grown
  <1>12. Records!TypeOK
    <2>1. begun \in Seq(Records!Record) /\ rows \in Seq(Records!Record) /\ heads \in Seq(0 .. MaxRecords + MaxAdded)
      BY <1>1, <1>8
    <2>2. position \in [window : Nat \ {0}, offset : Nat] /\ remaining \in 0 .. MaxRecords + MaxAdded + Wanted
          /\ added \in 0 .. MaxAdded /\ stage \in Records!Stages
      BY <1>1, <1>2 DEF Records!Stages
    <2> QED  BY <2>1, <2>2, <1>3, <1>8 DEF Records!TypeOK
  <1>13. RecordsBase
    BY <1>10, <1>11, <1>12 DEF RecordsBase
  <1>14. stage = "heads" => \E T \in Tables : HeadsOf(T)
    <2>1. Len(Records!Windows) \in Nat /\ Len(heads) = 0
      BY <1>1, <1>4, WindowsMeet
    <2> QED  BY <2>1, <1>13, TablesAreTables DEF HeadsOf
  <1>15. Paged
    <2>1. rows = <<>> /\ position.offset = 0
      BY <1>1
    <2>2. SubSeq(table, 1, 0) = <<>>
      BY SubSeqEmpty
    <2> QED  BY <2>1, <2>2 DEF Paged
  <1> QED  BY <1>1, <1>13, <1>14, <1>15 DEF RecordsInv, Records!AnswerIsThePage

\* Where no query is made, the invariant holds of a query of an empty table.
LEMMA RecordsRest ==
  ASSUME table = <<>>, query = [days |-> Period, dated |-> FALSE, all |-> TRUE, page |-> 1], begun = <<>>,
         heads = <<>>, rows = <<>>, position = [window |-> 1, offset |-> 0], remaining = 0, stage = "pages", added = 0
  PROVE  RecordsInv
  <1>1. /\ Period \in Nat \ {0} /\ WindowDays \in Nat \ {0} /\ Wanted \in Nat \ {0} /\ MaxRecords \in Nat \ {0}
        /\ MaxAdded \in Nat
    BY RecordsAssumption
  <1>2. Records!TypeOK
    <2>1. query \in [days : {WindowDays, Period}, dated : BOOLEAN, all : BOOLEAN, page : 1 .. MaxRecords]
      BY <1>1
    <2>2. table \in Seq(Records!Record) /\ begun \in Seq(Records!Record) /\ rows \in Seq(Records!Record)
          /\ heads \in Seq(0 .. MaxRecords + MaxAdded)
      OBVIOUS
    <2>3. position \in [window : Nat \ {0}, offset : Nat] /\ remaining \in 0 .. MaxRecords + MaxAdded + Wanted
          /\ added \in 0 .. MaxAdded /\ stage \in Records!Stages
      BY <1>1 DEF Records!Stages
    <2> QED  BY <2>1, <2>2, <2>3 DEF Records!TypeOK
  <1>3. IsTable(table) /\ Grown /\ Len(table) <= MaxRecords + added
    BY <1>1 DEF IsTable, Grown
  <1>4. Paged
    BY SubSeqEmpty DEF Paged
  <1> QED  BY <1>2, <1>3, <1>4 DEF RecordsInv, RecordsBase, Records!AnswerIsThePage

\* Every step keeps the invariant.
LEMMA RecordsStep ==
  ASSUME RecordsInv, [Records!Next]_Records!vars
  PROVE  RecordsInv'
  <1>1. CASE Records!Next
    BY <1>1, RecordsAddStep, RecordsOnePageStep, RecordsReadHeadStep, RecordsHeadedStep, RecordsPassStep,
       RecordsSliceStep, RecordsCollectedStep, RecordsPagesStep, RecordsPlainPageStep, Zenon DEF Records!Next
  <1>2. CASE UNCHANGED Records!vars
    <2>1. UNCHANGED <<table, query, begun, heads, rows, position, remaining, stage, added>>
      BY <1>2 DEF Records!vars, Records!queryVars
    <2>2. Records!TypeOK'
      BY <2>1 DEF RecordsInv, RecordsBase, Records!TypeOK
    <2>3. Records!Windows' = Records!Windows /\ RowsBefore' = RowsBefore
      BY <2>1, QueryRests
    <2>4. RecordsBase' /\ Tables' = Tables
      BY <2>1, <2>2, TableRests DEF RecordsInv, RecordsBase
    <2>5. ASSUME NEW T, HeadsOf(T), stage = "slices" => Gathered(T) PROVE HeadsOf(T)'
          /\ (stage = "slices" => Gathered(T))'
      BY <2>1, <2>5, QueryRests DEF HeadsOf, Gathered
    <2>6. Paged => Paged'
      BY <2>1 DEF Paged
    <2>7. Records!AnswerIsThePage'
      BY <2>1 DEF RecordsInv, Records!AnswerIsThePage, Records!Expected
    <2> QED  BY <2>1, <2>4, <2>5, <2>6, <2>7 DEF RecordsInv
  <1> QED  BY <1>1, <1>2

LEMMA RecordsInitInv == Init => RecordsInv
  <1> SUFFICES ASSUME Init PROVE RecordsInv
    OBVIOUS
  <1>1. CASE part = "records"
    BY <1>1, RecordsInit DEF Init
  <1>2. CASE part # "records"
    BY <1>2, RecordsRest DEF Init
  <1> QED  BY <1>1, <1>2

LEMMA RecordsStepInv == RecordsInv /\ [Next]_vars => RecordsInv'
  <1> SUFFICES ASSUME RecordsInv, [Next]_vars PROVE RecordsInv'
    OBVIOUS
  <1>1. [Records!Next]_Records!vars
    BY DEF Next, vars, recordVars, Records!vars, Records!queryVars
  <1> QED  BY <1>1, RecordsStep

\* The answer for the records of a period is the page of the table as it was at one moment of the query
\* (query_records, read_paginated_export), for every size of the table, of the windows and of the pages, and however
\* many records are added meanwhile.
THEOREM RecordsAnswerAlways == Spec => []RecordsAnswerIsThePage
  <1>1. RecordsInv => RecordsAnswerIsThePage
    BY DEF RecordsInv, RecordsAnswerIsThePage
  <1> QED  BY RecordsInitInv, RecordsStepInv, <1>1, PTL DEF Spec

-----------------------------------------------------------------------------
(* The types of the services.  What a service keeps stays within its bounds by its own guards, which takes   *)
(* the invariants of the sections above where a value comes from another: the time a login has waited, the   *)
(* counter a sample shows, the gateway a detection has found.                                                *)

\* A stay in the background.
LEMMA ExpiryTypesStep == Expiry!ExpiryTypeOK /\ [Expiry!ExpiryNext]_Expiry!expiryVars => Expiry!ExpiryTypeOK'
  <1> SUFFICES ASSUME Expiry!ExpiryTypeOK, [Expiry!ExpiryNext]_Expiry!expiryVars PROVE Expiry!ExpiryTypeOK'
    OBVIOUS
  <1> USE DEF Expiry!ExpiryTypeOK, Expiry!Timer
  <1>1. StayLimit \in Nat /\ MaxGeneration \in Nat
    BY BoundsAssumption
  <1>2. ASSUME NEW b \in BOOLEAN, Expiry!Report(b) PROVE Expiry!ExpiryTypeOK'
    <2>1. UNCHANGED <<hidden, clearing, sessions, clearable>> /\ background' = b
      BY <1>2 DEF Expiry!Report
    <2>2. generation' \in 0 .. MaxGeneration /\ (background # b => generation' \in 1 .. MaxGeneration)
      BY <1>1, <1>2 DEF Expiry!Report
    <2>3. timers' \subseteq Expiry!Timer
      <3>1. CASE ~b
        <4>1. timers' = {[t EXCEPT !.returned = TRUE] : t \in timers}
          BY <1>2, <3>1 DEF Expiry!Report, Expiry!Returned
        <4> QED  BY <4>1
      <3>2. CASE b /\ background
        BY <1>2, <3>2 DEF Expiry!Report
      <3>3. CASE b /\ ~background
        <4>1. timers' = timers \cup {[generation |-> generation', age |-> 0, returned |-> FALSE, silent |-> "no"]}
          BY <1>2, <3>3 DEF Expiry!Report
        <4>2. [generation |-> generation', age |-> 0, returned |-> FALSE, silent |-> "no"] \in Expiry!Timer
          <5>1. background # b
            BY <3>3
          <5>2. generation' \in 1 .. MaxGeneration
            BY <2>2, <5>1
          <5>3. 0 \in 0 .. StayLimit
            BY <1>1
          <5> QED  BY <5>2, <5>3
        <4> QED  BY <4>1, <4>2
      <3> QED  BY <3>1, <3>2, <3>3
    <2> QED  BY <2>1, <2>2, <2>3
  <1>3. CASE Expiry!Turns \/ Expiry!Use
    BY <1>3 DEF Expiry!Turns, Expiry!Use
  <1>8. ASSUME NEW b \in BOOLEAN, Expiry!Writes(b) PROVE background' \in BOOLEAN /\ timers' \subseteq Expiry!Timer
    <2>1. CASE background = b
      BY <1>8, <2>1 DEF Expiry!Writes
    <2>2. CASE background # b
      <3>1. timers' = {[t EXCEPT !.silent = Expiry!AfterWrite(@, b)] : t \in timers}
        BY <1>8, <2>2 DEF Expiry!Writes
      <3>2. \A t \in timers : [t EXCEPT !.silent = Expiry!AfterWrite(@, b)] \in Expiry!Timer
        BY DEF Expiry!AfterWrite
      <3> QED  BY <1>8, <3>1, <3>2 DEF Expiry!Writes
    <2> QED  BY <2>1, <2>2
  <1>9. CASE Expiry!Show \/ Expiry!Check
    BY <1>8, <1>9 DEF Expiry!Show, Expiry!Check
  <1>4. CASE Expiry!Minute
    BY <1>1, <1>4 DEF Expiry!Minute
  <1>5. ASSUME NEW t \in timers, Expiry!Fire(t) PROVE Expiry!ExpiryTypeOK'
    BY <1>5 DEF Expiry!Fire
  <1>6. ASSUME NEW t \in clearing, Expiry!ClearWebVpn(t) PROVE Expiry!ExpiryTypeOK'
    BY <1>6 DEF Expiry!ClearWebVpn
  <1>7. CASE UNCHANGED Expiry!expiryVars
    BY <1>7 DEF Expiry!expiryVars
  <1> QED  BY <1>2, <1>3, <1>9, <1>4, <1>5, <1>6, <1>7 DEF Expiry!ExpiryNext

\* The download of an update.
LEMMA DownloadTypesStep == Update!DownloadTypeOK /\ [Update!DownloadNext]_Update!downloadVars => Update!DownloadTypeOK'
  <1> SUFFICES ASSUME Update!DownloadTypeOK, [Update!DownloadNext]_Update!downloadVars PROVE Update!DownloadTypeOK'
    OBVIOUS
  <1> USE DEF Update!DownloadTypeOK, Update!Phases, Update!Goes, Update!Actions
  <1>1. MaxChunks \in Nat
    BY BoundsAssumption
  <1>2. ASSUME NEW c \in Commands,
               \/ Update!Asks(c) \/ Update!Begins(c) \/ Update!ResetsPaused(c) \/ Update!ResetsCancelled(c)
               \/ Update!Looks(c) \/ Update!Receives(c) \/ Update!Verifies(c) \/ Update!Fails(c) \/ Update!Drops(c)
               \/ Update!DropsCancelled(c) \/ Update!DropsActive(c)
        PROVE  Update!DownloadTypeOK'
    <2>1. /\ active' \in BOOLEAN /\ paused' \in BOOLEAN /\ cancelled' \in BOOLEAN /\ stopped' \in BOOLEAN
          /\ crossed' \in BOOLEAN
          /\ UNCHANGED control \/ control' = [control EXCEPT !.late = (control.at = "found")]
      BY <1>2 DEF Update!Asks, Update!Begins, Update!ResetsPaused, Update!ResetsCancelled, Update!Looks,
             Update!Receives, Update!Verifies, Update!Fails, Update!Drops, Update!DropsCancelled, Update!DropsActive
    <2>2. at' \in [Commands -> Update!Phases]
      BY <1>2 DEF Update!Asks, Update!Begins, Update!ResetsPaused, Update!ResetsCancelled, Update!Looks,
             Update!Receives, Update!Verifies, Update!Fails, Update!Drops, Update!DropsCancelled, Update!DropsActive
    <2>3. chunks' \in 0 .. MaxChunks
      BY <1>1, <1>2 DEF Update!Asks, Update!Begins, Update!ResetsPaused, Update!ResetsCancelled, Update!Looks,
             Update!Receives, Update!Verifies, Update!Fails, Update!Drops, Update!DropsCancelled, Update!DropsActive
    <2>4. control' \in [action : Update!Actions \cup {"none"}, at : {"idle", "found", "resuming"}, late : BOOLEAN]
      BY <2>1
    <2> QED  BY <2>1, <2>2, <2>3, <2>4
  <1>4. ASSUME NEW a \in Update!Actions, Update!Finds(a) PROVE Update!DownloadTypeOK'
    BY <1>4 DEF Update!Finds, Update!NoControl
  <1>5. CASE Update!Writes \/ Update!Resumes
    <2>1. UNCHANGED <<active, at, chunks, crossed>> /\ paused' \in BOOLEAN /\ cancelled' \in BOOLEAN /\ stopped' \in BOOLEAN
      BY <1>5 DEF Update!Writes, Update!Resumes
    <2>2. control' \in [action : Update!Actions \cup {"none"}, at : {"idle", "found", "resuming"}, late : BOOLEAN]
      <3>1. CASE control' = [action |-> "none", at |-> "idle", late |-> FALSE]
        BY <3>1
      <3>2. CASE control' = [control EXCEPT !.at = "resuming"]
        BY <3>2
      <3> QED  BY <1>5, <3>1, <3>2 DEF Update!Writes, Update!Resumes, Update!NoControl
    <2> QED  BY <2>1, <2>2
  <1>6. CASE UNCHANGED Update!downloadVars
    BY <1>6 DEF Update!downloadVars
  <1> QED  BY <1>2, <1>4, <1>5, <1>6 DEF Update!DownloadNext

\* A link was signed for an account.
DiscoveryTypes == Discovery!DiscoveryTypeOK /\ \A d \in Discoveries : call[d].at = "follow" => call[d].user \in Accounts

LEMMA DiscoveryTypesStep == DiscoveryTypes /\ [Discovery!DiscoveryNext]_Discovery!discoveryVars => DiscoveryTypes'
  <1> SUFFICES ASSUME DiscoveryTypes, [Discovery!DiscoveryNext]_Discovery!discoveryVars PROVE DiscoveryTypes'
    OBVIOUS
  <1> USE DEF DiscoveryTypes, Discovery!DiscoveryTypeOK, Discovery!Calls, Discovery!NotCalled
  <1>1. MaxTokens \in Nat /\ MaxRedirects \in Nat /\ Lifetime \in Nat /\ LatestTime \in Nat
    BY BoundsAssumption
  <1>2. ASSUME NEW d \in Discoveries, Discovery!Discover(d) PROVE DiscoveryTypes'
    <2>1. [Discovery!NotCalled EXCEPT !.at = "portal"] \in Discovery!Calls
      <3>1. Discovery!NotCalled \in Discovery!Calls
        BY <1>1
      <3> HIDE DEF Discovery!NotCalled
      <3> QED  BY <3>1
    <2>2. /\ call' \in [Discoveries -> Discovery!Calls]
          /\ \A e \in Discoveries : call'[e].at = "follow" => call'[e].user \in Accounts
      BY <1>2, <2>1 DEF Discovery!Discover
    <2> QED  BY <1>2, <2>1, <2>2 DEF Discovery!Discover
  <1>3. ASSUME NEW d \in Discoveries, Discovery!Signed(d) PROVE DiscoveryTypes'
    BY <1>1, <1>3 DEF Discovery!Signed
  <1>4. ASSUME NEW d \in Discoveries, Discovery!SentOn(d) PROVE DiscoveryTypes'
    <2>1. call[d] \in Discovery!Calls /\ Discovery!NotCalled \in Discovery!Calls
      BY <1>1
    <2>2. /\ call' \in [Discoveries -> Discovery!Calls]
          /\ \A e \in Discoveries : call'[e].at = "follow" => call'[e].user \in Accounts
      <3>1. CASE call[d].hops < MaxRedirects
        <4>1. [call[d] EXCEPT !.hops = @ + 1] \in Discovery!Calls /\ [call[d] EXCEPT !.hops = @ + 1].user = call[d].user
          BY <1>1, <2>1, <3>1
        <4>2. call'[d] = [call[d] EXCEPT !.hops = @ + 1] /\ DOMAIN call' = Discoveries
          BY <1>4, <3>1 DEF Discovery!SentOn
        <4>3. \A e \in Discoveries \ {d} : call'[e] = call[e]
          BY <1>4 DEF Discovery!SentOn
        <4>4. call' = [e \in Discoveries |-> call'[e]]
          BY <1>4, <4>2 DEF Discovery!SentOn
        <4>5. call[d].user \in Accounts
          BY <1>4 DEF Discovery!SentOn
        <4> QED  BY <4>1, <4>2, <4>3, <4>4, <4>5
      <3>2. CASE ~(call[d].hops < MaxRedirects)
        <4>1. call' = [call EXCEPT ![d] = Discovery!NotCalled]
          BY <1>4, <3>2 DEF Discovery!SentOn
        <4> QED  BY <2>1, <4>1
      <3> QED  BY <3>1, <3>2
    <2> QED  BY <1>4, <2>1, <2>2 DEF Discovery!SentOn
  <1>5. ASSUME NEW d \in Discoveries, Discovery!GivesUp(d) PROVE DiscoveryTypes'
    BY <1>1, <1>5 DEF Discovery!GivesUp
  <1>6. ASSUME NEW d \in Discoveries, Discovery!Refreshes(d) PROVE DiscoveryTypes'
    <2>1. [call[d] EXCEPT !.refreshed = TRUE, !.hops = 0] \in Discovery!Calls
      <3>1. call[d] \in Discovery!Calls /\ 0 \in 0 .. MaxRedirects + 1
        BY <1>1
      <3> QED  BY <3>1
    <2>2. /\ call' \in [Discoveries -> Discovery!Calls]
          /\ \A e \in Discoveries : call'[e].at = "follow" => call'[e].user \in Accounts
      <3>1. call' = [call EXCEPT ![d] = [call[d] EXCEPT !.refreshed = TRUE, !.hops = 0]]
        BY <1>6 DEF Discovery!Refreshes
      <3>2. [call[d] EXCEPT !.refreshed = TRUE, !.hops = 0].user = call[d].user /\ call[d].at = "follow"
        BY <1>6 DEF Discovery!Refreshes
      <3> QED  BY <2>1, <3>1, <3>2
    <2> QED  BY <1>6, <2>1, <2>2 DEF Discovery!Refreshes
  <1>7. ASSUME NEW d \in Discoveries, NEW pass \in Discovery!Passwords, Discovery!Offer(d, pass) PROVE DiscoveryTypes'
    <2>1. call[d] \in Discovery!Calls /\ call[d].user \in Accounts /\ tokens' \in 1 .. MaxTokens
      BY <1>1, <1>7 DEF Discovery!Offer
    <2>2. clock + Lifetime \in 0 .. LatestTime + Lifetime
      BY <1>1
    <2>3. [user |-> call[d].user, pass |-> pass, token |-> tokens', until |-> clock + Lifetime] \in Discovery!Offers
      BY <2>1, <2>2 DEF Discovery!Offers
    <2>4. offer' \in Discovery!Offers
      BY <1>7, <2>3 DEF Discovery!Offer
    <2>5. shown' \subseteq [user : Accounts, token : 1 .. MaxTokens]
      BY <1>7, <2>1 DEF Discovery!Offer
    <2> QED  BY <1>1, <1>7, <2>1, <2>4, <2>5 DEF Discovery!Offer
  <1>8. ASSUME NEW a \in shown, Discovery!Accept(a) PROVE DiscoveryTypes'
    <2>1. a.token \in 1 .. MaxTokens
      OBVIOUS
    <2>2. answered' \in [{"accepted", "rejected"} -> SUBSET (1 .. MaxTokens)]
      BY <1>8, <2>1 DEF Discovery!Accept
    <2>3. kept' \subseteq [offer : Discovery!Offers, at : 0 .. LatestTime]
      BY <1>8 DEF Discovery!Accept
    <2> QED  BY <1>8, <2>2, <2>3 DEF Discovery!Accept
  <1>9. ASSUME NEW a \in shown, Discovery!Reject(a) PROVE DiscoveryTypes'
    <2>1. a.token \in 1 .. MaxTokens
      OBVIOUS
    <2>2. answered' \in [{"accepted", "rejected"} -> SUBSET (1 .. MaxTokens)]
      BY <1>9, <2>1 DEF Discovery!Reject
    <2> QED  BY <1>9, <2>2 DEF Discovery!Reject
  <1>10. ASSUME NEW user \in Accounts \cup {Discovery!Nothing}, Discovery!LogsIn(user) PROVE DiscoveryTypes'
    BY <1>10 DEF Discovery!LogsIn
  <1>11. CASE Discovery!Moves
    BY <1>11 DEF Discovery!Moves
  <1>12. CASE Discovery!DiscoveryTick
    <2>1. clock' \in 0 .. LatestTime
      BY <1>1, <1>12 DEF Discovery!DiscoveryTick
    <2> QED  BY <1>12, <2>1 DEF Discovery!DiscoveryTick
  <1>13. CASE UNCHANGED Discovery!discoveryVars
    BY <1>13 DEF Discovery!discoveryVars
  <1> QED
    BY <1>2, <1>3, <1>4, <1>5, <1>6, <1>7, <1>8, <1>9, <1>10, <1>11, <1>12, <1>13 DEF Discovery!DiscoveryNext

\* Calls and changes are counted up to their bounds, and one request is sent at most.
ActionCounts ==
    /\ actions \in 0 .. MaxActions /\ foreign \in 0 .. MaxForeign
    /\ action.writes \in 0 .. 1 /\ (action.phase \in {"idle", "open", "read"} => action.writes = 0)

LEMMA ActionTypesStep ==
  ActionInv /\ ActionCounts /\ [Actions!Next]_Actions!vars => ActionCounts'
  <1> SUFFICES ASSUME ActionInv, ActionCounts, [Actions!Next]_Actions!vars PROVE ActionCounts'
    OBVIOUS
  <1> USE DEF ActionCounts
  <1>1. MaxActions \in Nat /\ MaxForeign \in Nat
    BY BoundsAssumption
  <1>2. action \in [phase : Actions!Phases, request : Actions!Requests, dashboard : Actions!Account,
                    page : Actions!Account, reply : Actions!Replies, writes : Nat]
        /\ server \in Actions!Account
    BY DEF ActionInv, ActionTyped
  <1>3. CASE Actions!Begin
    <2>1. Actions!Idle.writes = 0
      BY DEF Actions!Idle
    <2>2. PICK r \in Actions!Requests : action' = [Actions!Idle EXCEPT !.phase = "open", !.request = r, !.dashboard = server]
      BY <1>3 DEF Actions!Begin
    <2>3. action'.writes = 0
      BY <1>2, <2>1, <2>2, IdleAction
    <2> QED  BY <1>1, <1>3, <2>3 DEF Actions!Begin
  <1>4. CASE Actions!Malformed \/ Actions!Fail \/ Actions!ReadPage \/ Actions!Refuse
    <2>1. action'.writes = action.writes /\ UNCHANGED <<actions, foreign>>
      BY <1>2, <1>4 DEF Actions!Malformed, Actions!Fail, Actions!ReadPage, Actions!Refuse
    <2>2. action'.phase \in {"idle", "open", "read"} => action.phase = "open"
      BY <1>2, <1>4 DEF Actions!Malformed, Actions!Fail, Actions!ReadPage, Actions!Refuse
    <2> QED  BY <2>1, <2>2
  <1>5. CASE Actions!Send
    <2>1. PICK reply \in Actions!Replies : action' = [action EXCEPT !.phase = "sent", !.reply = reply, !.writes = action.writes + 1]
      BY <1>5 DEF Actions!Send, Actions!Replies
    <2>2. action'.phase = "sent" /\ action'.writes = action.writes + 1 /\ action.writes = 0
      BY <1>2, <1>5, <2>1 DEF Actions!Send
    <2> QED  BY <1>5, <2>2 DEF Actions!Send
  <1>6. CASE Actions!Report
    <2>1. action'.writes = action.writes /\ UNCHANGED <<actions, foreign>>
      BY <1>2, <1>6 DEF Actions!Report
    <2>2. Actions!Outcome \in {"done", "rejected", "failed"} /\ Actions!ByAnswer \in {"done", "rejected", "failed"}
      BY DEF Actions!Outcome, Actions!ByAnswer
    <2>3. action'.phase \in {"done", "rejected", "failed"}
      BY <1>2, <1>6, <2>2 DEF Actions!Report
    <2> QED  BY <2>1, <2>3
  <1>7. CASE Actions!Elsewhere
    BY <1>1, <1>7 DEF Actions!Elsewhere
  <1>8. CASE UNCHANGED Actions!vars
    BY <1>8 DEF Actions!vars
  <1> QED  BY <1>3, <1>4, <1>5, <1>6, <1>7, <1>8 DEF Actions!Next

LEMMA ActionTypes == ActionInv /\ ActionCounts => Actions!TypeOK
  BY DEF ActionInv, ActionTyped, ActionCounts, Actions!TypeOK

LEMMA ActionTypesInit == Actions!Init => ActionCounts
  <1> SUFFICES ASSUME Actions!Init PROVE ActionCounts
    OBVIOUS
  <1>1. action.writes = 0
    BY DEF Actions!Init, Actions!Idle
  <1> QED  BY <1>1, BoundsAssumption DEF Actions!Init, ActionCounts

\* Every page that a round reads publishes some of the four parts of the overview.
LEMMA PagesOfTheReads ==
  /\ Len(Center!Reads) = 11
  /\ \A i \in DOMAIN Center!Reads :
        /\ Center!Reads[i] \in Center!Pages
        /\ Center!PublishedAfter(Center!Reads[i]) \subseteq {"overview", "service", "devices", "security"}
  BY DEF Center!Reads, Center!Pages, Center!PublishedAfter

CenterParts == {"overview", "service", "devices", "security"}
LEMMA CenterTypesInit == Center!Init => Center!TypeOK
  <1> SUFFICES ASSUME Center!Init PROVE Center!TypeOK
    OBVIOUS
  <1>1. reading \in 0 .. Len(Center!Reads) + 1
    BY PagesOfTheReads DEF Center!Init
  <1>2. elapsed \in 0 .. Center!CommandLimit
    BY DEF Center!Init, Center!CommandLimit
  <1> QED  BY <1>1, <1>2 DEF Center!Init, Center!TypeOK

LEMMA CenterTypesStep == Center!TypeOK /\ [Center!Next]_Center!vars => Center!TypeOK'
  <1> SUFFICES ASSUME Center!TypeOK, [Center!Next]_Center!vars PROVE Center!TypeOK'
    OBVIOUS
  <1>0. /\ reading \in 0 .. 12 /\ elapsed \in 0 .. 75 /\ loginTook \in LoginTimes \cup {0}
        /\ unread \subseteq Center!Pages /\ warnings \subseteq Center!Pages /\ published \subseteq CenterParts
        /\ session \in BOOLEAN /\ center \in {"reading", "done", "failed", "timedOut"}
    BY PagesOfTheReads, PagesOfTheOverview DEF Center!TypeOK, CenterParts
  <1>1. SUFFICES
        /\ reading' \in 0 .. 12 /\ elapsed' \in 0 .. 75 /\ loginTook' \in LoginTimes \cup {0}
        /\ unread' \subseteq Center!Pages /\ warnings' \subseteq Center!Pages /\ published' \subseteq CenterParts
        /\ session' \in BOOLEAN /\ center' \in {"reading", "done", "failed", "timedOut"}
    BY PagesOfTheReads, PagesOfTheOverview DEF Center!TypeOK, CenterParts
  <1>2. CASE Center!LogIn
    <2>1. reading' \in 0 .. 12 /\ elapsed' \in 0 .. 75 /\ loginTook' \in LoginTimes \cup {0}
      BY <1>0, <1>2, CenterAssumption, PagesOfTheOverview DEF Center!LogIn
    <2> QED  BY <1>0, <1>2, <2>1 DEF Center!LogIn
  <1>3. ASSUME Center!UnderWay, Center!Moves PROVE reading' \in 0 .. 12 /\ published' \subseteq CenterParts
    <2>1. reading \in 1 .. 11
      BY <1>3, PagesOfTheOverview DEF Center!UnderWay
    <2>2. Center!PublishedAfter(Center!Reads[reading]) \subseteq CenterParts
      BY <2>1, PagesOfTheReads, PagesOfTheOverview DEF CenterParts
    <2>3. reading' = reading + 1 /\ published' = published \cup Center!PublishedAfter(Center!Reads[reading])
      BY <1>3 DEF Center!Moves
    <2> QED  BY <1>0, <2>1, <2>2, <2>3
  <1>4. ASSUME Center!UnderWay, Center!Missed PROVE unread' \subseteq Center!Pages /\ warnings' \subseteq Center!Pages
    <2>1. Center!Reads[reading] \in Center!Pages
      BY <1>4, PagesOfTheReads DEF Center!UnderWay
    <2> QED  BY <1>0, <1>4, <2>1 DEF Center!Missed
  <1>5. CASE Center!Answered
    BY <1>0, <1>3, <1>5 DEF Center!Answered
  <1>6. CASE Center!Failed
    BY <1>0, <1>3, <1>4, <1>6 DEF Center!Failed
  <1>7. CASE Center!Hangs
    <2>1. elapsed' \in 0 .. 75
      <3>1. reading \in 1 .. 11 /\ Center!Limit(Center!Reads[reading]) \in Nat
        BY <1>7, PagesOfTheOverview DEF Center!Hangs, Center!UnderWay
      <3> QED  BY <1>0, <1>7, <3>1, PagesOfTheOverview DEF Center!Hangs
    <2> QED  BY <1>0, <1>3, <1>4, <1>7, <2>1 DEF Center!Hangs
  <1>8. CASE Center!Expires
    BY <1>0, <1>8, PagesOfTheOverview DEF Center!Expires
  <1>9. CASE Center!SessionEnds \/ Center!Finish \/ UNCHANGED Center!vars
    BY <1>0, <1>9 DEF Center!SessionEnds, Center!Finish, Center!vars
  <1> QED  BY <1>2, <1>5, <1>6, <1>7, <1>8, <1>9 DEF Center!Next

\* WebVPN: the login that is under way, those that queue, and the challenges that were sent.
VpnLogins == [step : LoginSteps, kind : WebVpn!Kinds, account : VpnAccounts \cup {"none"}, tries : 0 .. 2,
              progress : WebVpn!ChallengeRecord, elapsed : Nat, waited : Nat, prompt : 0 .. PromptLimit,
              network : 0 .. Budget]
VpnRequests == [kind : WebVpn!Kinds, account : VpnAccounts \cup {"none"}, id : Nat]

ManagerTyped ==
    /\ vpnStamp \in 0 .. MaxStamp /\ bound \in -1 .. MaxStamp /\ ready \in VpnAccounts \cup {"none"}
    /\ pending \in WebVpn!ChallengeRecord /\ pending.id <= Len(sent)
QueueTyped == queue \in Seq(VpnRequests) /\ Len(queue) <= MaxQueue
LoginTyped == login \in VpnLogins /\ login.progress.id <= Len(sent)
GhostsTyped == sent \in Seq(Nat) /\ submitted \in Seq(Nat) /\ Len(sent) = Len(submitted)

VpnTyped == ManagerTyped /\ QueueTyped /\ LoginTyped /\ GhostsTyped

LEMMA VpnTypes == VpnTyped <=> WebVpn!TypeOK
  BY DEF VpnTyped, ManagerTyped, QueueTyped, LoginTyped, GhostsTyped, WebVpn!TypeOK, VpnLogins, LoginSteps, VpnRequests,
         WebVpn!ChallengeRecord

LEMMA VpnConstants ==
  /\ Budget \in Nat /\ PromptLimit \in Nat /\ ChallengeLimit \in Nat /\ MaxStamp \in Nat /\ MaxQueue \in Nat
  BY BoundsAssumption

LEMMA NobodyTyped ==
  /\ WebVpn!NoChallenge \in WebVpn!ChallengeRecord /\ WebVpn!NoChallenge.id = 0
  /\ WebVpn!Nobody \in VpnLogins /\ WebVpn!Nobody.progress = WebVpn!NoChallenge
  <1>1. WebVpn!NoChallenge \in WebVpn!ChallengeRecord /\ WebVpn!NoChallenge.id = 0
    BY VpnConstants DEF WebVpn!NoChallenge, WebVpn!ChallengeRecord, WebVpn!Long
  <1> QED  BY <1>1, VpnConstants DEF WebVpn!Nobody, VpnLogins, LoginSteps, WebVpn!Kinds

LEMMA AgedTyped ==
  ASSUME NEW c \in WebVpn!ChallengeRecord
  PROVE  WebVpn!Aged(c) \in WebVpn!ChallengeRecord /\ WebVpn!Aged(c).id = c.id
  <1>1. \A age \in Nat : \A limit : WebVpn!Older(age, limit) \in Nat
    BY DEF WebVpn!Older, WebVpn!Long
  <1>2. PICK left, lastSend, lastSubmit :
             /\ left = (IF c.left = 0 THEN 0 ELSE c.left - 1) /\ left \in 0 .. ChallengeLimit
             /\ lastSend = WebVpn!Older(c.lastSend, SendGap) /\ lastSend \in Nat
             /\ lastSubmit = WebVpn!Older(c.lastSubmit, SubmitGap) /\ lastSubmit \in Nat
    <2>1. c.left \in 0 .. ChallengeLimit /\ c.lastSend \in Nat /\ c.lastSubmit \in Nat
      BY DEF WebVpn!ChallengeRecord
    <2>2. (IF c.left = 0 THEN 0 ELSE c.left - 1) \in 0 .. ChallengeLimit
      BY <2>1, VpnConstants
    <2> QED  BY <1>1, <2>1, <2>2
  <1>3. CASE c.id # 0
    <2>1. WebVpn!Aged(c) = [c EXCEPT !.left = left, !.lastSend = lastSend, !.lastSubmit = lastSubmit]
      BY <1>2, <1>3 DEF WebVpn!Aged
    <2>2. [c EXCEPT !.left = left, !.lastSend = lastSend, !.lastSubmit = lastSubmit] \in WebVpn!ChallengeRecord
      BY <1>2 DEF WebVpn!ChallengeRecord
    <2>3. [c EXCEPT !.left = left, !.lastSend = lastSend, !.lastSubmit = lastSubmit].id = c.id
      BY DEF WebVpn!ChallengeRecord
    <2> QED  BY <2>1, <2>2, <2>3
  <1> QED  BY <1>3 DEF WebVpn!Aged

\* A command of the window.
LEMMA VpnAskTyped == ASSUME VpnTyped, WebVpn!Ask PROVE VpnTyped'
  <1>1. PICK r \in VpnRequests : WebVpn!Call(r)
    <2>1. DOMAIN sent \subseteq Nat
      BY DEF VpnTyped, GhostsTyped
    <2> QED  BY <2>1 DEF WebVpn!Ask, VpnRequests, WebVpn!Kinds, WebVpn!Challenges
  <1>2. QueueTyped'
    BY <1>1, VpnConstants DEF WebVpn!Call, VpnTyped, QueueTyped
  <1> QED  BY <1>2 DEF WebVpn!Ask, WebVpn!manager, WebVpn!ghosts, VpnTyped, ManagerTyped, LoginTyped, GhostsTyped

\* A command that is given the manager.
LEMMA VpnGrantTyped == ASSUME VpnTyped, WebVpn!Grant PROVE VpnTyped'
  <1> DEFINE r == Head(queue)
  <1>1. queue # <<>> /\ (WebVpn!Cancel(r) \/ WebVpn!Begin(r) \/ WebVpn!Verify(r))
    BY DEF WebVpn!Grant
  <1>2. r \in VpnRequests
    BY <1>1 DEF VpnTyped, QueueTyped
  <1>3. WebVpn!Granted(r)
    BY <1>1 DEF WebVpn!Cancel, WebVpn!Begin, WebVpn!Verify
  <1>4. QueueTyped' /\ vpnStamp' \in 0 .. MaxStamp /\ bound' \in -1 .. MaxStamp /\ ready' \in VpnAccounts \cup {"none"}
    <2>1. queue' = Tail(queue)
      BY <1>3 DEF WebVpn!Granted
    <2>2. QueueTyped'
      BY <1>1, <2>1, VpnConstants DEF VpnTyped, QueueTyped
    <2> QED  BY <1>3, <2>2, VpnConstants DEF WebVpn!Granted, VpnTyped, ManagerTyped
  <1> DEFINE p == WebVpn!Kept(r)
  <1>5. p \in WebVpn!ChallengeRecord /\ p.id <= Len(sent) /\ Len(sent) \in Nat
    BY NobodyTyped DEF WebVpn!Kept, VpnTyped, ManagerTyped, GhostsTyped
  <1>6. CASE WebVpn!Cancel(r)
    <2>1. pending' \in WebVpn!ChallengeRecord /\ pending'.id <= Len(sent)
      BY <1>5, <1>6, NobodyTyped DEF WebVpn!Cancel, VpnTyped, ManagerTyped
    <2> QED  BY <1>4, <1>6, <2>1 DEF WebVpn!Cancel, WebVpn!ghosts, VpnTyped, ManagerTyped, LoginTyped, GhostsTyped
  <1>7. ASSUME NEW step \in LoginSteps, NEW kind \in WebVpn!Kinds, NEW account \in VpnAccounts \cup {"none"},
               \/ login' = [WebVpn!Nobody EXCEPT !.step = step, !.account = account]
               \/ login' = [WebVpn!Nobody EXCEPT !.step = step, !.kind = kind, !.account = account]
        PROVE  login' \in VpnLogins /\ login'.progress.id = 0
    <2>1. login' \in VpnLogins
      BY <1>7, NobodyTyped DEF VpnLogins
    <2>2. login'.progress = WebVpn!Nobody.progress
      BY <1>7, NobodyTyped DEF VpnLogins
    <2> QED  BY <2>1, <2>2, NobodyTyped
  <1>8. CASE WebVpn!Begin(r)
    <2>1. pending' \in WebVpn!ChallengeRecord /\ pending'.id <= Len(sent)
      BY <1>5, <1>8, NobodyTyped DEF WebVpn!Begin
    <2>2. login' \in VpnLogins /\ login'.progress.id = 0
      <3>1. "visit" \in LoginSteps /\ r.kind \in WebVpn!Kinds /\ r.account \in VpnAccounts \cup {"none"}
        BY <1>2 DEF LoginSteps, VpnRequests
      <3> QED  BY <1>7, <1>8, <3>1 DEF WebVpn!Begin
    <2> QED  BY <1>4, <1>5, <1>8, <2>1, <2>2 DEF WebVpn!Begin, WebVpn!ghosts, VpnTyped, ManagerTyped, LoginTyped,
                                                GhostsTyped
  <1>9. CASE WebVpn!Verify(r)
    <2>1. CASE ~WebVpn!Verifiable(r, p)
      <3>1. pending' = p /\ UNCHANGED <<login, sent, submitted>>
        BY <1>9, <2>1 DEF WebVpn!Verify, WebVpn!ghosts
      <3> QED  BY <1>4, <1>5, <3>1 DEF VpnTyped, ManagerTyped, LoginTyped, GhostsTyped
    <2>2. CASE WebVpn!Verifiable(r, p)
      <3>1. login' \in VpnLogins /\ login'.progress.id = 0
        <4>1. "image" \in LoginSteps /\ "post" \in LoginSteps /\ r.kind \in WebVpn!Kinds
              /\ p.account \in VpnAccounts \cup {"none"}
          BY <1>2, <1>5 DEF LoginSteps, VpnRequests, WebVpn!ChallengeRecord
        <4>2. login' = [WebVpn!Nobody EXCEPT !.step = IF p.image THEN "image" ELSE "post", !.kind = r.kind,
                                             !.account = p.account]
          BY <1>9, <2>2 DEF WebVpn!Verify
        <4> QED  BY <1>7, <4>1, <4>2
      <3>2. pending' = [p EXCEPT !.lastSend = 0] \/ pending' = [p EXCEPT !.lastSubmit = 0]
        BY <1>9, <2>2 DEF WebVpn!Verify
      <3>3. pending' \in WebVpn!ChallengeRecord /\ pending'.id = p.id
        BY <1>5, <3>2 DEF WebVpn!ChallengeRecord
      <3>4. \/ sent' = [sent EXCEPT ![r.id] = 0] /\ submitted' = submitted
            \/ submitted' = [submitted EXCEPT ![r.id] = 0] /\ sent' = sent
        BY <1>9, <2>2 DEF WebVpn!Verify
      <3>5. GhostsTyped' /\ Len(sent') = Len(sent)
        <4>1. \A s \in Seq(Nat) : \A i : [s EXCEPT ![i] = 0] \in Seq(Nat) /\ Len([s EXCEPT ![i] = 0]) = Len(s)
          <5> TAKE s \in Seq(Nat)
          <5> TAKE i
          <5>1. CASE i \in 1 .. Len(s)
            BY <5>1, ExceptSeq
          <5>2. CASE i \notin 1 .. Len(s)
            <6>1. [s EXCEPT ![i] = 0] = s
              BY <5>2
            <6> QED  BY <6>1
          <5> QED  BY <5>1, <5>2
        <4> QED  BY <3>4, <4>1 DEF VpnTyped, GhostsTyped
      <3> QED  BY <1>4, <1>5, <3>1, <3>3, <3>5 DEF VpnTyped, ManagerTyped, LoginTyped
    <2> QED  BY <2>1, <2>2
  <1> QED  BY <1>1, <1>6, <1>8, <1>9

\* The steps of a login leave the queue and the requests of the challenges alone.
LEMMA VpnLoginTyped ==
  ASSUME VpnTyped, WebVpn!Visit \/ WebVpn!Prompt \/ WebVpn!Answer \/ WebVpn!Post \/ WebVpn!TimesOut
  PROVE  VpnTyped'
  <1>1. UNCHANGED <<vpnStamp, bound, queue, sent, submitted>>
    BY DEF WebVpn!Visit, WebVpn!Prompt, WebVpn!Answer, WebVpn!Post, WebVpn!TimesOut, WebVpn!manager, WebVpn!ghosts,
           WebVpn!Accept
  <1>2. UNCHANGED <<ready, pending>> \/ (pending' = WebVpn!NoChallenge /\ ready' \in {ready, login.account})
    BY DEF WebVpn!Visit, WebVpn!Prompt, WebVpn!Answer, WebVpn!Post, WebVpn!TimesOut, WebVpn!manager, WebVpn!Accept
  <1>3. login \in VpnLogins /\ login.progress.id <= Len(sent) /\ Len(sent) \in Nat
        /\ pending \in WebVpn!ChallengeRecord /\ pending.id <= Len(sent)
    BY DEF VpnTyped, LoginTyped, ManagerTyped, GhostsTyped
  <1>4. ManagerTyped'
    <2>1. login.account \in VpnAccounts \cup {"none"}
      BY <1>3 DEF VpnLogins
    <2> QED  BY <1>1, <1>2, <1>3, <2>1, NobodyTyped DEF VpnTyped, ManagerTyped
  <1>5. /\ "image" \in LoginSteps /\ "post" \in LoginSteps /\ "prompt" \in LoginSteps /\ "finish" \in LoginSteps
    BY DEF LoginSteps
  <1>6. ASSUME WebVpn!Ends PROVE LoginTyped'
    BY <1>1, <1>3, <1>6, NobodyTyped DEF WebVpn!Ends, LoginTyped
  <1>7. ASSUME NEW step \in LoginSteps, WebVpn!Goes(step) PROVE LoginTyped'
    <2>1. [login EXCEPT !.step = step] \in VpnLogins /\ [login EXCEPT !.step = step].progress = login.progress
      BY <1>3 DEF VpnLogins
    <2> QED  BY <1>1, <1>3, <1>7, <2>1 DEF WebVpn!Goes, LoginTyped
  <1>8. ASSUME NEW step \in LoginSteps, WebVpn!Closed(step) PROVE LoginTyped'
    <2>1. PICK sum, open : sum = login.waited + login.prompt /\ sum \in Nat /\ open = 0 /\ open \in 0 .. PromptLimit
      BY <1>3, VpnConstants DEF VpnLogins
    <2>2. login' = [login EXCEPT !.step = step, !.prompt = open, !.waited = sum]
      BY <1>8, <2>1 DEF WebVpn!Closed
    <2>3. login' \in VpnLogins /\ login'.progress = login.progress
      BY <1>3, <2>1, <2>2 DEF VpnLogins
    <2> QED  BY <1>1, <1>3, <2>3 DEF LoginTyped
  <1>9. ASSUME WebVpn!Visit \/ WebVpn!Prompt \/ WebVpn!Answer \/ WebVpn!TimesOut PROVE LoginTyped'
    <2>1. WebVpn!Ends \/ (\E step \in LoginSteps : WebVpn!Goes(step) \/ WebVpn!Closed(step))
      BY <1>5, <1>9 DEF WebVpn!Visit, WebVpn!Prompt, WebVpn!Answer, WebVpn!TimesOut, WebVpn!Accept, WebVpn!PageAsks
    <2> QED  BY <1>6, <1>7, <1>8, <2>1
  <1>10. ASSUME WebVpn!Post PROVE LoginTyped'
    <2>1. \/ WebVpn!Ends
          \/ login.tries < 2 /\ login' = [login EXCEPT !.step = "image", !.tries = login.tries + 1]
          \/ login' = [login EXCEPT !.step = "finish", !.progress = pending]
      BY <1>10 DEF WebVpn!Post
    <2>2. ASSUME login.tries < 2, login' = [login EXCEPT !.step = "image", !.tries = login.tries + 1] PROVE LoginTyped'
      <3>1. PICK tries \in 0 .. 2 : tries = login.tries + 1
        BY <1>3, <2>2 DEF VpnLogins
      <3>2. login' \in VpnLogins /\ login'.progress = login.progress
        BY <1>3, <1>5, <2>2, <3>1 DEF VpnLogins
      <3> QED  BY <1>1, <1>3, <3>2 DEF LoginTyped
    <2>3. ASSUME login' = [login EXCEPT !.step = "finish", !.progress = pending] PROVE LoginTyped'
      <3>1. login' \in VpnLogins /\ login'.progress = pending
        BY <1>3, <1>5, <2>3 DEF VpnLogins
      <3> QED  BY <1>1, <1>3, <3>1 DEF LoginTyped
    <2> QED  BY <1>6, <2>1, <2>2, <2>3
  <1>11. QueueTyped' /\ GhostsTyped'
    BY <1>1 DEF VpnTyped, QueueTyped, GhostsTyped
  <1> QED  BY <1>4, <1>9, <1>10, <1>11 DEF VpnTyped

\* A login ends in a session, in a challenge, or in nothing.
LEMMA VpnFinishTyped == ASSUME VpnTyped, WebVpn!Finish PROVE VpnTyped'
  <1>1. UNCHANGED <<vpnStamp, bound, queue>> /\ login' = WebVpn!Nobody
    BY DEF WebVpn!Finish, WebVpn!AsksForMessage, WebVpn!Accept, WebVpn!Ends, WebVpn!manager
  <1>2. login \in VpnLogins /\ login.progress.id <= Len(sent) /\ Len(sent) \in Nat
        /\ pending \in WebVpn!ChallengeRecord /\ pending.id <= Len(sent) /\ sent \in Seq(Nat) /\ submitted \in Seq(Nat)
        /\ Len(sent) = Len(submitted) /\ ready \in VpnAccounts \cup {"none"}
    BY DEF VpnTyped, LoginTyped, ManagerTyped, GhostsTyped
  <1>3. /\ ready' \in VpnAccounts \cup {"none"} /\ pending' \in WebVpn!ChallengeRecord /\ pending'.id <= Len(sent')
        /\ GhostsTyped'
    <2>1. CASE WebVpn!AsksForMessage
      <3>1. PICK image \in BOOLEAN : pending' = WebVpn!Challenge(image)
        BY <2>1 DEF WebVpn!AsksForMessage
      <3>2. ready' = ready
        BY <2>1 DEF WebVpn!AsksForMessage
      <3>3. CASE login.progress.id = 0
        <4>1. pending' = WebVpn!FreshChallenge(image) /\ sent' = Append(sent, 100) /\ submitted' = Append(submitted, 100)
          BY <2>1, <3>1, <3>3 DEF WebVpn!AsksForMessage, WebVpn!Challenge, WebVpn!Long
        <4>2. login.account \in VpnAccounts \cup {"none"}
          BY <1>2 DEF VpnLogins
        <4>3. WebVpn!FreshChallenge(image) \in WebVpn!ChallengeRecord /\ WebVpn!FreshChallenge(image).id = Len(sent) + 1
          BY <1>2, <4>2, VpnConstants DEF WebVpn!FreshChallenge, WebVpn!ChallengeRecord, WebVpn!Long
        <4>4. GhostsTyped' /\ Len(sent') = Len(sent) + 1
          BY <1>2, <4>1 DEF GhostsTyped
        <4> QED  BY <1>2, <3>2, <4>1, <4>3, <4>4
      <3>4. CASE login.progress.id # 0
        <4>1. pending' = [login.progress EXCEPT !.image = image] /\ UNCHANGED <<sent, submitted>>
          BY <2>1, <3>1, <3>4 DEF WebVpn!AsksForMessage, WebVpn!Challenge, WebVpn!ghosts
        <4>2. login.progress \in WebVpn!ChallengeRecord
          BY <1>2 DEF VpnLogins
        <4>3. pending' \in WebVpn!ChallengeRecord /\ pending'.id = login.progress.id
          BY <4>1, <4>2 DEF WebVpn!ChallengeRecord
        <4> QED  BY <1>2, <3>2, <4>1, <4>3 DEF GhostsTyped
      <3> QED  BY <3>3, <3>4
    <2>2. CASE WebVpn!Accept /\ UNCHANGED WebVpn!ghosts
      <3>1. login.account \in VpnAccounts \cup {"none"}
        BY <1>2 DEF VpnLogins
      <3> QED  BY <1>2, <2>2, <3>1, NobodyTyped DEF WebVpn!Accept, WebVpn!ghosts, GhostsTyped
    <2>3. CASE UNCHANGED <<WebVpn!manager, WebVpn!ghosts>>
      BY <1>2, <2>3 DEF WebVpn!manager, WebVpn!ghosts, GhostsTyped
    <2> QED  BY <2>1, <2>2, <2>3 DEF WebVpn!Finish
  <1>4. LoginTyped'
    BY <1>1, <1>3, NobodyTyped DEF LoginTyped, GhostsTyped
  <1>5. QueueTyped' /\ vpnStamp' \in 0 .. MaxStamp /\ bound' \in -1 .. MaxStamp
    BY <1>1 DEF VpnTyped, QueueTyped, ManagerTyped
  <1> QED  BY <1>3, <1>4, <1>5 DEF VpnTyped, ManagerTyped

\* A second passes: the time counted against the limit is below it, as it is the time of the network.
LEMMA VpnTickTyped == ASSUME VpnTyped, TimesAddUp, WebVpn!Tick PROVE VpnTyped'
  <1>1. login \in VpnLogins /\ login.progress.id <= Len(sent) /\ Len(sent) \in Nat
        /\ pending \in WebVpn!ChallengeRecord /\ pending.id <= Len(sent) /\ sent \in Seq(Nat) /\ submitted \in Seq(Nat)
        /\ Len(sent) = Len(submitted)
    BY DEF VpnTyped, LoginTyped, ManagerTyped, GhostsTyped
  <1>2. \A age \in Nat : \A limit : WebVpn!Older(age, limit) \in Nat
    BY DEF WebVpn!Older, WebVpn!Long
  <1>3. GhostsTyped' /\ Len(sent') = Len(sent)
    <2>1. /\ sent' = [i \in 1 .. Len(sent) |-> WebVpn!Older(sent[i], SendGap)]
          /\ submitted' = [i \in 1 .. Len(sent) |-> WebVpn!Older(submitted[i], SubmitGap)]
      BY <1>1 DEF WebVpn!Tick, WebVpn!Challenges
    <2>2. \A i \in 1 .. Len(sent) : WebVpn!Older(sent[i], SendGap) \in Nat /\ WebVpn!Older(submitted[i], SubmitGap) \in Nat
      BY <1>1, <1>2
    <2> QED  BY <1>1, <2>1, <2>2 DEF GhostsTyped
  <1>4. pending' \in WebVpn!ChallengeRecord /\ pending'.id <= Len(sent)
    BY <1>1, AgedTyped DEF WebVpn!Tick
  <1>5. login' \in VpnLogins /\ login'.progress.id <= Len(sent)
    <2>1. CASE login = WebVpn!Nobody
      BY <1>1, <2>1 DEF WebVpn!Tick
    <2>2. CASE login # WebVpn!Nobody
      <3>1. login.network < Budget /\ login.prompt < PromptLimit
        BY <2>2 DEF WebVpn!Tick, WebVpn!NetworkTime, TimesAddUp, TimesOf
      <3>2. PICK after, open, net, progress :
                 /\ after = login.elapsed + 1 /\ after \in Nat
                 /\ open = (IF login.step = "prompt" THEN login.prompt + 1 ELSE login.prompt) /\ open \in 0 .. PromptLimit
                 /\ net = (IF login.step = "prompt" THEN login.network ELSE login.network + 1) /\ net \in 0 .. Budget
                 /\ progress = WebVpn!Aged(login.progress) /\ progress \in WebVpn!ChallengeRecord
                 /\ progress.id = login.progress.id
        <4>1. login.elapsed \in Nat /\ login.prompt \in 0 .. PromptLimit /\ login.network \in 0 .. Budget
              /\ login.progress \in WebVpn!ChallengeRecord
          BY <1>1 DEF VpnLogins
        <4>2. /\ login.elapsed + 1 \in Nat
              /\ (IF login.step = "prompt" THEN login.prompt + 1 ELSE login.prompt) \in 0 .. PromptLimit
              /\ (IF login.step = "prompt" THEN login.network ELSE login.network + 1) \in 0 .. Budget
          BY <3>1, <4>1, VpnConstants
        <4> QED  BY <4>1, <4>2, AgedTyped
      <3>3. login' = [login EXCEPT !.elapsed = after, !.progress = progress, !.prompt = open, !.network = net]
        BY <2>2, <3>2 DEF WebVpn!Tick
      <3>4. login' \in VpnLogins /\ login'.progress = progress
        BY <1>1, <3>2, <3>3 DEF VpnLogins
      <3> QED  BY <1>1, <3>2, <3>4
    <2> QED  BY <2>1, <2>2
  <1>6. QueueTyped' /\ UNCHANGED <<vpnStamp, bound, ready>>
    BY DEF WebVpn!Tick, VpnTyped, QueueTyped
  <1> QED  BY <1>3, <1>4, <1>5, <1>6 DEF VpnTyped, ManagerTyped, LoginTyped

LEMMA VpnTypesInit == WebVpn!Init => VpnTyped
  BY NobodyTyped, VpnConstants
     DEF WebVpn!Init, VpnTyped, ManagerTyped, QueueTyped, LoginTyped, GhostsTyped

LEMMA VpnTypesStep == VpnTyped /\ TimesAddUp /\ [WebVpn!Next]_WebVpn!vars => VpnTyped'
  <1> SUFFICES ASSUME VpnTyped, TimesAddUp, [WebVpn!Next]_WebVpn!vars PROVE VpnTyped'
    OBVIOUS
  <1>1. CASE WebVpn!ChangeCredentials
    <2>1. vpnStamp' \in 0 .. MaxStamp /\ UNCHANGED <<bound, ready, pending, queue, login, sent, submitted>>
      BY <1>1, VpnConstants DEF WebVpn!ChangeCredentials, WebVpn!manager, WebVpn!ghosts, VpnTyped, ManagerTyped
    <2> QED  BY <2>1 DEF VpnTyped, ManagerTyped, QueueTyped, LoginTyped, GhostsTyped
  <1>2. CASE WebVpn!Clear
    <2>1. /\ ready' = "none" /\ pending' \in {pending, WebVpn!NoChallenge}
          /\ UNCHANGED <<vpnStamp, bound, queue, login, sent, submitted>>
      BY <1>2 DEF WebVpn!Clear, WebVpn!ghosts
    <2> QED  BY <2>1, NobodyTyped DEF VpnTyped, ManagerTyped, QueueTyped, LoginTyped, GhostsTyped
  <1>3. CASE UNCHANGED WebVpn!vars
    BY <1>3 DEF WebVpn!vars, WebVpn!manager, WebVpn!ghosts, VpnTyped, ManagerTyped, QueueTyped, LoginTyped, GhostsTyped
  <1> QED  BY <1>1, <1>2, <1>3, VpnAskTyped, VpnGrantTyped, VpnLoginTyped, VpnFinishTyped, VpnTickTyped DEF WebVpn!Next

\* Device usage: the configuration, the history, and the loop.
UsageLoops == [step : UsageSteps, paused : BOOLEAN, scope : Scopes \cup {"none"}, password : 0 .. MaxVersions,
               used : -1 .. MaxUsed, answer : Usage!Answers \cup {"none"}]
UsageBaselines == [age : 0 .. MaxAge, used : -1 .. MaxUsed]

ConfigurationTyped ==
    /\ enabled \in BOOLEAN /\ scope \in Scopes /\ password \in 0 .. MaxVersions /\ saves \in 0 .. MaxSaves
    /\ saving \in {"no", "interrupt", "pause"} /\ used \in 0 .. MaxUsed /\ changed \in BOOLEAN
    /\ next \in {"now", "later", "never"} /\ failed \in BOOLEAN /\ stamp \in 0 .. MaxVersions
HistoryTyped ==
    /\ baseline \in UsageBaselines /\ counted \in 0 .. MaxUsed
    /\ first \in -1 .. MaxUsed /\ high \in -1 .. MaxUsed
DevicesTyped == ConfigurationTyped /\ HistoryTyped /\ loop \in UsageLoops

LEMMA DevicesTypes == DevicesTyped <=> Usage!TypeOK
  <1>1. Usage!None = -1
    BY DEF Usage!None
  <1> QED  BY <1>1 DEF DevicesTyped, ConfigurationTyped, HistoryTyped, UsageLoops, UsageBaselines, UsageSteps, Usage!TypeOK

LEMMA UsageConstants ==
  /\ MaxUsed \in Nat /\ MaxAge \in Nat /\ MaxSaves \in Nat /\ MaxVersions \in Nat /\ MaxVersions >= 1
  /\ "local" \in Scopes
  BY BoundsAssumption, UsageAssumption

LEMMA UsageResting == Usage!Resting \in UsageLoops /\ Usage!NoBaseline \in UsageBaselines /\ Usage!None = -1
  BY UsageConstants DEF Usage!Resting, Usage!NoBaseline, Usage!None, UsageLoops, UsageBaselines, UsageSteps

LEMMA DevicesTypesInit == Usage!Init => DevicesTyped
  <1> SUFFICES ASSUME Usage!Init PROVE DevicesTyped
    OBVIOUS
  <1>1. /\ enabled \in BOOLEAN /\ scope \in Scopes /\ saving \in {"no", "interrupt", "pause"} /\ changed \in BOOLEAN
        /\ next \in {"now", "later", "never"} /\ failed \in BOOLEAN
    BY UsageConstants DEF Usage!Init
  <1>2. password \in 0 .. MaxVersions /\ saves \in 0 .. MaxSaves /\ used \in 0 .. MaxUsed /\ stamp \in 0 .. MaxVersions
    BY UsageConstants DEF Usage!Init
  <1>3. counted \in 0 .. MaxUsed /\ first \in -1 .. MaxUsed /\ high \in -1 .. MaxUsed
    BY UsageConstants DEF Usage!Init, Usage!None
  <1>4. loop \in UsageLoops /\ baseline \in UsageBaselines
    BY UsageResting DEF Usage!Init
  <1> QED  BY <1>1, <1>2, <1>3, <1>4 DEF DevicesTyped, ConfigurationTyped, HistoryTyped

\* What the loop does next.
LEMMA UsageGoes ==
  ASSUME loop \in UsageLoops, NEW step \in UsageSteps, NEW pass \in 0 .. MaxVersions, NEW seen \in -1 .. MaxUsed,
         NEW said \in Usage!Answers, NEW sc \in Scopes, NEW pausing \in BOOLEAN,
         \/ loop' = [loop EXCEPT !.step = step]
         \/ loop' = [loop EXCEPT !.step = step, !.password = pass]
         \/ loop' = [loop EXCEPT !.step = step, !.answer = said]
         \/ loop' = [loop EXCEPT !.step = step, !.answer = said, !.used = seen]
         \/ loop' = [loop EXCEPT !.scope = sc, !.paused = pausing]
  PROVE  loop' \in UsageLoops
  BY DEF UsageLoops

\* The counter that is recorded is one the school has shown; the usage is counted from the first of them on.
LEMMA HistoryKept ==
  ASSUME UsageInv, HistoryTyped, NEW seen \in 0 .. MaxUsed, Usage!Observe(seen)
  PROVE  HistoryTyped'
  <1>1. /\ baseline.used \in -1 .. MaxUsed /\ counted \in 0 .. MaxUsed /\ first \in -1 .. MaxUsed
        /\ high \in -1 .. MaxUsed
    BY DEF HistoryTyped, UsageBaselines
  <1>2. Usage!None = -1 /\ MaxUsed \in Nat /\ MaxAge \in Nat
    BY UsageConstants DEF Usage!None
  <1>3. baseline' = [age |-> 0, used |-> IF baseline.used > seen THEN baseline.used ELSE seen]
    BY DEF Usage!Observe, Usage!High
  <1>4. baseline' \in UsageBaselines
    <2>1. (IF baseline.used > seen THEN baseline.used ELSE seen) \in -1 .. MaxUsed /\ 0 \in 0 .. MaxAge
      BY <1>1, <1>2
    <2> QED  BY <1>3, <2>1 DEF UsageBaselines
  <1>5. first' \in 0 .. MaxUsed \cup {-1} /\ high' \in 0 .. MaxUsed /\ first' \in -1 .. MaxUsed /\ high' \in -1 .. MaxUsed
    BY <1>1, <1>2 DEF Usage!Observe
  <1>6. BaselineIsHigh'
    BY UsageObserves DEF UsageInv
  <1>7. first' \in Nat /\ counted' <= high' - first' /\ high' # -1
    <2>1. high' # -1 /\ first' # -1
      BY <1>2, <1>5, <1>6 DEF BaselineIsHigh
    <2> QED  BY <1>2, <1>5, <1>6, <2>1 DEF BaselineIsHigh
  <1>8. counted' \in Nat
    BY <1>1, <1>2 DEF Usage!Observe
  <1>9. counted' \in 0 .. MaxUsed
    <2>1. high' \in Nat /\ high' <= MaxUsed
      BY <1>2, <1>5, <1>7
    <2>2. \A c \in Nat, f \in Nat, h \in Nat, most \in Nat : c <= h - f /\ h <= most => c \in 0 .. most
      OBVIOUS
    <2>3. counted' \in Nat /\ first' \in Nat /\ high' \in Nat /\ counted' <= high' - first' /\ high' <= MaxUsed
      BY <1>7, <1>8, <2>1
    <2> QED  BY <1>2, <2>2, <2>3
  <1> QED  BY <1>4, <1>5, <1>9 DEF HistoryTyped

LEMMA HistoryBegins == ASSUME Usage!Pause PROVE HistoryTyped'
  BY UsageConstants, UsageResting DEF Usage!Pause, HistoryTyped

LEMMA DevicesTypesStep == UsageInv /\ DevicesTyped /\ [Usage!UsageNext]_Usage!usageVars => DevicesTyped'
  <1> SUFFICES ASSUME UsageInv, DevicesTyped, [Usage!UsageNext]_Usage!usageVars PROVE DevicesTyped'
    OBVIOUS
  <1> USE DEF Usage!config, Usage!item, Usage!history
  <1>1. ConfigurationTyped /\ HistoryTyped /\ loop \in UsageLoops
    BY DEF DevicesTyped
  <1>2. UNCHANGED <<baseline, counted, first, high>> => HistoryTyped'
    BY <1>1 DEF HistoryTyped
  <1>3. UNCHANGED <<enabled, scope, password, saves, saving, used, changed, next, failed, stamp>> => ConfigurationTyped'
    BY <1>1 DEF ConfigurationTyped
  <1>4. Usage!Interrupted => loop' \in UsageLoops
    <2>1. "rest" \in UsageSteps
      BY DEF UsageSteps
    <2>2. [loop EXCEPT !.step = "rest"] \in UsageLoops
      BY <1>1, <2>1 DEF UsageLoops
    <2> QED  BY <1>1, <2>2 DEF Usage!Interrupted
  <1>5. CASE Usage!Save
    <2>1. UNCHANGED <<loop, baseline, counted, first, high>>
      BY <1>5 DEF Usage!Save
    <2>2. UNCHANGED <<used, changed, next, failed, stamp>>
      BY <1>5 DEF Usage!Save
    <2>3. enabled' \in BOOLEAN /\ scope' \in Scopes /\ saving' \in {"no", "interrupt", "pause"}
      BY <1>1, <1>5 DEF Usage!Save, ConfigurationTyped
    <2>4. saves \in 0 .. MaxSaves /\ saves < MaxSaves /\ saves' = saves + 1
      BY <1>1, <1>5 DEF Usage!Save, ConfigurationTyped
    <2>5. UNCHANGED password \/ (password < MaxVersions /\ password' = password + 1)
      BY <1>5 DEF Usage!Save
    <2>6. saves' \in 0 .. MaxSaves
      BY <2>4, UsageConstants
    <2>7. password \in 0 .. MaxVersions
      BY <1>1 DEF ConfigurationTyped
    <2>8. password' \in 0 .. MaxVersions
      BY <2>5, <2>7, UsageConstants
    <2>9. ConfigurationTyped'
      BY <1>1, <2>2, <2>3, <2>6, <2>8 DEF ConfigurationTyped
    <2> QED  BY <1>1, <1>2, <2>1, <2>9 DEF DevicesTyped
  <1>6. CASE Usage!SaveInterrupts
    <2>1. ConfigurationTyped'
      BY <1>1, <1>6 DEF Usage!SaveInterrupts, ConfigurationTyped
    <2> QED  BY <1>2, <1>4, <1>6, <2>1 DEF Usage!SaveInterrupts, DevicesTyped
  <1>7. CASE Usage!SavePauses
    <2>1. ConfigurationTyped' /\ UNCHANGED loop
      BY <1>1, <1>7 DEF Usage!SavePauses, ConfigurationTyped
    <2> QED  BY <1>1, <1>7, <2>1, HistoryBegins DEF Usage!SavePauses, DevicesTyped
  <1>8. CASE Usage!AccountChanged
    <2>1. ConfigurationTyped'
      BY <1>1, <1>8 DEF Usage!AccountChanged, ConfigurationTyped
    <2> QED  BY <1>2, <1>4, <1>8, <2>1 DEF Usage!AccountChanged, DevicesTyped
  <1>9. CASE Usage!Grows \/ Usage!NetworkChanges
    <2>1. UNCHANGED <<loop, baseline, counted, first, high, enabled, scope, password, saves, saving, next, failed, stamp>>
      BY <1>9 DEF Usage!Grows, Usage!NetworkChanges
    <2>2. changed' \in BOOLEAN
      BY <1>1, <1>9 DEF Usage!Grows, Usage!NetworkChanges, ConfigurationTyped
    <2>3. UNCHANGED used \/ (used < MaxUsed /\ used' = used + 1)
      BY <1>9 DEF Usage!Grows, Usage!NetworkChanges
    <2>4. used \in 0 .. MaxUsed
      BY <1>1 DEF ConfigurationTyped
    <2>5. used' \in 0 .. MaxUsed
      BY <2>3, <2>4, UsageConstants
    <2>6. ConfigurationTyped'
      BY <1>1, <2>1, <2>2, <2>5 DEF ConfigurationTyped
    <2> QED  BY <1>1, <1>2, <2>1, <2>6 DEF DevicesTyped
  <1>10. CASE Usage!Later
    <2>1. ConfigurationTyped' /\ UNCHANGED <<loop, counted, first, high>>
      BY <1>1, <1>10 DEF Usage!Later, ConfigurationTyped
    <2>2. baseline' \in UsageBaselines
      <3>1. CASE baseline.used = Usage!None \/ baseline.age = MaxAge
        BY <1>1, <1>10, <3>1 DEF Usage!Later, HistoryTyped
      <3>2. CASE ~(baseline.used = Usage!None \/ baseline.age = MaxAge)
        <4>1. PICK age \in 0 .. MaxAge : age = baseline.age + 1
          BY <1>1, <3>2, UsageConstants DEF HistoryTyped, UsageBaselines
        <4>2. baseline' = [baseline EXCEPT !.age = age]
          BY <1>10, <3>2, <4>1 DEF Usage!Later
        <4> QED  BY <1>1, <4>2 DEF HistoryTyped, UsageBaselines
      <3> QED  BY <3>1, <3>2
    <2> QED  BY <1>1, <2>1, <2>2 DEF DevicesTyped, HistoryTyped
  <1>11. CASE Usage!RoundPauses
    <2>1. loop' \in UsageLoops
      <3>1. PICK pausing \in BOOLEAN : pausing = ~enabled
        BY <1>1 DEF ConfigurationTyped
      <3>2. scope \in Scopes
        BY <1>1 DEF ConfigurationTyped
      <3>3. loop' = [loop EXCEPT !.scope = scope, !.paused = pausing]
        BY <1>11, <3>1 DEF Usage!RoundPauses
      <3> QED  BY <1>1, <3>2, <3>3 DEF UsageLoops
    <2> QED  BY <1>3, <1>11, <2>1, HistoryBegins DEF Usage!RoundPauses, DevicesTyped
  <1>12. CASE Usage!RoundBegins
    <2>1. ConfigurationTyped'
      BY <1>1, <1>12 DEF Usage!RoundBegins, ConfigurationTyped
    <2>2. loop' \in UsageLoops
      <3>1. password \in 0 .. MaxVersions /\ "sample" \in UsageSteps
        BY <1>1 DEF ConfigurationTyped, UsageSteps
      <3>2. UNCHANGED loop \/ loop' = [loop EXCEPT !.step = "sample", !.password = password]
        BY <1>12 DEF Usage!RoundBegins
      <3> QED  BY <1>1, <3>1, <3>2 DEF UsageLoops
    <2> QED  BY <1>2, <1>12, <2>1, <2>2 DEF Usage!RoundBegins, DevicesTyped
  <1>13. CASE Usage!Sample
    <2>1. loop' \in UsageLoops
      <3>1. /\ "check" \in UsageSteps /\ "sample" \in Usage!Answers
            /\ \A seen \in 0 .. used : seen \in -1 .. MaxUsed
        BY <1>1, UsageConstants DEF UsageSteps, Usage!Answers, ConfigurationTyped
      <3>2. \/ \E seen \in -1 .. MaxUsed : loop' = [loop EXCEPT !.step = "check", !.answer = "sample", !.used = seen]
            \/ \E said \in Usage!Answers : loop' = [loop EXCEPT !.step = "check", !.answer = said]
        BY <1>13, <3>1 DEF Usage!Sample
      <3> QED  BY <1>1, <3>1, <3>2 DEF UsageLoops
    <2> QED  BY <1>2, <1>3, <1>13, <2>1 DEF Usage!Sample, DevicesTyped
  <1>14. CASE Usage!CheckAgain
    <2>1. loop' \in UsageLoops
      <3>1. (IF Usage!Stale THEN "rest" ELSE "record") \in UsageSteps
        BY DEF UsageSteps
      <3> QED  BY <1>1, <1>14, <3>1 DEF Usage!CheckAgain, UsageLoops
    <2> QED  BY <1>2, <1>3, <1>14, <2>1 DEF Usage!CheckAgain, DevicesTyped
  <1>15. CASE Usage!Record
    <2>1. loop' \in UsageLoops
      <3>1. "rest" \in UsageSteps /\ loop' = [loop EXCEPT !.step = "rest"]
        BY <1>15 DEF UsageSteps, Usage!Record
      <3> QED  BY <1>1, <3>1 DEF UsageLoops
    <2>2. ConfigurationTyped'
      <3>1. UNCHANGED <<enabled, scope, password, saves, saving, used, changed>> /\ stamp' = loop.password
        BY <1>15 DEF Usage!Record
      <3>2. next' \in {"now", "later", "never"} /\ failed' \in BOOLEAN
        BY <1>15 DEF Usage!Record
      <3>3. loop.password \in 0 .. MaxVersions
        BY <1>1 DEF UsageLoops
      <3> QED  BY <1>1, <3>1, <3>2, <3>3 DEF ConfigurationTyped
    <2>3. HistoryTyped'
      <3>1. UNCHANGED <<baseline, counted, first, high>> \/ (loop.used \in Nat /\ Usage!Observe(loop.used))
        <4>1. loop.step = "record" /\ (loop.answer = "sample" => loop.used \in Nat)
          BY <1>15 DEF Usage!Record, UsageInv, SampleIsCounter
        <4> QED  BY <1>15, <4>1 DEF Usage!Record
      <3>2. loop.used \in -1 .. MaxUsed
        BY <1>1 DEF UsageLoops
      <3>3. loop.used \in Nat => loop.used \in 0 .. MaxUsed
        BY <3>2, UsageConstants
      <3> QED  BY <1>1, <1>2, <3>1, <3>3, HistoryKept
    <2> QED  BY <2>1, <2>2, <2>3 DEF DevicesTyped
  <1>16. CASE Usage!Restart
    <2>1. ConfigurationTyped'
      BY <1>1, <1>16, UsageConstants DEF Usage!Restart, ConfigurationTyped
    <2> QED  BY <1>2, <1>16, <2>1, UsageResting DEF Usage!Restart, DevicesTyped
  <1>17. CASE UNCHANGED Usage!usageVars
    BY <1>1, <1>2, <1>3, <1>17 DEF Usage!usageVars, DevicesTyped
  <1> QED  BY <1>5, <1>6, <1>7, <1>8, <1>9, <1>10, <1>11, <1>12, <1>13, <1>14, <1>15, <1>16, <1>17 DEF Usage!UsageNext

\* The check of the end of a month: its times are those that have been, or the ones an attempt is set back to.
MonthTimes == {MonthEnd!Unknown} \cup (-Spacing .. MaxNow)
MonthDays == MonthEnd!Days \cup {MonthEnd!Unknown}
MonthTasks == [step : MonthSteps, now : 0 .. MaxNow, day : MonthEnd!Days]
SwitchesTyped == alerts \in BOOLEAN /\ networkChanged \in BOOLEAN /\ billingBusy \in BOOLEAN /\ campusBusy \in BOOLEAN
NotesTyped ==
    /\ attempt \in MonthTimes /\ done \in MonthDays /\ stampAttempt \in MonthTimes /\ stampDay \in MonthDays
MonthStateTypes == hour \in 0 .. MaxNow /\ NotesTyped /\ monthTask \in MonthTasks /\ SwitchesTyped

MonthHistoryTypes == unstamped \in BOOLEAN /\ lost \in BOOLEAN
MonthTypes == MonthStateTypes /\ MonthHistoryTypes

LEMMA MonthTypesAre == MonthTypes <=> MonthEnd!MonthTypeOK
  BY DEF MonthTypes, MonthStateTypes, MonthHistoryTypes, NotesTyped, SwitchesTyped, MonthTimes, MonthDays, MonthTasks, MonthSteps, MonthEnd!MonthTypeOK

LEMMA MonthDaysAre ==
  /\ \A h \in 0 .. MaxNow : h \div DayLength \in MonthEnd!Days
  /\ 0 \in 0 .. MaxNow /\ 0 \in MonthEnd!Days
  <1>1. MaxNow \in Nat
    BY MonthAssumption
  <1>2. ASSUME NEW h \in 0 .. MaxNow PROVE h \div DayLength \in 0 .. MaxNow \div DayLength
    <2> PICK k \in Nat : k = DayLength /\ k > 0
      BY MonthConstants
    <2>1. PICK p \in Nat : p = h \div k /\ p * k <= h
      OBVIOUS
    <2>2. PICK q \in Nat : q = MaxNow \div k /\ MaxNow < (q + 1) * k
      BY <1>1
    <2>3. ~(q < p)
      <3>1. q < p => (q + 1) * k <= p * k
        OBVIOUS
      <3>2. (q + 1) * k \in Nat /\ p * k \in Nat
        OBVIOUS
      <3> QED  BY <1>1, <2>1, <2>2, <3>1, <3>2
    <2> QED  BY <2>1, <2>2, <2>3
  <1>3. 0 \in 0 .. MaxNow /\ MaxNow \div DayLength \in Nat
    BY <1>1, MonthConstants
  <1> QED  BY <1>2, <1>3 DEF MonthEnd!Days

LEMMA NoMonthTask == MonthEnd!NoTask \in MonthTasks
  BY MonthDaysAre DEF MonthEnd!NoTask, MonthTasks, MonthSteps

LEMMA MonthStateTypesInit == MonthEnd!MonthInit => MonthStateTypes
  BY MonthDaysAre, NoMonthTask DEF MonthEnd!MonthInit, MonthStateTypes, NotesTyped, SwitchesTyped, MonthTimes, MonthDays

LEMMA MonthStateTypesStep == MonthStateTypes /\ [MonthEnd!MonthNext]_MonthEnd!monthVars => MonthStateTypes'
  <1> SUFFICES ASSUME MonthStateTypes, [MonthEnd!MonthNext]_MonthEnd!monthVars PROVE MonthStateTypes'
    OBVIOUS
  <1> USE DEF MonthEnd!stampFile, MonthEnd!memory, MonthEnd!world, MonthEnd!history
  <1>1. hour \in 0 .. MaxNow /\ NotesTyped /\ monthTask \in MonthTasks /\ SwitchesTyped
    BY DEF MonthStateTypes
  <1>2. /\ \A h \in 0 .. MaxNow : h \in MonthTimes
        /\ MonthEnd!Unknown \in MonthTimes /\ MonthEnd!Unknown \in MonthDays
        /\ monthTask.now \in 0 .. MaxNow /\ monthTask.day \in MonthDays
    BY <1>1, MonthConstants, MonthAssumption DEF MonthTimes, MonthDays, MonthTasks
  <1>3. \A step \in MonthSteps : [monthTask EXCEPT !.step = step] \in MonthTasks
    BY <1>1 DEF MonthTasks
  <1>4. UNCHANGED <<alerts, networkChanged, billingBusy, campusBusy>> => SwitchesTyped'
    BY <1>1 DEF SwitchesTyped
  <1>5. CASE MonthEnd!Schedule
    <2>1. UNCHANGED <<hour, alerts, networkChanged, billingBusy, campusBusy, stampAttempt, stampDay>> /\ done' = MonthEnd!Done
      BY <1>5 DEF MonthEnd!Schedule
    <2>2. MonthEnd!Done \in MonthDays /\ MonthEnd!Attempt \in MonthTimes
      BY <1>1 DEF NotesTyped, MonthEnd!Done, MonthEnd!Attempt
    <2>3. MonthEnd!Today \in MonthEnd!Days
      BY <1>1, MonthDaysAre DEF MonthEnd!Today
    <2>4. attempt' \in MonthTimes /\ monthTask' \in MonthTasks
      <3>1. [step |-> "locking", now |-> hour, day |-> MonthEnd!Today] \in MonthTasks
        BY <1>1, <2>3 DEF MonthTasks, MonthSteps
      <3> QED  BY <1>1, <1>2, <1>5, <2>2, <3>1 DEF MonthEnd!Schedule
    <2> QED  BY <1>1, <1>4, <2>1, <2>2, <2>4 DEF MonthStateTypes, NotesTyped
  <1>6. CASE MonthEnd!Lock \/ MonthEnd!ReadPlan \/ MonthEnd!ReadBalances \/ MonthEnd!SaveAttempt \/ MonthEnd!SaveDone
    <2>1. UNCHANGED <<hour, done>>
      BY <1>6 DEF MonthEnd!Lock, MonthEnd!ReadPlan, MonthEnd!ReadBalances, MonthEnd!SaveAttempt, MonthEnd!SaveDone
    <2>2. monthTask' \in MonthTasks
      BY <1>3, <1>6, NoMonthTask DEF MonthEnd!Lock, MonthEnd!ReadPlan, MonthEnd!ReadBalances, MonthEnd!SaveAttempt,
             MonthEnd!SaveDone, MonthEnd!Goes, MonthEnd!Stops, MonthSteps
    <2>3. attempt' \in MonthTimes /\ stampAttempt' \in MonthTimes /\ stampDay' \in MonthDays
      BY <1>1, <1>2, <1>6 DEF MonthEnd!Lock, MonthEnd!ReadPlan, MonthEnd!ReadBalances, MonthEnd!SaveAttempt,
             MonthEnd!SaveDone, MonthEnd!Stamp, NotesTyped
    <2>4. SwitchesTyped'
      BY <1>1, <1>6 DEF MonthEnd!Lock, MonthEnd!ReadPlan, MonthEnd!ReadBalances, MonthEnd!SaveAttempt,
             MonthEnd!SaveDone, SwitchesTyped
    <2> QED  BY <1>1, <2>1, <2>2, <2>3, <2>4 DEF MonthStateTypes, NotesTyped
  <1>7. CASE MonthEnd!FindPortal
    <2>1. monthTask.now - Spacing + Retry \in MonthTimes
      BY <1>2, MonthConstants, MonthAssumption DEF MonthTimes
    <2>2. UNCHANGED <<hour, done, alerts, networkChanged, billingBusy, campusBusy>>
      BY <1>7 DEF MonthEnd!FindPortal
    <2>3. /\ monthTask' \in MonthTasks
          /\ attempt' \in MonthTimes /\ stampAttempt' \in MonthTimes /\ stampDay' \in MonthDays
      BY <1>1, <1>2, <1>3, <1>7, <2>1, NoMonthTask DEF MonthEnd!FindPortal, MonthEnd!Goes, MonthEnd!Stops, MonthEnd!Stamp,
             MonthSteps, NotesTyped
    <2> QED  BY <1>1, <1>4, <2>2, <2>3 DEF MonthStateTypes, NotesTyped
  <1>8. CASE MonthEnd!Finish
    <2>1. UNCHANGED <<hour, attempt, stampAttempt, stampDay, alerts, networkChanged, billingBusy, campusBusy>>
      BY <1>8 DEF MonthEnd!Finish
    <2>2. monthTask' \in MonthTasks /\ done' \in MonthDays
      BY <1>2, <1>8, NoMonthTask DEF MonthEnd!Finish, MonthEnd!Stops
    <2> QED  BY <1>1, <1>4, <2>1, <2>2 DEF MonthStateTypes, NotesTyped
  <1>9. CASE MonthEnd!Restart
    <2>1. UNCHANGED <<hour, stampAttempt, stampDay, alerts, networkChanged, billingBusy, campusBusy>>
      BY <1>9 DEF MonthEnd!Restart, MonthEnd!Forgets
    <2>2. monthTask' \in MonthTasks /\ attempt' \in MonthTimes /\ done' \in MonthDays
      BY <1>2, <1>9, NoMonthTask DEF MonthEnd!Restart, MonthEnd!Forgets, MonthEnd!Stops
    <2> QED  BY <1>1, <1>4, <2>1, <2>2 DEF MonthStateTypes, NotesTyped
  <1>10. CASE MonthEnd!Passes
    <2>1. hour' \in 0 .. MaxNow
      BY <1>1, <1>10, MonthAssumption DEF MonthEnd!Passes
    <2> QED  BY <1>1, <1>4, <1>10, <2>1 DEF MonthEnd!Passes, MonthStateTypes, NotesTyped
  <1>11. CASE MonthEnd!World
    <2>1. SwitchesTyped'
      BY <1>1, <1>11 DEF MonthEnd!World, SwitchesTyped
    <2> QED  BY <1>1, <1>11, <2>1 DEF MonthEnd!World, MonthStateTypes, NotesTyped
  <1>12. CASE UNCHANGED MonthEnd!monthVars
    BY <1>1, <1>4, <1>12 DEF MonthEnd!monthVars, MonthStateTypes, NotesTyped
  <1> QED  BY <1>5, <1>6, <1>7, <1>8, <1>9, <1>10, <1>11, <1>12 DEF MonthEnd!MonthNext

LEMMA MonthTypesInit == MonthEnd!MonthInit => MonthTypes
  BY MonthStateTypesInit DEF MonthTypes, MonthHistoryTypes, MonthEnd!MonthInit

LEMMA MonthTypesStep == MonthTypes /\ [MonthEnd!MonthNext]_MonthEnd!monthVars => MonthTypes'
  <1>1. MonthHistoryTypes /\ [MonthEnd!MonthNext]_MonthEnd!monthVars => MonthHistoryTypes'
    BY DEF MonthHistoryTypes, MonthEnd!MonthNext, MonthEnd!monthVars, MonthEnd!history, MonthEnd!Schedule,
       MonthEnd!Lock, MonthEnd!Stamp, MonthEnd!SaveAttempt, MonthEnd!ReadPlan, MonthEnd!FindPortal,
       MonthEnd!ReadBalances, MonthEnd!SaveDone, MonthEnd!Finish, MonthEnd!Restart, MonthEnd!Passes, MonthEnd!World
  <1> QED  BY <1>1, MonthStateTypesStep DEF MonthTypes

\* A command that saves a new password has one.
CommandTyped(op) == op \in Config!Ops /\ (op.new => op.pass \in SavedPasswords)
CopiesTyped ==
    /\ memory \in Config!Values /\ store \in Config!Values \cup {Config!Absent}
    /\ entry \in Config!Values \cup {Config!Absent} /\ file \in Config!Values \cup {Config!Absent}
    /\ storage \in {"unknown", "available", "missing", "error", "down"}
DueTyped == due \subseteq SavedPasswords \cup {Config!NoAccount} /\ due # {} /\ slipped \in BOOLEAN
ConfigTypes ==
    /\ CopiesTyped /\ readable \in BOOLEAN /\ entered \in 0 .. MaxEntered /\ DueTyped
    /\ CommandTyped(main) /\ main.kind \notin {"change", "record"}
    /\ CommandTyped(configTask) /\ configTask.kind \notin {"save", "trust"}

LEMMA ConfigTypesAre == ConfigTypes => Config!ConfigTypeOK
  <1> SUFFICES ASSUME ConfigTypes PROVE Config!ConfigTypeOK
    OBVIOUS
  <1>1. CopiesTyped /\ readable \in BOOLEAN /\ entered \in 0 .. MaxEntered /\ DueTyped
    BY DEF ConfigTypes
  <1>2. /\ main \in Config!Ops /\ main.kind \notin {"change", "record"}
        /\ configTask \in Config!Ops /\ configTask.kind \notin {"save", "trust"}
    BY DEF ConfigTypes, CommandTyped
  <1> QED  BY <1>1, <1>2 DEF CopiesTyped, DueTyped, Config!ConfigTypeOK

LEMMA ConfigIdle ==
  /\ CommandTyped(Config!Idle) /\ Config!Idle.kind = "idle"
  /\ MaxEntered \in Nat
  BY BoundsAssumption DEF CommandTyped, Config!Idle, Config!Ops, Config!Values

LEMMA ConfigTypesInit == Config!ConfigInit => ConfigTypes
  <1> SUFFICES ASSUME Config!ConfigInit PROVE ConfigTypes
    OBVIOUS
  <1>1. CopiesTyped
    BY DEF Config!ConfigInit, CopiesTyped, Config!Values
  <1>2. readable \in BOOLEAN /\ main = Config!Idle /\ configTask = Config!Idle
    BY DEF Config!ConfigInit
  <1>3. entered \in 0 .. MaxEntered
    BY ConfigIdle DEF Config!ConfigInit
  <1>4. DueTyped
    <2>1. \E pass \in {entry, file, Config!NoAccount} :
            \/ pass = entry /\ entry \in SavedPasswords
            \/ pass = file /\ file \in SavedPasswords /\ entry \notin SavedPasswords
            \/ pass = Config!NoAccount /\ {entry, file} \cap SavedPasswords = {}
      OBVIOUS
    <2> QED  BY <2>1 DEF Config!ConfigInit, DueTyped
  <1> QED  BY <1>1, <1>2, <1>3, <1>4, ConfigIdle DEF ConfigTypes

\* What is put together from typed copies is one.
LEMMA CopiesMade ==
  ASSUME CopiesTyped, NEW pass \in Config!Values \cup {Config!Absent}, NEW from \in Config!Values \cup {Config!Absent}
  PROVE  /\ Config!Kept \in Config!Values \cup {Config!Absent}
         /\ Config!Public(pass) \in Config!Values \cup {Config!Absent}
         /\ pass \in Config!Values => Config!Public(pass) \in Config!Values /\ Config!Filled(pass, from) \in Config!Values
         /\ pass \in SavedPasswords => Config!Filled(pass, from) \in SavedPasswords
         /\ pass # Config!Absent => Config!Merged(pass, from) \in Config!Values
         /\ Config!InMemory(pass) \in Config!Values
  <1>1. pass # Config!Absent => pass \in Config!Values
    OBVIOUS
  <1>2. from # Config!Absent => from \in Config!Values
    OBVIOUS
  <1>3. Blank \in Config!Values /\ Config!NoAccount \in Config!Values /\ SavedPasswords \subseteq Config!Values
    BY DEF Config!Values
  <1>4. Config!Kept \in Config!Values \cup {Config!Absent}
    BY DEF CopiesTyped, Config!Kept
  <1>5. /\ Config!Public(pass) \in Config!Values \cup {Config!Absent}
        /\ pass \in Config!Values => Config!Public(pass) \in Config!Values /\ Config!Filled(pass, from) \in Config!Values
        /\ pass \in SavedPasswords => Config!Filled(pass, from) \in SavedPasswords
    BY <1>3 DEF Config!Public, Config!Filled
  <1>6. pass # Config!Absent => Config!Merged(pass, from) \in Config!Values
    BY <1>1, <1>2, <1>5 DEF Config!Merged
  <1>7. Config!InMemory(pass) \in Config!Values
    BY <1>1, <1>3 DEF Config!InMemory
  <1> QED  BY <1>4, <1>5, <1>6, <1>7

\* What is in storage after a write.
LEMMA CopiesWritten ==
  ASSUME CopiesTyped, NEW pass \in Config!Values, NEW w \in Config!Written(pass)
  PROVE  w[1] \in Config!Values \cup {Config!Absent} /\ w[2] \in Config!Values \cup {Config!Absent}
  <1>1. CASE w = <<store, entry, FALSE>>
    BY <1>1 DEF CopiesTyped
  <1>2. CASE w = <<pass, entry, FALSE>> \/ w = <<pass, entry, TRUE>>
    <2>1. \A told : LET written == <<pass, entry, told>> IN written[1] = pass /\ written[2] = entry
      OBVIOUS
    <2>2. w[1] = pass /\ w[2] = entry
      BY <1>2, <2>1
    <2> QED  BY <2>2 DEF CopiesTyped
  <1>3. CASE w = <<pass, Config!Absent, TRUE>>
    BY <1>3
  <1> QED  BY <1>1, <1>2, <1>3 DEF Config!Written

LEMMA ConfigLoadTyped == ASSUME CopiesTyped, Config!Load PROVE CopiesTyped'
  <1> DEFINE Copies == Config!Values \cup {Config!Absent}
  <1>1. memory \in Config!Values /\ store \in Copies /\ entry \in Copies /\ file \in Copies
    BY DEF CopiesTyped
  <1>2. CASE Config!LoadsBlind
    <2>1. memory' \in Config!Values
      BY <1>1, <1>2, CopiesMade DEF Config!LoadsBlind
    <2> QED  BY <1>1, <1>2, <2>1 DEF Config!LoadsBlind, CopiesTyped
  <1>3. CASE Config!LoadsFile
    <2>1. memory' \in Config!Values /\ UNCHANGED file /\ storage' \in {"available", "error", "missing"}
      BY <1>1, <1>3, CopiesMade DEF Config!LoadsFile
    <2>2. store' \in Copies /\ entry' \in Copies
      <3>1. CASE file \in SavedPasswords
        <4>1. PICK w \in Config!Written(file) : store' = w[1] /\ entry' = w[2]
          BY <1>3, <3>1 DEF Config!LoadsFile
        <4>2. file \in Config!Values
          BY <3>1 DEF Config!Values
        <4> QED  BY <4>1, <4>2, CopiesWritten
      <3>2. CASE file \notin SavedPasswords
        BY <1>1, <1>3, <3>2 DEF Config!LoadsFile
      <3> QED  BY <3>1, <3>2
    <2> QED  BY <1>1, <2>1, <2>2 DEF CopiesTyped
  <1>4. CASE Config!Kept # Config!Absent /\ Config!LoadsRecord
    <2>1. PICK pass : pass = Config!Merged(Config!Kept, file)
      OBVIOUS
    <2>2. pass \in Config!Values
      BY <1>1, <1>4, <2>1, CopiesMade
    <2>3. PICK w \in Config!Written(pass) \cup {<<store, entry, TRUE>>} :
            /\ store' = w[1] /\ entry' = w[2] /\ memory' = pass
            /\ file' \in {file, Config!Public(pass)} /\ storage' \in {"available", "error"}
      BY <1>4, <2>1 DEF Config!LoadsRecord
    <2>4. w[1] \in Copies /\ w[2] \in Copies
      <3>1. CASE w = <<store, entry, TRUE>>
        BY <1>1, <3>1
      <3>2. CASE w \in Config!Written(pass)
        BY <2>2, <3>2, CopiesWritten
      <3> QED  BY <2>3, <3>1, <3>2
    <2>5. file' \in Copies
      BY <1>1, <2>2, <2>3, CopiesMade
    <2> QED  BY <2>2, <2>3, <2>4, <2>5 DEF CopiesTyped
  <1> QED  BY <1>2, <1>3, <1>4 DEF Config!Load

\* A command that stores goes on with the record it stored, or ends.
LEMMA ConfigStoresTyped ==
  ASSUME CopiesTyped, DueTyped, NEW op, CommandTyped(op), NEW then, Config!Stores(op, then)
  PROVE  /\ CopiesTyped' /\ DueTyped' /\ UNCHANGED <<readable, entered>>
         /\ CommandTyped(then) /\ then.kind \in {op.kind, "idle"}
  <1>1. op \in Config!Ops /\ op.pass \in Config!Values /\ (op.new => op.pass \in SavedPasswords)
    BY DEF CommandTyped, Config!Ops
  <1>2. UNCHANGED <<memory, file, readable, entered, slipped>>
    BY DEF Config!Stores
  <1>3. CASE Config!Missing(op) /\ ~readable
    BY <1>2, <1>3, ConfigIdle DEF Config!Stores, CopiesTyped, DueTyped
  <1>4. CASE ~(Config!Missing(op) /\ ~readable)
    <2>1. PICK pass : pass = Config!ToStore(op)
      OBVIOUS
    <2>2. pass \in Config!Values /\ (op.new => pass \in SavedPasswords)
      BY <1>1, <2>1, CopiesMade DEF Config!ToStore
    <2>3. PICK w \in Config!Written(pass) :
            /\ store' = w[1] /\ entry' = w[2]
            /\ due' = IF op.new THEN due \cup {op.pass} ELSE due
            /\ then = IF w[3] /\ op.kind # "record" THEN [op EXCEPT !.pass = pass, !.at = "publish"] ELSE Config!Idle
            /\ storage' \in {storage, "available"}
      BY <1>4, <2>1 DEF Config!Stores
    <2>4. CopiesTyped'
      BY <1>2, <2>2, <2>3, CopiesWritten DEF CopiesTyped
    <2>5. DueTyped'
      BY <1>1, <1>2, <2>3 DEF DueTyped
    <2>6. CommandTyped(then) /\ then.kind \in {op.kind, "idle"}
      <3>1. CASE then = Config!Idle
        BY <3>1, ConfigIdle
      <3>2. CASE then = [op EXCEPT !.pass = pass, !.at = "publish"]
        BY <1>1, <2>2, <3>2 DEF CommandTyped, Config!Ops
      <3> QED  BY <2>3, <3>1, <3>2
    <2> QED  BY <1>2, <2>4, <2>5, <2>6
  <1> QED  BY <1>3, <1>4

LEMMA ConfigPublishesTyped ==
  ASSUME CopiesTyped, DueTyped, NEW op, CommandTyped(op), Config!Publishes(op)
  PROVE  CopiesTyped' /\ DueTyped' /\ UNCHANGED <<readable, entered>>
  <1>1. op.pass \in Config!Values /\ (op.new => op.pass \in SavedPasswords)
    BY DEF CommandTyped, Config!Ops
  <1>2. UNCHANGED <<store, entry, readable, storage, entered>>
    BY DEF Config!Publishes
  <1>3. memory' \in {memory, op.pass} /\ file' \in {file, Config!Public(op.pass)}
    BY DEF Config!Publishes
  <1>4. (due' = due \/ (op.new /\ due' = {op.pass})) /\ slipped' \in BOOLEAN
    BY DEF Config!Publishes, DueTyped
  <1>5. CopiesTyped'
    BY <1>1, <1>2, <1>3, CopiesMade DEF CopiesTyped
  <1> QED  BY <1>1, <1>2, <1>4, <1>5 DEF DueTyped

NewCommand(kind, pass, new) == [kind |-> kind, pass |-> pass, new |-> new, at |-> "store"]
LEMMA NewCommandTyped ==
  ASSUME NEW pass \in Config!Values
  PROVE  /\ \A kind \in {"save", "change"} :
                pass \in SavedPasswords =>
                  CommandTyped(NewCommand(kind, pass, TRUE)) /\ NewCommand(kind, pass, TRUE).kind = kind
         /\ \A kind \in {"save", "trust", "record"} :
                CommandTyped(NewCommand(kind, pass, FALSE)) /\ NewCommand(kind, pass, FALSE).kind = kind
  BY DEF NewCommand, CommandTyped, Config!Ops

LEMMA SlippedIsBoolean == DueTyped /\ [Config!ConfigNext]_Config!configVars => slipped' \in BOOLEAN
  BY DEF DueTyped, Config!ConfigNext, Config!configVars, Config!Load, Config!Enter, Config!Change, Config!Keep,
     Config!Trust, Config!Record, Config!Router, Config!Begins, Config!Copies, Config!MainStores, Config!TaskStores,
     Config!Stores, Config!MainPublishes, Config!TaskPublishes, Config!Publishes, Config!Blinks, Config!Ends

LEMMA ConfigTypesStep == ConfigTypes /\ [Config!ConfigNext]_Config!configVars => ConfigTypes'
  <1> SUFFICES ASSUME ConfigTypes, [Config!ConfigNext]_Config!configVars PROVE ConfigTypes'
    OBVIOUS
  <1>1. /\ CopiesTyped /\ readable \in BOOLEAN /\ entered \in 0 .. MaxEntered /\ DueTyped
        /\ CommandTyped(main) /\ main.kind \notin {"change", "record"}
        /\ CommandTyped(configTask) /\ configTask.kind \notin {"save", "trust"}
    BY DEF ConfigTypes
  <1>2. UNCHANGED <<memory, store, entry, file, storage>> => CopiesTyped'
    BY <1>1 DEF CopiesTyped
  <1>3. UNCHANGED due => DueTyped'
    BY <1>1, SlippedIsBoolean DEF DueTyped
  <1>4. UNCHANGED <<readable, main, configTask, entered>> => ConfigTypes' = (CopiesTyped' /\ DueTyped')
    BY <1>1 DEF ConfigTypes
  <1>5. /\ UNCHANGED main => CommandTyped(main') /\ main'.kind \notin {"change", "record"}
        /\ UNCHANGED configTask => CommandTyped(configTask') /\ configTask'.kind \notin {"save", "trust"}
    BY <1>1
  <1>6. CASE Config!Load
    BY <1>1, <1>3, <1>4, <1>6, ConfigLoadTyped DEF Config!Load
  <1>7. ASSUME NEW pass \in SavedPasswords, Config!Enter(pass) \/ Config!Change(pass) PROVE ConfigTypes'
    <2>1. UNCHANGED <<memory, store, entry, file, storage, readable, due>> /\ entered < MaxEntered /\ entered' = entered + 1
      BY <1>7 DEF Config!Enter, Config!Change
    <2>2. entered' \in 0 .. MaxEntered
      BY <1>1, <2>1, ConfigIdle
    <2>3. \/ main' = NewCommand("save", pass, TRUE) /\ UNCHANGED configTask
          \/ configTask' = NewCommand("change", pass, TRUE) /\ UNCHANGED main
      BY <1>7 DEF Config!Enter, Config!Change, NewCommand
    <2>4. pass \in Config!Values
      BY DEF Config!Values
    <2>5. /\ CommandTyped(main') /\ main'.kind \notin {"change", "record"}
          /\ CommandTyped(configTask') /\ configTask'.kind \notin {"save", "trust"}
      BY <1>5, <2>3, <2>4, NewCommandTyped
    <2> QED  BY <1>1, <1>2, <1>3, <2>1, <2>2, <2>5 DEF ConfigTypes
  <1>8. CASE Config!Keep \/ Config!Trust \/ Config!Record
    <2>1. UNCHANGED <<memory, store, entry, file, storage, readable, due, entered>>
      BY <1>8 DEF Config!Keep, Config!Trust, Config!Record
    <2>2. memory \in Config!Values /\ Config!Filled(Config!Public(memory), memory) \in Config!Values
      BY <1>1, CopiesMade DEF CopiesTyped
    <2>3. \E pass \in Config!Values :
             \/ main' \in {NewCommand("save", pass, FALSE), NewCommand("trust", pass, FALSE)} /\ UNCHANGED configTask
             \/ configTask' = NewCommand("record", pass, FALSE) /\ UNCHANGED main
      BY <1>8, <2>2 DEF Config!Keep, Config!Trust, Config!Record, NewCommand
    <2>4. /\ CommandTyped(main') /\ main'.kind \notin {"change", "record"}
          /\ CommandTyped(configTask') /\ configTask'.kind \notin {"save", "trust"}
      BY <1>5, <2>3, NewCommandTyped
    <2> QED  BY <1>1, <1>2, <1>3, <2>1, <2>4 DEF ConfigTypes
  <1>9. CASE Config!Router
    <2>1. PICK w \in Config!Written(memory) : store' = w[1] /\ entry' = w[2]
      BY <1>9 DEF Config!Router
    <2>2. UNCHANGED <<memory, file, readable, storage, main, configTask, entered, due>>
      BY <1>9 DEF Config!Router
    <2>3. CopiesTyped'
      BY <1>1, <2>1, <2>2, CopiesWritten DEF CopiesTyped
    <2> QED  BY <1>1, <1>3, <2>2, <2>3 DEF ConfigTypes
  <1>10. CASE Config!MainStores
    <2>1. PICK then \in Config!Ops : Config!Stores(main, then) /\ main' = then /\ UNCHANGED configTask
      BY <1>10 DEF Config!MainStores
    <2>2. /\ CopiesTyped' /\ DueTyped' /\ UNCHANGED <<readable, entered>>
          /\ CommandTyped(then) /\ then.kind \in {main.kind, "idle"}
      BY <1>1, <2>1, ConfigStoresTyped
    <2> QED  BY <1>1, <2>1, <2>2 DEF ConfigTypes
  <1>11. CASE Config!TaskStores
    <2>1. PICK then \in Config!Ops : Config!Stores(configTask, then) /\ configTask' = then /\ UNCHANGED main
      BY <1>11 DEF Config!TaskStores
    <2>2. /\ CopiesTyped' /\ DueTyped' /\ UNCHANGED <<readable, entered>>
          /\ CommandTyped(then) /\ then.kind \in {configTask.kind, "idle"}
      BY <1>1, <2>1, ConfigStoresTyped
    <2> QED  BY <1>1, <2>1, <2>2 DEF ConfigTypes
  <1>12. CASE Config!MainPublishes
    <2>1. CopiesTyped' /\ DueTyped' /\ UNCHANGED <<readable, entered>>
      BY <1>1, <1>12, ConfigPublishesTyped DEF Config!MainPublishes
    <2> QED  BY <1>1, <1>12, <2>1, ConfigIdle DEF Config!MainPublishes, ConfigTypes
  <1>13. CASE Config!TaskPublishes
    <2>1. CopiesTyped' /\ DueTyped' /\ UNCHANGED <<readable, entered>>
      BY <1>1, <1>13, ConfigPublishesTyped DEF Config!TaskPublishes
    <2> QED  BY <1>1, <1>13, <2>1, ConfigIdle DEF Config!TaskPublishes, ConfigTypes
  <1>14. CASE Config!Blinks
    BY <1>1, <1>2, <1>3, <1>14 DEF Config!Blinks, ConfigTypes
  <1>15. CASE Config!Ends
    <2>1. CopiesTyped'
      BY <1>1, <1>15 DEF Config!Ends, CopiesTyped, Config!Values
    <2> QED  BY <1>1, <1>3, <1>15, <2>1, ConfigIdle DEF Config!Ends, ConfigTypes
  <1>16. CASE UNCHANGED Config!configVars
    BY <1>1, <1>2, <1>3, <1>16 DEF Config!configVars, ConfigTypes
  <1> QED  BY <1>6, <1>7, <1>8, <1>9, <1>10, <1>11, <1>12, <1>13, <1>14, <1>15, <1>16 DEF Config!ConfigNext

\* A login to the portal, apart from its detection.
PortalAnswers == {"none", "accepted", "rejected", "online", "refused", "unreadable", "failed"}
PortalHolders == Portal!Users \cup {"none", Stranger}
TraversalTyped ==
    /\ gateway \in Portal!Types \cup {"none", "unknown"} /\ gatewayReady \in BOOLEAN
    /\ \A choice \in todo : choice.user \in Portal!Users
    /\ trial \in Portal!Users \cup {"none"} /\ tried \subseteq Portal!Users /\ answer \in PortalAnswers
LoginTypes ==
    /\ engine \in {"none", "app", "headless"} /\ missed \in BOOLEAN /\ TraversalTyped
    /\ cooling \subseteq Portal!Users /\ valid \subseteq Portal!Users /\ portalSession \in PortalHolders

LEMMA PortalTypesAre == DetectionTyped /\ LoginTypes => Portal!PortalTypeOK
  BY DEF DetectionTyped, Findings, LoginTypes, TraversalTyped, PortalAnswers, PortalHolders, Portal!PortalTypeOK

LEMMA PortalTypesInit == Portal!PortalInit => LoginTypes
  BY DEF Portal!PortalInit, LoginTypes, TraversalTyped, PortalAnswers, PortalHolders

LEMMA WarmTyped == ASSUME NEW order \in Orders PROVE \A choice \in Portal!Warm(order) : choice.user \in Portal!Users
  BY DEF Portal!Warm, Portal!Users

LEMMA TakenTyped ==
  ASSUME TraversalTyped, Portal!Takes
  PROVE  trial' \in Portal!Users /\ \A choice \in todo' : choice.user \in Portal!Users
  BY DEF TraversalTyped, Portal!Takes

LEMMA OverTyped == ASSUME Portal!Over PROVE TraversalTyped' /\ engine' = "none"
  BY DEF Portal!Over, TraversalTyped, PortalAnswers

LEMMA PortalTypesStep == LoginTypes /\ [Portal!PortalNext]_Portal!portalVars => LoginTypes'
  <1> SUFFICES ASSUME LoginTypes, [Portal!PortalNext]_Portal!portalVars PROVE LoginTypes'
    OBVIOUS
  <1> USE DEF Portal!traversal, Portal!detection
  <1>1. /\ engine \in {"none", "app", "headless"} /\ missed \in BOOLEAN /\ TraversalTyped
        /\ cooling \subseteq Portal!Users /\ valid \subseteq Portal!Users /\ portalSession \in PortalHolders
    BY DEF LoginTypes
  <1>2. UNCHANGED <<gateway, gatewayReady, todo, trial, tried, answer>> => TraversalTyped'
    BY <1>1 DEF TraversalTyped
  <1>3. ASSUME NEW e \in {"app", "headless"}, NEW n \in Networks, NEW how \in Portal!Gateways, Portal!Begin(e, n, how)
        PROVE  LoginTypes'
    BY <1>1, <1>2, <1>3 DEF Portal!Begin, LoginTypes
  <1>4. ASSUME NEW p \in expected, Portal!ProbeAnswers(p) \/ Portal!ProbeFails(p) PROVE LoginTypes'
    BY <1>1, <1>2, <1>4 DEF Portal!ProbeAnswers, Portal!ProbeFails, LoginTypes
  <1>5. ASSUME NEW t \in Portal!Types \cup {"unknown"}, Portal!Select(t) PROVE LoginTypes'
    <2>1. UNCHANGED <<engine, missed, todo, trial, tried, answer, cooling, portalSession, valid>>
      BY <1>5 DEF Portal!Select
    <2>2. gateway' \in Portal!Types \cup {"none", "unknown"} /\ gatewayReady' \in BOOLEAN
      BY <1>5 DEF Portal!Select
    <2>3. TraversalTyped'
      BY <1>1, <2>1, <2>2 DEF TraversalTyped
    <2> QED  BY <1>1, <2>1, <2>3 DEF LoginTypes
  <1>6. ASSUME NEW order \in Orders, Portal!Choose(order) PROVE LoginTypes'
    <2>1. TraversalTyped'
      BY <1>1, <1>6, WarmTyped DEF Portal!Choose, TraversalTyped
    <2> QED  BY <1>1, <1>6, <2>1 DEF Portal!Choose, LoginTypes
  <1>7. CASE Portal!GivesUp
    BY <1>1, <1>7, OverTyped DEF Portal!GivesUp, LoginTypes
  <1>8. CASE Portal!Submit
    <2>1. UNCHANGED <<engine, missed, gateway, gatewayReady, cooling, valid>> /\ tried' = tried \cup {trial'}
      BY <1>8 DEF Portal!Submit
    <2>2. trial' \in Portal!Users /\ \A choice \in todo' : choice.user \in Portal!Users
      BY <1>1, <1>8, TakenTyped DEF Portal!Submit
    <2>3. Portal!Lost \subseteq PortalAnswers
      BY DEF Portal!Lost, PortalAnswers
    <2>4. \A r \in Portal!Replies(trial') : r[1] \in PortalAnswers /\ r[2] \in {portalSession, trial'}
      BY DEF Portal!Replies, PortalAnswers
    <2>5. answer' \in PortalAnswers /\ portalSession' \in {portalSession, trial'}
      <3>1. CASE portalSession' = portalSession /\ answer' \in Portal!Lost
        BY <2>3, <3>1
      <3>2. CASE \E r \in Portal!Replies(trial') : portalSession' = r[2] /\ answer' \in {r[1]} \cup Portal!Lost
        BY <2>3, <2>4, <3>2
      <3> QED  BY <1>8, <3>1, <3>2 DEF Portal!Submit
    <2>6. TraversalTyped'
      BY <1>1, <2>1, <2>2, <2>5 DEF TraversalTyped
    <2> QED  BY <1>1, <2>1, <2>2, <2>5, <2>6 DEF LoginTypes, PortalHolders
  <1>9. CASE Portal!NoClient \/ Portal!Unconfirmed
    <2>1. /\ UNCHANGED <<engine, missed, gateway, gatewayReady, tried, cooling, portalSession, valid>>
          /\ Portal!Takes /\ answer' = "failed"
      BY <1>9 DEF Portal!NoClient, Portal!Unconfirmed
    <2>2. TraversalTyped'
      BY <1>1, <2>1, TakenTyped DEF TraversalTyped, PortalAnswers
    <2> QED  BY <1>1, <2>1, <2>2 DEF LoginTypes
  <1>10. CASE Portal!Conclude
    <2>1. /\ UNCHANGED <<missed, portalSession, valid>> /\ cooling' \subseteq cooling \cup {trial} /\ trial \in Portal!Users
          /\ \/ Portal!Over
             \/ trial' = "none" /\ UNCHANGED <<engine, gateway, gatewayReady, todo, tried, answer>>
      BY <1>1, <1>10 DEF Portal!Conclude, TraversalTyped
    <2>2. TraversalTyped' /\ engine' \in {"none", "app", "headless"}
      <3>1. CASE Portal!Over
        BY <3>1, OverTyped
      <3>2. CASE trial' = "none" /\ UNCHANGED <<engine, gateway, gatewayReady, todo, tried, answer>>
        BY <1>1, <3>2 DEF TraversalTyped
      <3> QED  BY <2>1, <3>1, <3>2
    <2> QED  BY <1>1, <2>1, <2>2 DEF LoginTypes
  <1>11. ASSUME NEW u \in Portal!Users, Portal!CoolsDown(u) PROVE LoginTypes'
    BY <1>1, <1>2, <1>11 DEF Portal!CoolsDown, LoginTypes
  <1>12. ASSUME NEW t \in Portal!Types, Portal!SessionChanges \/ Portal!LogOut(t) PROVE LoginTypes'
    BY <1>1, <1>2, <1>12 DEF Portal!SessionChanges, Portal!LogOut, LoginTypes, PortalHolders
  <1>13. CASE UNCHANGED Portal!portalVars
    BY <1>1, <1>2, <1>13 DEF Portal!portalVars, LoginTypes
  <1>14. CASE Portal!SessionChanges
    BY <1>12, <1>14, PortalTypes
  <1> QED  BY <1>3, <1>4, <1>5, <1>6, <1>7, <1>8, <1>9, <1>10, <1>11, <1>12, <1>13, <1>14 DEF Portal!PortalNext

LEMMA ExpiryTypesInit == Expiry!ExpiryInit => Expiry!ExpiryTypeOK
  <1>1. 0 \in 0 .. MaxGeneration
    BY BoundsAssumption
  <1>2. {} \subseteq Expiry!Timer /\ FALSE \in BOOLEAN
    OBVIOUS
  <1> QED  BY <1>1, <1>2 DEF Expiry!ExpiryInit, Expiry!ExpiryTypeOK

LEMMA DownloadTypesInit == Update!DownloadInit => Update!DownloadTypeOK
  <1>1. 0 \in 0 .. MaxChunks
    BY BoundsAssumption
  <1>2. Update!NoControl \in [action : Update!Actions \cup {"none"}, at : {"idle", "found", "resuming"}, late : BOOLEAN]
    BY DEF Update!NoControl
  <1> QED  BY <1>1, <1>2 DEF Update!DownloadInit, Update!DownloadTypeOK, Update!Phases

LEMMA DiscoveryTypesInit == Discovery!DiscoveryInit => DiscoveryTypes
  <1> SUFFICES ASSUME Discovery!DiscoveryInit PROVE DiscoveryTypes
    OBVIOUS
  <1>1. MaxTokens \in Nat /\ MaxRedirects \in Nat /\ LatestTime \in Nat
    BY BoundsAssumption
  <1>2. Discovery!NotCalled \in Discovery!Calls /\ Discovery!NotCalled.at # "follow"
    BY <1>1 DEF Discovery!NotCalled, Discovery!Calls
  <1>3. call \in [Discoveries -> Discovery!Calls] /\ \A d \in Discoveries : call[d].at # "follow"
    BY <1>2 DEF Discovery!DiscoveryInit
  <1>4. clock \in 0 .. LatestTime /\ tokens \in 0 .. MaxTokens
    BY <1>1 DEF Discovery!DiscoveryInit
  <1> QED  BY <1>3, <1>4 DEF Discovery!DiscoveryInit, DiscoveryTypes, Discovery!DiscoveryTypeOK

-----------------------------------------------------------------------------
(* Together. *)

\* Types, with what the services' own invariants say of them.
BillingTypes ==
    /\ ActionInv /\ ActionCounts /\ Center!TypeOK /\ VpnTyped /\ TimesAddUp /\ UsageInv /\ DevicesTyped
    /\ RollupInv /\ RecordsInv
StoreTypes == Expiry!ExpiryTypeOK /\ MonthTypes /\ ConfigTypes /\ DiscoveryTypes /\ Update!DownloadTypeOK
PortalServiceTypes == HealthTypes /\ DetectionInv /\ LoginTypes
ServicesTyped == part \in Parts /\ BillingTypes /\ StoreTypes /\ PortalServiceTypes

LEMMA ServicesTypedSuffices == ServicesTyped => TypeOK
  <1> SUFFICES ASSUME ServicesTyped PROVE TypeOK
    OBVIOUS
  <1>1. Actions!TypeOK /\ Center!TypeOK /\ WebVpn!TypeOK /\ Usage!TypeOK
    BY ActionTypes, VpnTypes, DevicesTypes DEF ServicesTyped, BillingTypes
  <1>2. Records!TypeOK /\ (part = "rollups" => Rollups!RollupTypeOK)
    BY DEF ServicesTyped, BillingTypes, RecordsInv, RecordsBase, RollupInv, RangeAsked
  <1>3. /\ Expiry!ExpiryTypeOK /\ MonthEnd!MonthTypeOK /\ Config!ConfigTypeOK /\ Discovery!DiscoveryTypeOK
        /\ Update!DownloadTypeOK
    BY MonthTypesAre, ConfigTypesAre DEF ServicesTyped, StoreTypes, DiscoveryTypes
  <1>4. Health!HealthTypeOK /\ Portal!PortalTypeOK
    BY HealthTypesAre, PortalTypesAre DEF ServicesTyped, PortalServiceTypes, DetectionInv
  <1> QED  BY <1>1, <1>2, <1>3, <1>4 DEF TypeOK, ServicesTyped, Parts

LEMMA ServicesTypedInit == Init => ServicesTyped
  <1> SUFFICES ASSUME Init PROVE ServicesTyped
    OBVIOUS
  <1>1. part \in Parts
    BY DEF Init
  <1>2. WebVpn!Init => TimesAddUp
    BY NobodyAddsUp DEF WebVpn!Init, TimesAddUp, IsLogin, TimesOf
  <1>3. BillingTypes
    BY <1>2, ServicesBegin, ActionInitInv, ActionTypesInit, CenterTypesInit, VpnTypesInit, UsageInitInv, DevicesTypesInit,
       RollupInitInv, RecordsInitInv DEF BillingTypes
  <1>4. StoreTypes
    BY ServicesBegin, ExpiryTypesInit, MonthTypesInit, ConfigTypesInit, DiscoveryTypesInit, DownloadTypesInit DEF StoreTypes
  <1>5. PortalServiceTypes
    BY ServicesBegin, HealthTypesInit, DetectionInitInv, PortalTypesInit DEF PortalServiceTypes
  <1> QED  BY <1>1, <1>3, <1>4, <1>5 DEF ServicesTyped

LEMMA ServicesTypedStep == ServicesTyped /\ [Next]_vars => ServicesTyped'
  <1> SUFFICES ASSUME ServicesTyped, [Next]_vars PROVE ServicesTyped'
    OBVIOUS
  <1>1. part' \in Parts
    BY DEF Next, vars, ServicesTyped
  <1>2. BillingTypes'
    BY ServicesMove, ActionStepInv, ActionTypesStep, CenterTypesStep, VpnTypesStep, WebVpnStepInv, UsageStepInv,
       DevicesTypesStep, RollupStepInv, RecordsStepInv DEF ServicesTyped, BillingTypes
  <1>3. StoreTypes'
    BY ServicesMove, ExpiryTypesStep, MonthTypesStep, ConfigTypesStep, DiscoveryTypesStep, DownloadTypesStep
       DEF ServicesTyped, StoreTypes
  <1>4. PortalServiceTypes'
    BY ServicesMove, HealthTypesStep, DetectionStepInv, PortalTypesStep DEF ServicesTyped, PortalServiceTypes
  <1> QED  BY <1>1, <1>2, <1>3, <1>4 DEF ServicesTyped

\* Every service's state is what its variables are declared for and stays within the bounds of the model: what the
\* code keeps in enums, options and counters, and in the queues and tables it limits.
THEOREM TypeCorrect == Spec => []TypeOK
  BY ServicesTypedInit, ServicesTypedStep, ServicesTypedSuffices, PTL DEF Spec
=============================================================================
