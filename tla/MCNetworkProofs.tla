-------------------------- MODULE MCNetworkProofs --------------------------
(***************************************************************************)
(* For any values of the constants: what the application promises on a     *)
(* network, each part in a section of its own, in the form in which TLC    *)
(* checks it on MCNetwork.                                                 *)
(***************************************************************************)
EXTENDS MCNetwork, Sequences, FiniteSetTheorems, TLAPS

-----------------------------------------------------------------------------
(* A part moves or rests. *)

LEMMA NetworkBegins == AllInit => Init /\ Link!Init /\ Schedule!ScheduleInit /\ Trust!TrustInit
  BY DEF AllInit

LEMMA PartsMove ==
  [AllNext]_allVars => /\ [Next]_vars /\ [Link!Next]_Link!vars
                       /\ [Schedule!ScheduleNext]_Schedule!scheduleVars /\ [Trust!TrustNext]_Trust!trustVars
  BY DEF AllNext, allVars, linkVars, scheduleVars, trustVars,
         Link!vars, Schedule!scheduleVars, Trust!trustVars

-----------------------------------------------------------------------------
(* The probes of a link: the theorem about LinkProbe, of which the model here is an instance. *)

LinkP == INSTANCE LinkProbeProofs

LEMMA SameLinkInit == Link!Init => LinkP!Init
  BY DEF Link!Init, LinkP!Init, Link!Families, LinkP!Families

LEMMA SameLinkStep ==
  ASSUME NEW f, NEW t PROVE Link!Step(f, t) = LinkP!Step(f, t)
  <1> USE DEF Link!Probing, LinkP!Probing
  <1>0. /\ \A k : Link!TargetFailed(f, t, k) = LinkP!TargetFailed(f, t, k)
        /\ Link!TargetReached(f, t) = LinkP!TargetReached(f, t)
    BY DEF Link!TargetFailed, LinkP!TargetFailed, Link!TargetReached, LinkP!TargetReached,
           Link!Classified, LinkP!Classified, Link!Cardinality, LinkP!Cardinality
  <1>1. Link!Resolves(f, t) = LinkP!Resolves(f, t)
    BY DEF Link!Resolves, LinkP!Resolves
  <1>2. \A s : Link!ServerFails(f, t, s) = LinkP!ServerFails(f, t, s)
    BY <1>0 DEF Link!ServerFails, LinkP!ServerFails, Link!LastServer, LinkP!LastServer
  <1>3. Link!TimesOut(f, t) = LinkP!TimesOut(f, t)
    BY <1>0 DEF Link!TimesOut, LinkP!TimesOut
  <1>4. \A a : Link!Answers(f, t, a) = LinkP!Answers(f, t, a) /\ Link!Intercepted(f, t, a) = LinkP!Intercepted(f, t, a)
    BY <1>0 DEF Link!Answers, LinkP!Answers, Link!Intercepted, LinkP!Intercepted
  <1>5. \A a, k : Link!AddressFails(f, t, a, k) = LinkP!AddressFails(f, t, a, k)
    BY <1>0 DEF Link!AddressFails, LinkP!AddressFails, Link!LastAddress, LinkP!LastAddress
  <1> QED  BY <1>1, <1>2, <1>3, <1>4, <1>5 DEF Link!Step, LinkP!Step

LEMMA SameRacesBegin == LinkP!RacesBegin => Link!RacesBegin
  BY DEF LinkP!RacesBegin, Link!RacesBegin, LinkP!IPv4!Init, LinkP!IPv6!Init, Link!IPv4!Init, Link!IPv6!Init,
         LinkP!TargetOutcome, LinkP!FamilyVerdict, Link!TargetOutcome, Link!FamilyVerdict

\* The moves of LinkProbeProofs are steps of the races here.
LEMMA MovesAreSteps == LinkP!Moves => Link!RaceStep
  <1> SUFFICES ASSUME LinkP!Moves PROVE Link!RaceStep
    OBVIOUS
  <1> USE DEF LinkP!Families, Link!Families
  <1>1. [Link!IPv4!Next]_<<Link!TargetOutcome("ipv4"), Link!FamilyVerdict("ipv4")>>
    <2>1. LinkP!FamilyMoves("ipv4")
      BY DEF LinkP!Moves
    <2> QED  BY <2>1 DEF LinkP!FamilyMoves, LinkP!RaceMoves, LinkP!TargetOutcome, LinkP!FamilyVerdict,
               Link!TargetOutcome, Link!FamilyVerdict, Link!IPv4!Next, Link!IPv4!Succeed, Link!IPv4!Fail, Link!IPv4!Expire
  <1>2. [Link!IPv6!Next]_<<Link!TargetOutcome("ipv6"), Link!FamilyVerdict("ipv6")>>
    <2>1. LinkP!FamilyMoves("ipv6")
      BY DEF LinkP!Moves
    <2> QED  BY <2>1 DEF LinkP!FamilyMoves, LinkP!RaceMoves, LinkP!TargetOutcome, LinkP!FamilyVerdict,
               Link!TargetOutcome, Link!FamilyVerdict, Link!IPv6!Next, Link!IPv6!Succeed, Link!IPv6!Fail, Link!IPv6!Expire
  <1>3. ASSUME NEW f \in Link!Families, NEW t \in Targets PROVE Link!AddressStep(f, t)
    <2>1. LinkP!AddressMoves(f, t)
      BY DEF LinkP!Moves
    <2> QED  BY <2>1 DEF LinkP!AddressMoves, LinkP!RaceMoves, LinkP!AddressVerdict, Link!AddressVerdict,
               Link!AddressStep, Link!AddressRace!Next, Link!AddressRace!Succeed, Link!AddressRace!Fail,
               Link!AddressRace!Expire
  <1> QED  BY <1>1, <1>2, <1>3 DEF Link!RaceStep

\* Every step of the probes implements the abstract races of the families and of the targets: the first success
\* decides, and only the failure of all, or the end of the time, is a failure (dual_stack.rs).
THEOREM ProbesAreRaces == AllSpec => LinkRaces
  <1>1. AllInit => LinkP!ProbeInv /\ (part = "link" => Link!RacesBegin)
    BY NetworkBegins, SameLinkInit, LinkP!InitInv, LinkP!BeginsRaces, SameRacesBegin
  <1>2. LinkP!ProbeInv /\ [AllNext]_allVars => LinkP!ProbeInv' /\ [part = "link" => Link!RaceStep]_allVars
    <2> SUFFICES ASSUME LinkP!ProbeInv, [AllNext]_allVars
                 PROVE  LinkP!ProbeInv' /\ [part = "link" => Link!RaceStep]_allVars
      OBVIOUS
    <2>1. CASE \E f \in Link!Families, t \in Targets : Link!Step(f, t)
      <3>1. PICK f \in Link!Families, t \in Targets : Link!Step(f, t)
        BY <2>1
      <3>2. f \in LinkP!Families /\ LinkP!Step(f, t)
        BY <3>1, SameLinkStep DEF Link!Families, LinkP!Families
      <3>3. LinkP!ProbeInv' /\ LinkP!Moves
        BY <3>2, LinkP!StepKeeps
      <3> QED  BY <3>3, MovesAreSteps
    <2>2. CASE UNCHANGED linkVars
      <3>1. LinkP!ProbeInv'
        BY <2>2 DEF linkVars, LinkP!ProbeInv, LinkP!Typed, LinkP!NoneYet
      <3>2. Link!RaceStep
        BY <2>2 DEF linkVars, Link!RaceStep, Link!TargetOutcome, Link!FamilyVerdict, Link!AddressStep, Link!AddressVerdict
      <3> QED  BY <3>1, <3>2
    <2> QED  BY <2>1, <2>2, PartsMove DEF Link!Next, Link!vars, linkVars
  <1> QED  BY <1>1, <1>2, PTL DEF AllSpec, LinkRaces

-----------------------------------------------------------------------------
(* The trusted networks.  First the types, whatever copies of the lists are late: a network never is in both. *)

Nets == TrustNetworks \cup {Trust!Nowhere}
Codes == Trust!Keys \cup {Trust!Unnamed, Trust!None}
Savings == [waits : BOOLEAN, copy : Trust!Lists, since : SUBSET Trust!Keys]

\* The runs, questions and copies that a step makes.
Begun(n) == [Trust!Resting EXCEPT !.net = n, !.at = "detect"]
BegunLogin(n, once, l, said, out) ==
    [Trust!Resting EXCEPT !.net = n, !.at = "detect", !.once = once, !.copy = l, !.said = said, !.undone = out]
Sent(r) == [Trust!Resting EXCEPT !.net = r.net, !.at = "send"]

LEMMA ListsTyped == Trust!NoLists \in Trust!Lists /\ Trust!NoLists.white \cap Trust!NoLists.black = {}
  BY DEF Trust!NoLists, Trust!Lists

LEMMA SilentTyped == Trust!Silent \in [Trust!Keys -> Trust!Verdicts]
  BY DEF Trust!Silent, Trust!Verdicts

LEMMA RestingIsRun ==
  /\ Trust!Resting \in Trust!Runs
  /\ Trust!Resting.at = "idle" /\ Trust!Resting.type = "unknown"
  BY ListsTyped, SilentTyped DEF Trust!Runs, Trust!LoginTypes, Trust!Resting

LEMMA BegunIsRun ==
  ASSUME NEW n \in Nets
  PROVE  Begun(n) \in Trust!Runs /\ Begun(n).at = "detect"
  BY RestingIsRun DEF Begun, Nets, Trust!Runs

LEMMA LoginIsRun ==
  ASSUME NEW n \in Nets, NEW once \in Codes, NEW l \in Trust!Lists, NEW said \in [Trust!Keys -> Trust!Verdicts],
         NEW out \in SUBSET Trust!Keys
  PROVE  /\ BegunLogin(n, once, l, said, out) \in Trust!Runs
         /\ BegunLogin(n, once, l, said, out).at = "detect" /\ BegunLogin(n, once, l, said, out).copy = l
         /\ BegunLogin(n, once, l, said, out).said = said /\ BegunLogin(n, once, l, said, out).undone = out
  BY RestingIsRun DEF BegunLogin, Nets, Codes, Trust!Runs

LEMMA SentIsRun ==
  ASSUME NEW r \in Trust!Runs PROVE Sent(r) \in Trust!Runs /\ Sent(r).at = "send"
  BY RestingIsRun DEF Sent, Trust!Runs

LEMMA FoundIsRun ==
  ASSUME NEW r \in Trust!Runs, NEW type \in Trust!LoginTypes
  PROVE  /\ Trust!Found(r, type) \in Trust!Runs
         /\ \/ Trust!Found(r, type) = Trust!Resting
            \/ /\ Trust!Found(r, type).type # "unknown" /\ Trust!Found(r, type).copy = r.copy
               /\ Trust!Found(r, type).said = r.said /\ Trust!Found(r, type).undone = r.undone
  <1>1. [r EXCEPT !.type = type, !.at = "judge"] \in Trust!Runs
    BY DEF Trust!Runs
  <1>2. /\ [r EXCEPT !.type = type, !.at = "judge"].type = type /\ [r EXCEPT !.type = type, !.at = "judge"].copy = r.copy
        /\ [r EXCEPT !.type = type, !.at = "judge"].said = r.said
        /\ [r EXCEPT !.type = type, !.at = "judge"].undone = r.undone
    BY DEF Trust!Runs
  <1> QED  BY <1>1, <1>2, RestingIsRun DEF Trust!Found

LEMMA QuestionTyped ==
  /\ Trust!NoQuestion \in Trust!Questions
  /\ \A n \in Nets, l \in Trust!Lists : [Trust!NoQuestion EXCEPT !.at = "asked", !.net = n, !.copy = l] \in Trust!Questions
  /\ \A n \in Nets : [Trust!NoQuestion EXCEPT !.at = "shown", !.net = n] \in Trust!Questions
  /\ [Trust!NoQuestion EXCEPT !.at = "agreed"] \in Trust!Questions
  /\ \A k \in Codes : [Trust!NoQuestion EXCEPT !.at = "agreed", !.once = k] \in Trust!Questions
  BY ListsTyped DEF Nets, Codes, Trust!Questions, Trust!NoQuestion

LEMMA NormalizedIsTyped ==
  ASSUME NEW white \in SUBSET Trust!Keys, NEW black \in SUBSET Trust!Keys
  PROVE  /\ Trust!Normalized(white, black) \in Trust!Lists
         /\ Trust!Normalized(white, black).white \cap Trust!Normalized(white, black).black = {}
  BY DEF Trust!Normalized, Trust!Lists

LEMMA MarkedIsTyped ==
  ASSUME lists \in Trust!Lists, NEW key \in Trust!Keys, NEW trusted \in BOOLEAN
  PROVE  /\ Trust!Marked(key, trusted) \in Trust!Lists
         /\ Trust!Marked(key, trusted).white \cap Trust!Marked(key, trusted).black = {}
  <1>1. lists.white \in SUBSET Trust!Keys /\ lists.black \in SUBSET Trust!Keys
    BY DEF Trust!Lists
  <1>2. /\ (lists.white \ {key}) \cup (IF trusted THEN {key} ELSE {}) \in SUBSET Trust!Keys
        /\ (lists.black \ {key}) \cup (IF trusted THEN {} ELSE {key}) \in SUBSET Trust!Keys
    BY <1>1
  <1> QED  BY <1>2, NormalizedIsTyped DEF Trust!Marked

LEMMA KeysCoded == \A n \in Nets : Trust!KeyOf(n) \in Codes \ {Trust!None}
  <1> SUFFICES ASSUME NEW n \in Nets PROVE Trust!KeyOf(n) \in Codes \ {Trust!None}
    OBVIOUS
  <1>1. CASE n.transport = "wifi"
    <2>1. n \in TrustNetworks
      BY <1>1 DEF Nets, Trust!Nowhere, Trust!None
    <2>2. n.name \in Trust!Keys /\ n.name # "none"
      BY <1>1, <2>1, TrustAssumption DEF Trust!Keys, Trust!Wireless
    <2> QED  BY <1>1, <2>2 DEF Trust!KeyOf, Codes, Trust!None
  <1>2. CASE n.transport # "wifi"
    BY <1>2 DEF Trust!KeyOf, Codes, Trust!None, Trust!Unnamed
  <1> QED  BY <1>1, <1>2

LEMMA SaysTyped ==
  ASSUME Trust!TrustTypeOK, NEW key \in Codes, NEW verdict \in Trust!Verdicts, Trust!Says(key, verdict)
  PROVE  decided' \in [Trust!Keys -> Trust!Verdicts] /\ undone' \in SUBSET Trust!Keys /\ saving' \in Savings
  <1>1. decided \in [Trust!Keys -> Trust!Verdicts] /\ undone \in SUBSET Trust!Keys /\ saving \in Savings
    BY DEF Trust!TrustTypeOK, Savings
  <1>2. [saving EXCEPT !.since = @ \cup ({key} \cap Trust!Keys)] \in Savings
    BY <1>1 DEF Savings
  <1> QED  BY <1>1, <1>2 DEF Trust!Says

LEMMA TrustInitTypes == Trust!TrustInit => Trust!TrustTypeOK
  <1> SUFFICES ASSUME Trust!TrustInit PROVE Trust!TrustTypeOK
    OBVIOUS
  <1>1. saving \in Savings
    BY ListsTyped DEF Trust!TrustInit, Savings
  <1> QED  BY <1>1, ListsTyped, SilentTyped, RestingIsRun, QuestionTyped
           DEF Trust!TrustInit, Trust!TrustTypeOK, Savings

LEMMA TrustStepTypes == Trust!TrustTypeOK /\ [Trust!TrustNext]_Trust!trustVars => Trust!TrustTypeOK'
  <1> SUFFICES ASSUME Trust!TrustTypeOK, [Trust!TrustNext]_Trust!trustVars PROVE Trust!TrustTypeOK'
    OBVIOUS
  <1>t. /\ here \in Nets /\ question \in Trust!Questions /\ check \in Trust!Runs /\ login \in Trust!Runs
        /\ lists \in Trust!Lists /\ window \in Trust!Lists /\ saving \in Savings
        /\ decided \in [Trust!Keys -> Trust!Verdicts] /\ undone \in SUBSET Trust!Keys /\ lists.white \cap lists.black = {}
    BY DEF Trust!TrustTypeOK, Nets, Savings
  \* It is enough to look at what a step changes.
  <1>s. ASSUME here' \in Nets, question' \in Trust!Questions, check' \in Trust!Runs, login' \in Trust!Runs,
               lists' \in Trust!Lists, window' \in Trust!Lists, saving' \in Savings,
               decided' \in [Trust!Keys -> Trust!Verdicts], undone' \in SUBSET Trust!Keys,
               lists'.white \cap lists'.black = {}
        PROVE  Trust!TrustTypeOK'
    BY <1>s DEF Trust!TrustTypeOK, Nets, Savings
  <1>q. question.net \in Nets /\ question.once \in Codes /\ Trust!KeyOf(question.net) \in Codes
    <2>1. question.net \in Nets /\ question.once \in Codes
      BY <1>t DEF Trust!Questions, Nets, Codes
    <2> QED  BY <2>1, KeysCoded
  <1>1. CASE Trust!Moves
    BY <1>1, <1>t, <1>s DEF Trust!Moves, Nets
  <1>2. CASE Trust!AsksToSave
    <2>1. saving' \in Savings
      BY <1>2, <1>t DEF Trust!AsksToSave, Savings
    <2> QED  BY <1>2, <1>t, <1>s, <2>1 DEF Trust!AsksToSave
  <1>3. CASE Trust!SavesWindow
    <2>1. saving.copy.white \in SUBSET Trust!Keys /\ saving.copy.black \in SUBSET Trust!Keys
          /\ saving.since \in SUBSET Trust!Keys
      BY <1>t DEF Savings, Trust!Lists
    <2>2. lists' \in Trust!Lists /\ lists'.white \cap lists'.black = {}
      BY <1>3, <2>1, NormalizedIsTyped DEF Trust!SavesWindow
    <2>3. saving' \in Savings
      BY <1>3, ListsTyped DEF Trust!SavesWindow, Savings
    <2>4. undone' \in SUBSET Trust!Keys
      BY <1>3, <1>t, <2>1 DEF Trust!SavesWindow
    <2> QED  BY <1>3, <1>t, <1>s, <2>2, <2>3, <2>4 DEF Trust!SavesWindow
  <1>4. CASE Trust!Asks
    BY <1>4, <1>t, <1>s, QuestionTyped DEF Trust!Asks
  <1>5. CASE Trust!AnswersOnce
    BY <1>5, <1>t, <1>s, <1>q, QuestionTyped DEF Trust!AnswersOnce
  <1>6. CASE Trust!Declines
    BY <1>6, <1>t, <1>s, QuestionTyped DEF Trust!Declines
  <1>7. CASE Trust!LoginBegins
    <2>1. login' = Trust!Resting \/ login' = BegunLogin(here, question.once, lists, decided, undone)
      BY <1>7 DEF Trust!LoginBegins, BegunLogin
    <2>2. login' \in Trust!Runs
      BY <2>1, <1>t, <1>q, RestingIsRun, LoginIsRun
    <2> QED  BY <1>7, <1>t, <1>s, <2>2, QuestionTyped DEF Trust!LoginBegins
  <1>8. CASE Trust!CheckBegins
    <2>1. check' \in Trust!Runs
      BY <1>8, <1>t, BegunIsRun DEF Trust!CheckBegins, Begun
    <2> QED  BY <1>8, <1>t, <1>s, <2>1 DEF Trust!CheckBegins
  <1>9. CASE Trust!CheckJudges
    <2>1. check' \in Trust!Runs
      BY <1>9, <1>t, RestingIsRun, SentIsRun DEF Trust!CheckJudges, Sent
    <2> QED  BY <1>9, <1>t, <1>s, <2>1 DEF Trust!CheckJudges
  <1>10. CASE Trust!CheckSends
    <2>1. check' \in Trust!Runs
      BY <1>10, <1>t, RestingIsRun DEF Trust!CheckSends
    <2> QED  BY <1>10, <1>t, <1>s, <2>1 DEF Trust!CheckSends
  <1>11. CASE Trust!LoginJudges
    <2>1. login' \in Trust!Runs
      BY <1>11, <1>t, RestingIsRun, SentIsRun DEF Trust!LoginJudges, Sent
    <2> QED  BY <1>11, <1>t, <1>s, <2>1 DEF Trust!LoginJudges
  <1>12. CASE Trust!LoginSends
    BY <1>12, <1>t, <1>s, RestingIsRun DEF Trust!LoginSends
  <1>13. ASSUME NEW type \in Trust!LoginTypes, Trust!IsAnswered(type) PROVE Trust!TrustTypeOK'
    <2>1. question' \in {[Trust!NoQuestion EXCEPT !.at = "agreed"],
                         [Trust!NoQuestion EXCEPT !.at = "shown", !.net = question.net], Trust!NoQuestion}
      BY <1>13 DEF Trust!IsAnswered
    <2>2. question' \in Trust!Questions
      BY <2>1, <1>q, QuestionTyped
    <2> QED  BY <1>13, <1>t, <1>s, <2>2 DEF Trust!IsAnswered
  <1>14. ASSUME NEW type \in Trust!LoginTypes, Trust!CheckDetects(type) PROVE Trust!TrustTypeOK'
    BY <1>14, <1>t, <1>s, FoundIsRun DEF Trust!CheckDetects
  <1>15. ASSUME NEW type \in Trust!LoginTypes, Trust!LoginDetects(type) PROVE Trust!TrustTypeOK'
    BY <1>15, <1>t, <1>s, FoundIsRun DEF Trust!LoginDetects
  <1>16. ASSUME NEW trusted \in BOOLEAN, Trust!AnswersForGood(trusted) PROVE Trust!TrustTypeOK'
    <2> DEFINE key == Trust!KeyOf(question.net)
    <2>1. question' \in Trust!Questions /\ UNCHANGED <<here, check, login>>
      BY <1>16, QuestionTyped DEF Trust!AnswersForGood
    <2>2. CASE here \in Trust!Wireless /\ here.usable /\ Trust!DecidesOn(key)
      <3>1. /\ lists' = Trust!Marked(here.name, trusted) /\ window' = lists' /\ here.name \in Trust!Keys
            /\ Trust!Says(key, Trust!Verdict(trusted))
        BY <1>16, <2>2 DEF Trust!AnswersForGood, Trust!Decides, Trust!Keys
      <3>2. Trust!Verdict(trusted) \in Trust!Verdicts
        BY DEF Trust!Verdict, Trust!Verdicts
      <3>3. decided' \in [Trust!Keys -> Trust!Verdicts] /\ undone' \in SUBSET Trust!Keys /\ saving' \in Savings
        BY <1>q, <3>1, <3>2, SaysTyped
      <3> QED  BY <1>t, <1>s, <2>1, <3>1, <3>3, MarkedIsTyped
    <2>3. CASE ~(here \in Trust!Wireless /\ here.usable /\ Trust!DecidesOn(key))
      BY <1>16, <1>t, <1>s, <2>1, <2>3 DEF Trust!AnswersForGood
    <2> QED  BY <2>2, <2>3
  <1>17. ASSUME NEW key \in Trust!Keys, NEW trusted \in BOOLEAN, Trust!Lists_Add(key, trusted) PROVE Trust!TrustTypeOK'
    <2>1. Trust!Verdict(trusted) \in Trust!Verdicts /\ key \in Codes
      BY DEF Trust!Verdict, Trust!Verdicts, Codes
    <2>2. decided' \in [Trust!Keys -> Trust!Verdicts] /\ undone' \in SUBSET Trust!Keys /\ saving' \in Savings
      BY <1>17, <2>1, SaysTyped DEF Trust!Lists_Add
    <2> QED  BY <1>17, <1>t, <1>s, <2>2, MarkedIsTyped DEF Trust!Lists_Add, Trust!Decides
  <1>18. ASSUME NEW key \in Trust!Keys, Trust!Lists_Remove(key) PROVE Trust!TrustTypeOK'
    <2>1. lists.white \ {key} \in SUBSET Trust!Keys /\ lists.black \ {key} \in SUBSET Trust!Keys
      BY <1>t DEF Trust!Lists
    <2>2. decided' \in [Trust!Keys -> Trust!Verdicts] /\ undone' \in SUBSET Trust!Keys /\ saving' \in Savings
      BY <1>18, SaysTyped DEF Trust!Lists_Remove, Trust!Verdicts, Codes
    <2> QED  BY <1>18, <1>t, <1>s, <2>1, <2>2, NormalizedIsTyped DEF Trust!Lists_Remove
  <1>19. CASE UNCHANGED Trust!trustVars
    BY <1>19, <1>t, <1>s DEF Trust!trustVars
  <1> QED  BY <1>1, <1>2, <1>3, <1>4, <1>5, <1>6, <1>7, <1>8, <1>9, <1>10, <1>11, <1>12, <1>13, <1>14, <1>15, <1>16,
              <1>17, <1>18, <1>19 DEF Trust!TrustNext

(* Then what the user said: the lists of the configuration, of the window, of the copy it waits to save and of a   *)
(* login say the same as the user did, but for the networks on which a late copy is or may come to be older than  *)
(* the last word (Agree); a run that is judged knows the kind of its login (Judged).                              *)

Agree(l, said, out) ==
    \A k \in Trust!Keys \ out : (k \in l.white <=> said[k] = "trusted") /\ (k \in l.black <=> said[k] = "rejected")

CopiesAgree ==
    /\ Agree(lists, decided, undone) /\ Agree(window, decided, undone)
    /\ saving.waits => Agree(saving.copy, decided, undone \cup saving.since)

LoginAgrees == login.at \in {"detect", "judge"} => Agree(login.copy, login.said, login.undone)

Judged == \A r \in {check, login} : r.at = "judge" => r.type # "unknown"

TrustInv == Trust!TrustTypeOK /\ CopiesAgree /\ LoginAgrees /\ Judged

LEMMA TrustInitInv == Trust!TrustInit => TrustInv
  <1> SUFFICES ASSUME Trust!TrustInit PROVE TrustInv
    OBVIOUS
  <1>1. Agree(Trust!NoLists, Trust!Silent, {})
    BY DEF Agree, Trust!NoLists, Trust!Silent
  <1>2. CopiesAgree
    BY <1>1 DEF Trust!TrustInit, CopiesAgree
  <1>3. LoginAgrees /\ Judged
    BY RestingIsRun DEF Trust!TrustInit, LoginAgrees, Judged
  <1> QED  BY <1>2, <1>3, TrustInitTypes DEF TrustInv

\* What the user says of a network is what the lists say of it afterwards, and nothing else changes.
LEMMA DecisionListed ==
  ASSUME Trust!TrustTypeOK, CopiesAgree, NEW key \in Trust!Keys, NEW verdict \in Trust!Verdicts,
         Trust!Says(key, verdict), lists' \in Trust!Lists, window' = lists',
         key \in lists'.white <=> verdict = "trusted", key \in lists'.black <=> verdict = "rejected",
         \A k \in Trust!Keys \ {key} : (k \in lists'.white <=> k \in lists.white) /\ (k \in lists'.black <=> k \in lists.black)
  PROVE  CopiesAgree'
  <1>t. decided \in [Trust!Keys -> Trust!Verdicts] /\ saving \in Savings
    BY DEF Trust!TrustTypeOK, Savings
  <1>1. decided'[key] = verdict /\ \A k \in Trust!Keys \ {key} : decided'[k] = decided[k]
    BY <1>t DEF Trust!Says
  <1>2. Agree(lists', decided', undone')
    <2> SUFFICES ASSUME NEW k \in Trust!Keys \ undone'
                 PROVE  (k \in lists'.white <=> decided'[k] = "trusted") /\ (k \in lists'.black <=> decided'[k] = "rejected")
      BY DEF Agree
    <2>1. CASE k = key
      BY <1>1, <2>1
    <2>2. CASE k # key
      BY <1>1, <2>2 DEF Trust!Says, CopiesAgree, Agree
    <2> QED  BY <2>1, <2>2
  <1>3. ASSUME saving'.waits PROVE Agree(saving'.copy, decided', undone' \cup saving'.since)
    <2>1. saving.waits /\ saving'.copy = saving.copy /\ saving'.since = saving.since \cup {key}
      BY <1>t, <1>3 DEF Trust!Says, Savings
    <2>2. Agree(saving.copy, decided, undone \cup saving.since)
      BY <2>1 DEF CopiesAgree
    <2> QED  BY <1>1, <2>1, <2>2 DEF Agree, Trust!Says
  <1> QED  BY <1>2, <1>3 DEF CopiesAgree

LEMMA TrustStepInv == TrustInv /\ [Trust!TrustNext]_Trust!trustVars => TrustInv'
  <1> SUFFICES ASSUME TrustInv, [Trust!TrustNext]_Trust!trustVars PROVE TrustInv'
    OBVIOUS
  <1>i. Trust!TrustTypeOK /\ CopiesAgree /\ LoginAgrees /\ Judged /\ Trust!TrustTypeOK'
    BY TrustStepTypes DEF TrustInv
  <1>t. here \in Nets /\ check \in Trust!Runs /\ login \in Trust!Runs /\ lists \in Trust!Lists
        /\ lists' \in Trust!Lists /\ decided \in [Trust!Keys -> Trust!Verdicts] /\ undone \in SUBSET Trust!Keys
        /\ question.once \in Codes
    BY <1>i DEF Trust!TrustTypeOK, Nets, Trust!Questions, Codes
  \* A step that leaves the lists and what was decided as they are.
  <1>s. ASSUME UNCHANGED <<lists, window, saving, decided, undone>>, LoginAgrees', Judged' PROVE TrustInv'
    BY <1>i, <1>s DEF TrustInv, CopiesAgree
  \* A step that leaves the runs as they are.
  <1>r. ASSUME UNCHANGED <<check, login>>, CopiesAgree' PROVE TrustInv'
    BY <1>i, <1>r DEF TrustInv, LoginAgrees, Judged
  <1>u. ASSUME UNCHANGED <<check, login, lists, window, saving, decided, undone>> PROVE TrustInv'
    BY <1>i, <1>r, <1>u DEF CopiesAgree
  <1>1. CASE Trust!Moves \/ Trust!Asks \/ Trust!AnswersOnce \/ Trust!Declines
             \/ (\E type \in Trust!LoginTypes : Trust!IsAnswered(type)) \/ UNCHANGED Trust!trustVars
    BY <1>1, <1>u DEF Trust!Moves, Trust!Asks, Trust!AnswersOnce, Trust!Declines, Trust!IsAnswered, Trust!trustVars
  <1>2. CASE Trust!AsksToSave
    <2>1. saving'.copy = window /\ saving'.since = {}
      BY <1>2 DEF Trust!AsksToSave
    <2>2. CopiesAgree'
      BY <1>2, <1>i, <2>1 DEF Trust!AsksToSave, CopiesAgree, Agree
    <2> QED  BY <1>2, <1>r, <2>2 DEF Trust!AsksToSave
  <1>3. CASE Trust!SavesWindow
    <2> DEFINE out == undone \cup saving.since
    <2>1. /\ lists'.white = saving.copy.white \ saving.copy.black /\ lists'.black = saving.copy.black
          /\ undone' = out /\ ~saving'.waits /\ UNCHANGED <<window, decided, check, login>>
      BY <1>3 DEF Trust!SavesWindow, Trust!Normalized
    <2>2. Agree(saving.copy, decided, out)
      BY <1>3, <1>i DEF Trust!SavesWindow, CopiesAgree
    <2>3. Agree(lists', decided', undone') /\ Agree(window', decided', undone')
      BY <1>i, <2>1, <2>2 DEF Agree, CopiesAgree
    <2> QED  BY <1>r, <2>1, <2>3 DEF CopiesAgree
  <1>4. CASE Trust!LoginBegins
    <2>1. login' = Trust!Resting \/ login' = BegunLogin(here, question.once, lists, decided, undone)
      BY <1>4 DEF Trust!LoginBegins, BegunLogin
    <2>2. LoginAgrees' /\ (login'.at = "judge" => login'.type # "unknown")
      <3>1. CASE login' = Trust!Resting
        BY <3>1, RestingIsRun DEF LoginAgrees
      <3>2. CASE login' = BegunLogin(here, question.once, lists, decided, undone)
        <4>1. /\ login'.at = "detect" /\ login'.copy = lists /\ login'.said = decided /\ login'.undone = undone
          BY <1>t, <3>2, LoginIsRun
        <4> QED  BY <1>i, <4>1 DEF LoginAgrees, CopiesAgree
      <3> QED  BY <2>1, <3>1, <3>2
    <2> QED  BY <1>4, <1>i, <1>s, <2>2 DEF Trust!LoginBegins, Judged
  <1>5. CASE Trust!CheckBegins \/ Trust!CheckJudges \/ Trust!CheckSends
    <2>1. UNCHANGED <<lists, window, saving, decided, undone, login>>
      BY <1>5 DEF Trust!CheckBegins, Trust!CheckJudges, Trust!CheckSends
    <2>2. check' \in {Begun(here), Sent(check), Trust!Resting} \/ (check' = check /\ check.at = "send")
      BY <1>5 DEF Trust!CheckBegins, Trust!CheckJudges, Trust!CheckSends, Begun, Sent
    <2>3. check'.at # "judge"
      BY <1>t, <2>2, RestingIsRun, BegunIsRun, SentIsRun
    <2> QED  BY <1>i, <1>s, <2>1, <2>3 DEF LoginAgrees, Judged
  <1>6. CASE Trust!LoginJudges \/ Trust!LoginSends
    <2>1. UNCHANGED <<lists, window, saving, decided, undone, check>> /\ login' \in {Sent(login), Trust!Resting}
      BY <1>6 DEF Trust!LoginJudges, Trust!LoginSends, Sent
    <2>2. login'.at \notin {"detect", "judge"}
      BY <1>t, <2>1, RestingIsRun, SentIsRun
    <2> QED  BY <1>i, <1>s, <2>1, <2>2 DEF LoginAgrees, Judged
  <1>7. ASSUME NEW type \in Trust!LoginTypes, Trust!CheckDetects(type) PROVE TrustInv'
    <2>1. check'.at = "judge" => check'.type # "unknown"
      BY <1>7, <1>t, FoundIsRun, RestingIsRun DEF Trust!CheckDetects
    <2> QED  BY <1>7, <1>i, <1>s, <2>1 DEF Trust!CheckDetects, LoginAgrees, Judged
  <1>8. ASSUME NEW type \in Trust!LoginTypes, Trust!LoginDetects(type) PROVE TrustInv'
    <2>1. login.at = "detect" /\ login' = Trust!Found(login, type)
      BY <1>8 DEF Trust!LoginDetects
    <2>2. Agree(login.copy, login.said, login.undone)
      BY <1>i, <2>1 DEF LoginAgrees
    <2>3. LoginAgrees' /\ (login'.at = "judge" => login'.type # "unknown")
      BY <1>t, <2>1, <2>2, FoundIsRun, RestingIsRun DEF LoginAgrees
    <2> QED  BY <1>8, <1>i, <1>s, <2>3 DEF Trust!LoginDetects, Judged
  \* A decision is in the lists, and reaches the window.
  <1>d. ASSUME NEW key \in Trust!Keys, NEW trusted \in BOOLEAN, Trust!Decides(key, trusted),
               Trust!Says(key, Trust!Verdict(trusted)), UNCHANGED <<check, login>>
        PROVE  TrustInv'
    <2>1. /\ lists'.black = (lists.black \ {key}) \cup (IF trusted THEN {} ELSE {key})
          /\ lists'.white = ((lists.white \ {key}) \cup (IF trusted THEN {key} ELSE {})) \ lists'.black
          /\ window' = lists'
      BY <1>d DEF Trust!Decides, Trust!Marked, Trust!Normalized
    <2>2. lists.white \cap lists.black = {}
      BY <1>i DEF Trust!TrustTypeOK
    <2>3. /\ Trust!Verdict(trusted) \in Trust!Verdicts
          /\ key \in lists'.white <=> Trust!Verdict(trusted) = "trusted"
          /\ key \in lists'.black <=> Trust!Verdict(trusted) = "rejected"
      BY <2>1 DEF Trust!Verdict, Trust!Verdicts
    <2>4. \A k \in Trust!Keys \ {key} :
            (k \in lists'.white <=> k \in lists.white) /\ (k \in lists'.black <=> k \in lists.black)
      BY <2>1, <2>2
    <2>5. CopiesAgree'
      BY <1>d, <1>i, <1>t, <2>1, <2>3, <2>4, DecisionListed
    <2> QED  BY <1>d, <1>r, <2>5
  <1>9. ASSUME NEW trusted \in BOOLEAN, Trust!AnswersForGood(trusted) PROVE TrustInv'
    <2> DEFINE key == Trust!KeyOf(question.net)
    <2>1. UNCHANGED <<check, login>>
      BY <1>9 DEF Trust!AnswersForGood
    <2>2. CASE here \in Trust!Wireless /\ here.usable /\ Trust!DecidesOn(key)
      <3>1. here.name = key /\ here.name \in Trust!Keys
        BY <2>2 DEF Trust!DecidesOn, Trust!Keys
      <3>2. Trust!Decides(here.name, trusted) /\ Trust!Says(here.name, Trust!Verdict(trusted))
        BY <1>9, <2>2, <3>1 DEF Trust!AnswersForGood
      <3> QED  BY <2>1, <3>1, <3>2, <1>d
    <2>3. CASE ~(here \in Trust!Wireless /\ here.usable /\ Trust!DecidesOn(key))
      BY <1>9, <1>u, <2>1, <2>3 DEF Trust!AnswersForGood
    <2> QED  BY <2>2, <2>3
  <1>10. ASSUME NEW key \in Trust!Keys, NEW trusted \in BOOLEAN, Trust!Lists_Add(key, trusted) PROVE TrustInv'
    BY <1>10, <1>d DEF Trust!Lists_Add
  <1>11. ASSUME NEW key \in Trust!Keys, Trust!Lists_Remove(key) PROVE TrustInv'
    <2>1. /\ lists'.white = (lists.white \ {key}) \ (lists.black \ {key}) /\ lists'.black = lists.black \ {key}
          /\ window' = lists' /\ Trust!Says(key, "nothing") /\ UNCHANGED <<check, login>>
      BY <1>11 DEF Trust!Lists_Remove, Trust!Normalized
    <2>2. lists.white \cap lists.black = {}
      BY <1>i DEF Trust!TrustTypeOK
    <2>3. \A k \in Trust!Keys \ {key} :
            (k \in lists'.white <=> k \in lists.white) /\ (k \in lists'.black <=> k \in lists.black)
      BY <2>1, <2>2
    <2>4. CopiesAgree'
      BY <1>i, <1>t, <2>1, <2>3, DecisionListed DEF Trust!Verdicts
    <2> QED  BY <1>r, <2>1, <2>4
  <1> QED  BY <1>1, <1>2, <1>3, <1>4, <1>5, <1>6, <1>7, <1>8, <1>9, <1>10, <1>11 DEF Trust!TrustNext

\* What lists allow that agree with what the user said, the user has trusted, or has not rejected where it looks
\* like the school's.
LEMMA AllowedIsConsented ==
  ASSUME NEW r \in Trust!Runs, r.type # "unknown", NEW l \in Trust!Lists, NEW said, NEW out, Agree(l, said, out),
         Trust!KeyOf(r.net) \notin out
  PROVE  /\ Trust!Allows(r, l) => Trust!Consented(r, said)
         /\ Trust!Evaluated(r.type, r.net, l) = "confirm" => Trust!SaidOf(said, Trust!KeyOf(r.net)) # "rejected"
  <1> DEFINE key == Trust!KeyOf(r.net)
  <1>1. key \notin l.black => Trust!SaidOf(said, key) # "rejected"
    BY DEF Agree, Trust!SaidOf
  <1>2. key \in l.white => Trust!SaidOf(said, key) = "trusted"
    BY DEF Agree, Trust!SaidOf, Trust!Lists
  <1>3. Trust!Evaluated(r.type, r.net, l) # "blocked" => key \notin l.black
    BY DEF Trust!Evaluated
  <1>4. Trust!Allows(r, l) => key \in l.white \/ (r.net.campus /\ Trust!Recognised(r.type, r.net))
    BY DEF Trust!Allows, Trust!Evaluated
  <1> QED  BY <1>1, <1>2, <1>3, <1>4 DEF Trust!Allows, Trust!Consented

\* A password goes only to a network that the user trusts, or that looks like one of the school's and that the
\* user has not rejected, as the run knows it; a login may also go, once, to a network with the key the user was
\* shown (evaluate_network_trust), for any networks and decisions and whatever copies the window saves: only an
\* older copy saved late takes an answer back.
THEOREM PasswordsNeedConsent == AllSpec => OnlyWithConsent
  <1> DEFINE Sending ==
        /\ check.at = "judge" /\ check'.at = "send" =>
             Trust!KeyOf(check.net) \in undone \/ Trust!Consented(check, decided)
        /\ login.at = "judge" /\ login'.at = "send" =>
             \/ Trust!KeyOf(login.net) \in login.undone \/ Trust!Consented(login, login.said)
             \/ /\ login.once = Trust!KeyOf(login.net)
                /\ Trust!SaidOf(login.said, login.once) # "rejected"
  <1>1. TrustInv /\ [Trust!TrustNext]_Trust!trustVars => [Sending]_Trust!trustVars
    <2> SUFFICES ASSUME TrustInv, Trust!TrustNext PROVE Sending
      OBVIOUS
    <2>t. /\ check \in Trust!Runs /\ login \in Trust!Runs /\ lists \in Trust!Lists /\ login.copy \in Trust!Lists
          /\ here \in Nets /\ question.once \in Codes /\ decided \in [Trust!Keys -> Trust!Verdicts]
          /\ undone \in SUBSET Trust!Keys
      BY DEF TrustInv, Trust!TrustTypeOK, Trust!Runs, Nets, Trust!Questions, Codes
    <2>1. check.at = "judge" /\ check'.at = "send" => Trust!CheckJudges
      BY DEF Trust!TrustNext, Trust!Moves, Trust!AsksToSave, Trust!SavesWindow, Trust!Asks, Trust!AnswersOnce,
             Trust!Declines, Trust!LoginBegins, Trust!CheckBegins, Trust!CheckSends, Trust!LoginJudges, Trust!LoginSends,
             Trust!IsAnswered, Trust!CheckDetects, Trust!LoginDetects, Trust!AnswersForGood, Trust!Lists_Add,
             Trust!Lists_Remove
    <2>2. Trust!LoginBegins => login'.at # "send"
      <3>1. Trust!LoginBegins =>
              login' = Trust!Resting \/ login' = BegunLogin(here, question.once, lists, decided, undone)
        BY DEF Trust!LoginBegins, BegunLogin
      <3> QED  BY <2>t, <3>1, RestingIsRun, LoginIsRun
    <2>3. login.at = "judge" /\ login'.at = "send" => Trust!LoginJudges
      BY <2>2 DEF Trust!TrustNext, Trust!Moves, Trust!AsksToSave, Trust!SavesWindow, Trust!Asks, Trust!AnswersOnce,
             Trust!Declines, Trust!CheckBegins, Trust!CheckSends, Trust!CheckJudges, Trust!LoginSends,
             Trust!IsAnswered, Trust!CheckDetects, Trust!LoginDetects, Trust!AnswersForGood, Trust!Lists_Add,
             Trust!Lists_Remove
    <2>4. ASSUME check.at = "judge", check'.at = "send"
          PROVE  Trust!KeyOf(check.net) \in undone \/ Trust!Consented(check, decided)
      <3>1. Trust!Allows(check, lists)
        BY <2>1, <2>4, RestingIsRun DEF Trust!CheckJudges
      <3>2. check.type # "unknown" /\ Agree(lists, decided, undone)
        BY <2>4 DEF TrustInv, Judged, CopiesAgree
      <3> QED  BY <2>t, <3>1, <3>2, AllowedIsConsented
    <2>5. ASSUME login.at = "judge", login'.at = "send"
          PROVE  \/ Trust!KeyOf(login.net) \in login.undone \/ Trust!Consented(login, login.said)
                 \/ login.once = Trust!KeyOf(login.net) /\ Trust!SaidOf(login.said, login.once) # "rejected"
      <3>1. Trust!Allows(login, login.copy) \/ Trust!AllowsOnce(login)
        BY <2>3, <2>5, RestingIsRun DEF Trust!LoginJudges
      <3>2. login.type # "unknown" /\ Agree(login.copy, login.said, login.undone)
        BY <2>5 DEF TrustInv, Judged, LoginAgrees
      <3> QED  BY <2>t, <3>1, <3>2, AllowedIsConsented DEF Trust!AllowsOnce
    <2> QED  BY <2>4, <2>5
  <1>2. TrustInv /\ [Trust!TrustNext]_Trust!trustVars => TrustInv'
    BY TrustStepInv
  <1>3. AllInit => TrustInv
    BY NetworkBegins, TrustInitInv
  <1> QED  BY <1>1, <1>2, <1>3, PartsMove, PTL DEF AllSpec, OnlyWithConsent, Trust!OnlyWithConsent

-----------------------------------------------------------------------------
(* The pool of probe runs.  Its run began in the epoch that lasts (RunIsFresh), as every invalidation empties    *)
(* the pool, and its task has the key of the run (RunHasTask); what readers wait for was once the pool's run.    *)

Waits(o) == observer[o].phase \in {"waiting", "returned"}

RunIsFresh == run.id # 0 => run.id <= next /\ since[run.id] = epoch
RunHasTask == run.id # 0 => task[run.id].generation = run.generation /\ task[run.id].net = run.net

ReaderIsFresh ==
    \A o \in Observers :
        /\ observer[o].epoch <= epoch
        /\ Waits(o) => observer[o].id \in 1 .. next /\ since[observer[o].id] >= observer[o].epoch

ReaderHasTask ==
    \A o \in Observers : Waits(o) =>
        LET t == task[observer[o].id] IN
        IF observer[o].kind = "check" THEN t.generation = observer[o].generation /\ t.net = observer[o].net
        ELSE observer[o].net = NoNetwork

PoolInv == TypeOK /\ RunIsFresh /\ RunHasTask /\ ReaderIsFresh /\ ReaderHasTask

LEMMA SnapshotTyped ==
  /\ Default \in Snapshot /\ \A v \in Snapshot : Ended(v) \in Snapshot /\ [v EXCEPT !.complete = TRUE] \in Snapshot
  /\ \A v \in Snapshot, p \in Probes, ok \in BOOLEAN, i \in Runs :
        [v EXCEPT !.result[p] = [ok |-> ok, by |-> i]] \in Snapshot
  BY DEF Snapshot, Default, Unmeasured, Ended, None

LEMMA PoolInitInv == Init => PoolInv
  <1> SUFFICES ASSUME Init PROVE PoolInv
    OBVIOUS
  <1>1. TypeOK
    <2>1. channel \in [Runs -> Snapshot]
      BY SnapshotTyped DEF Init
    <2>2. task \in [Runs -> [phase : {"none", "working", "gone"}, generation : Nat,
                          net : Networks \cup {NoNetwork}, stage : [Probes -> Stage]]]
      BY DEF Init, NoTask, Stage
    <2>3. observer \in [Observers -> [phase : {"idle", "keyed", "waiting", "returned"}, kind : Kinds,
                                   generation : Nat, net : Networks \cup {NoNetwork}, id : Runs \cup {None},
                                   epoch : Nat, answer : {"none", "cancelled", "offline", "online"}]]
      BY DEF Init, Away, Kinds, None
    <2>4. run \in [id : Runs \cup {None}, generation : Nat, net : Networks \cup {NoNetwork}, age : 0 .. 2]
      BY DEF Init, NoRun, None
    <2> QED  BY <2>1, <2>2, <2>3, <2>4, PoolAssumption DEF Init, TypeOK, None
  <1>2. RunIsFresh /\ RunHasTask
    BY DEF Init, NoRun, None, RunIsFresh, RunHasTask
  <1>3. ReaderIsFresh /\ ReaderHasTask
    BY DEF Init, Away, ReaderIsFresh, ReaderHasTask, Waits
  <1> QED  BY <1>1, <1>2, <1>3 DEF PoolInv

Tasks == [Runs -> [phase : {"none", "working", "gone"}, generation : Nat, net : Networks \cup {NoNetwork},
                   stage : [Probes -> Stage]]]

\* The task of a run reports into its own channel, or into none, and keeps the key of the run.
LEMMA TaskStepMoves ==
  ASSUME TypeOK, NEW i \in Runs, TaskStep(i)
  PROVE  /\ UNCHANGED <<net, control, next, run, observer, since>>
         /\ channel' \in [Runs -> Snapshot] /\ task' \in Tasks /\ link_health' \in Runs \cup {None}
         /\ \A j \in Runs : task'[j].generation = task[j].generation /\ task'[j].net = task[j].net
  <1>t. channel \in [Runs -> Snapshot] /\ task \in Tasks /\ link_health \in Runs \cup {None}
    BY DEF TypeOK, Tasks
  <1>r. Receiver(i) # None => Receiver(i) = i
    BY DEF Receiver
  <1>c. Cancel(i) => channel' \in [Runs -> Snapshot]
    BY <1>t, <1>r, SnapshotTyped DEF Cancel, Update
  <1>g. Gone(i) => /\ task' \in Tasks
                   /\ \A j \in Runs : task'[j].generation = task[j].generation /\ task'[j].net = task[j].net
    <2>1. NoTask.stage \in [Probes -> Stage]
      BY DEF NoTask, Stage
    <2>2. SUFFICES ASSUME Gone(i) PROVE
                /\ task' \in Tasks
                /\ \A j \in Runs : task'[j].generation = task[j].generation /\ task'[j].net = task[j].net
      OBVIOUS
    <2>3. task' = [task EXCEPT ![i] = [task[i] EXCEPT !.phase = "gone", !.stage = NoTask.stage]]
      BY <2>2 DEF Gone
    <2>4. PICK stage \in [Probes -> Stage] : stage = NoTask.stage
      BY <2>1
    <2>5. task' = [task EXCEPT ![i] = [task[i] EXCEPT !.phase = "gone", !.stage = stage]]
      BY <2>3, <2>4
    <2> QED  BY <1>t, <2>5 DEF Tasks
  <1>s. ASSUME NEW p \in Probes, NEW stage \in Stage, task' = [task EXCEPT ![i].stage[p] = stage]
        PROVE  /\ task' \in Tasks
               /\ \A j \in Runs : task'[j].generation = task[j].generation /\ task'[j].net = task[j].net
    BY <1>t, <1>s DEF Tasks
  <1>1. ASSUME NEW p \in Probes, Asks(i, p)
        PROVE  /\ UNCHANGED <<net, control, next, run, link_health, observer, since>>
               /\ channel' \in [Runs -> Snapshot] /\ task' \in Tasks
               /\ \A j \in Runs : task'[j].generation = task[j].generation /\ task'[j].net = task[j].net
    <2>1. \E stage \in Stage : task' = [task EXCEPT ![i].stage[p] = stage]
      BY <1>1 DEF Asks, Stage
    <2> QED  BY <1>1, <2>1, <1>s, <1>c, <1>t DEF Asks
  <1>2. ASSUME NEW p \in Probes, Reports(i, p)
        PROVE  /\ UNCHANGED <<net, control, next, run, observer, since>>
               /\ channel' \in [Runs -> Snapshot] /\ task' \in Tasks /\ link_health' \in Runs \cup {None}
               /\ \A j \in Runs : task'[j].generation = task[j].generation /\ task'[j].net = task[j].net
    <2>1. \E stage \in Stage : task' = [task EXCEPT ![i].stage[p] = stage]
      BY <1>2 DEF Reports, Stage
    <2>2. Found(i, p) => channel' \in [Runs -> Snapshot]
      BY <1>t, <1>r, SnapshotTyped DEF Found, Update
    <2>3. link_health' \in Runs \cup {None}
      BY <1>2, <1>t DEF Reports
    <2> QED  BY <1>2, <2>1, <2>2, <2>3, <1>s, <1>c, <1>t DEF Reports
  <1>3. CASE Closes(i)
    <2>1. Update(i, LAMBDA v : [v EXCEPT !.complete = TRUE]) => channel' \in [Runs -> Snapshot]
      BY <1>t, <1>r, SnapshotTyped DEF Update
    <2> QED  BY <1>3, <2>1, <1>g, <1>c, <1>t DEF Closes
  <1>4. CASE Dropped(i)
    BY <1>4, <1>g, <1>t DEF Dropped
  <1> QED  BY <1>1, <1>2, <1>3, <1>4, <1>t DEF TaskStep

LEMMA TaskStepKeeps ==
  ASSUME PoolInv, NEW i \in Runs, TaskStep(i)
  PROVE  PoolInv'
  <1>0. /\ UNCHANGED <<net, control, next, run, observer, since>>
        /\ channel' \in [Runs -> Snapshot] /\ task' \in Tasks /\ link_health' \in Runs \cup {None}
        /\ \A j \in Runs : task'[j].generation = task[j].generation /\ task'[j].net = task[j].net
    BY TaskStepMoves DEF PoolInv
  <1>1. TypeOK'
    BY <1>0 DEF PoolInv, TypeOK, Tasks, control
  <1>2. RunIsFresh' /\ ReaderIsFresh'
    BY <1>0 DEF PoolInv, RunIsFresh, ReaderIsFresh, Waits, control
  <1>3. RunHasTask'
    BY <1>0 DEF PoolInv, RunHasTask, TypeOK, None
  <1>4. ReaderHasTask'
    <2>1. \A o \in Observers : Waits(o) => observer[o].id \in Runs
      BY DEF PoolInv, ReaderIsFresh, TypeOK, None, Runs
    <2> QED  BY <1>0, <2>1 DEF PoolInv, ReaderHasTask, Waits
  <1> QED  BY <1>1, <1>2, <1>3, <1>4 DEF PoolInv

Reader == [phase : {"idle", "keyed", "waiting", "returned"}, kind : Kinds, generation : Nat,
           net : Networks \cup {NoNetwork}, id : Runs \cup {None}, epoch : Nat,
           answer : {"none", "cancelled", "offline", "online"}]
Readers == [Observers -> Reader]
PoolRuns == [id : Runs \cup {None}, generation : Nat, net : Networks \cup {NoNetwork}, age : 0 .. 2]

\* The types without those of the tasks and of the readers.
RestTyped ==
    /\ net \in Networks
    /\ network_change_generation \in Nat /\ changes \in 0 .. MaxChanges
    /\ changing \in {"no", "cleared", "login", "submitted", "taken", "loginTaken"}
    /\ next \in 0 .. MaxRuns /\ epoch \in Nat /\ since \in [Runs -> Nat] /\ run \in PoolRuns
    /\ channel \in [Runs -> Snapshot] /\ link_health \in Runs \cup {None} /\ reads \in 0 .. MaxReads

LEMMA TypesSplit ==
  /\ TypeOK <=> RestTyped /\ task \in Tasks /\ observer \in Readers
  /\ TypeOK' <=> RestTyped' /\ task' \in Tasks /\ observer' \in Readers
  BY DEF TypeOK, RestTyped, Tasks, Readers, Reader, PoolRuns

\* A reader begins, returns with its answer, or leaves: the run it waits for and its key stay as they are.
LEMMA ReaderKeeps ==
  ASSUME PoolInv, NEW o \in Observers, RestTyped', UNCHANGED <<epoch, next, run, task, since>>,
         observer' \in Readers, \A x \in Observers \ {o} : observer'[x] = observer[x],
         \/ ~Waits(o)' /\ observer'[o].epoch <= epoch
         \/ /\ Waits(o) /\ observer'[o].id = observer[o].id /\ observer'[o].kind = observer[o].kind
            /\ observer'[o].generation = observer[o].generation /\ observer'[o].net = observer[o].net
            /\ observer'[o].epoch = observer[o].epoch
  PROVE  PoolInv'
  <1>1. TypeOK'
    BY TypesSplit DEF PoolInv
  <1>2. RunIsFresh' /\ RunHasTask'
    BY DEF PoolInv, RunIsFresh, RunHasTask
  <1>3. ReaderIsFresh'
    BY DEF PoolInv, ReaderIsFresh, Waits
  <1>4. ReaderHasTask'
    <2> SUFFICES ASSUME NEW x \in Observers, Waits(x)'
                 PROVE  LET t == task[observer'[x].id] IN
                        IF observer'[x].kind = "check"
                        THEN t.generation = observer'[x].generation /\ t.net = observer'[x].net
                        ELSE observer'[x].net = NoNetwork
      BY DEF ReaderHasTask
    <2>1. /\ Waits(x) /\ observer'[x].id = observer[x].id /\ observer'[x].kind = observer[x].kind
          /\ observer'[x].generation = observer[x].generation /\ observer'[x].net = observer[x].net
      BY DEF Waits
    <2> QED  BY <2>1 DEF PoolInv, ReaderHasTask
  <1> QED  BY <1>1, <1>2, <1>3, <1>4 DEF PoolInv

LEMMA ObserveKeeps ==
  ASSUME PoolInv, NEW o \in Observers, NEW kind \in Kinds, Observe(o, kind)
  PROVE  PoolInv'
  <1>t. RestTyped /\ observer \in Readers
    BY TypesSplit DEF PoolInv
  <1> DEFINE reader == [Away EXCEPT !.phase = "keyed", !.kind = kind, !.net = net, !.epoch = epoch,
                                    !.generation = network_change_generation]
  <1>1. Away \in Reader
    BY DEF Away, Kinds, None, Reader
  <1>2. reader \in Reader /\ reader.phase = "keyed" /\ reader.epoch = epoch
    BY <1>1, <1>t DEF RestTyped, Reader
  <1>3. observer' = [observer EXCEPT ![o] = reader]
    BY DEF Observe
  <1>4. observer' \in Readers /\ observer'[o] = reader /\ \A x \in Observers \ {o} : observer'[x] = observer[x]
    <2> HIDE DEF reader
    <2> QED  BY <1>2, <1>3, <1>t DEF Readers
  <1>5. RestTyped' /\ UNCHANGED <<epoch, next, run, task, since>>
    BY <1>t, PoolAssumption DEF Observe, RestTyped
  <1> HIDE DEF reader
  <1>6. ~Waits(o)' /\ observer'[o].epoch <= epoch
    BY <1>2, <1>4, <1>t DEF Waits, RestTyped
  <1> QED  BY <1>4, <1>5, <1>6, ReaderKeeps

LEMMA LeavingKeeps ==
  ASSUME PoolInv, NEW o \in Observers, observer' = [observer EXCEPT ![o] = Away], RestTyped',
         UNCHANGED <<epoch, next, run, task, since>>
  PROVE  PoolInv'
  <1>1. Away \in Reader /\ Away.phase = "idle" /\ Away.epoch = 0
    BY DEF Away, Kinds, None, Reader
  <1>2. observer \in Readers /\ epoch \in Nat
    BY TypesSplit DEF PoolInv, RestTyped
  <1>3. observer' \in Readers /\ observer'[o] = Away /\ \A x \in Observers \ {o} : observer'[x] = observer[x]
    BY <1>1, <1>2 DEF Readers
  <1>4. ~Waits(o)' /\ observer'[o].epoch <= epoch
    BY <1>1, <1>2, <1>3 DEF Waits
  <1> QED  BY <1>3, <1>4, ReaderKeeps

LEMMA ReturnsKeeps ==
  ASSUME PoolInv, NEW o \in Observers, Returns(o)
  PROVE  PoolInv'
  <1>t. RestTyped /\ observer \in Readers
    BY TypesSplit DEF PoolInv
  <1>1. PICK answer \in {"cancelled", "offline", "online"} :
          observer' = [observer EXCEPT ![o].phase = "returned", ![o].answer = answer]
    BY DEF Returns, Says
  <1>2. /\ observer' \in Readers /\ \A x \in Observers \ {o} : observer'[x] = observer[x]
        /\ observer'[o].id = observer[o].id /\ observer'[o].kind = observer[o].kind
        /\ observer'[o].generation = observer[o].generation /\ observer'[o].net = observer[o].net
        /\ observer'[o].epoch = observer[o].epoch /\ observer'[o].phase = "returned"
    <2> DEFINE reader == [observer[o] EXCEPT !.phase = "returned", !.answer = answer]
    <2>1. observer' = [observer EXCEPT ![o] = reader] /\ observer[o] \in Reader
      BY <1>1, <1>t DEF Readers
    <2>2. /\ reader \in Reader /\ reader.id = observer[o].id /\ reader.kind = observer[o].kind
          /\ reader.generation = observer[o].generation /\ reader.net = observer[o].net
          /\ reader.epoch = observer[o].epoch
      BY <2>1 DEF Reader
    <2>3. reader.phase = "returned"
      BY <2>1 DEF Reader
    <2> HIDE DEF reader
    <2> QED  BY <2>1, <2>2, <2>3, <1>t DEF Readers
  <1>3. Waits(o) /\ RestTyped' /\ UNCHANGED <<epoch, next, run, task, since>>
    BY <1>t DEF Returns, Waits, RestTyped, control
  <1> QED  BY <1>2, <1>3, ReaderKeeps

\* A waiting reader as the step that lets it wait leaves it: only a check keeps the key, only a login the moment.
LEMMA WaitingReader ==
  ASSUME NEW r \in Reader, NEW i \in Runs
  PROVE  /\ Waiting(r, i) \in Reader /\ Waiting(r, i).phase = "waiting" /\ Waiting(r, i).id = i
         /\ Waiting(r, i).kind = r.kind /\ Waiting(r, i).epoch <= r.epoch
         /\ IF r.kind = "check" THEN Waiting(r, i).generation = r.generation /\ Waiting(r, i).net = r.net
            ELSE Waiting(r, i).net = NoNetwork
  <1> DEFINE generation == IF r.kind = "check" THEN r.generation ELSE 0
             n == IF r.kind = "check" THEN r.net ELSE NoNetwork
             e == IF r.kind = "login" THEN r.epoch ELSE 0
  <1>1. generation \in Nat /\ n \in Networks \cup {NoNetwork} /\ e \in Nat /\ e <= r.epoch
    BY DEF Reader
  <1>2. Waiting(r, i) = [r EXCEPT !.phase = "waiting", !.id = i, !.generation = generation, !.net = n, !.epoch = e]
    BY DEF Waiting
  <1>3. r.kind = "check" => generation = r.generation /\ n = r.net
    OBVIOUS
  <1>4. r.kind # "check" => n = NoNetwork
    OBVIOUS
  <1> HIDE DEF generation, n, e
  <1> QED  BY <1>1, <1>2, <1>3, <1>4 DEF Reader

LEMMA JoinsKeeps ==
  ASSUME PoolInv, NEW o \in Observers, Joins(o)
  PROVE  PoolInv'
  <1>t. RestTyped /\ observer \in Readers /\ observer[o] \in Reader /\ task \in Tasks
    BY TypesSplit DEF PoolInv, Readers
  <1>1. /\ run.id # 0 /\ run.generation = observer[o].generation /\ run.net = observer[o].net
        /\ observer' = [observer EXCEPT ![o] = Waiting(observer[o], run.id)]
        /\ UNCHANGED <<net, control, next, run, channel, task, link_health, since>>
    BY DEF Joins, Shareable, None
  <1>2. run.id \in Runs /\ run.id \in 1 .. next /\ since[run.id] = epoch
        /\ task[run.id].generation = run.generation /\ task[run.id].net = run.net
    BY <1>1, <1>t DEF PoolInv, RunIsFresh, RunHasTask, RestTyped, PoolRuns, None, Runs
  <1>3. PICK reader : reader = Waiting(observer[o], run.id)
    OBVIOUS
  <1>4. /\ reader \in Reader /\ reader.phase = "waiting" /\ reader.id = run.id /\ reader.kind = observer[o].kind
        /\ reader.epoch <= observer[o].epoch
        /\ IF observer[o].kind = "check" THEN reader.generation = observer[o].generation /\ reader.net = observer[o].net
           ELSE reader.net = NoNetwork
    BY <1>2, <1>3, <1>t, WaitingReader
  <1>5. observer' \in Readers /\ observer'[o] = reader /\ \A x \in Observers \ {o} : observer'[x] = observer[x]
    BY <1>1, <1>3, <1>4, <1>t DEF Readers
  <1>6. TypeOK'
    <2>1. RestTyped'
      BY <1>1, <1>t DEF RestTyped, control
    <2> QED  BY <2>1, <1>1, <1>5, <1>t, TypesSplit
  <1>7. RunIsFresh' /\ RunHasTask'
    BY <1>1 DEF PoolInv, RunIsFresh, RunHasTask, control
  <1>8. ReaderIsFresh'
    <2>1. observer[o].epoch \in Nat /\ observer[o].epoch <= epoch /\ reader.epoch \in Nat /\ epoch \in Nat
      BY <1>4, <1>t DEF PoolInv, ReaderIsFresh, Reader, RestTyped
    <2>2. ASSUME NEW x \in Observers, x # o
          PROVE  /\ observer'[x].epoch <= epoch'
                 /\ Waits(x)' => observer'[x].id \in 1 .. next' /\ since'[observer'[x].id] >= observer'[x].epoch
      BY <1>1, <1>5, <2>2 DEF PoolInv, ReaderIsFresh, Waits, control
    <2> QED  BY <1>1, <1>2, <1>4, <1>5, <2>1, <2>2 DEF ReaderIsFresh, control
  <1>9. ReaderHasTask'
    <2>1. ASSUME NEW x \in Observers, x # o, Waits(x)'
          PROVE  LET t == task'[observer'[x].id] IN
                 IF observer'[x].kind = "check" THEN t.generation = observer'[x].generation /\ t.net = observer'[x].net
                 ELSE observer'[x].net = NoNetwork
      BY <1>1, <1>5, <2>1 DEF PoolInv, ReaderHasTask, Waits
    <2> QED  BY <1>1, <1>2, <1>4, <1>5, <2>1 DEF ReaderHasTask
  <1> QED  BY <1>6, <1>7, <1>8, <1>9 DEF PoolInv

LEMMA StartsKeeps ==
  ASSUME PoolInv, NEW o \in Observers, Starts(o)
  PROVE  PoolInv'
  <1>t. RestTyped /\ observer \in Readers /\ observer[o] \in Reader /\ task \in Tasks
    BY TypesSplit DEF PoolInv, Readers
  <1>i. PICK i : i = next + 1
    OBVIOUS
  <1>g. PICK g \in Nat, n \in Networks \cup {NoNetwork} : g = observer[o].generation /\ n = observer[o].net
    BY <1>t DEF Reader
  <1>1. /\ i \in Runs /\ next' = i /\ since' = [since EXCEPT ![i] = epoch] /\ i \in Nat /\ i > next /\ next \in Nat
    BY <1>i, <1>t, PoolAssumption DEF Starts, RestTyped, Runs
  <1>2. /\ run' = [id |-> i, generation |-> g, net |-> n, age |-> 0]
        /\ channel' = [Replaced EXCEPT ![i] = Default]
        /\ task' = [task EXCEPT ![i] = [NoTask EXCEPT !.phase = "working", !.net = n, !.generation = g]]
        /\ observer' = [observer EXCEPT ![o] = Waiting(observer[o], i)]
        /\ UNCHANGED <<net, control, link_health>>
    BY <1>i, <1>g DEF Starts
  <1>3. PICK reader : reader = Waiting(observer[o], i)
    OBVIOUS
  <1>4. /\ reader \in Reader /\ reader.phase = "waiting" /\ reader.id = i /\ reader.kind = observer[o].kind
        /\ reader.epoch <= observer[o].epoch
        /\ IF observer[o].kind = "check" THEN reader.generation = g /\ reader.net = n ELSE reader.net = NoNetwork
    BY <1>1, <1>3, <1>g, <1>t, WaitingReader
  <1>5. observer' \in Readers /\ observer'[o] = reader /\ \A x \in Observers \ {o} : observer'[x] = observer[x]
    BY <1>2, <1>3, <1>4, <1>t DEF Readers
  <1>6. /\ task' \in Tasks /\ task'[i].generation = g /\ task'[i].net = n
        /\ \A j \in Runs \ {i} : task'[j] = task[j]
    <2>1. PICK fresh : fresh = [NoTask EXCEPT !.phase = "working", !.net = n, !.generation = g]
      OBVIOUS
    <2>2. fresh \in [phase : {"none", "working", "gone"}, generation : Nat, net : Networks \cup {NoNetwork},
                     stage : [Probes -> Stage]] /\ fresh.generation = g /\ fresh.net = n
      BY <2>1 DEF NoTask, Stage
    <2>3. task' = [task EXCEPT ![i] = fresh]
      BY <1>2, <2>1
    <2> QED  BY <1>1, <1>t, <2>2, <2>3 DEF Tasks
  <1>7. run' \in PoolRuns /\ run'.id = i /\ run'.generation = g /\ run'.net = n
    BY <1>1, <1>2 DEF PoolRuns
  <1>8. since' \in [Runs -> Nat] /\ since'[i] = epoch /\ \A j \in Runs \ {i} : since'[j] = since[j]
    BY <1>1, <1>t DEF RestTyped
  <1>9. channel' \in [Runs -> Snapshot]
    <2>1. Replaced \in [Runs -> Snapshot]
      BY <1>t, SnapshotTyped DEF Replaced, RestTyped, PoolRuns
    <2> QED  BY <2>1, <1>1, <1>2, SnapshotTyped
  <1>10. TypeOK'
    <2>1. next' \in 0 .. MaxRuns
      BY <1>1 DEF Runs
    <2>2. RestTyped'
      BY <1>2, <1>7, <1>8, <1>9, <2>1, <1>t DEF RestTyped, control
    <2> QED  BY <2>2, <1>5, <1>6, TypesSplit
  <1>11. RunIsFresh' /\ RunHasTask'
    BY <1>1, <1>2, <1>6, <1>7, <1>8 DEF RunIsFresh, RunHasTask, control
  <1>12. \A x \in Observers : Waits(x) => observer[x].id \in Runs \ {i}
    BY <1>1, <1>t, PoolAssumption DEF PoolInv, ReaderIsFresh, Runs, RestTyped
  <1>13. ReaderIsFresh'
    <2>1. observer[o].epoch \in Nat /\ observer[o].epoch <= epoch /\ reader.epoch \in Nat /\ epoch \in Nat
      BY <1>4, <1>t DEF PoolInv, ReaderIsFresh, Reader, RestTyped
    <2>2. ASSUME NEW x \in Observers, x # o
          PROVE  /\ observer'[x].epoch <= epoch'
                 /\ Waits(x)' => observer'[x].id \in 1 .. next' /\ since'[observer'[x].id] >= observer'[x].epoch
      <3>1. observer'[x] = observer[x] /\ (Waits(x)' => Waits(x)) /\ epoch' = epoch
        BY <1>2, <1>5, <2>2 DEF Waits, control
      <3>2. Waits(x) => /\ observer[x].id \in 1 .. next /\ since[observer[x].id] >= observer[x].epoch
                        /\ since'[observer[x].id] = since[observer[x].id]
        BY <1>8, <1>12 DEF PoolInv, ReaderIsFresh
      <3> QED  BY <1>1, <3>1, <3>2 DEF PoolInv, ReaderIsFresh
    <2> QED  BY <1>1, <1>2, <1>4, <1>5, <1>8, <2>1, <2>2 DEF ReaderIsFresh, control
  <1>14. ReaderHasTask'
    <2>1. ASSUME NEW x \in Observers, x # o, Waits(x)'
          PROVE  LET t == task'[observer'[x].id] IN
                 IF observer'[x].kind = "check" THEN t.generation = observer'[x].generation /\ t.net = observer'[x].net
                 ELSE observer'[x].net = NoNetwork
      <3>1. observer'[x] = observer[x] /\ Waits(x)
        BY <1>5, <2>1 DEF Waits
      <3>2. task'[observer[x].id] = task[observer[x].id]
        BY <1>6, <1>12, <3>1
      <3> QED  BY <3>1, <3>2 DEF PoolInv, ReaderHasTask
    <2> QED  BY <1>4, <1>5, <1>6, <2>1 DEF ReaderHasTask
  <1> QED  BY <1>10, <1>11, <1>13, <1>14 DEF PoolInv

\* An invalidation empties the pool, so that no run of an earlier epoch can be joined.
LEMMA ChangeSeenKeeps ==
  ASSUME PoolInv, NEW kind \in {"taken", "loginTaken"}, ChangeSeen(kind)
  PROVE  PoolInv'
  <1>t. RestTyped /\ observer \in Readers /\ task \in Tasks
    BY TypesSplit DEF PoolInv
  <1>1. /\ run' = NoRun /\ epoch' = epoch + 1 /\ epoch \in Nat
        /\ UNCHANGED <<net, next, network_change_generation, reads, task, link_health, observer, since>>
    BY <1>t DEF ChangeSeen, Invalidate, RestTyped
  <1>2. RestTyped'
    <2>1. channel' \in [Runs -> Snapshot]
      BY <1>t, SnapshotTyped DEF ChangeSeen, Invalidate, RestTyped, PoolRuns
    <2>2. run' \in PoolRuns
      BY <1>1 DEF NoRun, PoolRuns, None
    <2>3. changes' \in 0 .. MaxChanges /\ changing' = kind
      BY <1>t, PoolAssumption DEF ChangeSeen, RestTyped
    <2> QED  BY <1>1, <1>t, <2>1, <2>2, <2>3 DEF RestTyped
  <1>3. TypeOK'
    BY <1>1, <1>2, <1>t, TypesSplit
  <1>4. RunIsFresh' /\ RunHasTask'
    BY <1>1 DEF NoRun, None, RunIsFresh, RunHasTask
  <1>5. ReaderIsFresh'
    <2>1. \A o \in Observers : observer[o].epoch \in Nat
      BY <1>t DEF Readers, Reader
    <2> QED  BY <1>1, <2>1 DEF PoolInv, ReaderIsFresh, Waits
  <1>6. ReaderHasTask'
    BY <1>1 DEF PoolInv, ReaderHasTask, Waits
  <1> QED  BY <1>3, <1>4, <1>5, <1>6 DEF PoolInv

\* The other steps of the network, and the time that passes.
LEMMA ElseKeeps ==
  ASSUME PoolInv, RestTyped', UNCHANGED <<epoch, next, task, observer, since>>,
         run'.id = run.id /\ run'.generation = run.generation /\ run'.net = run.net
  PROVE  PoolInv'
  <1>1. TypeOK'
    BY TypesSplit DEF PoolInv
  <1> QED  BY <1>1 DEF PoolInv, RunIsFresh, RunHasTask, ReaderIsFresh, ReaderHasTask, Waits

LEMMA PoolStepInv == PoolInv /\ [Next]_vars => PoolInv'
  <1> SUFFICES ASSUME PoolInv, [Next]_vars PROVE PoolInv'
    OBVIOUS
  <1>t. RestTyped
    BY TypesSplit DEF PoolInv
  <1>1. ASSUME NEW o \in Observers, NEW k \in Kinds, Observe(o, k) PROVE PoolInv'
    BY <1>1, ObserveKeeps
  <1>2. ASSUME NEW o \in Observers, ReaderStep(o) PROVE PoolInv'
    BY <1>2, JoinsKeeps, StartsKeeps, ReturnsKeeps DEF ReaderStep
  <1>3. ASSUME NEW o \in Observers, LoginVerified(o) \/ Leaves(o) PROVE PoolInv'
    <2>1. /\ observer' = [observer EXCEPT ![o] = Away] /\ UNCHANGED <<epoch, next, run, task, since>>
          /\ RestTyped'
      BY <1>3, <1>t DEF LoginVerified, Leaves, RestTyped, control
    <2> QED  BY <2>1, LeavingKeeps
  <1>4. ASSUME NEW i \in Runs, TaskStep(i) PROVE PoolInv'
    BY <1>4, TaskStepKeeps
  <1>5. CASE Ages
    <2>1. run \in PoolRuns /\ run.age < 2 /\ run' = [run EXCEPT !.age = run.age + 1]
      BY <1>5, <1>t DEF Ages, RestTyped
    <2>2. run' \in PoolRuns /\ run'.id = run.id /\ run'.generation = run.generation /\ run'.net = run.net
      BY <2>1 DEF PoolRuns
    <2> QED  BY <1>5, <1>t, <2>2, ElseKeeps DEF Ages, RestTyped, control
  <1>6. CASE NetworkMoves
    BY <1>6, <1>t, PoolAssumption, ElseKeeps DEF NetworkMoves, RestTyped
  <1>7. CASE ChangeSeen("taken") \/ ChangeSeen("loginTaken")
    BY <1>7, ChangeSeenKeeps
  <1>8. CASE HealthCleared
    BY <1>8, <1>t, ElseKeeps DEF HealthCleared, RestTyped
  <1>9. CASE GenerationAdvances
    BY <1>9, <1>t, ElseKeeps DEF GenerationAdvances, RestTyped
  <1>10. CASE LoginAnswered
    BY <1>10, <1>t, ElseKeeps DEF LoginAnswered, RestTyped
  <1>11. CASE UNCHANGED vars
    BY <1>11, <1>t, ElseKeeps DEF vars, RestTyped
  <1> QED  BY <1>1, <1>2, <1>3, <1>4, <1>5, <1>6, <1>7, <1>8, <1>9, <1>10, <1>11 DEF Next

LEMMA PoolAlways == AllSpec => []PoolInv
  BY NetworkBegins, PartsMove, PoolInitInv, PoolStepInv, PTL DEF AllSpec

\* A reader is answered only by a run that began after the last invalidation it knew of (ProbePool.invalidate):
\* a login is never verified with what was found before its request, for any readers, runs and changes.
THEOREM AnswersAreFreshAlways == AllSpec => []AnswersAreFresh
  <1>1. PoolInv => AnswersAreFresh
    BY DEF PoolInv, ReaderIsFresh, Waits, AnswersAreFresh
  <1> QED  BY <1>1, PoolAlways, PTL

\* What a check accepts was found by a run of exactly the generation and the network that are there, although
\* it may have joined the run of another reader (observe, ProbePoolKey).
THEOREM AcceptedOnOwnNetworkAlways == AllSpec => []AcceptedOnOwnNetwork
  <1>1. PoolInv => AcceptedOnOwnNetwork
    <2> SUFFICES ASSUME PoolInv, NEW o \in Observers, observer[o].phase = "returned", Acceptable(o)
                 PROVE  /\ task[observer[o].id].generation = network_change_generation
                        /\ task[observer[o].id].net = net
      BY DEF AcceptedOnOwnNetwork
    <2>1. net # NoNetwork /\ Waits(o)
      BY PoolAssumption DEF PoolInv, TypeOK, Waits
    <2> QED  BY <2>1 DEF PoolInv, ReaderHasTask, Acceptable
  <1> QED  BY <1>1, PoolAlways, PTL

-----------------------------------------------------------------------------
(* The schedule of the checks: the two counts are the row of like results at the end of the history, so that the *)
(* plan, made of them, is made of the row.                                                                       *)

\* The positions of the row at the end of a history.
Row(history) == {i \in 1 .. Len(history) : \A j \in i .. Len(history) : history[j] = history[Len(history)]}
RowLength(history) == Cardinality(Row(history))

Latest == observed[Len(observed)]

ScheduleInv ==
    /\ observed \in Seq(Schedule!Found)
    /\ IF observed = <<>> THEN schedule = Schedule!NewSchedule /\ plan = Schedule!NewPlan
       ELSE /\ schedule = [identity |-> Latest.identity,
                           online_count |-> IF Latest.online THEN RowLength(observed) ELSE 0,
                           offline_count |-> IF Latest.online THEN 0 ELSE RowLength(observed)]
            /\ plan = Schedule!PlanFor(asked, schedule.online_count, schedule.offline_count)

\* A like result makes the row longer by one, another begins a row of one.
LEMMA RowGrows ==
  ASSUME NEW S, NEW history \in Seq(S), NEW x \in S
  PROVE  /\ Append(history, x) \in Seq(S) /\ Append(history, x) # <<>>
         /\ Append(history, x)[Len(Append(history, x))] = x
         /\ RowLength(Append(history, x)) =
              IF history # <<>> /\ history[Len(history)] = x THEN RowLength(history) + 1 ELSE 1
         /\ RowLength(history) \in Nat
  <1> DEFINE n == Len(history)
             longer == Append(history, x)
  <1>1. /\ n \in Nat /\ longer \in Seq(S) /\ Len(longer) = n + 1 /\ longer[n + 1] = x /\ longer # <<>>
        /\ \A j \in 1 .. n : longer[j] = history[j]
    OBVIOUS
  <1>2. IsFiniteSet(Row(history)) /\ Cardinality(Row(history)) \in Nat
    <2>1. Row(history) \subseteq 1 .. n /\ IsFiniteSet(1 .. n)
      BY <1>1, FS_Interval DEF Row
    <2> QED  BY <2>1, FS_Subset, FS_CardinalityType
  <1>3. CASE history # <<>> /\ history[n] = x
    <2>1. n \in 1 .. n
      BY <1>1, <1>3
    <2>2. Row(longer) = Row(history) \cup {n + 1}
      <3>1. ASSUME NEW i \in Row(longer), i # n + 1 PROVE i \in Row(history)
        BY <1>1, <1>3, <3>1 DEF Row
      <3>2. ASSUME NEW i \in Row(history) PROVE i \in Row(longer)
        <4>1. i \in 1 .. n + 1 /\ \A j \in i .. n : longer[j] = x
          BY <1>1, <1>3 DEF Row
        <4>2. \A j \in i .. n + 1 : longer[j] = x
          BY <1>1, <4>1
        <4> QED  BY <1>1, <4>1, <4>2 DEF Row
      <3>3. n + 1 \in Row(longer)
        BY <1>1 DEF Row
      <3> QED  BY <3>1, <3>2, <3>3
    <2>3. n + 1 \notin Row(history)
      BY <1>1 DEF Row
    <2>4. Cardinality(Row(history) \cup {n + 1}) = Cardinality(Row(history)) + 1
      BY <1>2, <2>3, FS_AddElement
    <2> QED  BY <1>1, <1>2, <1>3, <2>2, <2>4 DEF RowLength
  <1>4. CASE ~(history # <<>> /\ history[n] = x)
    <2>1. Row(longer) = {n + 1}
      <3>1. ASSUME NEW i \in Row(longer), i # n + 1 PROVE FALSE
        <4>1. i \in 1 .. n /\ n \in i .. n + 1 /\ n \in 1 .. n
          BY <1>1, <3>1 DEF Row
        <4>2. longer[n] = x /\ longer[n] = history[n] /\ history # <<>>
          BY <1>1, <4>1 DEF Row
        <4> QED  BY <1>4, <4>2
      <3>2. n + 1 \in Row(longer)
        BY <1>1 DEF Row
      <3> QED  BY <3>1, <3>2
    <2> QED  BY <1>1, <1>2, <1>4, <2>1, FS_Singleton DEF RowLength
  <1> QED  BY <1>1, <1>2, <1>3, <1>4 DEF RowLength

\* What a check found is counted as its row is.
LEMMA ObserveStep ==
  ASSUME ScheduleInv, NEW found \in Schedule!Found, NEW s, Schedule!Observe(found, s)
  PROVE  ScheduleInv'
  <1>1. /\ schedule' = Schedule!After(found) /\ observed' = Append(observed, found) /\ asked' = s
        /\ plan' = Schedule!PlanFor(s, schedule'.online_count, schedule'.offline_count)
    BY DEF Schedule!Observe
  <1>2. found.online \in BOOLEAN /\ observed \in Seq(Schedule!Found)
    BY DEF ScheduleInv, Schedule!Found
  <1>3. /\ observed' \in Seq(Schedule!Found) /\ observed' # <<>> /\ observed'[Len(observed')] = found
        /\ RowLength(observed') = IF observed # <<>> /\ Latest = found THEN RowLength(observed) + 1 ELSE 1
        /\ RowLength(observed) \in Nat
    BY <1>1, <1>2, RowGrows DEF Latest
  <1>4. schedule' = [identity |-> found.identity,
                     online_count |-> IF found.online THEN RowLength(observed') ELSE 0,
                     offline_count |-> IF found.online THEN 0 ELSE RowLength(observed')]
    <2> DEFINE Counts == [identity : {found.identity}, online_count : Nat, offline_count : Nat]
    <2>a. ASSUME schedule \in Counts
          PROVE  /\ schedule' \in Counts
                 /\ schedule'.online_count = IF found.online THEN schedule.online_count + 1 ELSE 0
                 /\ schedule'.offline_count = IF found.online THEN 0 ELSE schedule.offline_count + 1
      <3>1. PICK c \in Nat, d \in Nat : c = schedule.online_count + 1 /\ d = schedule.offline_count + 1
        BY <2>a
      <3>2. schedule' = IF found.online THEN [schedule EXCEPT !.online_count = c, !.offline_count = 0]
                        ELSE [schedule EXCEPT !.offline_count = d, !.online_count = 0]
        BY <1>1, <2>a, <3>1 DEF Schedule!After
      <3>3. schedule' \in Counts
        BY <2>a, <3>2
      <3>4. /\ schedule'.online_count = IF found.online THEN c ELSE 0
            /\ schedule'.offline_count = IF found.online THEN 0 ELSE d
        BY <2>a, <3>2
      <3> QED  BY <3>1, <3>3, <3>4
    <2>b. ASSUME schedule' \in Counts,
                 schedule'.online_count = (IF found.online THEN RowLength(observed') ELSE 0),
                 schedule'.offline_count = (IF found.online THEN 0 ELSE RowLength(observed'))
          PROVE  schedule' = [identity |-> found.identity,
                              online_count |-> IF found.online THEN RowLength(observed') ELSE 0,
                              offline_count |-> IF found.online THEN 0 ELSE RowLength(observed')]
      BY <2>b
    <2>1. CASE observed = <<>>
      <3>1. schedule = [identity |-> Schedule!Unidentified, online_count |-> 0, offline_count |-> 0]
        BY <2>1 DEF ScheduleInv, Schedule!NewSchedule
      <3>2. CASE found.identity = Schedule!Unidentified
        <4>1. schedule \in Counts /\ schedule.online_count = 0 /\ schedule.offline_count = 0
          BY <3>1, <3>2
        <4> QED  BY <1>2, <1>3, <2>1, <2>a, <2>b, <4>1
      <3>3. CASE found.identity # Schedule!Unidentified
        BY <1>1, <1>2, <1>3, <2>1, <3>1, <3>3 DEF Schedule!After, Schedule!CountedAnew
      <3> QED  BY <3>2, <3>3
    <2>2. CASE observed # <<>> /\ Latest.identity # found.identity
      BY <1>1, <1>2, <1>3, <2>2 DEF ScheduleInv, Schedule!After, Schedule!CountedAnew
    <2>3. CASE observed # <<>> /\ Latest.identity = found.identity
      <3>1. Latest \in Schedule!Found
        BY <1>2, <2>3 DEF Latest
      <3>2. Latest = found <=> Latest.online = found.online
        BY <2>3, <3>1 DEF Schedule!Found
      <3>3. Latest.online \in BOOLEAN
        BY <3>1 DEF Schedule!Found
      <3>4. /\ schedule \in Counts
            /\ schedule.online_count = IF Latest.online THEN RowLength(observed) ELSE 0
            /\ schedule.offline_count = IF Latest.online THEN 0 ELSE RowLength(observed)
        BY <1>3, <2>3 DEF ScheduleInv
      <3>5. /\ schedule' \in Counts
            /\ schedule'.online_count = IF found.online THEN RowLength(observed') ELSE 0
            /\ schedule'.offline_count = IF found.online THEN 0 ELSE RowLength(observed')
        BY <1>2, <1>3, <2>3, <2>a, <3>2, <3>3, <3>4
      <3> QED  BY <2>b, <3>5
    <2> QED  BY <2>1, <2>2, <2>3
  <1>5. Latest' = found
    BY <1>3 DEF Latest
  <1> QED  BY <1>1, <1>3, <1>4, <1>5 DEF ScheduleInv

LEMMA ScheduleStepInv == ScheduleInv /\ [Schedule!ScheduleNext]_Schedule!scheduleVars => ScheduleInv'
  <1> SUFFICES ASSUME ScheduleInv, [Schedule!ScheduleNext]_Schedule!scheduleVars PROVE ScheduleInv'
    OBVIOUS
  <1>1. CASE UNCHANGED <<schedule, plan, observed, asked>>
    BY <1>1 DEF ScheduleInv, Latest
  <1>2. CASE Schedule!Reset
    <2>1. observed' = <<>> /\ <<>> \in Seq(Schedule!Found)
      BY <1>2 DEF Schedule!Reset
    <2> QED  BY <1>2, <2>1 DEF Schedule!Reset, ScheduleInv
  <1>3. CASE \E found \in Schedule!Found, s \in Settings : Schedule!Observe(found, s)
    BY <1>3, ObserveStep
  <1> QED  BY <1>1, <1>2, <1>3 DEF Schedule!ScheduleNext, Schedule!scheduleVars, Schedule!CheckBegins,
              Schedule!CheckEnds, Schedule!NetworkChange, Schedule!ManualCheck

LEMMA ScheduleInitInv == Schedule!ScheduleInit => ScheduleInv
  BY DEF Schedule!ScheduleInit, ScheduleInv

\* The plan is the one that the row of like results at the end of the history calls for, whatever networks and
\* results came before it (AdaptiveSchedule::observe), for any networks and however many checks.
THEOREM PlanFollowsTheStreakAlways == AllSpec => []PlanFollowsTheStreak
  <1>1. ScheduleInv => PlanFollowsTheStreak
    <2> SUFFICES ASSUME ScheduleInv, observed # <<>>
                 PROVE  plan = IF Schedule!Last(observed).online THEN Schedule!PlanFor(asked, Schedule!Streak, 0)
                               ELSE Schedule!PlanFor(asked, 0, Schedule!Streak)
      BY DEF ScheduleInv, PlanFollowsTheStreak, Schedule!PlanFollowsTheStreak
    <2>1. Schedule!Streak = RowLength(observed)
      BY DEF Schedule!Streak, RowLength, Row, Schedule!Cardinality, Cardinality
    <2>2. Schedule!Last(observed) = Latest
      BY DEF Schedule!Last, Latest
    <2> QED  BY <2>1, <2>2 DEF ScheduleInv
  <1> QED  BY <1>1, NetworkBegins, PartsMove, ScheduleInitInv, ScheduleStepInv, PTL DEF AllSpec
-----------------------------------------------------------------------------
(* The types. *)

\* The probes: a target that failed has a kind of failure, so that the family shows one too.
LinkTypes ==
    Link!TypeOK /\ \A f \in Link!Families, t \in Targets : target[f][t] = "failed" => error[f][t] \in Link!Failures

TargetStage == {"resolving", "connecting", "ok", "failed", "dropped"}

LEMMA LinkInitTypes == Link!Init => LinkTypes
  BY DEF Link!Init, LinkTypes, Link!TypeOK, Link!Families, Link!Status, Link!Failures, Link!Attempt

LEMMA FailureIsShown ==
  ASSUME LinkTypes, NEW f \in Link!Families, NEW t \in Targets, NEW k \in Link!Failures, Link!TargetFailed(f, t, k)
  PROVE  /\ report' \in [Link!Families -> Link!Status]
         /\ target' \in [Link!Families -> [Targets -> TargetStage]]
         /\ error' \in [Link!Families -> [Targets -> Link!Failures \cup {"none"}]]
         /\ \A g \in Link!Families, u \in Targets : target'[g][u] = "failed" => error'[g][u] \in Link!Failures
  <1>t. /\ report \in [Link!Families -> Link!Status] /\ target \in [Link!Families -> [Targets -> TargetStage]]
        /\ error \in [Link!Families -> [Targets -> Link!Failures \cup {"none"}]]
        /\ \A g \in Link!Families, u \in Targets : target[g][u] = "failed" => error[g][u] \in Link!Failures
    BY DEF LinkTypes, Link!TypeOK, TargetStage
  <1>1. target' = [target EXCEPT ![f][t] = "failed"] /\ error' = [error EXCEPT ![f][t] = k]
    BY DEF Link!TargetFailed
  <1>2. target' \in [Link!Families -> [Targets -> TargetStage]]
    BY <1>t, <1>1 DEF TargetStage
  <1>3. error' \in [Link!Families -> [Targets -> Link!Failures \cup {"none"}]]
    BY <1>t, <1>1
  <1>4. ASSUME NEW g \in Link!Families, NEW u \in Targets, target'[g][u] = "failed"
        PROVE  error'[g][u] \in Link!Failures
    <2>1. CASE g = f /\ u = t
      BY <1>t, <1>1, <2>1
    <2>2. CASE ~(g = f /\ u = t)
      BY <1>t, <1>1, <1>4, <2>2
    <2> QED  BY <2>1, <2>2
  <1>5. report' \in [Link!Families -> Link!Status]
    <2>1. CASE \A u \in Targets : target'[f][u] = "failed"
      <3> DEFINE kinds == {error'[f][u] : u \in Targets}
      <3>1. kinds \subseteq Link!Failures /\ kinds # {}
        BY <1>4, <2>1
      <3>2. (CHOOSE kind \in kinds : TRUE) \in Link!Failures
        BY <3>1
      <3>3. Link!Classified(kinds) \in Link!Status
        BY <3>2 DEF Link!Classified, Link!Status, Link!Failures
      <3>4. report' = [report EXCEPT ![f] = Link!Classified(kinds)]
        BY <2>1 DEF Link!TargetFailed
      <3> QED  BY <1>t, <3>3, <3>4
    <2>2. CASE ~\A u \in Targets : target'[f][u] = "failed"
      BY <1>t, <2>2 DEF Link!TargetFailed
    <2> QED  BY <2>1, <2>2
  <1> QED  BY <1>2, <1>3, <1>4, <1>5

LEMMA LinkStepTypes == LinkTypes /\ [Link!Next]_Link!vars => LinkTypes'
  <1> SUFFICES ASSUME LinkTypes, [Link!Next]_Link!vars PROVE LinkTypes'
    OBVIOUS
  <1>t. /\ adapter \in BOOLEAN /\ configured \in [Link!Families -> BOOLEAN]
        /\ report \in [Link!Families -> Link!Status] /\ target \in [Link!Families -> [Targets -> TargetStage]]
        /\ dns \in [Link!Families -> [Targets -> SUBSET Servers]]
        /\ error \in [Link!Families -> [Targets -> Link!Failures \cup {"none"}]]
        /\ address \in [Link!Families -> [Targets -> [Addresses -> Link!Attempt]]]
        /\ \A g \in Link!Families, u \in Targets : target[g][u] = "failed" => error[g][u] \in Link!Failures
    BY DEF LinkTypes, Link!TypeOK, TargetStage
  \* It is enough to look at what a step changes.
  <1>s. ASSUME UNCHANGED <<adapter, configured>>,
               dns' \in [Link!Families -> [Targets -> SUBSET Servers]],
               address' \in [Link!Families -> [Targets -> [Addresses -> Link!Attempt]]],
               report' \in [Link!Families -> Link!Status], target' \in [Link!Families -> [Targets -> TargetStage]],
               error' \in [Link!Families -> [Targets -> Link!Failures \cup {"none"}]],
               \A g \in Link!Families, u \in Targets : target'[g][u] = "failed" => error'[g][u] \in Link!Failures
        PROVE  LinkTypes'
    BY <1>t, <1>s DEF LinkTypes, Link!TypeOK, TargetStage
  <1>f. ASSUME NEW f \in Link!Families, NEW t \in Targets, NEW k \in Link!Failures, Link!TargetFailed(f, t, k),
               UNCHANGED <<adapter, configured>>, dns' \in [Link!Families -> [Targets -> SUBSET Servers]],
               address' \in [Link!Families -> [Targets -> [Addresses -> Link!Attempt]]]
        PROVE  LinkTypes'
    BY <1>f, <1>s, FailureIsShown
  <1>a. \A f \in Link!Families, t \in Targets, a \in Addresses, w \in {"ok", "failed"} :
          [address EXCEPT ![f][t][a] = w] \in [Link!Families -> [Targets -> [Addresses -> Link!Attempt]]]
    BY <1>t DEF Link!Attempt
  <1>1. ASSUME NEW f \in Link!Families, NEW t \in Targets, Link!Resolves(f, t) PROVE LinkTypes'
    <2>1. /\ target' = [target EXCEPT ![f][t] = "connecting"] /\ dns' = [dns EXCEPT ![f][t] = {}]
          /\ UNCHANGED <<adapter, configured, report, error, address>>
      BY <1>1 DEF Link!Resolves
    <2>2. target' \in [Link!Families -> [Targets -> TargetStage]]
      BY <1>t, <2>1 DEF TargetStage
    <2>3. dns' \in [Link!Families -> [Targets -> SUBSET Servers]]
      BY <1>t, <2>1
    <2>4. \A g \in Link!Families, u \in Targets : target'[g][u] = "failed" => target[g][u] = "failed"
      BY <1>t, <2>1
    <2> QED  BY <1>s, <1>t, <2>1, <2>2, <2>3, <2>4
  <1>2. ASSUME NEW f \in Link!Families, NEW t \in Targets, NEW s \in Servers, Link!ServerFails(f, t, s) PROVE LinkTypes'
    <2>1. dns' \in [Link!Families -> [Targets -> SUBSET Servers]]
      <3>1. dns' = [dns EXCEPT ![f][t] = {}] \/ dns' = [dns EXCEPT ![f][t] = dns[f][t] \ {s}]
        BY <1>2, <1>t DEF Link!ServerFails
      <3>2. dns[f][t] \ {s} \in SUBSET Servers
        BY <1>t
      <3>3. [dns EXCEPT ![f][t] = {}] \in [Link!Families -> [Targets -> SUBSET Servers]]
        BY <1>t
      <3>4. [dns EXCEPT ![f][t] = dns[f][t] \ {s}] \in [Link!Families -> [Targets -> SUBSET Servers]]
        BY <1>t, <3>2
      <3> QED  BY <3>1, <3>3, <3>4, Zenon
    <2>2. UNCHANGED <<adapter, configured, address>>
      BY <1>2 DEF Link!ServerFails
    <2>3. (\E k \in {"dns_error", "unavailable"} : Link!TargetFailed(f, t, k)) \/ UNCHANGED <<report, target, error>>
      BY <1>2 DEF Link!ServerFails
    <2>4. {"dns_error", "unavailable"} \subseteq Link!Failures
      BY DEF Link!Failures
    <2> QED  BY <1>f, <1>s, <1>t, <2>1, <2>2, <2>3, <2>4
  <1>3. ASSUME NEW f \in Link!Families, NEW t \in Targets, Link!TimesOut(f, t) PROVE LinkTypes'
    BY <1>3, <1>f, <1>t DEF Link!TimesOut, Link!Failures
  <1>4. ASSUME NEW f \in Link!Families, NEW t \in Targets, NEW a \in Addresses, Link!Answers(f, t, a) PROVE LinkTypes'
    <2>1. address' \in [Link!Families -> [Targets -> [Addresses -> Link!Attempt]]] /\ UNCHANGED <<adapter, configured, dns, error>>
      BY <1>4, <1>a DEF Link!Answers, Link!TargetReached
    <2>2. report' = [report EXCEPT ![f] = "reachable"] /\ "reachable" \in Link!Status
      BY <1>4 DEF Link!Answers, Link!TargetReached, Link!Status
    <2> DEFINE Settled(u) == IF u = t THEN "ok" ELSE IF target[f][u] = "failed" THEN "failed" ELSE "dropped"
    <2>3. target' = [target EXCEPT ![f] = [u \in Targets |-> Settled(u)]]
      BY <1>4, <1>t DEF Link!Answers, Link!TargetReached
    <2>4. [u \in Targets |-> Settled(u)] \in [Targets -> TargetStage]
      BY DEF TargetStage
    <2>5. target' \in [Link!Families -> [Targets -> TargetStage]]
      BY <1>t, <2>3, <2>4
    <2>6. \A g \in Link!Families, u \in Targets : target'[g][u] = "failed" => target[g][u] = "failed"
      BY <1>t, <2>3
    <2> QED  BY <1>s, <1>t, <2>1, <2>2, <2>5, <2>6
  <1>5. ASSUME NEW f \in Link!Families, NEW t \in Targets, NEW a \in Addresses, Link!Intercepted(f, t, a)
        PROVE  LinkTypes'
    BY <1>5, <1>f, <1>a, <1>t DEF Link!Intercepted, Link!Failures
  <1>6. ASSUME NEW f \in Link!Families, NEW t \in Targets, NEW a \in Addresses, NEW k \in Link!Failures,
               Link!AddressFails(f, t, a, k)
        PROVE  LinkTypes'
    <2>1. address' \in [Link!Families -> [Targets -> [Addresses -> Link!Attempt]]] /\ UNCHANGED <<adapter, configured, dns>>
      BY <1>6, <1>a DEF Link!AddressFails
    <2>2. Link!TargetFailed(f, t, k) \/ UNCHANGED <<report, target, error>>
      BY <1>6 DEF Link!AddressFails
    <2> QED  BY <1>f, <1>s, <1>t, <2>1, <2>2
  <1>7. CASE UNCHANGED Link!vars
    BY <1>7, <1>s, <1>t DEF Link!vars
  <1> QED  BY <1>1, <1>2, <1>3, <1>4, <1>5, <1>6, <1>7 DEF Link!Next, Link!Step, Link!Failures

\* The schedule: the counts are rows of what was observed, of which there is a bound.
ScheduleTypes ==
    /\ Schedule!ScheduleTypeOK /\ observed \in Seq(Schedule!Found)
    /\ schedule \in [identity : Interfaces \cup {Schedule!Unidentified}, online_count : Nat, offline_count : Nat]
    /\ schedule.online_count <= Len(observed) /\ schedule.offline_count <= Len(observed)

LEMMA ScheduleInitTypes == Schedule!ScheduleInit => ScheduleTypes
  BY ScheduleAssumption, PoolAssumption
     DEF Schedule!ScheduleInit, ScheduleTypes, Schedule!ScheduleTypeOK, Schedule!NewSchedule, Schedule!NewPlan,
         Schedule!None, Schedule!Unidentified

\* The interval of a plan is a number, and the time to look at the network again one of three.
LEMMA PlanIsTyped ==
  ASSUME NEW s \in Settings, NEW on \in Nat, NEW off \in Nat
  PROVE  /\ Schedule!PlanFor(s, on, off).interval_seconds \in Nat
         /\ Schedule!PlanFor(s, on, off).interface_poll_seconds \in {3, 15, 30}
  <1>1. s.configured \in Nat
    <2> DEFINE All == [has_link : BOOLEAN, background : BOOLEAN, mobile_data : BOOLEAN, power_saving : BOOLEAN,
                       enabled : BOOLEAN, configured : Nat]
    <2>1. Foreground \in All
      BY DEF Foreground
    <2>2. Background \in All
      BY <2>1 DEF Background
    <2>3. /\ [Background EXCEPT !.has_link = FALSE] \in All /\ [Background EXCEPT !.power_saving = TRUE] \in All
          /\ [Background EXCEPT !.mobile_data = TRUE] \in All /\ [Background EXCEPT !.enabled = FALSE] \in All
      BY <2>2
    <2>4. s \in All
      BY <2>1, <2>2, <2>3 DEF Settings
    <2> QED  BY <2>4
  <1>2. Schedule!Adapted(s, on, off) \in Nat
    BY <1>1 DEF Schedule!Adapted, Schedule!Larger, Schedule!Smaller
  <1>3. Schedule!Interval(s, on, off) \in Nat
    BY <1>2 DEF Schedule!Interval, Schedule!Larger
  <1>4. Schedule!Poll(s, on, off) \in {3, 15, 30}
    BY DEF Schedule!Poll
  <1> QED  BY <1>3, <1>4 DEF Schedule!PlanFor

LEMMA ScheduleStepTypes == ScheduleTypes /\ [Schedule!ScheduleNext]_Schedule!scheduleVars => ScheduleTypes'
  <1> SUFFICES ASSUME ScheduleTypes, [Schedule!ScheduleNext]_Schedule!scheduleVars PROVE ScheduleTypes'
    OBVIOUS
  <1> DEFINE Schedules == [identity : Interfaces \cup {Schedule!Unidentified}, online_count : Nat, offline_count : Nat]
  <1>t. /\ schedule \in Schedules /\ observed \in Seq(Schedule!Found) /\ Len(observed) \in Nat
        /\ schedule.online_count <= Len(observed) /\ schedule.offline_count <= Len(observed)
        /\ Len(observed) <= MaxObserved /\ MaxObserved \in Nat /\ MaxChanges \in Nat
        /\ plan.interval_seconds \in Nat /\ plan.interface_poll_seconds \in {3, 15, 30}
        /\ scheduleGeneration \in 0 .. MaxChanges /\ ending \in -1 .. MaxChanges
    BY ScheduleAssumption, PoolAssumption DEF ScheduleTypes, Schedule!ScheduleTypeOK, Schedule!None
  \* It is enough to look at what a step changes.
  <1>s. ASSUME schedule' \in Schedules, observed' \in Seq(Schedule!Found), Len(observed') <= MaxObserved,
               schedule'.online_count <= Len(observed'), schedule'.offline_count <= Len(observed'),
               plan'.interval_seconds \in Nat, plan'.interface_poll_seconds \in {3, 15, 30},
               scheduleGeneration' \in 0 .. MaxChanges, ending' \in -1 .. MaxChanges
        PROVE  ScheduleTypes'
    <2>1. Len(observed') \in Nat
      BY <1>s
    <2>2. schedule'.online_count \in 0 .. MaxObserved /\ schedule'.offline_count \in 0 .. MaxObserved
      BY <1>s, <1>t, <2>1
    <2>3. schedule'.identity \in Interfaces \cup {Schedule!Unidentified}
      BY <1>s
    <2> QED  BY <1>s, <2>2, <2>3 DEF ScheduleTypes, Schedule!ScheduleTypeOK, Schedule!None
  <1>r. ASSUME Schedule!Reset, scheduleGeneration' \in 0 .. MaxChanges, ending' \in -1 .. MaxChanges
        PROVE  ScheduleTypes'
    <2>1. /\ schedule' \in Schedules /\ schedule'.online_count = 0 /\ schedule'.offline_count = 0
          /\ plan'.interval_seconds = 15 /\ plan'.interface_poll_seconds = 3
      BY <1>r DEF Schedule!Reset, Schedule!NewSchedule, Schedule!NewPlan
    <2>2. observed' = <<>> /\ observed' \in Seq(Schedule!Found) /\ Len(observed') = 0
      BY <1>r DEF Schedule!Reset
    <2> QED  BY <1>r, <1>s, <1>t, <2>1, <2>2
  <1>1. CASE Schedule!CheckBegins
    BY <1>1, <1>s, <1>t DEF Schedule!CheckBegins
  <1>2. CASE Schedule!CheckEnds
    <2>0. ending' = -1 /\ scheduleGeneration' = scheduleGeneration
      BY <1>2 DEF Schedule!CheckEnds, Schedule!None
    <2>1. ASSUME NEW found \in Schedule!Found, NEW s \in Settings, Schedule!Observe(found, s) PROVE ScheduleTypes'
      <3>1. /\ schedule' = Schedule!After(found) /\ Len(observed) < MaxObserved /\ observed' = Append(observed, found)
            /\ plan' = Schedule!PlanFor(s, schedule'.online_count, schedule'.offline_count)
        BY <2>1 DEF Schedule!Observe
      <3>2. observed' \in Seq(Schedule!Found) /\ Len(observed') = Len(observed) + 1
        BY <1>t, <3>1
      <3>3. /\ schedule' \in Schedules
            /\ schedule'.online_count \in {0, 1, schedule.online_count + 1}
            /\ schedule'.offline_count \in {0, 1, schedule.offline_count + 1}
        <4>1. PICK on \in Nat, off \in Nat : on = schedule.online_count + 1 /\ off = schedule.offline_count + 1
          BY <1>t
        <4>2. found.identity \in Interfaces
          BY DEF Schedule!Found
        <4>3. \/ schedule' = Schedule!CountedAnew(found)
              \/ schedule' = [schedule EXCEPT !.online_count = on, !.offline_count = 0]
              \/ schedule' = [schedule EXCEPT !.offline_count = off, !.online_count = 0]
          BY <1>t, <3>1, <4>1 DEF Schedule!After
        <4>4. CASE schedule' = Schedule!CountedAnew(found)
          BY <4>2, <4>4 DEF Schedule!CountedAnew
        <4>5. CASE schedule' = [schedule EXCEPT !.online_count = on, !.offline_count = 0]
          BY <1>t, <4>1, <4>5
        <4>6. CASE schedule' = [schedule EXCEPT !.offline_count = off, !.online_count = 0]
          BY <1>t, <4>1, <4>6
        <4> QED  BY <4>3, <4>4, <4>5, <4>6
      <3>4. plan'.interval_seconds \in Nat /\ plan'.interface_poll_seconds \in {3, 15, 30}
        BY <3>1, <3>3, PlanIsTyped
      <3>5. /\ schedule'.online_count <= Len(observed') /\ schedule'.offline_count <= Len(observed')
            /\ Len(observed') <= MaxObserved
        BY <1>t, <3>1, <3>2, <3>3
      <3> QED  BY <1>s, <1>t, <2>0, <3>2, <3>3, <3>4, <3>5
    <2>2. CASE UNCHANGED <<schedule, plan, observed, asked>>
      BY <1>s, <1>t, <2>0, <2>2
    <2> QED  BY <1>2, <2>1, <2>2 DEF Schedule!CheckEnds
  <1>3. CASE Schedule!NetworkChange
    BY <1>3, <1>r, <1>t DEF Schedule!NetworkChange
  <1>4. CASE Schedule!ManualCheck
    BY <1>4, <1>r, <1>t DEF Schedule!ManualCheck
  <1>5. CASE UNCHANGED Schedule!scheduleVars
    BY <1>5, <1>s, <1>t DEF Schedule!scheduleVars
  <1> QED  BY <1>1, <1>2, <1>3, <1>4, <1>5 DEF Schedule!ScheduleNext

PartNamed == part \in {"pool", "link", "schedule", "trust"}

\* Every variable of the network components keeps its type, for any networks, readers and bounds.
THEOREM TypeCorrect == AllSpec => []AllTypeOK
  <1>1. AllInit => PoolInv /\ LinkTypes /\ ScheduleTypes /\ Trust!TrustTypeOK
    BY NetworkBegins, PoolInitInv, LinkInitTypes, ScheduleInitTypes, TrustInitTypes
  <1>2. PoolInv /\ LinkTypes /\ ScheduleTypes /\ Trust!TrustTypeOK /\ [AllNext]_allVars =>
          PoolInv' /\ LinkTypes' /\ ScheduleTypes' /\ Trust!TrustTypeOK'
    BY PartsMove, PoolStepInv, LinkStepTypes, ScheduleStepTypes, TrustStepTypes
  <1>3. AllInit => PartNamed
    BY DEF PartNamed, AllInit
  <1>4. PartNamed /\ [AllNext]_allVars => PartNamed'
    BY DEF PartNamed, AllNext, allVars
  <1>5. PartNamed /\ PoolInv /\ LinkTypes /\ ScheduleTypes /\ Trust!TrustTypeOK => AllTypeOK
    BY DEF PoolInv, LinkTypes, ScheduleTypes, AllTypeOK, PartNamed
  <1> QED  BY <1>1, <1>2, <1>3, <1>4, <1>5, PTL DEF AllSpec

=============================================================================
