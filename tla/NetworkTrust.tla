---------------------------- MODULE NetworkTrust ----------------------------
(***************************************************************************)
(* The networks on which passwords may be sent (network_trust.rs): the     *)
(* lists of those the user trusts and rejects, the rules for the others,   *)
(* and the checks and logins that ask while the device moves and the       *)
(* window, which has its own copy of the lists, saves its settings.        *)
(***************************************************************************)
EXTENDS Naturals, FiniteSets

CONSTANT
    Networks        \* records: name, transport, usable (a full BSSID), campus (the address), looks

None == "none"
LoginTypes == {"type1", "type2", "type3", "unknown"}
Wireless == {n \in Networks : n.transport = "wifi"}
Keys == {n.name : n \in Wireless}
Nowhere == [name |-> None, transport |-> None, usable |-> FALSE, campus |-> FALSE, looks |-> None]
Lists == [white : SUBSET Keys, black : SUBSET Keys]
Verdicts == {"trusted", "rejected", "nothing"}

\* network_key: the networks without a name all have the same key.
Unnamed == "|"
KeyOf(n) == IF n.transport = "wifi" THEN n.name ELSE Unnamed

VARIABLES
    here,           \* the network the device is on; none also where its identity cannot be read
    lists,          \* in the configuration
    window, saving, \* the window's copy, and the copy it waits to save, with the networks decided on since it was taken
    question,       \* what the window asks before a login: the network, the lists of that moment, how far it is
    check, login,   \* the check and the login the user asked for: on which network they are and how far
    decided,        \* history: what the user last said of each network
    undone          \* history: the networks of which an older copy of the lists, saved late, may have taken that back

trustVars == <<here, lists, window, saving, question, check, login, decided, undone>>

NoLists == [white |-> {}, black |-> {}]
Silent == [k \in Keys |-> "nothing"]
NoQuestion == [at |-> "none", net |-> Nowhere, copy |-> NoLists, once |-> None]
Questions ==
    [at : {"none", "asked", "shown", "agreed"}, net : Networks \cup {Nowhere}, copy : Lists, once : Keys \cup {Unnamed, None}]
\* A login has the lists of its beginning, and what the user had said then.
Resting ==
    [net |-> Nowhere, type |-> "unknown", at |-> "idle", once |-> None, copy |-> NoLists, said |-> Silent, undone |-> {}]
Runs ==
    [net : Networks \cup {Nowhere}, type : LoginTypes, at : {"idle", "detect", "judge", "send"},
     once : Keys \cup {Unnamed, None}, copy : Lists, said : [Keys -> Verdicts], undone : SUBSET Keys]

TrustTypeOK ==
    /\ here \in Networks \cup {Nowhere} /\ question \in Questions /\ check \in Runs /\ login \in Runs
    /\ lists \in Lists /\ window \in Lists /\ saving \in [waits : BOOLEAN, copy : Lists, since : SUBSET Keys]
    /\ decided \in [Keys -> Verdicts] /\ undone \in SUBSET Keys
    /\ lists.white \cap lists.black = {}

TrustInit ==
    /\ here \in Networks /\ lists = NoLists /\ window = NoLists
    /\ saving = [waits |-> FALSE, copy |-> NoLists, since |-> {}] /\ question = NoQuestion
    /\ check = Resting /\ login = Resting /\ decided = Silent /\ undone = {}

\* The default rules: how a network has to look for each kind of login.
Recognised(type, n) ==
    CASE type = "type1" -> n.transport = "ethernet" \/ n.looks = "dormitory"
      [] type = "type2" -> n.looks = "public"
      [] type = "type3" -> n.transport = "ethernet" /\ n.looks = "unnamed"
      [] OTHER -> FALSE

Carries(type, n) ==
    CASE type = "type1" -> n.transport \in {"wifi", "ethernet"}
      [] type = "type2" -> n.transport = "wifi"
      [] type = "type3" -> n.transport = "ethernet"
      [] OTHER -> TRUE

\* evaluate_network_trust, in its order, by the lists it is given.
Evaluated(type, n, l) ==
    IF KeyOf(n) \in l.black \/ (n.transport = "wifi" /\ ~n.usable) \/ ~Carries(type, n) THEN "blocked"
    ELSE IF KeyOf(n) \in l.white \/ (n.campus /\ Recognised(type, n)) THEN "allowed" ELSE "confirm"

\* normalize_trust_lists: a network in both lists is rejected.
Normalized(white, black) == [white |-> white \ black, black |-> black]

Marked(key, trusted) ==
    Normalized((lists.white \ {key}) \cup (IF trusted THEN {key} ELSE {}),
               (lists.black \ {key}) \cup (IF trusted THEN {} ELSE {key}))

Moves ==
    /\ here' \in (Networks \cup {Nowhere}) \ {here}
    /\ UNCHANGED <<lists, window, saving, question, check, login, decided, undone>>

\* The window saves its settings, with its copy of the lists; it saves one thing after another.
AsksToSave ==
    /\ ~saving.waits /\ saving' = [waits |-> TRUE, copy |-> window, since |-> {}]
    /\ UNCHANGED <<here, lists, window, question, check, login, decided, undone>>

SavesWindow ==
    /\ saving.waits /\ saving' = [waits |-> FALSE, copy |-> NoLists, since |-> {}]
    /\ lists' = Normalized(saving.copy.white, saving.copy.black)
    /\ undone' = undone \cup saving.since
    /\ UNCHANGED <<here, window, question, check, login, decided>>

\* What the user says of a network, for the histories.
Says(key, verdict) ==
    /\ decided' = [decided EXCEPT ![key] = verdict] /\ undone' = undone \ {key}
    /\ saving' = IF saving.waits THEN [saving EXCEPT !.since = @ \cup ({key} \cap Keys)] ELSE saving

Verdict(trusted) == IF trusted THEN "trusted" ELSE "rejected"

\* A decision changes the lists, of which the window gets the new ones.
Decides(key, trusted) == lists' = Marked(key, trusted) /\ window' = lists'

\* The login begins with the question whether the network is trusted, which reads the network and the lists first.
Asks ==
    /\ question.at = "none" /\ login.at = "idle" /\ here \in Networks
    /\ question' = [NoQuestion EXCEPT !.at = "asked", !.net = here, !.copy = lists]
    /\ UNCHANGED <<here, lists, window, saving, check, login, decided, undone>>

\* The kind of login is found; the user is shown the network where the answer is not clear.
IsAnswered(type) ==
    /\ question.at = "asked"
    /\ LET answer == IF type = "unknown" THEN "blocked" ELSE Evaluated(type, question.net, question.copy)
       IN  question' = CASE answer = "allowed" -> [NoQuestion EXCEPT !.at = "agreed"]
                         [] answer = "confirm" -> [NoQuestion EXCEPT !.at = "shown", !.net = question.net]
                         [] OTHER -> NoQuestion
    /\ UNCHANGED <<here, lists, window, saving, check, login, decided, undone>>

DecidesOnAny(key) == TRUE
\* set_current_network_trust: the decision was about the network that is still there.
DecidesOn(key) == here.name = key

\* The user trusts or rejects the network shown for good; the login goes on if it was trusted.
AnswersForGood(trusted) ==
    /\ question.at = "shown"
    /\ LET key == KeyOf(question.net)
       IN  IF here \in Wireless /\ here.usable /\ DecidesOn(key)
           THEN /\ Decides(here.name, trusted) /\ Says(key, Verdict(trusted))
                /\ question' = IF trusted THEN [NoQuestion EXCEPT !.at = "agreed"] ELSE NoQuestion
           ELSE question' = NoQuestion /\ UNCHANGED <<lists, window, saving, decided, undone>>
    /\ UNCHANGED <<here, check, login>>

AnswersOnce ==
    /\ question.at = "shown" /\ question' = [NoQuestion EXCEPT !.at = "agreed", !.once = KeyOf(question.net)]
    /\ UNCHANGED <<here, lists, window, saving, check, login, decided, undone>>

Declines ==
    /\ question.at # "none" /\ question' = NoQuestion
    /\ UNCHANGED <<here, lists, window, saving, check, login, decided, undone>>

\* The list of the settings: the present network or a named one is added, or one is removed.
Lists_Add(key, trusted) ==
    /\ Decides(key, trusted) /\ Says(key, Verdict(trusted)) /\ UNCHANGED <<here, question, check, login>>

Lists_Remove(key) ==
    /\ key \in lists.white \cup lists.black
    /\ lists' = Normalized(lists.white \ {key}, lists.black \ {key}) /\ window' = lists' /\ Says(key, "nothing")
    /\ UNCHANGED <<here, question, check, login>>

-----------------------------------------------------------------------------
\* Both runs look at the network, find the kind of login, look again, and judge by what they saw then: the check by
\* the lists of that moment, the login by those of its beginning.
CheckBegins ==
    /\ check.at = "idle" /\ here \in Networks /\ check' = [Resting EXCEPT !.net = here, !.at = "detect"]
    /\ UNCHANGED <<here, lists, window, saving, question, login, decided, undone>>

LoginBegins ==
    /\ question.at = "agreed" /\ question' = NoQuestion
    /\ login' = IF here = Nowhere THEN Resting
                ELSE [Resting EXCEPT !.net = here, !.at = "detect", !.once = question.once, !.copy = lists,
                                     !.said = decided, !.undone = undone]
    /\ UNCHANGED <<here, lists, window, saving, check, decided, undone>>

Found(run, type) ==
    IF here = run.net /\ type # "unknown" THEN [run EXCEPT !.type = type, !.at = "judge"] ELSE Resting

CheckDetects(type) ==
    /\ check.at = "detect" /\ check' = Found(check, type)
    /\ UNCHANGED <<here, lists, window, saving, question, login, decided, undone>>

LoginDetects(type) ==
    /\ login.at = "detect" /\ login' = Found(login, type)
    /\ UNCHANGED <<here, lists, window, saving, question, check, decided, undone>>

Allows(run, l) == Evaluated(run.type, run.net, l) = "allowed"

CheckJudges ==
    /\ check.at = "judge"
    /\ check' = IF Allows(check, lists) THEN [Resting EXCEPT !.net = check.net, !.at = "send"] ELSE Resting
    /\ UNCHANGED <<here, lists, window, saving, question, login, decided, undone>>

\* A login on a network the user was asked about, for this once.
AllowsOnce(run) == Evaluated(run.type, run.net, run.copy) = "confirm" /\ run.once = KeyOf(run.net)

LoginJudges ==
    /\ login.at = "judge"
    /\ login' = IF Allows(login, login.copy) \/ AllowsOnce(login)
                THEN [Resting EXCEPT !.net = login.net, !.at = "send"] ELSE Resting
    /\ UNCHANGED <<here, lists, window, saving, question, check, decided, undone>>

\* Before each password the network is looked at once more.
CheckSends ==
    /\ check.at = "send" /\ check' \in IF here = check.net THEN {check, Resting} ELSE {Resting}
    /\ UNCHANGED <<here, lists, window, saving, question, login, decided, undone>>

LoginSends ==
    /\ login.at = "send" /\ login' = Resting
    /\ UNCHANGED <<here, lists, window, saving, question, check, decided, undone>>

TrustNext ==
    \/ Moves \/ AsksToSave \/ SavesWindow \/ Asks \/ AnswersOnce \/ Declines \/ LoginBegins
    \/ CheckBegins \/ CheckJudges \/ CheckSends \/ LoginJudges \/ LoginSends
    \/ \E type \in LoginTypes : IsAnswered(type) \/ CheckDetects(type) \/ LoginDetects(type)
    \/ \E trusted \in BOOLEAN : AnswersForGood(trusted)
    \/ \E key \in Keys, trusted \in BOOLEAN : Lists_Add(key, trusted)
    \/ \E key \in Keys : Lists_Remove(key)

TrustSpec == TrustInit /\ [][TrustNext]_trustVars

-----------------------------------------------------------------------------
SaidOf(said, key) == IF key \in Keys THEN said[key] ELSE "nothing"

\* By what the user has said, a run may send its password: the network is trusted, or it looks like one of the
\* school's and is not rejected.
Consented(run, said) ==
    \/ SaidOf(said, KeyOf(run.net)) = "trusted"
    \/ SaidOf(said, KeyOf(run.net)) # "rejected" /\ run.net.campus /\ Recognised(run.type, run.net)

\* A password goes only to a network the user trusts, or that looks like one of the school's and that the user
\* has not rejected: no other network is trusted by the user's answer, and an answer is lost only where the window
\* saves, after it, a copy of the lists from before it.  A check goes by what the user has said until then, a login
\* by what the user had said when it began (its copy of the configuration); the login may also go, once, to a
\* network with the key the user was shown, which all wired networks share.
OnlyWithConsent ==
    [][/\ check.at = "judge" /\ check'.at = "send" => KeyOf(check.net) \in undone \/ Consented(check, decided)
       /\ login.at = "judge" /\ login'.at = "send" =>
            \/ KeyOf(login.net) \in login.undone \/ Consented(login, login.said)
            \/ login.once = KeyOf(login.net) /\ SaidOf(login.said, login.once) # "rejected"]_trustVars
=============================================================================
