---------------------------- MODULE PortalLogin ----------------------------
(***************************************************************************)
(* A login to the campus portal without the user: the probes that find the *)
(* gateway (detect_login_type_details_rust), the request that carries the  *)
(* credentials (login_with_submission_guard), what its answer is taken for *)
(* and which account is tried next.  Two engines do it: the application    *)
(* (trigger_network_check) and, on Android, the background service         *)
(* (run_headless_network_check).  The gateway grants one session to an     *)
(* address, and its answer may be lost.                                    *)
(***************************************************************************)
EXTENDS Naturals, Sequences, FiniteSets

CONSTANTS
    Orders,             \* the accounts of the configuration, in the orders a profile may ask for
    Networks,           \* what a check may know of its network: records like NetworkOf
    Stranger            \* whoever else may hold the session of the address

VARIABLES
    engine,             \* who runs the check: "app", "headless", or "none"
    network,            \* what the check knows of the network
    there,              \* gateway: how much of each type would answer
    pending, found,     \* probes under way; what the others of a type have found
    missed,             \* whether a probe of this check failed or came too late
    gateway, ready,     \* the type detection has settled on, and whether a login can be sent to it
    todo, trial, tried, \* accounts of this check: to be tried, with their places, tried now, and sent to the gateway
    answer,             \* what the last request came back with
    cooling,            \* accounts in cooldown
    session, valid      \* gateway: who holds the session of the address; whose password it accepts

detection == <<there, pending, found, missed>>
traversal == <<gateway, ready, todo, trial, tried, answer>>
portalVars == <<engine, network, detection, traversal, cooling, session, valid>>

Types == {"Type1", "Type2", "Type3"}
Users == UNION {{order[i] : i \in DOMAIN order} : order \in Orders}

\* What a network may look like; https is false in the compatibility mode Maximum.
NetworkOf == [transport : {"wifi", "ethernet", "other"}, wired : BOOLEAN, ssid : Types \cup {"none"},
              https : BOOLEAN, trusted : BOOLEAN, profile : Types \cup {"none"}]

\* login_probe_candidates: the types that are probed, the most likely first.
Ranked(n) ==
    LET lgn   == n.transport = "ethernet" /\ n.wired
        types == CASE n.transport = "wifi" -> <<"Type1", "Type2">>
                   [] lgn -> <<"Type3", "Type1">>
                   [] n.transport = "ethernet" /\ ~n.wired -> <<"Type1", "Type3">>
                   [] n.transport = "other" /\ n.wired -> <<"Type3", "Type1", "Type2">>
                   [] OTHER -> <<"Type1", "Type2", "Type3">>
        hinted == {i \in DOMAIN types : types[i] = n.ssid}
    IN  IF lgn THEN types
        ELSE [i \in DOMAIN types |-> IF hinted = {} THEN types[i]
                                     ELSE IF i = 1 THEN n.ssid
                                     ELSE IF i \in hinted THEN types[1] ELSE types[i]]

Candidates(n) == {Ranked(n)[i] : i \in DOMAIN Ranked(n)}

\* The probes of a type.  Where credentials need HTTPS, HTTP only shows that there is a gateway.
Probes(n) ==
    {<<t, "primary">> : t \in Candidates(n)}
      \cup {p \in {<<"Type3", "ipv6">>} : "Type3" \in Candidates(n)}
      \cup {p \in {<<"Type1", "http">>} : "Type1" \in Candidates(n) /\ n.https}

\* What the gateway of a type amounts to: where only HTTP answers ("portal") Maximum is content with it.
Worth(n, much) == IF much = "portal" /\ ~n.https THEN "ready" ELSE much

\* What a probe finds, given what the gateway amounts to.
Seen(probe, worth) ==
    IF probe[2] = "http" THEN (IF worth = "nothing" THEN worth ELSE "portal")
    ELSE IF worth = "ready" THEN worth ELSE "nothing"

\* A type that has answered enough: probe_login_type is over.
Settled(t) == \A p \in pending : p[1] # t

PortalTypeOK ==
    /\ engine \in {"none", "app", "headless"} /\ network \in Networks
    /\ there \in [Types -> {"nothing", "portal", "ready"}]
    /\ pending \subseteq Probes(network) /\ found \in [Types -> {"nothing", "portal", "ready"}]
    /\ missed \in BOOLEAN /\ gateway \in Types \cup {"none", "unknown"} /\ ready \in BOOLEAN
    /\ \A next \in todo : next.user \in Users
    /\ trial \in Users \cup {"none"}
    /\ tried \subseteq Users /\ cooling \subseteq Users /\ valid \subseteq Users
    /\ answer \in {"none", "accepted", "rejected", "online", "refused", "unreadable", "failed"}
    /\ session \in Users \cup {"none", Stranger}

Nothing == [t \in Types |-> "nothing"]

PortalInit ==
    /\ engine = "none" /\ network \in Networks /\ there = Nothing /\ pending = {} /\ found = Nothing
    /\ missed = FALSE /\ gateway = "none" /\ ready = FALSE /\ todo = {} /\ trial = "none"
    /\ tried = {} /\ answer = "none" /\ cooling = {} /\ session \in {"none", Stranger} /\ valid \in SUBSET Users

\* The internet does not answer, and the probes of all candidates are sent together.
Begin(e, n, how) ==
    /\ engine = "none" /\ engine' = e /\ network' = n
    /\ there' = how
    /\ pending' = Probes(n) /\ found' = Nothing /\ missed' = FALSE
    /\ UNCHANGED <<traversal, cooling, session, valid>>

\* finish_portal_probes: the first probe that shows a login to be possible ends the others of its type.
Hear(probe, what) ==
    /\ found' = [found EXCEPT ![probe[1]] = IF what = "nothing" THEN @ ELSE what]
    /\ pending' = {p \in pending : p # probe /\ (what = "ready" => p[1] # probe[1])}

ProbeAnswers(probe) ==
    /\ probe \in pending /\ gateway = "none" /\ Hear(probe, Seen(probe, Worth(network, there[probe[1]])))
    /\ UNCHANGED <<engine, network, there, missed, traversal, cooling, session, valid>>

\* A probe fails, or the budget of three seconds is over.
ProbeFails(probe) ==
    /\ probe \in pending /\ gateway = "none" /\ Hear(probe, "nothing") /\ missed' = TRUE
    /\ UNCHANGED <<engine, network, there, traversal, cooling, session, valid>>

LeadingAny(t) == TRUE

\* The first of the ranked types that has been seen or may still be, if there is one.
Leading(t) ==
    \E i \in DOMAIN Ranked(network) :
        /\ Ranked(network)[i] = t
        /\ \A j \in 1 .. i - 1 : Settled(Ranked(network)[j]) /\ found[Ranked(network)[j]] = "nothing"

\* select_prioritized_probes gives the first type that has been seen, or none.
Select(t) ==
    /\ engine # "none" /\ gateway = "none"
    /\ \/ t \in Candidates(network) /\ Leading(t) /\ Settled(t) /\ found[t] # "nothing"
       \/ t = "unknown" /\ pending = {} /\ \A c \in Candidates(network) : found[c] = "nothing"
    /\ gateway' = t /\ ready' = (t \in Types /\ found[t] = "ready") /\ pending' = {}
    /\ UNCHANGED <<engine, network, there, found, missed, todo, trial, tried, answer, cooling, session, valid>>

\* The check ends; what the gateway holds and which accounts cool down stays.
Over ==
    /\ engine' = "none" /\ gateway' = "none" /\ ready' = FALSE /\ todo' = {} /\ trial' = "none"
    /\ tried' = {} /\ answer' = "none"

\* The type of the login: a profile of the user names it, or else a gateway that is ready.
LoginType == IF network.profile # "none" THEN network.profile ELSE IF ready THEN gateway ELSE "unknown"

\* A gateway of which only HTTP answers, while credentials need HTTPS, waits for the user's consent.
NeedsMaximum == gateway = "Type1" /\ ~ready /\ network.https

MayLogIn == gateway # "none" /\ ~NeedsMaximum /\ LoginType # "unknown" /\ network.trusted

\* The accounts of the check are chosen once, without those in cooldown.
IsWarm(u) == u \notin cooling
Warm(order) == {[place |-> i, user |-> order[i]] : i \in {i \in DOMAIN order : IsWarm(order[i])}}
Unchosen == todo = {} /\ trial = "none" /\ answer = "none"

Choose(order) ==
    /\ Unchosen /\ MayLogIn /\ todo' = Warm(order) /\ todo' # {}
    /\ UNCHANGED <<engine, network, detection, gateway, ready, trial, tried, answer, cooling, session, valid>>

\* The check ends without a login: none is allowed, or every account is in cooldown.
GivesUp ==
    /\ Unchosen /\ gateway # "none"
    /\ MayLogIn => \E order \in Orders : Warm(order) = {}
    /\ Over /\ UNCHANGED <<network, detection, cooling, session, valid>>

\* What the gateway answers to credentials, and who holds the session then.
Replies(u) ==
    IF there[LoginType] = "nothing" THEN {}
    ELSE {<<"refused", session>>}
           \cup (IF session # "none" THEN {<<"online", session>>}
                 ELSE IF u \in valid THEN {<<"accepted", u>>} ELSE {<<"rejected", session>>})

\* An answer that cannot be read is ambiguous; for Type 3 so is any error after the request was made.
Lost == {"unreadable"} \cup (IF LoginType = "Type3" THEN {} ELSE {"failed"})

Takes ==
    /\ trial = "none"
    /\ \E next \in todo : /\ \A other \in todo : next.place <= other.place
                          /\ trial' = next.user /\ todo' = todo \ {next}

\* login_with_submission_guard: one request with the credentials of the next account, which may
\* reach the gateway or not, and whose answer may come back or not.
Submit ==
    /\ Takes /\ tried' = tried \cup {trial'}
    /\ \/ \E r \in Replies(trial') : session' = r[2] /\ answer' \in {r[1]} \cup Lost
       \/ session' = session /\ answer' \in Lost
    /\ UNCHANGED <<engine, network, detection, gateway, ready, cooling, valid>>

\* No request is made: there is no client for the route of the check.
NoClient ==
    /\ Takes /\ answer' = "failed"
    /\ UNCHANGED <<engine, network, detection, gateway, ready, tried, cooling, session, valid>>

\* No request is made: HTTPS of Type 1 is not confirmed again under any of its names.
Unconfirmed ==
    /\ LoginType = "Type1" /\ network.https /\ Takes /\ answer' = "failed"
    /\ UNCHANGED <<engine, network, detection, gateway, ready, tried, cooling, session, valid>>

\* What is recorded of an account, and whether the next one follows.  The application classifies a
\* refusal (classify_portal_login_failure); the background service counts any against the account.
Counts(e)  == IF e = "app" THEN {"rejected"} ELSE {"rejected", "online", "refused", "failed"}
FollowsFailed(e) == Counts(e) \cup {"failed"}
Follows(e) == Counts(e)

Conclude ==
    /\ trial # "none"
    /\ cooling' = IF answer = "accepted" THEN cooling \ {trial}
                  ELSE IF answer \in Counts(engine) THEN cooling \cup {trial} ELSE cooling
    /\ IF answer \in Follows(engine) /\ todo # {}
       THEN /\ trial' = "none"
            /\ UNCHANGED <<engine, gateway, ready, todo, tried, answer>>
       ELSE Over
    /\ UNCHANGED <<network, detection, session, valid>>

\* Between checks a cooldown ends, and the session of the address ends or another takes its place.
CoolsDown(u) == engine = "none" /\ u \in cooling /\ cooling' = cooling \ {u}
                /\ UNCHANGED <<engine, network, detection, traversal, session, valid>>
SessionChanges ==
    /\ engine = "none" /\ session' \in {"none", Stranger} \ {session}
    /\ UNCHANGED <<engine, network, detection, traversal, cooling, valid>>

\* logout_from_campus_network_rust: Type 1 asks for the credentials of whoever is logged in.
LogOut(t) ==
    /\ engine = "none" /\ session # "none" /\ (t = "Type1" => session \in Users) /\ session' = "none"
    /\ UNCHANGED <<engine, network, detection, traversal, cooling, valid>>

\* Only Type 1 is looked for over HTTP as well.
Gateways == {how \in [Types -> {"nothing", "portal", "ready"}] : how["Type2"] # "portal" /\ how["Type3"] # "portal"}

PortalNext ==
    \/ \E e \in {"app", "headless"}, n \in Networks, how \in Gateways : Begin(e, n, how)
    \/ \E p \in pending : ProbeAnswers(p)
    \/ \E p \in pending : ProbeFails(p)
    \/ \E t \in Types \cup {"unknown"} : Select(t)
    \/ \E order \in Orders : Choose(order)
    \/ GivesUp \/ Submit \/ NoClient \/ Unconfirmed \/ Conclude
    \/ \E u \in Users : CoolsDown(u)
    \/ SessionChanges
    \/ \E t \in Types : LogOut(t)

PortalSpec == PortalInit /\ [][PortalNext]_portalVars

-----------------------------------------------------------------------------
\* The gateway that detection settles on is the likeliest of those that are there, and a login to it is
\* possible exactly when it says so, in whatever order the probes answer, unless one of them fails or
\* is late.
Likeliest(n, how) ==
    LET shown == {i \in DOMAIN Ranked(n) : how[Ranked(n)[i]] # "nothing"}
    IN  IF shown = {} THEN "unknown" ELSE Ranked(n)[CHOOSE i \in shown : \A j \in shown : i <= j]

FasterNeverWins ==
    gateway # "none" /\ ~missed =>
        /\ gateway = Likeliest(network, there)
        /\ ready = (gateway # "unknown" /\ Worth(network, there[gateway]) = "ready")

\* Once the gateway has granted the session to an account of the check, the application sends it no
\* other credentials in that check, even when the answer was lost.
OneLoginPerCheck == [][tried' # tried /\ engine' = "app" => session \notin tried]_portalVars

\* An address that is already online "must never cause every credential to be submitted in sequence"
\* (portal_auth.rs): no credentials follow that answer.
AlreadyOnlineStops == [][tried' # tried /\ tried # {} /\ engine' # "none" => answer # "online"]_portalVars
=============================================================================
