-------------------------- MODULE AccountDiscovery --------------------------
(***************************************************************************)
(* The account that is logged in on the campus network is found on the     *)
(* school's pages, with its password, and offered to the user, who may     *)
(* save it (discover_current_campus_account and the commands that accept   *)
(* and reject what it found).  The password stays with the application:    *)
(* the window gets the name and a token, and answers with both.            *)
(***************************************************************************)
EXTENDS Naturals, FiniteSets

CONSTANTS
    Accounts, Discoveries,  \* accounts of the school; calls of the command that may be under way
    MaxRedirects,
    Lifetime, LatestTime,   \* how long an offer may be accepted, 120 seconds; bound: time
    MaxTokens               \* bound: offers

Nothing == "nothing"
Passwords == {"own", "temporary", "none"}   \* what the dashboard says the password is
NoOffer == [user |-> Nothing, pass |-> "none", token |-> 0, until |-> 0]
Offers == [user : Accounts, pass : Passwords, token : 1 .. MaxTokens, until : 0 .. LatestTime + Lifetime]

VARIABLES
    clock,
    online,             \* the account logged in on the network
    away,
    call,               \* the call: where it is, the account its link was signed for, and how often it was sent on
    pending,            \* AppState.pending_discovered_account
    tokens,
    shown,              \* the offers the window may answer
    answered,           \* the tokens the user accepted, and those the user rejected
    kept                \* the offers that were saved, and when

discoveryVars == <<clock, online, away, call, pending, tokens, shown, answered, kept>>

NotCalled == [at |-> "idle", user |-> Nothing, hops |-> 0, refreshed |-> FALSE]
Calls == [at : {"idle", "portal", "follow"}, user : Accounts \cup {Nothing}, hops : 0 .. MaxRedirects + 1,
          refreshed : BOOLEAN]

DiscoveryTypeOK ==
    /\ clock \in 0 .. LatestTime /\ online \in Accounts \cup {Nothing} /\ away \in BOOLEAN
    /\ call \in [Discoveries -> Calls] /\ pending \in Offers \cup {NoOffer} /\ tokens \in 0 .. MaxTokens
    /\ shown \subseteq [user : Accounts, token : 1 .. MaxTokens]
    /\ answered \in [{"accepted", "rejected"} -> SUBSET (1 .. MaxTokens)]
    /\ kept \subseteq [offer : Offers, at : 0 .. LatestTime]

DiscoveryInit ==
    /\ clock = 0 /\ online \in Accounts \cup {Nothing} /\ away \in BOOLEAN
    /\ call = [d \in Discoveries |-> NotCalled] /\ pending = NoOffer /\ tokens = 0 /\ shown = {}
    /\ answered = [answer \in {"accepted", "rejected"} |-> {}] /\ kept = {}

\* The window asks: what was found before is forgotten, and in the background nothing is looked for.
Discover(d) ==
    /\ call[d].at = "idle" /\ pending' = NoOffer
    /\ call' = IF away THEN call ELSE [call EXCEPT ![d] = [NotCalled EXCEPT !.at = "portal"]]
    /\ UNCHANGED <<clock, online, away, tokens, shown, answered, kept>>

\* lgn answers with a link, signed for the account that is online, to the billing pages.
Signed(d) ==
    /\ call[d].at = "portal" /\ online # Nothing
    /\ call' = [call EXCEPT ![d] = [@ EXCEPT !.at = "follow", !.user = online]]
    /\ UNCHANGED <<clock, online, away, pending, tokens, shown, answered, kept>>

\* The link is followed by hand, a limited number of times.
SentOn(d) ==
    /\ call[d].at = "follow"
    /\ call' = [call EXCEPT ![d] = IF @.hops < MaxRedirects THEN [@ EXCEPT !.hops = call[d].hops + 1] ELSE NotCalled]
    /\ UNCHANGED <<clock, online, away, pending, tokens, shown, answered, kept>>

\* The call ends with nothing: lgn knows no account, a page is not as expected or does not come, the page has
\* no password to save, the time is over, or the application went to the background.
GivesUp(d) ==
    /\ call[d].at # "idle" /\ call' = [call EXCEPT ![d] = NotCalled]
    /\ UNCHANGED <<clock, online, away, pending, tokens, shown, answered, kept>>

MayOffer(pass) == pass = "own"

\* The dashboard is read: a temporary password is looked at again once, from a page that is fetched anew.
Refreshes(d) ==
    /\ call[d].at = "follow" /\ ~call[d].refreshed
    /\ call' = [call EXCEPT ![d] = [@ EXCEPT !.refreshed = TRUE, !.hops = 0]]
    /\ UNCHANGED <<clock, online, away, pending, tokens, shown, answered, kept>>

Offer(d, pass) ==
    /\ call[d].at = "follow" /\ MayOffer(pass) /\ (pass = "temporary" => call[d].refreshed)
    /\ tokens < MaxTokens /\ tokens' = tokens + 1
    /\ pending' = [user |-> call[d].user, pass |-> pass, token |-> tokens', until |-> clock + Lifetime]
    /\ shown' = shown \cup {[user |-> call[d].user, token |-> tokens']}
    /\ call' = [call EXCEPT ![d] = NotCalled]
    /\ UNCHANGED <<clock, online, away, answered, kept>>

Answers(offer, answer) == offer.user = answer.user /\ offer.token = answer.token /\ clock <= offer.until

Accept(answer) ==
    /\ answer \in shown
    /\ answered' = [answered EXCEPT !["accepted"] = @ \cup {answer.token}]
    /\ pending' = NoOffer
    /\ kept' = IF pending = NoOffer \/ ~Answers(pending, answer) \/ (\E k \in kept : k.offer.user = answer.user) THEN kept
               ELSE kept \cup {[offer |-> pending, at |-> clock]}
    /\ UNCHANGED <<clock, online, away, call, tokens, shown>>

RejectsNothing(token) == FALSE
Rejects(token) == pending.token = token

Reject(answer) ==
    /\ answer \in shown
    /\ answered' = [answered EXCEPT !["rejected"] = @ \cup {answer.token}]
    /\ pending' = IF Rejects(answer.token) THEN NoOffer ELSE pending
    /\ UNCHANGED <<clock, online, away, call, tokens, shown, kept>>

LogsIn(user) ==
    /\ online' = user /\ user # online
    /\ UNCHANGED <<clock, away, call, pending, tokens, shown, answered, kept>>

Moves ==
    /\ away' = ~away
    /\ UNCHANGED <<clock, online, call, pending, tokens, shown, answered, kept>>

DiscoveryTick ==
    /\ clock < LatestTime /\ clock' = clock + 1
    /\ UNCHANGED <<online, away, call, pending, tokens, shown, answered, kept>>

DiscoveryNext ==
    \/ \E d \in Discoveries : Discover(d) \/ Signed(d) \/ SentOn(d) \/ GivesUp(d) \/ Refreshes(d)
    \/ \E d \in Discoveries, pass \in Passwords : Offer(d, pass)
    \/ \E answer \in shown : Accept(answer) \/ Reject(answer)
    \/ \E user \in Accounts \cup {Nothing} : LogsIn(user)
    \/ Moves \/ DiscoveryTick

DiscoverySpec == DiscoveryInit /\ [][DiscoveryNext]_discoveryVars

-----------------------------------------------------------------------------
\* An account is saved only as it was offered: the user accepted that offer in its time, had not rejected it,
\* and no other call, account or password took its place meanwhile.
SavedAsConfirmed ==
    [][\A k \in kept' \ kept :
            /\ k.offer.pass = "own" /\ k.at <= k.offer.until
            /\ k.offer.token \in answered'["accepted"] \ answered["rejected"]
            /\ [user |-> k.offer.user, token |-> k.offer.token] \in shown
            /\ Cardinality({other \in kept' : other.offer.user = k.offer.user}) = 1]_discoveryVars
=============================================================================
