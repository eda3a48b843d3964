-------------------------- MODULE BillingSessions --------------------------
(***************************************************************************)
(* The login sessions of the billing system (billing.rs, billing_commands, *)
(* device_usage.rs, lib.rs).  Commands of the user and the month-end check *)
(* serialize on billing_fetch_lock; the samples of the device usage of     *)
(* several accounts run beside each other and are interrupted by commands. *)
(* All share the pool of logged-in sessions and, away from the campus, one *)
(* WebVPN session, whose server remembers a single billing login.          *)
(***************************************************************************)
EXTENDS Integers, FiniteSets

CONSTANTS
    Accounts,           \* saved accounts
    Commands,           \* calls of the user that may be pending at the same time
    NoAccount,
    MaxCalls,           \* bound: calls of the user and checks
    MaxPasswords        \* bound: credentials an account has had

ASSUME SessionsAssumption ==
    /\ NoAccount \notin Accounts /\ Commands \cap Accounts = {}
    /\ {"check", "none"} \cap (Commands \cup Accounts) = {}
    /\ MaxCalls \in Nat /\ MaxPasswords \in Nat \ {0}

VARIABLES
    credentials,            \* account -> version of its password and VPN compatibility
    pool,                   \* BillingSessionPool: account -> session kept
    billing_fetch_lock,     \* the task that holds it
    is_in_background,
    webvpn, upstream,       \* the WebVPN session; the account its server is logged in to
    monitoring,             \* the device usage is sampled
    written,                \* account -> writes the billing system has carried out
    calls,
    task,                   \* task -> its kind, place, captured credentials and session
    mixed                   \* history: tasks that met another one on their way through the WebVPN

vars == <<credentials, pool, billing_fetch_lock, is_in_background, webvpn, upstream, monitoring,
          written, calls, task, mixed>>

Tasks == Commands \cup Accounts \cup {"check"}      \* a sampler of every account, the month-end check
Versions == 1 .. MaxPasswords
NoOne == "none"
Session == [for : Versions, vpn : BOOLEAN, since : 0 .. MaxCalls]
NoSession == [for |-> 0, vpn |-> FALSE, since |-> 0]
Empty == [a \in Accounts |-> NoSession]
Away == [phase |-> "idle", kind |-> "none", account |-> NoAccount, for |-> 0, vpn |-> FALSE,
         session |-> NoSession, data |-> NoAccount, sent |-> FALSE]
Kinds == {"read", "action", "disconnect", "sample", "check", "none"}
Reads == {"read", "sample", "check"}
Phases == {"idle", "called", "resolved", "reusing", "login", "form", "open", "written", "done", "stopped", "lost"}

TypeOK ==
    /\ credentials \in [Accounts -> Versions]
    /\ pool \in [Accounts -> Session \cup {NoSession}]
    /\ billing_fetch_lock \in Tasks \cup {NoOne}
    /\ is_in_background \in BOOLEAN /\ monitoring \in BOOLEAN
    /\ webvpn \in {"none", "current", "stale"} /\ upstream \in Accounts \cup {NoAccount}
    /\ written \in [Accounts -> 0 .. MaxCalls] /\ calls \in 0 .. MaxCalls
    /\ task \in [Tasks -> [phase : Phases, kind : Kinds, account : Accounts \cup {NoAccount},
                           for : Versions \cup {0}, vpn : BOOLEAN,
                           session : Session \cup {NoSession},
                           data : Accounts \cup {NoAccount}, sent : BOOLEAN]]
    /\ mixed \in SUBSET Tasks

Init ==
    /\ credentials = [a \in Accounts |-> 1] /\ pool = Empty
    /\ billing_fetch_lock = NoOne /\ is_in_background = FALSE
    /\ webvpn \in {"none", "current"} /\ monitoring \in BOOLEAN
    /\ upstream = NoAccount
    /\ written = [a \in Accounts |-> 0] /\ calls = 0 /\ task = [t \in Tasks |-> Away]
    /\ mixed = {}

environment == <<credentials, is_in_background, webvpn, monitoring, calls, mixed>>
exceptWebVpn == <<credentials, is_in_background, monitoring, calls>>

-----------------------------------------------------------------------------
(* The pool *)

TakeAny(a, for, vpn) == pool[a]      \* variant: the credentials are not compared

\* take: the entry leaves the pool, also when it is of other credentials or another route.  (An
\* entry older than eight hours is one that is not usable; which one that is, is left open.)
Take(a, for, vpn) == IF pool[a].for = for /\ pool[a].vpn = vpn THEN pool[a] ELSE NoSession

RemovedNot(a) == pool      \* variant: a write keeps the session it found

Removed(a) == [pool EXCEPT ![a] = NoSession]

Kept(t) == [pool EXCEPT ![task[t].account] = [task[t].session EXCEPT !.for = task[t].for]]

Over(t, phase) == [task[t] EXCEPT !.phase = phase, !.session = NoSession, !.for = 0, !.vpn = FALSE]

Leaves(t, phase) ==
    /\ task' = [task EXCEPT ![t] = Over(t, phase)]
    /\ billing_fetch_lock' = IF billing_fetch_lock = t THEN NoOne ELSE billing_fetch_lock

UnderWay(t) == task[t].phase \in {"resolved", "reusing", "login", "form", "open", "written"}
AtRest(t) == task[t].phase \in {"idle", "done", "stopped", "lost"}

\* What the server shows: through the WebVPN, the pages of whoever logged in last.
Owner(t) == IF task[t].session.vpn THEN upstream ELSE task[t].account

\* Task t sets out with or without the WebVPN, beside whoever is under way through it.
Meets(t, vpn) ==
    LET others == {u \in Tasks \ {t} : UnderWay(u) /\ task[u].vpn} IN
    mixed' = IF vpn /\ others # {} THEN mixed \cup others \cup {t} ELSE mixed \ {t}

-----------------------------------------------------------------------------
(* Calls *)

\* INTERACTIVE.notify_waiters: every sample under way is dropped, with the session it holds.
Interrupted ==
    [t \in Tasks |-> IF task[t].kind = "sample" /\ UnderWay(t)
                     THEN Over(t, "lost") ELSE task[t]]

Call(c) ==
    /\ AtRest(c) /\ calls < MaxCalls /\ calls' = calls + 1
    /\ \E a \in Accounts, k \in {"read", "action", "disconnect"} :
          task' = [Interrupted EXCEPT ![c] = [Away EXCEPT !.phase = "called", !.kind = k, !.account = a]]
    /\ mixed' = mixed \ {c}
    /\ UNCHANGED <<credentials, pool, billing_fetch_lock, is_in_background, webvpn, upstream,
                   monitoring, written>>

Unlocked == billing_fetch_lock = NoOne

\* resolve_billing_access, ensure_foreground: a WebVPN session made before the credentials changed is
\* cleared (bind_credentials); a write first forgets the session of the account.
Resolve(c) ==
    /\ task[c].phase = "called" /\ Unlocked
    /\ \/ /\ is_in_background
          /\ Leaves(c, "stopped") /\ UNCHANGED <<pool, webvpn, mixed>>
       \/ /\ ~is_in_background /\ webvpn # "current"
          /\ webvpn' = "none" /\ Leaves(c, "lost") /\ UNCHANGED <<pool, mixed>>
       \/ /\ ~is_in_background
          /\ billing_fetch_lock' = c
          /\ pool' = IF task[c].kind = "action" THEN Removed(task[c].account) ELSE pool
          /\ \E vpn \in {FALSE, webvpn = "current"} :
                /\ task' = [task EXCEPT ![c].phase = "resolved", ![c].for = credentials[task[c].account],
                                        ![c].vpn = vpn]
                /\ Meets(c, vpn)
          /\ UNCHANGED webvpn
    /\ UNCHANGED <<exceptWebVpn, upstream, written>>

\* get_billing_center waits no longer than 50 seconds for its turn.
GivesUp(c) ==
    /\ task[c].phase = "called" /\ task[c].kind = "read" /\ ~Unlocked /\ Leaves(c, "lost")
    /\ UNCHANGED <<environment, pool, upstream, written>>

\* The month-end check reads when nobody else does, also in the background.
Check ==
    /\ AtRest("check") /\ calls < MaxCalls /\ calls' = calls + 1
    /\ Unlocked /\ billing_fetch_lock' = "check"
    /\ \E a \in Accounts :
          task' = [task EXCEPT !["check"] = [Away EXCEPT !.phase = "resolved", !.kind = "check",
                                             !.account = a, !.for = credentials[a]]]
    /\ UNCHANGED <<credentials, pool, is_in_background, webvpn, upstream, monitoring, written, mixed>>

\* A sample looks at the lock and does not keep it; it is interrupted by calls from here on.  It
\* takes the WebVPN session as it is, beside other samples and a call that has yet to take the lock.
Sample(a) ==
    /\ monitoring /\ Unlocked /\ AtRest(a) /\ calls < MaxCalls /\ calls' = calls + 1
    /\ task' = [task EXCEPT ![a] = [Away EXCEPT !.phase = "resolved", !.kind = "sample",
                                    !.account = a, !.for = credentials[a], !.vpn = webvpn # "none"]]
    /\ Meets(a, webvpn # "none")
    /\ UNCHANGED <<credentials, pool, billing_fetch_lock, is_in_background, webvpn, upstream,
                   monitoring, written>>

-----------------------------------------------------------------------------
(* Sessions *)

\* acquire_billing_session: reads take the session of the pool, writes log in afresh.
Acquire(t) ==
    LET taken == Take(task[t].account, task[t].for, task[t].vpn)
        pooled == task[t].kind \in Reads IN
    /\ task[t].phase = "resolved"
    /\ pool' = IF pooled THEN Removed(task[t].account) ELSE pool
    /\ task' = [task EXCEPT ![t].phase = IF pooled /\ taken # NoSession THEN "reusing" ELSE "login",
                            ![t].session = IF pooled THEN taken ELSE NoSession]
    /\ UNCHANGED <<environment, billing_fetch_lock, upstream, written>>

ReusableAny(t) == TRUE      \* variant: any dashboard will do

Reusable(t) == task[t].session.vpn => Owner(t) = task[t].account

\* The dashboard is read again; a session that shows no account, or another one, is not used.
Reuse(t) ==
    /\ task[t].phase = "reusing"
    /\ \/ Reusable(t) /\ task' = [task EXCEPT ![t].phase = "open"]
       \/ task' = [task EXCEPT ![t].phase = "login", ![t].session = NoSession]
    /\ UNCHANGED <<environment, pool, billing_fetch_lock, upstream, written>>

New(t) == [for |-> task[t].for, vpn |-> task[t].vpn, since |-> written[task[t].account]]

\* The login page: through the WebVPN it may be the dashboard of a login that is still open, used if
\* it is that of the account and ended otherwise.
FindLogin(t) ==
    /\ task[t].phase = "login"
    /\ IF task[t].vpn /\ upstream = task[t].account
       THEN task' = [task EXCEPT ![t].phase = "open", ![t].session = New(t)] /\ UNCHANGED upstream
       ELSE /\ task' = [task EXCEPT ![t].phase = "form"]
            /\ upstream' = IF task[t].vpn THEN NoAccount ELSE upstream
    /\ UNCHANGED <<environment, pool, billing_fetch_lock, written>>

\* Credentials and the answer to an image are posted; the page that follows is the account's.
LogIn(t) ==
    /\ task[t].phase = "form"
    /\ task' = [task EXCEPT ![t].phase = "open", ![t].session = New(t)]
    /\ upstream' = IF task[t].vpn THEN task[t].account ELSE upstream
    /\ UNCHANGED <<environment, pool, billing_fetch_lock, written>>

-----------------------------------------------------------------------------
(* Requests *)

\* A read is answered and its session kept; a session logged in meanwhile under this account is replaced.
Read(t) ==
    /\ task[t].phase = "open" /\ task[t].kind \in Reads /\ Owner(t) # NoAccount
    /\ pool' = Kept(t)
    /\ task' = [task EXCEPT ![t] = [Over(t, "done") EXCEPT !.data = Owner(t)]]
    /\ billing_fetch_lock' = IF billing_fetch_lock = t THEN NoOne ELSE billing_fetch_lock
    /\ UNCHANGED <<environment, upstream, written>>

\* An error, after which the session is not kept.
Fail(t) ==
    /\ task[t].phase \in {"login", "form", "open"} /\ ~task[t].sent /\ Leaves(t, "lost")
    /\ pool' = IF task[t].phase = "open" /\ task[t].kind \in Reads THEN Removed(task[t].account) ELSE pool
    /\ UNCHANGED <<environment, upstream, written>>

\* The time is up: the read is dropped where it is.
TimesOut(t) ==
    /\ task[t].kind \in Reads /\ UnderWay(t)
    /\ Leaves(t, "lost") /\ UNCHANGED <<environment, pool, upstream, written>>

StoppableAny(t) == UnderWay(t)      \* variant: a write is stopped like a read

\* run_read_while_foreground; a write that has begun runs to its end (run_mutation_to_completion).
Stoppable(t) == UnderWay(t) /\ (task[t].kind = "read" \/ task[t].phase = "resolved")

Stop(c) ==
    /\ is_in_background /\ Stoppable(c)
    /\ Leaves(c, "stopped") /\ UNCHANGED <<environment, pool, upstream, written>>

\* The page of the action is read and the request sent; it may be carried out although its answer is lost.
Write(t) ==
    /\ task[t].phase = "open" /\ task[t].kind \in {"action", "disconnect"} /\ Owner(t) # NoAccount
    /\ task' = [task EXCEPT ![t].phase = "written", ![t].sent = TRUE, ![t].data = Owner(t)]
    /\ \E carried \in BOOLEAN :
          written' = IF carried THEN [written EXCEPT ![Owner(t)] = @ + 1] ELSE written
    /\ UNCHANGED <<environment, pool, billing_fetch_lock, upstream>>

\* logout, whatever the answer; set_billing_mauth and disconnect_billing_session forget the session now.
LogOut(t) ==
    /\ task[t].phase = "written"
    /\ upstream' = IF task[t].session.vpn THEN NoAccount ELSE upstream
    /\ pool' = IF task[t].kind = "disconnect" THEN Removed(task[t].account) ELSE pool
    /\ \E answered \in BOOLEAN : Leaves(t, IF answered THEN "done" ELSE "lost")
    /\ UNCHANGED <<environment, written>>

-----------------------------------------------------------------------------
(* The rest of the app *)

\* save_config: the pool is emptied; the WebVPN session is so when it is next asked for.
ChangeCredentials(a) ==
    /\ credentials[a] < MaxPasswords /\ credentials' = [credentials EXCEPT ![a] = @ + 1]
    /\ pool' = Empty /\ webvpn' = IF webvpn = "none" THEN "none" ELSE "stale"
    /\ UNCHANGED <<billing_fetch_lock, is_in_background, upstream, monitoring, written, calls, task, mixed>>

SetBackground ==
    /\ is_in_background' = ~is_in_background
    /\ UNCHANGED <<credentials, pool, billing_fetch_lock, webvpn, upstream, monitoring, written, calls, task,
                   mixed>>

\* Fifteen minutes in the background.
Destroy ==
    /\ is_in_background /\ pool' = Empty /\ webvpn' = "none"
    /\ UNCHANGED <<credentials, billing_fetch_lock, is_in_background, upstream, monitoring, written, calls, task, mixed>>

TaskStep(t) ==
    Acquire(t) \/ Reuse(t) \/ FindLogin(t) \/ LogIn(t) \/ Read(t) \/ Fail(t) \/ TimesOut(t)
    \/ Write(t) \/ LogOut(t)
Next ==
    \/ \E c \in Commands : Call(c) \/ Resolve(c) \/ GivesUp(c) \/ Stop(c)
    \/ Check \/ (\E a \in Accounts : Sample(a))
    \/ \E t \in Tasks : TaskStep(t)
    \/ (\E a \in Accounts : ChangeCredentials(a)) \/ SetBackground \/ Destroy

Spec == Init /\ [][Next]_vars

-----------------------------------------------------------------------------
(* Properties *)

\* What is shown or recorded as the data of an account was read from the pages of that account, and
\* what is changed is that account, although one WebVPN login serves all accounts in turn: whatever was
\* left open is recognised by its dashboard.  Only a task that met another one on its way through the
\* WebVPN may see the pages of the other, and one of the two is a sample, which takes no lock.
OwnPages ==
    \A t \in Tasks : task[t].data \in {NoAccount, task[t].account} \/ (t \in mixed /\ monitoring)

\* That every caller waits for its turn (the comment at the login page) would say more.
PagesNeverMixed == \A t \in Tasks : task[t].data \in {NoAccount, task[t].account}

\* A session is used only with the password and the VPN mode it was logged in with: one kept before
\* they were changed is not found by a later call.
CurrentCredentials ==
    \A t \in Tasks : task[t].session # NoSession => task[t].session.for = task[t].for

\* A session kept in the pool after a write is not older than the write, unless samples, which take
\* no lock, return theirs: no page is shown again as it was before a change the user made.
NoSessionFromBeforeAWrite ==
    billing_fetch_lock = NoOne /\ ~monitoring =>
        \A a \in Accounts : pool[a] # NoSession => pool[a].since = written[a]

\* The user is told that a call was stopped only if nothing had been sent: a write that may have been
\* carried out is waited for, also in the background.
StoppedSentNothing == \A t \in Tasks : task[t].phase = "stopped" => ~task[t].sent
=============================================================================
