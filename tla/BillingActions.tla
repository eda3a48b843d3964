--------------------------- MODULE BillingActions ---------------------------
(***************************************************************************)
(* What the app asks the billing system to change (billing.rs): stop and   *)
(* reopen the account, packages, the limit of the fees, bound devices,     *)
(* security questions, sessions online and the automatic login (mauth).    *)
(* Every call logs in, reads the page it acts from, refuses what the page  *)
(* does not allow, sends one request and reports what became of it; some   *)
(* read again first.  The account can be changed elsewhere at any time.    *)
(***************************************************************************)
EXTENDS Integers, FiniteSets

CONSTANTS
    Packages, NoPackage,
    Devices, Online,            \* devices that may be bound; sessions that may be online
    MaxActions,                 \* bound: calls
    MaxForeign                  \* bound: changes made elsewhere

Limits == 0 .. 2                \* 2 is the value that means no limit; 1 has been spent
Unlimited == 2
Spent == 1

VARIABLES
    server,     \* the account: normal, package, reserved package, limit, devices, questions, online, mauth
    action,     \* the call: what is asked, how far it is, what it has read
    actions, foreign,
    touched     \* the account was changed elsewhere since the call began

vars == <<server, action, actions, foreign, touched>>

Account == [normal : BOOLEAN, package : Packages, reserved : Packages \cup {NoPackage}, limit : Limits,
            devices : SUBSET Devices, questions : 0 .. 1, online : SUBSET Online, mauth : BOOLEAN]

Requests ==
    {[what |-> w, value |-> NoPackage] : w \in {"stopNow", "reopenNow", "cancelPackage"}}
    \cup {[what |-> "schedulePackage", value |-> p] : p \in Packages}
    \cup {[what |-> "setConsumeLimit", value |-> l] : l \in Limits}
    \cup {[what |-> w, value |-> d] : w \in {"bindMac", "unbindMac"}, d \in Devices}
    \cup {[what |-> "updateQuestions", value |-> q] : q \in 0 .. 1}
    \cup {[what |-> "disconnect", value |-> o] : o \in Online}
    \cup {[what |-> "mauth", value |-> b] : b \in BOOLEAN}

Phases == {"idle", "open", "read", "sent", "done", "rejected", "failed"}
Replies == {"none", "success", "failure", "garbled"}

TypeOK ==
    /\ server \in Account
    /\ action \in [phase : Phases, request : Requests, dashboard : Account, page : Account,
                   reply : Replies, writes : 0 .. 1]
    /\ actions \in 0 .. MaxActions /\ foreign \in 0 .. MaxForeign /\ touched \in BOOLEAN

Idle == [phase |-> "idle", request |-> CHOOSE r \in Requests : TRUE, dashboard |-> server, page |-> server,
         reply |-> "none", writes |-> 0]

Init ==
    /\ server \in [normal : BOOLEAN, package : Packages, reserved : Packages \cup {NoPackage}, limit : {Unlimited},
                   devices : {{}, Devices}, questions : {0}, online : {Online}, mauth : BOOLEAN]
    /\ action = Idle /\ actions = 0 /\ foreign = 0 /\ touched = FALSE

-----------------------------------------------------------------------------
(* The billing system *)

\* The package of the next period.
NextPackage(s) == IF s.reserved = NoPackage THEN s.package ELSE s.reserved

\* oprateMauthAction takes no value: it turns the automatic login over.
After(s, r) ==
    CASE r.what = "stopNow" -> [s EXCEPT !.normal = FALSE]
      [] r.what = "reopenNow" -> [s EXCEPT !.normal = TRUE]
      [] r.what = "schedulePackage" /\ r.value # s.package -> [s EXCEPT !.reserved = r.value]
      [] r.what = "cancelPackage" \/ (r.what = "schedulePackage" /\ r.value = s.package) -> [s EXCEPT !.reserved = NoPackage]
      [] r.what = "setConsumeLimit" -> [s EXCEPT !.limit = r.value]
      [] r.what = "bindMac" -> [s EXCEPT !.devices = @ \cup {r.value}]
      [] r.what = "unbindMac" -> [s EXCEPT !.devices = @ \ {r.value}]
      [] r.what = "updateQuestions" -> [s EXCEPT !.questions = r.value]
      [] r.what = "disconnect" -> [s EXCEPT !.online = @ \ {r.value}]
      [] r.what = "mauth" -> [s EXCEPT !.mauth = ~@]

\* What the user asked for is the case.
Asked(s, r) ==
    CASE r.what = "stopNow" -> ~s.normal
      [] r.what = "reopenNow" -> s.normal
      [] r.what = "schedulePackage" -> NextPackage(s) = r.value
      [] r.what = "cancelPackage" -> NextPackage(s) = s.package
      [] r.what = "setConsumeLimit" -> s.limit = r.value
      [] r.what = "bindMac" -> r.value \in s.devices
      [] r.what = "unbindMac" -> r.value \notin s.devices
      [] r.what = "updateQuestions" -> s.questions = r.value
      [] r.what = "disconnect" -> r.value \notin s.online
      [] r.what = "mauth" -> s.mauth = r.value

-----------------------------------------------------------------------------
(* The call *)

Begin ==
    /\ action.phase \in {"idle", "done", "rejected", "failed"} /\ actions < MaxActions
    /\ \E r \in Requests :
          action' = [Idle EXCEPT !.phase = "open", !.request = r, !.dashboard = server]
    /\ actions' = actions + 1 /\ touched' = FALSE /\ UNCHANGED <<server, foreign>>

\* The login, a page or a request fails before anything was sent, or the answer is lost after it.
Fail ==
    /\ action.phase \in {"open", "read", "sent"} /\ action' = [action EXCEPT !.phase = "failed"]
    /\ UNCHANGED <<server, actions, foreign, touched>>

\* The value has no acceptable form (of a number, a device, an answer to a question).
Malformed ==
    /\ action.phase = "open" /\ action' = [action EXCEPT !.phase = "rejected"]
    /\ UNCHANGED <<server, actions, foreign, touched>>

ReadPage ==
    /\ action.phase = "open" /\ action' = [action EXCEPT !.phase = "read", !.page = server]
    /\ UNCHANGED <<server, actions, foreign, touched>>

\* A reservation of the package that is current anyway is none (package_reservation_is_distinct).
Reserved(d, p) == p.reserved # NoPackage /\ p.reserved # d.package

\* The dashboard of the login and the page read after it allow the request.
Allowed(d, p, r) ==
    CASE r.what = "stopNow" -> d.normal /\ p.normal
      [] r.what = "reopenNow" -> ~d.normal /\ ~p.normal
      [] r.what = "cancelPackage" -> Reserved(d, p)
      [] r.what = "schedulePackage" -> IF r.value = d.package THEN Reserved(d, p) ELSE r.value # p.package
      [] r.what = "setConsumeLimit" -> r.value = Unlimited \/ r.value >= Spent
      [] r.what = "unbindMac" -> r.value \in p.devices
      [] r.what = "disconnect" -> r.value \in p.online
      [] OTHER -> TRUE

NothingToDo == action.request.what = "mauth" /\ action.page.mauth = action.request.value

Refuse ==
    /\ action.phase = "read"
    /\ \/ ~Allowed(action.dashboard, action.page, action.request)
          /\ action' = [action EXCEPT !.phase = "rejected"]
       \/ NothingToDo /\ action' = [action EXCEPT !.phase = "done"]
    /\ UNCHANGED <<server, actions, foreign, touched>>

\* The package that is current is scheduled by cancelling the reservation of another.
Sent == IF action.request.what = "schedulePackage" /\ action.request.value = action.dashboard.package
        THEN [what |-> "cancelPackage", value |-> NoPackage] ELSE action.request

SendRetried ==      \* variant: a request whose answer cannot be read is sent again
    /\ action.phase \in {"read", "sent"} /\ action.reply \in {"none", "garbled"}
    /\ Allowed(action.dashboard, action.page, action.request) /\ ~NothingToDo
    /\ \E carried \in BOOLEAN, reply \in {"success", "failure", "garbled"} :
          /\ (reply = "success" => carried) /\ (reply = "failure" => ~carried)
          /\ server' = IF carried THEN After(server, Sent) ELSE server
          /\ action' = [action EXCEPT !.phase = "sent", !.reply = reply, !.writes = @ + 1]
    /\ UNCHANGED <<actions, foreign, touched>>

\* One request, never repeated; its answer may be unreadable whether or not it was carried out.
Send ==
    /\ action.phase = "read" /\ Allowed(action.dashboard, action.page, action.request) /\ ~NothingToDo
    /\ \E carried \in BOOLEAN, reply \in {"success", "failure", "garbled"} :
          /\ (reply = "success" => carried) /\ (reply = "failure" => ~carried)
          /\ server' = IF carried THEN After(server, Sent) ELSE server
          /\ action' = [action EXCEPT !.phase = "sent", !.reply = reply, !.writes = @ + 1]
    /\ UNCHANGED <<actions, foreign, touched>>

SeenAnyway == action.reply # "none"      \* variant: an answer is enough, whatever it says

\* What is read again decides: always for unbinding and the automatic login, for binding if it can be
\* read and shows the device, for the limit unless the answer was success.
Seen == Asked(server, action.request)

RereadBy == {"unbindMac", "mauth", "bindMac", "setConsumeLimit"}

ByAnswer == CASE action.reply = "success" -> "done" [] action.reply = "failure" -> "rejected"
              [] OTHER -> "failed"

Outcome ==
    LET what == action.request.what IN
    CASE what \notin RereadBy -> ByAnswer
      [] what = "setConsumeLimit" /\ action.reply = "success" -> "done"
      [] what = "bindMac" /\ ~Seen -> ByAnswer
      [] OTHER -> IF Seen THEN "done" ELSE "rejected"

\* For binding, the list may be unreadable; a failed reading of the others is Fail.
Report ==
    /\ action.phase = "sent"
    /\ \/ action' = [action EXCEPT !.phase = Outcome]
       \/ action.request.what = "bindMac" /\ action' = [action EXCEPT !.phase = ByAnswer]
    /\ UNCHANGED <<server, actions, foreign, touched>>

\* The user's browser, another device or the end of the period changes the account.
Elsewhere ==
    /\ foreign < MaxForeign /\ foreign' = foreign + 1
    /\ \/ \E r \in Requests : server' = After(server, r)
       \/ server' = [server EXCEPT !.package = NextPackage(server), !.reserved = NoPackage]
    /\ server' # server
    /\ touched' = TRUE /\ UNCHANGED <<action, actions>>

Next == Begin \/ Malformed \/ Fail \/ ReadPage \/ Refuse \/ Send \/ Report \/ Elsewhere

Spec == Init /\ [][Next]_vars

-----------------------------------------------------------------------------
(* Properties *)

\* Unless the account was changed elsewhere during the call, what is reported as done is the case, and a call
\* that is reported as refused has changed nothing: also where the answer says nothing and only the page read
\* again can tell, and although the request is sent only once.
AnswerTells ==
    /\ action.phase = "done" /\ ~touched => Asked(server, action.request)
    /\ action.phase = "rejected" /\ ~touched => server = action.dashboard
=============================================================================
