---------------------------- MODULE BillingCenter ----------------------------
(***************************************************************************)
(* Reading the pages of the billing system for the user (fetch_center):    *)
(* one after another through one session, each with a limit of its own,    *)
(* all together within the limit of the command.  What is read is shown    *)
(* part by part; a page that cannot be read becomes a warning.  The pool   *)
(* keeps the session of a reading that ended.                              *)
(***************************************************************************)
EXTENDS Integers, Sequences, FiniteSets

CONSTANTS LoginTimes        \* seconds the login may take

CommandLimit == 75

\* Pages in the order they are read, seconds each may take, and the part shown after it.
Reads == <<"history", "online", "tip", "mauth", "stop", "reopen", "package", "reservation", "protect",
           "devices", "questions">>

LimitOfTheClient(page) == 15      \* variant: only the client's own limit applies

Limit(page) ==
    CASE page \in {"history", "online", "tip", "mauth"} -> 6 [] page = "devices" -> 10 [] OTHER -> 8

PublishedAfter(page) ==
    CASE page = "mauth" -> {"overview"} [] page = "protect" -> {"service"}
      [] page = "devices" -> {"devices"} [] page = "questions" -> {"security"} [] OTHER -> {}

VARIABLES
    reading,        \* number of the page that is read next, 0 during the login
    elapsed, loginTook,
    unread, warnings,
    published,      \* parts on display
    session,        \* the session is valid at the server
    center          \* what became of the command

vars == <<reading, elapsed, loginTook, unread, warnings, published, session, center>>

Pages == {Reads[i] : i \in DOMAIN Reads}

TypeOK ==
    /\ reading \in 0 .. Len(Reads) + 1 /\ elapsed \in 0 .. CommandLimit /\ loginTook \in LoginTimes \cup {0}
    /\ unread \subseteq Pages /\ warnings \subseteq Pages
    /\ published \subseteq {"overview", "service", "devices", "security"}
    /\ session \in BOOLEAN /\ center \in {"reading", "done", "failed", "timedOut"}

Init ==
    /\ reading = 0 /\ elapsed = 0 /\ loginTook = 0 /\ unread = {} /\ warnings = {} /\ published = {}
    /\ session = FALSE /\ center = "reading"

LogIn ==
    /\ center = "reading" /\ reading = 0
    /\ \/ \E t \in LoginTimes :
             /\ t <= CommandLimit /\ elapsed' = t /\ loginTook' = t
             /\ session' = TRUE /\ reading' = 1 /\ UNCHANGED center
       \/ center' = "failed" /\ UNCHANGED <<elapsed, loginTook, session, reading>>
    /\ UNCHANGED <<unread, warnings, published>>

UnderWay == center = "reading" /\ reading \in DOMAIN Reads

Moves == reading' = reading + 1 /\ published' = published \cup PublishedAfter(Reads[reading])

\* Times that matter are those of pages that do not answer.
Answered ==
    /\ UnderWay /\ session /\ Moves
    /\ UNCHANGED <<elapsed, loginTook, unread, warnings, session, center>>

Missed == unread' = unread \cup {Reads[reading]} /\ warnings' = warnings \cup {Reads[reading]}

\* An error, or the login page of a session that has ended.
Failed ==
    /\ UnderWay /\ Moves /\ Missed
    /\ UNCHANGED <<elapsed, loginTook, session, center>>

\* No answer: the page is given up after its limit.
Hangs ==
    /\ UnderWay /\ elapsed + Limit(Reads[reading]) <= CommandLimit
    /\ elapsed' = elapsed + Limit(Reads[reading]) /\ Moves /\ Missed
    /\ UNCHANGED <<loginTook, session, center>>

\* The command's limit comes first: the whole reading is dropped with its session.
Expires ==
    /\ UnderWay /\ elapsed + Limit(Reads[reading]) > CommandLimit
    /\ elapsed' = CommandLimit /\ center' = "timedOut"
    /\ UNCHANGED <<reading, loginTook, unread, warnings, published, session>>

SessionEnds ==
    /\ UnderWay /\ session /\ session' = FALSE
    /\ UNCHANGED <<reading, elapsed, loginTook, unread, warnings, published, center>>

Finish ==
    /\ center = "reading" /\ reading = Len(Reads) + 1 /\ center' = "done"
    /\ UNCHANGED <<reading, elapsed, loginTook, unread, warnings, published, session>>

Next == LogIn \/ Answered \/ Failed \/ Hangs \/ Expires \/ SessionEnds \/ Finish

Spec == Init /\ [][Next]_vars

-----------------------------------------------------------------------------
(* Properties *)

\* Optional pages that do not answer never keep the overview from the user: with a login of up to 45
\* seconds, the limits of the pages before it fit into the limit of the command.
OverviewIsShown == center = "timedOut" /\ loginTook <= 45 => "overview" \in published
=============================================================================
