--------------------------- MODULE AccountHealth ---------------------------
(***************************************************************************)
(* What the portal answered for each account, and how long the account     *)
(* then waits (record_account_failure and its like).  A check, which       *)
(* chooses its accounts before it waits for its turn, and the window log   *)
(* in one at a time; on a desktop the tray logs in beside them.  On        *)
(* Android the background service does; it shares the records with the     *)
(* application by their file only: it reads the file when it begins and    *)
(* writes its copy when it ends, and the application reads the file when   *)
(* it starts and when it returns to the foreground.                        *)
(***************************************************************************)
EXTENDS Naturals, Sequences, FiniteSets

CONSTANTS
    Users,
    CredentialWait, BalanceWait,        \* how long a wrong password waits, and an account in debt; 30 minutes, 6 hours
    ServerBase, NetworkBase, Longest,   \* the first waits after other answers and none, and the longest; 60, 15, 900 s
    LatestTime          \* bound: time

NoCopy == <<>>
Fresh == [fails |-> 0, until |-> 0]
Kinds == {"credential", "balance", "network", "server"}
Records == [fails : Nat, until : Nat]

VARIABLES
    desktop,            \* whether the application runs on a desktop, or on Android
    time,
    health,             \* AppState.account_health
    healthFile,         \* account-health.json
    todo,               \* the accounts that a check has chosen and not tried
    attempt, tray,      \* the accounts that a check or the window, and the tray, send the password of
    loginCopy, trayCopy, windowCopy,    \* the records they, and other commands of the window, still write to the file
    away, service,      \* whether the application is in the background; the service's own records
    serviceAttempt,
    refused,            \* until when the latest refusal recorded of the account asks to wait
    parted              \* whether one who sends passwords can have missed an answer another was given

healthVars ==
    <<desktop, time, health, healthFile, todo, attempt, tray, loginCopy, trayCopy, windowCopy, away, service,
      serviceAttempt, refused, parted>>
answers == <<health, refused>>
copies == <<loginCopy, trayCopy, windowCopy>>
logins == <<todo, attempt, tray>>
engine == <<away, service, serviceAttempt>>
still == <<desktop, time>>

Nobody == "nobody"
Healths == [Users -> Records]
NoRecords == [u \in Users |-> Fresh]

HealthTypeOK ==
    /\ desktop \in BOOLEAN /\ time \in 0 .. LatestTime /\ health \in Healths /\ healthFile \in Healths
    /\ todo \subseteq Users /\ {attempt, tray, serviceAttempt} \subseteq Users \cup {Nobody}
    /\ \A copy \in {loginCopy, trayCopy, windowCopy, service} : copy = NoCopy \/ copy \in Healths
    /\ away \in BOOLEAN /\ refused \in [Users -> Nat] /\ parted \in BOOLEAN

HealthInit ==
    /\ desktop \in BOOLEAN /\ time = 0 /\ health = NoRecords /\ healthFile = NoRecords
    /\ todo = {} /\ attempt = Nobody /\ tray = Nobody
    /\ loginCopy = NoCopy /\ trayCopy = NoCopy /\ windowCopy = NoCopy
    /\ away = FALSE /\ service = NoCopy /\ serviceAttempt = Nobody
    /\ refused = [u \in Users |-> 0] /\ parted = FALSE

Smaller(m, n) == IF m < n THEN m ELSE n

\* classify_account_failure: a wait of its own, or one that doubles with each failure up to a limit.
Doubled == <<1, 2, 4, 8, 16, 32, 64>>
Growing(base, fails) == Smaller(base * Doubled[Smaller(fails, 7)], Longest)
Wait(kind, fails) ==
    CASE kind = "credential" -> CredentialWait
      [] kind = "balance" -> BalanceWait
      [] kind = "network" -> Growing(NetworkBase, fails)
      [] kind = "server" -> Growing(ServerBase, fails)

\* What a refusal makes of an account's record.
Failed(record, kind) == [fails |-> record.fails + 1, until |-> time + Wait(kind, record.fails + 1)]

MayTry(records, u) == records[u].until <= time

\* The service is at work, or has written answers that the application in the background did not read.
Behind == away /\ ~desktop /\ (service # NoCopy \/ health # healthFile)
Parts(missed) == parted' = (parted \/ missed)

-----------------------------------------------------------------------------
\* One login of a check or the window at a time: login_request_lock.
Free == attempt = Nobody /\ loginCopy = NoCopy

\* A check passes over the accounts that wait, and tries the others one after another.
Considers ==
    /\ Free /\ todo = {} /\ todo' = {u \in Users : MayTry(health, u)} /\ todo' # {} /\ Parts(Behind)
    /\ UNCHANGED <<still, answers, healthFile, attempt, tray, copies, engine>>

CheckSends(u) ==
    /\ Free /\ u \in todo /\ todo' = todo \ {u} /\ attempt' = u
    /\ UNCHANGED <<still, answers, healthFile, tray, copies, engine, parted>>

\* A check that is overtaken, or whose network changed, stops before the next account.
CheckStops ==
    /\ Free /\ todo # {} /\ todo' = {}
    /\ UNCHANGED <<still, answers, healthFile, attempt, tray, copies, engine, parted>>

\* A login of the window overtakes a check.
UserSends(u) ==
    /\ Free /\ MayTry(health, u) /\ attempt' = u /\ todo' = {} /\ Parts(Behind)
    /\ UNCHANGED <<still, answers, healthFile, tray, copies, engine>>

\* tray_manual_login, which takes no lock.
TraySends(u) ==
    /\ desktop /\ tray = Nobody /\ trayCopy = NoCopy /\ MayTry(health, u) /\ tray' = u
    /\ UNCHANGED <<still, answers, healthFile, todo, attempt, copies, engine, parted>>

\* The record changes under its lock, of which a copy is written to the file afterwards.
Becomes(u, record, until) ==
    /\ health' = [health EXCEPT ![u] = record] /\ refused' = [refused EXCEPT ![u] = until]
    /\ UNCHANGED <<still, healthFile, windowCopy, engine>>
BecomesFailed(u, kind) == LET record == Failed(health[u], kind) IN Becomes(u, record, record.until)

Accepted ==
    /\ attempt # Nobody /\ attempt' = Nobody /\ todo' = {}
    /\ Becomes(attempt, Fresh, 0) /\ loginCopy' = health'
    /\ UNCHANGED <<tray, trayCopy, parted>>

Refused(kind) ==
    /\ attempt # Nobody /\ attempt' = Nobody
    /\ BecomesFailed(attempt, kind) /\ loginCopy' = health'
    /\ UNCHANGED <<todo, tray, trayCopy, parted>>

\* No record is made of an answer that blames no account, of none, or of one to a check that was overtaken; the
\* login ends.
Unanswered ==
    /\ attempt # Nobody /\ attempt' = Nobody /\ todo' = {}
    /\ UNCHANGED <<still, answers, healthFile, tray, copies, engine, parted>>

TrayAccepted ==
    /\ tray # Nobody /\ tray' = Nobody
    /\ Becomes(tray, Fresh, 0) /\ trayCopy' = health'
    /\ UNCHANGED <<todo, attempt, loginCopy, parted>>

\* The tray records any refusal, and an error other than a lost answer.
TrayRefused(kind) ==
    /\ tray # Nobody /\ tray' = Nobody
    /\ BecomesFailed(tray, kind) /\ trayCopy' = health' /\ Parts(tray \in todo)
    /\ UNCHANGED <<todo, attempt, loginCopy>>

TrayUnanswered ==
    /\ tray # Nobody /\ tray' = Nobody
    /\ UNCHANGED <<still, answers, healthFile, todo, attempt, copies, engine, parted>>

\* The user resets the records of some accounts, or saves another password for them.
Forget(users) ==
    /\ windowCopy = NoCopy /\ ~away
    /\ health' = [u \in Users |-> IF u \in users THEN Fresh ELSE health[u]] /\ windowCopy' = health'
    /\ refused' = [u \in Users |-> IF u \in users THEN 0 ELSE refused[u]]
    /\ UNCHANGED <<still, healthFile, logins, loginCopy, trayCopy, engine, parted>>

\* persist_account_health.  A copy that is no longer what memory has undoes what was recorded since.
Stores(copy) ==
    /\ copy # NoCopy /\ healthFile' = copy /\ Parts(copy # health)
    /\ UNCHANGED <<still, answers, logins, engine>>
LoginWrites == Stores(loginCopy) /\ loginCopy' = NoCopy /\ UNCHANGED <<trayCopy, windowCopy>>
TrayWrites == Stores(trayCopy) /\ trayCopy' = NoCopy /\ UNCHANGED <<loginCopy, windowCopy>>
WindowWrites == Stores(windowCopy) /\ windowCopy' = NoCopy /\ UNCHANGED <<loginCopy, trayCopy>>

\* A write that fails tells nobody; it leaves the file, or an unreadable one, which reads as no records.
WriteFails ==
    /\ \/ loginCopy # NoCopy /\ loginCopy' = NoCopy /\ UNCHANGED <<trayCopy, windowCopy, engine>>
       \/ trayCopy # NoCopy /\ trayCopy' = NoCopy /\ UNCHANGED <<loginCopy, windowCopy, engine>>
       \/ windowCopy # NoCopy /\ windowCopy' = NoCopy /\ UNCHANGED <<loginCopy, trayCopy, engine>>
       \/ service # NoCopy /\ service' = NoCopy /\ serviceAttempt' = Nobody /\ UNCHANGED <<copies, away>>
    /\ healthFile' \in {healthFile, NoRecords} /\ parted' = TRUE
    /\ UNCHANGED <<still, answers, logins>>

-----------------------------------------------------------------------------
GoesAway ==
    /\ ~away /\ away' = TRUE
    /\ UNCHANGED <<still, answers, healthFile, logins, copies, service, serviceAttempt, parted>>

Unwritten == \E copy \in {loginCopy, trayCopy, windowCopy, service} : copy # NoCopy

ReturnedWithItsOwn == health
Returned == healthFile

\* The application shows its window again, and reads the file on Android: answers that are not in it are lost.
Returns ==
    /\ away /\ away' = FALSE /\ health' = IF desktop THEN health ELSE Returned
    /\ Parts(~desktop /\ Unwritten)
    /\ UNCHANGED <<still, healthFile, logins, copies, service, serviceAttempt, refused>>

\* The application ends, an answer it waited for unheard, with its service, and starts with what the file has.
Restarts ==
    /\ Parts(Unwritten) /\ healthFile' \in {healthFile} \cup (IF Unwritten THEN {NoRecords} ELSE {})
    /\ health' = healthFile' /\ todo' = {} /\ attempt' = Nobody /\ tray' = Nobody /\ away' = FALSE
    /\ loginCopy' = NoCopy /\ trayCopy' = NoCopy /\ windowCopy' = NoCopy
    /\ service' = NoCopy /\ serviceAttempt' = Nobody
    /\ UNCHANGED <<still, refused>>

\* runHeadlessCheck.  An answer the application waits for, or has not written, is not in the file.
ServiceBegins ==
    /\ ~desktop /\ away /\ service = NoCopy /\ service' = healthFile
    /\ Parts(Unwritten \/ attempt # Nobody \/ todo # {})
    /\ UNCHANGED <<still, answers, healthFile, logins, copies, away, serviceAttempt>>

ServiceTries(u) ==
    /\ service # NoCopy /\ serviceAttempt = Nobody /\ MayTry(service, u) /\ serviceAttempt' = u
    /\ UNCHANGED <<still, answers, healthFile, logins, copies, away, service, parted>>

\* It too records any refusal, and an error other than a lost answer.
ServiceHears(record, until) ==
    /\ serviceAttempt # Nobody /\ serviceAttempt' = Nobody
    /\ service' = [service EXCEPT ![serviceAttempt] = record]
    /\ refused' = [refused EXCEPT ![serviceAttempt] = until]
    /\ UNCHANGED <<still, health, healthFile, logins, copies, away, parted>>
ServiceRefused(kind) ==
    /\ serviceAttempt # Nobody
    /\ LET record == Failed(service[serviceAttempt], kind) IN ServiceHears(record, record.until)
ServiceAccepted == ServiceHears(Fresh, 0)

\* It ends also after an answer that never came.
ServiceEnds ==
    /\ service # NoCopy /\ healthFile' = service /\ service' = NoCopy /\ serviceAttempt' = Nobody
    /\ UNCHANGED <<still, answers, logins, copies, away, parted>>

HealthTick ==
    /\ time < LatestTime /\ time' = time + 1
    /\ UNCHANGED <<desktop, answers, healthFile, logins, copies, engine, parted>>

HealthNext ==
    \/ Considers \/ CheckStops \/ Accepted \/ Unanswered \/ TrayAccepted \/ TrayUnanswered
    \/ LoginWrites \/ TrayWrites \/ WindowWrites \/ WriteFails \/ GoesAway \/ Returns \/ Restarts
    \/ ServiceBegins \/ ServiceAccepted \/ ServiceEnds \/ HealthTick
    \/ \E u \in Users : CheckSends(u) \/ UserSends(u) \/ TraySends(u) \/ ServiceTries(u) \/ Forget({u})
    \/ Forget(Users)
    \/ \E kind \in Kinds : Refused(kind) \/ TrayRefused(kind) \/ ServiceRefused(kind)

HealthSpec == HealthInit /\ [][HealthNext]_healthVars

-----------------------------------------------------------------------------
IsSent(u) ==
    \/ attempt' # attempt /\ attempt' = u
    \/ tray' # tray /\ tray' = u
    \/ serviceAttempt' # serviceAttempt /\ serviceAttempt' = u

\* A password the portal has refused, as the one that heard it recorded, is not sent again by anyone before its
\* wait is over, also when the application is started again in between.  This is so until one of them can miss
\* what another was told: a write of the file fails, or is undone by an older copy; the application in the
\* background sends beside the service, or after it; it ends, or returns, before an answer is in the file; the
\* service begins while it waits for one; or the tray is refused an account that a check has chosen.
RefusedIsNotSentAgain ==
    [][\A u \in Users : IsSent(u) => parted' \/ time >= refused[u]]_healthVars

=============================================================================
