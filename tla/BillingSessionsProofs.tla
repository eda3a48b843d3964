----------------------- MODULE BillingSessionsProofs -----------------------
(***************************************************************************)
(* For any accounts, commands and numbers of calls: whose pages are read,  *)
(* with which password, and which sessions are kept.  What a task may be   *)
(* (Fits) says with which credentials it works and what it has sent.  The  *)
(* lock carries the rest: whatever is under way and is not a sample holds  *)
(* it (LockHeld), so that a write meets no read of its account, and a task *)
(* that talks to the server through the WebVPN does so alone, or is one of *)
(* those that have met (Apart), which takes a sample (MetSamples).         *)
(***************************************************************************)
EXTENDS BillingSessions, TLAPS

Pooled == [for : Versions, vpn : BOOLEAN, since : Nat]
TaskRecord == [phase : Phases, kind : Kinds, account : Accounts \cup {NoAccount}, for : Versions \cup {0},
               vpn : BOOLEAN, session : Pooled \cup {NoSession}, data : Accounts \cup {NoAccount}, sent : BOOLEAN]

\* The type needs no bound on the writes that were carried out.
StoresTyped ==
    /\ credentials \in [Accounts -> Versions] /\ pool \in [Accounts -> Pooled \cup {NoSession}]
    /\ billing_fetch_lock \in Tasks \cup {NoOne} /\ upstream \in Accounts \cup {NoAccount}
    /\ written \in [Accounts -> Nat]

Busy(r) == r.phase \in {"resolved", "reusing", "login", "form", "open", "written"}

KindOf(t) ==
    IF t \in Commands THEN {"read", "action", "disconnect"} ELSE IF t \in Accounts THEN {"sample"} ELSE {"check"}

\* What task t may be.  A session is held from the login to the last request, with the credentials the task
\* began with, and only a write that runs to its end has sent anything.
Fits(t, r) ==
    /\ r \in TaskRecord
    /\ r.kind \in KindOf(t) \/ (r.kind = "none" /\ r.phase = "idle")
    /\ Busy(r) => r.account \in Accounts /\ r.for \in Versions
    /\ r.phase = "called" => r.account \in Accounts /\ t \in Commands
    /\ r.session # NoSession <=> r.phase \in {"reusing", "open", "written"}
    /\ r.session # NoSession => r.session.for = r.for /\ r.session.vpn = r.vpn
    /\ r.sent => r.phase \in {"written", "done", "lost"} /\ r.kind \in {"action", "disconnect"}

TasksFit == DOMAIN task = Tasks /\ task = [t \in Tasks |-> task[t]] /\ \A t \in Tasks : Fits(t, task[t])

LockHeld == \A t \in Tasks : Busy(task[t]) /\ task[t].kind # "sample" => billing_fetch_lock = t

\* Two tasks under way through the WebVPN have met, and one of them is a sample.
Through(r) == Busy(r) /\ r.vpn
Apart == \A t, u \in Tasks : t # u /\ Through(task[t]) /\ Through(task[u]) => t \in mixed /\ u \in mixed
MetSamples == mixed # {} => monitoring

\* An open session through the WebVPN is the one its server is logged in to.
OpenUpstream ==
    \A t \in Tasks \ mixed : task[t].phase = "open" /\ task[t].session.vpn => upstream = task[t].account
OwnOrMixed == \A t \in Tasks \ mixed : task[t].data \in {NoAccount, task[t].account}
NothingYet == \A t \in Tasks : task[t].phase = "called" => task[t].data = NoAccount

\* Without samples, a kept session and one that a read has taken are as old as the writes of their account,
\* but for a write that was just sent and whose task will remove the session.
Unsampled == \A t \in Tasks : task[t].kind = "sample" => ~Busy(task[t])
PoolIsCurrent ==
    \A a \in Accounts :
        pool[a] # NoSession =>
            \/ pool[a].since = written[a]
            \/ \E t \in Tasks : task[t].phase = "written" /\ task[t].kind = "disconnect" /\ task[t].account = a
ActionEmptiesPool ==
    \A t \in Tasks : Busy(task[t]) /\ task[t].kind = "action" => pool[task[t].account] = NoSession
ReadIsCurrent ==
    \A t \in Tasks :
        task[t].session # NoSession /\ task[t].kind \in Reads => task[t].session.since = written[task[t].account]

Basic == StoresTyped /\ TasksFit /\ LockHeld
Upstream == mixed \subseteq Tasks /\ Apart /\ MetSamples /\ OpenUpstream /\ OwnOrMixed /\ NothingYet
Current == Unsampled /\ PoolIsCurrent /\ ActionEmptiesPool /\ ReadIsCurrent

SessionsInv ==
    /\ Basic
    /\ Upstream
    /\ ~monitoring => Current

-----------------------------------------------------------------------------
(* Tasks *)

LEMMA NoOneIsNoTask == NoOne \notin Tasks
  BY SessionsAssumption DEF NoOne, Tasks

LEMMA KindsApart ==
  ASSUME NEW t \in Tasks
  PROVE  /\ t \in Commands => KindOf(t) = {"read", "action", "disconnect"}
         /\ t \in Accounts => KindOf(t) = {"sample"}
         /\ t = "check" => KindOf(t) = {"check"}
         /\ KindOf(t) \subseteq Kinds
  BY SessionsAssumption DEF KindOf, Tasks, Kinds

\* A task that ends keeps what it has read and sent.
LEMMA OverFits ==
  ASSUME NEW t \in Tasks, Fits(t, task[t]), task[t].kind # "none",
         NEW phase \in {"done", "stopped", "lost"}, phase = "stopped" => ~task[t].sent
  PROVE  /\ Fits(t, Over(t, phase)) /\ ~Busy(Over(t, phase))
         /\ Over(t, phase).kind = task[t].kind /\ Over(t, phase).session = NoSession
         /\ Over(t, phase).data = task[t].data /\ Over(t, phase).account = task[t].account
         /\ Over(t, phase).phase = phase /\ Over(t, phase).sent = task[t].sent /\ Over(t, phase).vpn = FALSE
  <1>1. task[t] \in TaskRecord
    BY DEF Fits
  <1> DEFINE r == Over(t, phase)
  <1>2. /\ r.phase = phase /\ r.kind = task[t].kind /\ r.account = task[t].account /\ r.for = 0
        /\ r.vpn = FALSE /\ r.session = NoSession /\ r.data = task[t].data /\ r.sent = task[t].sent
    BY <1>1 DEF Over, TaskRecord
  <1>3. r \in TaskRecord
    BY <1>1 DEF Over, TaskRecord, Phases
  <1> HIDE DEF r
  <1>4. Fits(t, r) /\ ~Busy(r)
    BY <1>2, <1>3 DEF Fits, Busy
  <1> QED  BY <1>2, <1>4 DEF r

\* One task changes, and the lock with it or not at all.
LEMMA TaskChanges ==
  ASSUME Basic, NEW t \in Tasks, NEW r, Fits(t, r), task' = [task EXCEPT ![t] = r], StoresTyped',
         \/ billing_fetch_lock' = billing_fetch_lock /\ (Busy(r) /\ r.kind # "sample" => Busy(task[t]) /\ task[t].kind # "sample")
         \/ billing_fetch_lock = t /\ ~Busy(r)
         \/ billing_fetch_lock = NoOne /\ billing_fetch_lock' = t
  PROVE  /\ Basic'
         /\ task'[t] = r /\ \A u \in Tasks \ {t} : task'[u] = task[u]
  <1>1. task'[t] = r /\ \A u \in Tasks \ {t} : task'[u] = task[u]
    BY DEF Basic, TasksFit
  <1>2. TasksFit'
    BY <1>1 DEF Basic, TasksFit
  <1>3. LockHeld'
    BY <1>1, NoOneIsNoTask DEF Basic, LockHeld
  <1> QED  BY <1>1, <1>2, <1>3 DEF Basic

LEMMA InitInv == Init => SessionsInv
  <1> SUFFICES ASSUME Init PROVE SessionsInv
    OBVIOUS
  <1>1. \A t \in Tasks : Fits(t, Away) /\ ~Busy(Away) /\ Away.data = NoAccount /\ Away.phase = "idle" /\ Away.session = NoSession
    BY DEF Fits, Away, TaskRecord, Phases, Kinds, Busy
  <1>2. \A t \in Tasks : task[t] = Away
    BY DEF Init
  <1>3. Basic
    BY <1>1, <1>2, SessionsAssumption DEF Init, Basic, StoresTyped, TasksFit, LockHeld, Empty, Versions
  <1>4. Upstream /\ Current
    BY <1>1, <1>2 DEF Init, Upstream, Current, Apart, Through, MetSamples, OpenUpstream, OwnOrMixed, NothingYet, Unsampled, PoolIsCurrent,
       ActionEmptiesPool, ReadIsCurrent, Empty
  <1> QED  BY <1>3, <1>4 DEF SessionsInv

-----------------------------------------------------------------------------
(* The steps *)

LEMMA FitsNow ==
  ASSUME SessionsInv, NEW t \in Tasks
  PROVE  Fits(t, task[t]) /\ task[t] \in TaskRecord
  BY DEF SessionsInv, Basic, TasksFit, Fits

\* The task that has the WebVPN session changes the login of its server; no other has one open.
LEMMA UpstreamChanges ==
  ASSUME SessionsInv, NEW t \in Tasks, NEW r, Fits(t, r), Busy(r) => Busy(task[t]),
         task'[t] = r, \A u \in Tasks \ {t} : task'[u] = task[u],
         t \notin mixed => r.data \in {NoAccount, r.account}, r.vpn => task[t].vpn, r.phase # "called",
         t \notin mixed /\ r.phase = "open" /\ r.session.vpn => upstream' = r.account,
         upstream' = upstream \/ (task[t].vpn /\ Busy(task[t])),
         UNCHANGED <<mixed, monitoring>>
  PROVE  Upstream'
  <1>1. \A u \in (Tasks \ {t}) \ mixed : task[u].phase = "open" /\ task[u].session.vpn => ~(task[t].vpn /\ Busy(task[t]))
    <2> SUFFICES ASSUME NEW u \in (Tasks \ {t}) \ mixed, task[u].phase = "open", task[u].session.vpn,
                        task[t].vpn, Busy(task[t])
                 PROVE  FALSE
      OBVIOUS
    <2>1. task[u].vpn
      BY FitsNow DEF Fits, NoSession
    <2> QED  BY <2>1 DEF SessionsInv, Upstream, Apart, Through, Busy
  <1>2. Apart'
    <2>1. \A u \in Tasks : Through(task'[u]) => Through(task[u])
      BY DEF Through
    <2> QED  BY <2>1 DEF SessionsInv, Upstream, Apart
  <1>3. OpenUpstream'
    BY <1>1 DEF SessionsInv, Upstream, OpenUpstream
  <1>4. OwnOrMixed' /\ NothingYet'
    BY DEF SessionsInv, Upstream, OwnOrMixed, NothingYet
  <1> QED  BY <1>2, <1>3, <1>4 DEF SessionsInv, Upstream, MetSamples

\* Without samples: a task takes sessions from the pool, or is a read that puts back what it holds.
LEMMA CurrentChanges ==
  ASSUME SessionsInv, Current, NEW t \in Tasks, NEW r, Busy(r) => Busy(task[t]),
         task'[t] = r, \A u \in Tasks \ {t} : task'[u] = task[u], written' = written,
         r.kind = task[t].kind, r.account = task[t].account,
         r.session # NoSession /\ r.kind \in Reads => r.session.since = written[r.account],
         \A b \in Accounts : \/ pool'[b] \in {pool[b], NoSession}
                             \/ pool'[b].since = written[b] /\ r.kind \in Reads /\ Busy(task[t]),
         r.kind = "disconnect" /\ task[t].phase = "written" => r.phase = "written" \/ pool'[r.account] = NoSession
  PROVE  Current'
  <1>1. Unsampled'
    BY DEF Current, Unsampled
  <1>2. PoolIsCurrent'
    <2> SUFFICES ASSUME NEW b \in Accounts, pool'[b] # NoSession, pool'[b].since # written[b]
                 PROVE  \E u \in Tasks : task'[u].phase = "written" /\ task'[u].kind = "disconnect" /\ task'[u].account = b
      BY DEF PoolIsCurrent
    <2>1. pool'[b] = pool[b]
      OBVIOUS
    <2>2. PICK u \in Tasks : task[u].phase = "written" /\ task[u].kind = "disconnect" /\ task[u].account = b
      BY <2>1 DEF Current, PoolIsCurrent
    <2>3. task'[u].phase = "written" /\ task'[u].kind = "disconnect" /\ task'[u].account = b
      BY <2>2
    <2> QED  BY <2>3
  <1>3. ActionEmptiesPool'
    <2> SUFFICES ASSUME NEW u \in Tasks, Busy(task'[u]), task'[u].kind = "action"
                 PROVE  pool'[task'[u].account] = NoSession
      BY DEF ActionEmptiesPool
    <2>1. Busy(task[u]) /\ task[u].kind = "action" /\ task'[u].account = task[u].account
      OBVIOUS
    <2>2. pool[task[u].account] = NoSession /\ task[u].account \in Accounts
      BY <2>1, FitsNow DEF Current, ActionEmptiesPool, Fits
    <2>3. ~(r.kind \in Reads /\ Busy(task[t]))
      <3> SUFFICES ASSUME r.kind \in Reads, Busy(task[t]) PROVE FALSE
        OBVIOUS
      <3>1. task[t].kind # "sample"
        BY DEF Current, Unsampled
      <3>2. billing_fetch_lock = t /\ billing_fetch_lock = u
        BY <2>1, <3>1 DEF SessionsInv, Basic, LockHeld
      <3> QED  BY <2>1, <3>2 DEF Reads
    <2> QED  BY <2>1, <2>2, <2>3
  <1>4. ReadIsCurrent'
    BY DEF Current, ReadIsCurrent
  <1> QED  BY <1>1, <1>2, <1>3, <1>4 DEF Current

\* A dashboard that is not the account's is left for a login.
LEMMA ReuseKeeps ==
  ASSUME SessionsInv, NEW t \in Tasks, Reuse(t)
  PROVE  SessionsInv'
  <1>1. PICK r : /\ task' = [task EXCEPT ![t] = r]
                 /\ r \in TaskRecord
                 /\ r.kind = task[t].kind /\ r.account = task[t].account /\ r.for = task[t].for
                 /\ r.vpn = task[t].vpn /\ r.data = task[t].data /\ r.sent = task[t].sent
                 /\ \/ Reusable(t) /\ r.phase = "open" /\ r.session = task[t].session /\ r.session # NoSession
                    \/ r.phase = "login" /\ r.session = NoSession
    <2>0. task[t].session # NoSession
      BY FitsNow DEF Fits, Reuse
    <2>1. [task[t] EXCEPT !.phase = "open"] \in TaskRecord
      BY FitsNow DEF TaskRecord, Phases
    <2>2. [task[t] EXCEPT !.phase = "login", !.session = NoSession] \in TaskRecord
      BY FitsNow DEF TaskRecord, Phases
    <2>3. CASE Reusable(t) /\ task' = [task EXCEPT ![t].phase = "open"]
      <3> WITNESS [task[t] EXCEPT !.phase = "open"]
      <3> QED  BY <2>0, <2>1, <2>3, FitsNow DEF TaskRecord, SessionsInv, Basic, TasksFit
    <2>4. CASE task' = [task EXCEPT ![t].phase = "login", ![t].session = NoSession]
      <3> WITNESS [task[t] EXCEPT !.phase = "login", !.session = NoSession]
      <3> QED  BY <2>2, <2>4, FitsNow DEF TaskRecord, SessionsInv, Basic, TasksFit
    <2> QED  BY <2>3, <2>4 DEF Reuse
  <1>2. Fits(t, r)
    BY <1>1, FitsNow DEF Fits, Reuse, Busy
  <1>3. Basic' /\ task'[t] = r /\ \A u \in Tasks \ {t} : task'[u] = task[u]
    BY <1>1, <1>2, TaskChanges DEF SessionsInv, Basic, StoresTyped, Reuse, Busy, environment
  <1>4. Upstream'
    <2>1. Busy(r) => Busy(task[t])
      BY DEF Busy, Reuse
    <2>2. t \notin mixed => r.data \in {NoAccount, r.account}
      BY <1>1 DEF SessionsInv, Upstream, OwnOrMixed
    <2>3. upstream' = upstream /\ mixed' = mixed /\ monitoring' = monitoring
      BY DEF Reuse, environment
    <2>4. r.phase = "open" /\ r.session.vpn => upstream = r.account
      BY <1>1 DEF Reusable, Owner
    <2> QED  BY <1>1, <1>2, <1>3, <2>1, <2>2, <2>3, <2>4, UpstreamChanges
  <1>5. ~monitoring' => Current'
    <2>1. Busy(task[t]) /\ task[t].phase # "written"
      BY DEF Busy, Reuse
    <2>2. ASSUME Current PROVE r.session # NoSession /\ r.kind \in Reads => r.session.since = written[r.account]
      BY <1>1, <2>2 DEF Current, ReadIsCurrent
    <2> QED  BY <1>1, <1>3, <2>1, <2>2, CurrentChanges DEF SessionsInv, Reuse, environment
  <1> QED  BY <1>3, <1>4, <1>5 DEF SessionsInv

\* A login that is still open through the WebVPN is the account's, or is ended.
LEMMA FindLoginKeeps ==
  ASSUME SessionsInv, NEW t \in Tasks, FindLogin(t)
  PROVE  SessionsInv'
  <1>1. task[t].account \in Accounts /\ task[t].for \in Versions /\ task[t].vpn \in BOOLEAN /\ Busy(task[t])
    BY FitsNow DEF Fits, TaskRecord, FindLogin, Busy
  <1>2. /\ New(t) \in Pooled /\ New(t) # NoSession /\ New(t).for = task[t].for /\ New(t).vpn = task[t].vpn
        /\ New(t).since = written[task[t].account]
    BY <1>1, SessionsAssumption DEF New, Pooled, SessionsInv, Basic, StoresTyped, NoSession, Versions
  <1>3. PICK r : /\ task' = [task EXCEPT ![t] = r]
                 /\ r \in TaskRecord
                 /\ r.kind = task[t].kind /\ r.account = task[t].account /\ r.for = task[t].for
                 /\ r.vpn = task[t].vpn /\ r.data = task[t].data /\ r.sent = task[t].sent
                 /\ \/ task[t].vpn /\ upstream = task[t].account /\ r.phase = "open" /\ r.session = New(t)
                       /\ upstream' = upstream
                    \/ r.phase = "form" /\ r.session = NoSession
                       /\ upstream' = (IF task[t].vpn THEN NoAccount ELSE upstream)
    <2>1. [task[t] EXCEPT !.phase = "open", !.session = New(t)] \in TaskRecord
      BY <1>2, FitsNow DEF TaskRecord, Phases
    <2>2. [task[t] EXCEPT !.phase = "form"] \in TaskRecord /\ task[t].session = NoSession
      BY FitsNow DEF TaskRecord, Phases, Fits, FindLogin
    <2>3. CASE task[t].vpn /\ upstream = task[t].account
      <3> WITNESS [task[t] EXCEPT !.phase = "open", !.session = New(t)]
      <3> QED  BY <2>1, <2>3, FitsNow DEF TaskRecord, SessionsInv, Basic, TasksFit, FindLogin
    <2>4. CASE ~(task[t].vpn /\ upstream = task[t].account)
      <3> WITNESS [task[t] EXCEPT !.phase = "form"]
      <3> QED  BY <2>2, <2>4, FitsNow DEF TaskRecord, SessionsInv, Basic, TasksFit, FindLogin
    <2> QED  BY <2>3, <2>4
  <1>4. Fits(t, r) /\ Busy(r)
    BY <1>1, <1>2, <1>3, FitsNow DEF Fits, FindLogin, Busy
  <1>5. Basic' /\ task'[t] = r /\ \A u \in Tasks \ {t} : task'[u] = task[u]
    BY <1>1, <1>3, <1>4, TaskChanges DEF SessionsInv, Basic, StoresTyped, FindLogin, environment
  <1>6. Upstream'
    BY <1>1, <1>2, <1>3, <1>4, <1>5, UpstreamChanges, FitsNow
       DEF SessionsInv, Upstream, OwnOrMixed, FindLogin, environment
  <1>7. ~monitoring' => Current'
    <2>1. r.session # NoSession => r.session.since = written[r.account]
      BY <1>2, <1>3, FitsNow DEF Fits, FindLogin
    <2> QED  BY <1>1, <1>3, <1>5, <2>1, CurrentChanges DEF SessionsInv, FindLogin, environment
  <1> QED  BY <1>5, <1>6, <1>7 DEF SessionsInv

\* After the post the server is logged in to the account.
LEMMA LogInKeeps ==
  ASSUME SessionsInv, NEW t \in Tasks, LogIn(t)
  PROVE  SessionsInv'
  <1>1. task[t].account \in Accounts /\ task[t].for \in Versions /\ task[t].vpn \in BOOLEAN /\ Busy(task[t])
    BY FitsNow DEF Fits, TaskRecord, LogIn, Busy
  <1>2. /\ New(t) \in Pooled /\ New(t) # NoSession /\ New(t).for = task[t].for /\ New(t).vpn = task[t].vpn
        /\ New(t).since = written[task[t].account]
    BY <1>1, SessionsAssumption DEF New, Pooled, SessionsInv, Basic, StoresTyped, NoSession, Versions
  <1> DEFINE r == [task[t] EXCEPT !.phase = "open", !.session = New(t)]
  <1>3. /\ task' = [task EXCEPT ![t] = r] /\ r \in TaskRecord
        /\ r.kind = task[t].kind /\ r.account = task[t].account /\ r.for = task[t].for
        /\ r.vpn = task[t].vpn /\ r.data = task[t].data /\ r.sent = task[t].sent
        /\ r.phase = "open" /\ r.session = New(t)
    BY <1>2, FitsNow DEF TaskRecord, Phases, LogIn, SessionsInv, Basic, TasksFit
  <1> HIDE DEF r
  <1>4. Fits(t, r) /\ Busy(r)
    BY <1>1, <1>2, <1>3, FitsNow DEF Fits, LogIn, Busy
  <1>5. Basic' /\ task'[t] = r /\ \A u \in Tasks \ {t} : task'[u] = task[u]
    BY <1>1, <1>3, <1>4, TaskChanges DEF SessionsInv, Basic, StoresTyped, LogIn, environment
  <1>6. Upstream'
    BY <1>1, <1>2, <1>3, <1>4, <1>5, UpstreamChanges DEF SessionsInv, Upstream, OwnOrMixed, LogIn, environment
  <1>7. ~monitoring' => Current'
    <2>1. pool' = pool /\ written' = written /\ monitoring' = monitoring /\ task[t].phase # "written"
      BY DEF LogIn, environment
    <2>2. r.session.since = written[r.account]
      BY <1>2, <1>3
    <2> QED  BY <1>1, <1>3, <1>5, <2>1, <2>2, CurrentChanges DEF SessionsInv
  <1> QED  BY <1>5, <1>6, <1>7 DEF SessionsInv

\* A read takes the session of its account with it; that of other credentials is dropped.
LEMMA AcquireKeeps ==
  ASSUME SessionsInv, NEW t \in Tasks, Acquire(t)
  PROVE  SessionsInv'
  <1>1. task[t].account \in Accounts /\ task[t].for \in Versions /\ task[t].vpn \in BOOLEAN /\ Busy(task[t])
    BY FitsNow DEF Fits, TaskRecord, Acquire, Busy
  <1> DEFINE a == task[t].account
             taken == Take(a, task[t].for, task[t].vpn)
             pooled == task[t].kind \in Reads
             next == IF pooled /\ taken # NoSession THEN "reusing" ELSE "login"
             session == IF pooled THEN taken ELSE NoSession
             r == [task[t] EXCEPT !.phase = next, !.session = session]
  <1>2. /\ session \in Pooled \cup {NoSession}
        /\ session # NoSession <=> next = "reusing"
        /\ session # NoSession => /\ pooled /\ session = pool[a]
                                  /\ session.for = task[t].for /\ session.vpn = task[t].vpn
        /\ next \in {"reusing", "login"}
    BY <1>1 DEF Take, SessionsInv, Basic, StoresTyped
  <1>3. pool' = IF pooled THEN Removed(a) ELSE pool
    BY DEF Acquire
  <1>4. task' = [task EXCEPT ![t] = r]
    BY DEF Acquire, SessionsInv, Basic, TasksFit
  <1> HIDE DEF next, session, pooled
  <1>5. /\ r \in TaskRecord /\ r.kind = task[t].kind /\ r.account = a /\ r.for = task[t].for
        /\ r.vpn = task[t].vpn /\ r.data = task[t].data /\ r.sent = task[t].sent
        /\ r.phase = next /\ r.session = session
    BY <1>2, FitsNow DEF TaskRecord, Phases
  <1> HIDE DEF r
  <1>6. Fits(t, r) /\ Busy(r)
    BY <1>1, <1>2, <1>5, FitsNow DEF Fits, Acquire, Busy
  <1>7. StoresTyped'
    BY <1>3 DEF SessionsInv, Basic, StoresTyped, Acquire, environment, Removed
  <1>8. Basic' /\ task'[t] = r /\ \A u \in Tasks \ {t} : task'[u] = task[u]
    BY <1>1, <1>4, <1>5, <1>6, <1>7, TaskChanges DEF SessionsInv, Acquire
  <1>9. Upstream'
    <2>1. r.phase # "open" /\ r.phase # "called"
      BY <1>2, <1>5
    <2> QED  BY <1>1, <1>5, <1>6, <1>8, <2>1, UpstreamChanges
          DEF SessionsInv, Upstream, OwnOrMixed, Acquire, environment
  <1>10. ~monitoring' => Current'
    <2> SUFFICES ASSUME ~monitoring PROVE Current'
      BY DEF Acquire, environment
    <2>1. \A b \in Accounts : pool'[b] \in {pool[b], NoSession}
      BY <1>3 DEF Removed, SessionsInv, Basic, StoresTyped
    <2>2. session # NoSession => session.since = written[a]
      <3> SUFFICES ASSUME session # NoSession PROVE pool[a].since = written[a]
        BY <1>2
      <3>1. ~\E u \in Tasks : task[u].phase = "written" /\ task[u].kind = "disconnect" /\ task[u].account = a
        <4> SUFFICES ASSUME NEW u \in Tasks, task[u].phase = "written", task[u].kind = "disconnect" PROVE FALSE
          OBVIOUS
        <4>1. billing_fetch_lock = u
          BY DEF SessionsInv, Basic, LockHeld, Busy
        <4>2. task[t].kind # "sample"
          BY <1>1 DEF SessionsInv, Current, Unsampled
        <4> QED  BY <1>1, <4>1, <4>2 DEF SessionsInv, Basic, LockHeld, Acquire
      <3> QED  BY <1>1, <1>2, <3>1 DEF SessionsInv, Current, PoolIsCurrent
    <2> QED  BY <1>1, <1>5, <1>8, <2>1, <2>2, CurrentChanges DEF SessionsInv, Acquire, environment
  <1> QED  BY <1>8, <1>9, <1>10 DEF SessionsInv

-----------------------------------------------------------------------------
(* The end of a task *)

LEMMA LeavesKeeps ==
  ASSUME SessionsInv, NEW t \in Tasks, NEW phase \in {"done", "stopped", "lost"}, Leaves(t, phase),
         task[t].kind # "none", phase = "stopped" => ~task[t].sent,
         \A b \in Accounts : pool'[b] \in {pool[b], NoSession}, pool' \in [Accounts -> Pooled \cup {NoSession}],
         task[t].kind = "disconnect" /\ task[t].phase = "written" => pool'[task[t].account] = NoSession,
         upstream' = upstream \/ (task[t].vpn /\ Busy(task[t])), upstream' \in Accounts \cup {NoAccount},
         credentials' = credentials, written' = written, monitoring' = monitoring, mixed' = mixed
  PROVE  SessionsInv'
  <1> DEFINE r == Over(t, phase)
  <1>1. /\ Fits(t, r) /\ ~Busy(r) /\ r.kind = task[t].kind /\ r.session = NoSession
        /\ r.data = task[t].data /\ r.account = task[t].account /\ r.phase = phase
    BY OverFits, FitsNow
  <1>2. task' = [task EXCEPT ![t] = r]
    BY DEF Leaves
  <1> HIDE DEF r
  <1>3. \/ billing_fetch_lock' = billing_fetch_lock
        \/ billing_fetch_lock = t /\ billing_fetch_lock' = NoOne
    BY DEF Leaves
  <1>4. StoresTyped'
    BY <1>3 DEF SessionsInv, Basic, StoresTyped
  <1>5. Basic' /\ task'[t] = r /\ \A u \in Tasks \ {t} : task'[u] = task[u]
    BY <1>1, <1>2, <1>3, <1>4, TaskChanges DEF SessionsInv
  <1>6. Upstream'
    <2>1. (t \notin mixed => r.data \in {NoAccount, r.account}) /\ r.phase \notin {"open", "called"}
      BY <1>1 DEF SessionsInv, Upstream, OwnOrMixed
    <2>2. r.vpn => task[t].vpn
      BY <1>1 DEF r, Over, Fits, TaskRecord
    <2> QED  BY <1>1, <1>5, <2>1, <2>2, UpstreamChanges
  <1>7. ~monitoring' => Current'
    <2>1. ASSUME Current PROVE Current'
      BY <1>1, <1>5, <2>1, CurrentChanges
    <2> QED  BY <2>1 DEF SessionsInv
  <1> QED  BY <1>5, <1>6, <1>7 DEF SessionsInv

LEMMA FailKeeps ==
  ASSUME SessionsInv, NEW t \in Tasks, Fail(t)
  PROVE  SessionsInv'
  <1>1. Busy(task[t]) /\ task[t].kind # "none" /\ task[t].account \in Accounts /\ task[t].phase # "written"
    BY FitsNow DEF Fits, KindOf, Busy, Fail
  <1>2. \A b \in Accounts : pool'[b] \in {pool[b], NoSession}
    BY DEF Fail, Removed, SessionsInv, Basic, StoresTyped
  <1>3. pool' \in [Accounts -> Pooled \cup {NoSession}]
    BY DEF Fail, Removed, SessionsInv, Basic, StoresTyped
  <1>4. Leaves(t, "lost") /\ UNCHANGED <<credentials, monitoring, upstream, written, mixed>>
    BY DEF Fail, environment
  <1>5. upstream' \in Accounts \cup {NoAccount}
    BY <1>4 DEF SessionsInv, Basic, StoresTyped
  <1> QED  BY <1>1, <1>2, <1>3, <1>4, <1>5, LeavesKeeps

LEMMA TimesOutKeeps ==
  ASSUME SessionsInv, NEW t \in Tasks, TimesOut(t)
  PROVE  SessionsInv'
  <1>1. task[t].kind \notin {"none", "disconnect"}
    BY DEF TimesOut, Reads
  <1>2. /\ Leaves(t, "lost") /\ UNCHANGED <<credentials, monitoring, upstream, written, pool, mixed>>
        /\ pool \in [Accounts -> Pooled \cup {NoSession}] /\ upstream \in Accounts \cup {NoAccount}
    BY DEF TimesOut, environment, SessionsInv, Basic, StoresTyped
  <1> QED  BY <1>1, <1>2, LeavesKeeps

\* A write is stopped before its first request only.
LEMMA StopKeeps ==
  ASSUME SessionsInv, NEW c \in Commands, Stop(c)
  PROVE  SessionsInv'
  <1>1. c \in Tasks
    BY DEF Tasks
  <1>2. task[c].kind # "none" /\ ~task[c].sent /\ ~(task[c].kind = "disconnect" /\ task[c].phase = "written")
    BY <1>1, FitsNow DEF Fits, KindOf, Stop, Stoppable, UnderWay, Busy
  <1>3. /\ Leaves(c, "stopped") /\ UNCHANGED <<credentials, monitoring, upstream, written, pool, mixed>>
        /\ pool \in [Accounts -> Pooled \cup {NoSession}] /\ upstream \in Accounts \cup {NoAccount}
    BY DEF Stop, environment, SessionsInv, Basic, StoresTyped
  <1> QED  BY <1>1, <1>2, <1>3, LeavesKeeps

LEMMA GivesUpKeeps ==
  ASSUME SessionsInv, NEW c \in Commands, GivesUp(c)
  PROVE  SessionsInv'
  <1>1. c \in Tasks
    BY DEF Tasks
  <1> QED  BY <1>1, LeavesKeeps DEF GivesUp, environment, SessionsInv, Basic, StoresTyped

\* A disconnection forgets the session of its account once it has logged out.
LEMMA LogOutKeeps ==
  ASSUME SessionsInv, NEW t \in Tasks, LogOut(t)
  PROVE  SessionsInv'
  <1>1. Busy(task[t]) /\ task[t].kind # "none" /\ task[t].account \in Accounts
    BY FitsNow DEF Fits, KindOf, Busy, LogOut
  <1>2. PICK answered \in BOOLEAN : Leaves(t, IF answered THEN "done" ELSE "lost")
    BY DEF LogOut
  <1>3. /\ \A b \in Accounts : pool'[b] \in {pool[b], NoSession}
        /\ pool' \in [Accounts -> Pooled \cup {NoSession}]
        /\ task[t].kind = "disconnect" => pool'[task[t].account] = NoSession
    BY <1>1 DEF LogOut, Removed, SessionsInv, Basic, StoresTyped
  <1>4. upstream' = upstream \/ task[t].vpn
    BY <1>1, FitsNow DEF LogOut, Fits, NoSession
  <1>5. upstream' \in Accounts \cup {NoAccount}
    BY DEF LogOut, SessionsInv, Basic, StoresTyped
  <1> QED  BY <1>1, <1>2, <1>3, <1>4, <1>5, LeavesKeeps DEF LogOut, environment

-----------------------------------------------------------------------------
(* Requests *)

\* A read puts its session into the pool, in place of one logged in meanwhile.
LEMMA ReadKeeps ==
  ASSUME SessionsInv, NEW t \in Tasks, Read(t)
  PROVE  SessionsInv'
  <1>1. /\ Busy(task[t]) /\ task[t].account \in Accounts /\ task[t].for \in Versions /\ task[t].kind \in Reads
        /\ task[t].kind # "none"
    BY FitsNow DEF Fits, Busy, Read, Reads
  <1>2. Owner(t) \in Accounts \cup {NoAccount}
    BY <1>1 DEF Owner, SessionsInv, Basic, StoresTyped
  <1> DEFINE o == Over(t, "done")
             r == [o EXCEPT !.data = Owner(t)]
  <1>3. /\ Fits(t, o) /\ ~Busy(o) /\ o.kind = task[t].kind /\ o.session = NoSession
        /\ o.account = task[t].account /\ o.phase = "done" /\ o.sent = task[t].sent /\ o.vpn = FALSE
    BY <1>1, OverFits, FitsNow
  <1>4. task' = [task EXCEPT ![t] = r]
    BY DEF Read
  <1> HIDE DEF o
  <1>5. /\ r \in TaskRecord /\ r.kind = o.kind /\ r.session = o.session /\ r.account = o.account
        /\ r.phase = o.phase /\ r.sent = o.sent /\ r.vpn = o.vpn /\ r.data = Owner(t) /\ r.for = o.for
    BY <1>2, <1>3 DEF Fits, TaskRecord
  <1> HIDE DEF r
  <1>6. Fits(t, r) /\ ~Busy(r)
    BY <1>3, <1>5 DEF Fits, Busy
  <1> DEFINE kept == [task[t].session EXCEPT !.for = task[t].for]
  <1>7. kept \in Pooled /\ kept.since = task[t].session.since
    BY <1>1, FitsNow DEF Fits, Read, TaskRecord, Pooled
  <1>8. /\ pool' = [pool EXCEPT ![task[t].account] = kept]
        /\ pool' \in [Accounts -> Pooled \cup {NoSession}]
    BY <1>1, <1>7 DEF Read, Kept, SessionsInv, Basic, StoresTyped
  <1> HIDE DEF kept
  <1>9. \/ billing_fetch_lock' = billing_fetch_lock
        \/ billing_fetch_lock = t /\ billing_fetch_lock' = NoOne
    BY DEF Read
  <1>10. UNCHANGED <<credentials, monitoring, upstream, written, mixed>>
    BY DEF Read, environment
  <1>11. StoresTyped'
    BY <1>8, <1>9, <1>10 DEF SessionsInv, Basic, StoresTyped
  <1>12. Basic' /\ task'[t] = r /\ \A u \in Tasks \ {t} : task'[u] = task[u]
    BY <1>4, <1>6, <1>9, <1>11, TaskChanges DEF SessionsInv
  <1>13. Upstream'
    <2>1. t \notin mixed => Owner(t) \in {NoAccount, task[t].account}
      BY DEF Owner, SessionsInv, Upstream, OpenUpstream, Read
    <2> QED  BY <1>3, <1>5, <1>6, <1>10, <1>12, <2>1, UpstreamChanges
  <1>14. ~monitoring' => Current'
    <2> SUFFICES ASSUME Current, ~monitoring PROVE Current'
      BY <1>10 DEF SessionsInv
    <2>1. task[t].session # NoSession
      BY FitsNow DEF Fits, Read
    <2>2. kept.since = written[task[t].account]
      BY <1>1, <1>7, <2>1 DEF Current, ReadIsCurrent
    <2>3. \A b \in Accounts : pool'[b] = pool[b] \/ pool'[b].since = written[b]
      BY <1>8, <2>2 DEF SessionsInv, Basic, StoresTyped
    <2> QED  BY <1>1, <1>3, <1>5, <1>6, <1>10, <1>12, <2>3, CurrentChanges DEF Reads
  <1> QED  BY <1>12, <1>13, <1>14 DEF SessionsInv

\* A write changes what its owner's pages show; whoever holds a session that is older then holds it in vain.
LEMMA WriteKeeps ==
  ASSUME SessionsInv, NEW t \in Tasks, Write(t)
  PROVE  SessionsInv'
  <1>1. /\ Busy(task[t]) /\ task[t].account \in Accounts /\ task[t].kind \in {"action", "disconnect"}
        /\ Owner(t) \in Accounts
    BY FitsNow DEF Fits, Busy, Write, Owner, SessionsInv, Basic, StoresTyped
  <1>2. billing_fetch_lock = t
    BY <1>1 DEF SessionsInv, Basic, LockHeld
  <1> DEFINE r == [task[t] EXCEPT !.phase = "written", !.sent = TRUE, !.data = Owner(t)]
  <1>3. task' = [task EXCEPT ![t] = r]
    BY DEF Write, SessionsInv, Basic, TasksFit
  <1>4. /\ r \in TaskRecord /\ r.kind = task[t].kind /\ r.session = task[t].session /\ r.account = task[t].account
        /\ r.phase = "written" /\ r.sent = TRUE /\ r.vpn = task[t].vpn /\ r.data = Owner(t) /\ r.for = task[t].for
    BY <1>1, FitsNow DEF TaskRecord, Phases
  <1> HIDE DEF r
  <1>5. Fits(t, r) /\ Busy(r)
    BY <1>1, <1>4, FitsNow DEF Fits, Busy, Write
  <1>6. /\ written' \in [Accounts -> Nat] /\ \A b \in Accounts : b # Owner(t) => written'[b] = written[b]
        /\ UNCHANGED <<credentials, monitoring, pool, billing_fetch_lock, upstream, mixed>>
    <2>1. PICK carried \in BOOLEAN :
             written' = IF carried THEN [written EXCEPT ![Owner(t)] = @ + 1] ELSE written
      BY DEF Write
    <2> QED  BY <1>1, <2>1 DEF Write, environment, SessionsInv, Basic, StoresTyped
  <1>7. StoresTyped'
    BY <1>6 DEF SessionsInv, Basic, StoresTyped
  <1>8. Basic' /\ task'[t] = r /\ \A u \in Tasks \ {t} : task'[u] = task[u]
    BY <1>1, <1>3, <1>4, <1>5, <1>6, <1>7, TaskChanges DEF SessionsInv
  <1>9. t \notin mixed => Owner(t) = task[t].account
    BY DEF Owner, SessionsInv, Upstream, OpenUpstream, Write
  <1>10. Upstream'
    BY <1>1, <1>4, <1>5, <1>6, <1>8, <1>9, UpstreamChanges
  <1>11. ~monitoring' => Current'
    <2> SUFFICES ASSUME Current, ~monitoring PROVE Current'
      BY <1>6 DEF SessionsInv
    <2>1. Owner(t) = task[t].account
      BY <1>9 DEF SessionsInv, Upstream, MetSamples
    <2>2. \A u \in Tasks \ {t} : ~Busy(task[u])
      BY <1>2 DEF SessionsInv, Basic, LockHeld, Current, Unsampled
    <2>3. PoolIsCurrent'
      <3> SUFFICES ASSUME NEW b \in Accounts, pool'[b] # NoSession, pool'[b].since # written'[b]
                   PROVE  task'[t].phase = "written" /\ task'[t].kind = "disconnect" /\ task'[t].account = b
        BY DEF PoolIsCurrent
      <3>1. b = task[t].account
        <4> SUFFICES ASSUME b # task[t].account PROVE FALSE
          OBVIOUS
        <4>1. pool[b] # NoSession /\ pool[b].since # written[b]
          BY <1>6, <2>1
        <4>2. PICK u \in Tasks : task[u].phase = "written" /\ task[u].account = b
          BY <4>1 DEF Current, PoolIsCurrent
        <4> QED  BY <2>2, <4>2 DEF Busy
      <3>2. task[t].kind # "action"
        BY <1>1, <1>6, <3>1 DEF Current, ActionEmptiesPool
      <3> QED  BY <1>1, <1>4, <1>8, <3>1, <3>2
    <2>4. ActionEmptiesPool'
      BY <1>1, <1>4, <1>6, <1>8 DEF Current, ActionEmptiesPool
    <2>5. ReadIsCurrent'
      <3>1. \A u \in Tasks \ {t} : task[u].session = NoSession
        BY <2>2, FitsNow DEF Fits, Busy
      <3> QED  BY <1>1, <1>4, <1>8, <3>1 DEF ReadIsCurrent, Reads
    <2>6. Unsampled'
      BY <1>1, <1>4, <1>8 DEF Current, Unsampled
    <2> QED  BY <2>3, <2>4, <2>5, <2>6 DEF Current
  <1> QED  BY <1>8, <1>10, <1>11 DEF SessionsInv

LEMMA TaskStepKeeps ==
  ASSUME SessionsInv, NEW t \in Tasks, TaskStep(t)
  PROVE  SessionsInv'
  BY AcquireKeeps, ReuseKeeps, FindLoginKeeps, LogInKeeps, ReadKeeps, FailKeeps, TimesOutKeeps, WriteKeeps,
     LogOutKeeps DEF TaskStep

-----------------------------------------------------------------------------
(* The beginning of a task, and the rest of the app *)

\* Away from its place in the record, a task that begins is one of its account with today's credentials.
LEMMA CallKeeps ==
  ASSUME SessionsInv, NEW c \in Commands, Call(c)
  PROVE  SessionsInv'
  <1>1. c \in Tasks /\ c \notin Accounts
    BY SessionsAssumption DEF Tasks
  <1>2. PICK a \in Accounts, k \in {"read", "action", "disconnect"} :
           task' = [Interrupted EXCEPT ![c] = [Away EXCEPT !.phase = "called", !.kind = k, !.account = a]]
    BY DEF Call
  <1> DEFINE r == [Away EXCEPT !.phase = "called", !.kind = k, !.account = a]
  <1>3. /\ r \in TaskRecord /\ r.phase = "called" /\ r.kind = k /\ r.account = a /\ r.session = NoSession
        /\ r.vpn = FALSE /\ r.data = NoAccount /\ r.sent = FALSE
    BY DEF Away, TaskRecord, Phases, Kinds
  <1>4. Fits(c, r) /\ ~Busy(r)
    BY <1>3 DEF Fits, Busy, KindOf
  <1> DEFINE s == Interrupted
  <1>5. /\ s = [u \in Tasks |-> s[u]]
        /\ \A u \in Tasks : s[u] = task[u] \/ (s[u] = Over(u, "lost") /\ task[u].kind = "sample")
    <2>1. \A u \in Tasks : s[u] = IF task[u].kind = "sample" /\ UnderWay(u) THEN Over(u, "lost") ELSE task[u]
      BY DEF Interrupted
    <2>2. s = [u \in Tasks |-> s[u]]
      BY DEF Interrupted
    <2> QED  BY <2>1, <2>2
  <1>6. \A u \in Tasks : /\ Fits(u, s[u]) /\ s[u].kind = task[u].kind /\ s[u].account = task[u].account
                         /\ s[u].data = task[u].data
                         /\ s[u] = task[u] \/ (~Busy(s[u]) /\ s[u].session = NoSession /\ s[u].phase = "lost")
    <2> SUFFICES ASSUME NEW u \in Tasks, s[u] = Over(u, "lost"), task[u].kind = "sample"
                 PROVE  /\ Fits(u, s[u]) /\ s[u].kind = task[u].kind /\ s[u].account = task[u].account
                        /\ s[u].data = task[u].data /\ ~Busy(s[u]) /\ s[u].session = NoSession
                        /\ s[u].phase = "lost"
      BY <1>5, FitsNow
    <2> QED  BY FitsNow, OverFits
  <1> HIDE DEF r, s
  <1>7. /\ task' = [u \in Tasks |-> task'[u]] /\ task'[c] = r /\ \A u \in Tasks \ {c} : task'[u] = s[u]
    BY <1>1, <1>2, <1>5 DEF r, s
  <1>8. TasksFit'
    BY <1>4, <1>6, <1>7 DEF TasksFit
  <1>9. mixed' = mixed \ {c} /\ UNCHANGED <<credentials, pool, billing_fetch_lock, upstream, monitoring, written>>
    BY DEF Call
  <1>10. Basic'
    BY <1>4, <1>6, <1>7, <1>8, <1>9 DEF SessionsInv, Basic, StoresTyped, LockHeld
  <1>11. Upstream'
    <2>1. Apart' /\ MetSamples'
      <3>1. \A u \in Tasks : Through(task'[u]) => u # c /\ Through(task[u])
        BY <1>4, <1>6, <1>7 DEF Through
      <3> QED  BY <1>9, <3>1 DEF SessionsInv, Upstream, Apart, MetSamples
    <2>2. OpenUpstream'
      BY <1>3, <1>6, <1>7, <1>9 DEF SessionsInv, Upstream, OpenUpstream, Busy
    <2>3. OwnOrMixed'
      BY <1>3, <1>6, <1>7, <1>9 DEF SessionsInv, Upstream, OwnOrMixed
    <2>4. NothingYet'
      BY <1>3, <1>6, <1>7 DEF SessionsInv, Upstream, NothingYet
    <2> QED  BY <1>9, <2>1, <2>2, <2>3, <2>4 DEF SessionsInv, Upstream
  <1>12. ~monitoring' => Current'
    <2> SUFFICES ASSUME Current PROVE Current'
      BY <1>9 DEF SessionsInv
    <2>1. \A u \in Tasks : s[u] = task[u]
      BY <1>5 DEF Current, Unsampled, Interrupted, UnderWay, Busy, s
    <2>2. ~Busy(task[c]) 
      BY DEF Call, AtRest, Busy
    <2>3. Unsampled' /\ ActionEmptiesPool' /\ ReadIsCurrent'
      BY <1>3, <1>4, <1>7, <1>9, <2>1 DEF Current, Unsampled, ActionEmptiesPool, ReadIsCurrent
    <2>4. PoolIsCurrent'
      BY <1>7, <1>9, <2>1, <2>2 DEF Current, PoolIsCurrent, Busy
    <2> QED  BY <2>3, <2>4 DEF Current
  <1> QED  BY <1>10, <1>11, <1>12 DEF SessionsInv

\* A task begins while nobody has the lock: it takes the lock, or is a sample.
LEMMA BeginKeeps ==
  ASSUME SessionsInv, NEW t \in Tasks, NEW r, Fits(t, r), r.phase = "resolved", task' = [task EXCEPT ![t] = r],
         billing_fetch_lock = NoOne, ~Busy(task[t]),
         \/ billing_fetch_lock' = t /\ r.kind # "sample"
         \/ billing_fetch_lock' = NoOne /\ r.kind = "sample" /\ monitoring,
         r.data = NoAccount, Meets(t, r.vpn) \/ (mixed' = mixed /\ ~r.vpn),
         \A b \in Accounts : pool'[b] \in {pool[b], NoSession}, pool' \in [Accounts -> Pooled \cup {NoSession}],
         r.kind = "action" => pool'[r.account] = NoSession,
         UNCHANGED <<credentials, upstream, written, monitoring>>
  PROVE  SessionsInv'
  <1>1. StoresTyped'
    BY DEF SessionsInv, Basic, StoresTyped
  <1>2. Basic' /\ task'[t] = r /\ \A u \in Tasks \ {t} : task'[u] = task[u]
    BY <1>1, TaskChanges DEF SessionsInv
  <1>3. Busy(r) /\ r.session = NoSession
    BY DEF Busy, Fits
  <1>4. Upstream'
    <2> DEFINE others == {u \in Tasks \ {t} : Through(task[u])}
    <2>1. \/ r.vpn /\ others # {} /\ mixed' = mixed \cup others \cup {t}
          \/ ~(r.vpn /\ others # {}) /\ mixed' \in {mixed, mixed \ {t}}
      BY DEF Meets, UnderWay, Through, Busy
    <2>2. Apart'
      <3> SUFFICES ASSUME NEW u \in Tasks, NEW v \in Tasks, u # v, Through(task'[u]), Through(task'[v])
                   PROVE  u \in mixed' /\ v \in mixed'
        BY DEF Apart
      <3>1. CASE u # t /\ v # t
        BY <1>2, <2>1, <3>1 DEF SessionsInv, Upstream, Apart
      <3>2. CASE u = t \/ v = t
        BY <1>2, <2>1, <3>2 DEF Through
      <3> QED  BY <3>1, <3>2
    <2>3. MetSamples'
      <3>1. CASE monitoring
        BY <3>1 DEF MetSamples
      <3>2. CASE ~monitoring
        <4>1. others = {}
          BY <3>2, NoOneIsNoTask DEF SessionsInv, Basic, LockHeld, Current, Unsampled, Through
        <4> QED  BY <2>1, <3>2, <4>1 DEF SessionsInv, Upstream, MetSamples
      <3> QED  BY <3>1, <3>2
    <2>4. OpenUpstream' /\ OwnOrMixed' /\ NothingYet'
      BY <1>2, <2>1 DEF SessionsInv, Upstream, OpenUpstream, OwnOrMixed, NothingYet
    <2>5. mixed' \subseteq Tasks
      BY <2>1 DEF SessionsInv, Upstream
    <2> QED  BY <2>2, <2>3, <2>4, <2>5 DEF Upstream
  <1>5. ~monitoring' => Current'
    <2> SUFFICES ASSUME Current, ~monitoring PROVE Current'
      BY DEF SessionsInv
    <2>1. \A u \in Tasks : ~Busy(task[u])
      BY NoOneIsNoTask DEF SessionsInv, Basic, LockHeld, Current, Unsampled
    <2>2. Unsampled'
      BY <1>2, <2>1 DEF Unsampled
    <2>3. PoolIsCurrent'
      BY <1>2, <2>1 DEF Current, PoolIsCurrent, Busy
    <2>4. ActionEmptiesPool'
      BY <1>2, <2>1 DEF ActionEmptiesPool
    <2>5. ReadIsCurrent'
      BY <1>2, <1>3 DEF Current, ReadIsCurrent
    <2> QED  BY <2>2, <2>3, <2>4, <2>5 DEF Current
  <1> QED  BY <1>2, <1>4, <1>5 DEF SessionsInv

\* A command that gets its turn captures the credentials; a write forgets the session of its account.
LEMMA ResolveKeeps ==
  ASSUME SessionsInv, NEW c \in Commands, Resolve(c)
  PROVE  SessionsInv'
  <1>1. c \in Tasks /\ c \notin Accounts
    BY SessionsAssumption DEF Tasks
  <1>2. /\ task[c].kind \in {"read", "action", "disconnect"} /\ task[c].account \in Accounts
        /\ ~Busy(task[c]) /\ ~task[c].sent /\ task[c].phase # "written" /\ task[c].session = NoSession
    BY <1>1, FitsNow DEF Fits, Busy, Resolve, KindOf
  <1>3. UNCHANGED <<credentials, upstream, written, monitoring>>
    BY DEF Resolve, exceptWebVpn
  <1>4. upstream \in Accounts \cup {NoAccount} /\ pool \in [Accounts -> Pooled \cup {NoSession}]
    BY DEF SessionsInv, Basic, StoresTyped
  <1>5. ASSUME NEW phase \in {"stopped", "lost"}, Leaves(c, phase), pool' = pool, mixed' = mixed PROVE SessionsInv'
    BY <1>1, <1>2, <1>3, <1>4, <1>5, LeavesKeeps
  <1>6. ASSUME billing_fetch_lock' = c, NEW vpn \in BOOLEAN, Meets(c, vpn),
               pool' = IF task[c].kind = "action" THEN Removed(task[c].account) ELSE pool,
               task' = [task EXCEPT ![c].phase = "resolved", ![c].for = credentials[task[c].account], ![c].vpn = vpn]
        PROVE  SessionsInv'
    <2> DEFINE for == credentials[task[c].account]
               r == [task[c] EXCEPT !.phase = "resolved", !.for = for, !.vpn = vpn]
    <2>1. for \in Versions
      BY <1>2 DEF SessionsInv, Basic, StoresTyped
    <2>2. task' = [task EXCEPT ![c] = r]
      BY <1>1, <1>6 DEF SessionsInv, Basic, TasksFit
    <2> HIDE DEF for
    <2>3. /\ r \in TaskRecord /\ r.kind = task[c].kind /\ r.account = task[c].account /\ r.phase = "resolved"
          /\ r.session = NoSession /\ r.data = task[c].data /\ r.sent = FALSE /\ r.for = for /\ r.vpn = vpn
      BY <1>1, <1>2, <2>1, FitsNow DEF TaskRecord, Phases
    <2> HIDE DEF r
    <2>4. Fits(c, r)
      BY <1>1, <1>2, <2>1, <2>3 DEF Fits, Busy, KindOf
    <2>5. r.data = NoAccount
      BY <1>1, <2>3 DEF SessionsInv, Upstream, NothingYet, Resolve
    <2>6. /\ \A b \in Accounts : pool'[b] \in {pool[b], NoSession}
          /\ pool' \in [Accounts -> Pooled \cup {NoSession}]
          /\ r.kind = "action" => pool'[r.account] = NoSession
      BY <1>2, <1>4, <1>6, <2>3 DEF Removed
    <2>7. billing_fetch_lock = NoOne
      BY DEF Resolve, Unlocked
    <2> QED  BY <1>1, <1>2, <1>3, <1>6, <2>2, <2>3, <2>4, <2>5, <2>6, <2>7, BeginKeeps
  <1> QED  BY <1>5, <1>6 DEF Resolve

\* The month-end check has the lock to itself; a sample leaves it, and goes through the WebVPN where it may.
LEMMA CheckKeeps ==
  ASSUME SessionsInv, Check
  PROVE  SessionsInv'
  <1>1. "check" \in Tasks /\ "check" \notin Accounts /\ "check" \notin Commands
    BY SessionsAssumption DEF Tasks
  <1>2. PICK a \in Accounts :
           task' = [task EXCEPT !["check"] = [Away EXCEPT !.phase = "resolved", !.kind = "check",
                                              !.account = a, !.for = credentials[a]]]
    BY DEF Check
  <1> DEFINE r == [Away EXCEPT !.phase = "resolved", !.kind = "check", !.account = a, !.for = credentials[a]]
  <1>3. credentials[a] \in Versions
    BY DEF SessionsInv, Basic, StoresTyped
  <1>4. /\ r \in TaskRecord /\ r.phase = "resolved" /\ r.kind = "check" /\ r.account = a /\ r.session = NoSession
        /\ r.data = NoAccount /\ r.sent = FALSE /\ r.for = credentials[a] /\ r.vpn = FALSE
    BY <1>3 DEF Away, TaskRecord, Phases, Kinds
  <1>5. task' = [task EXCEPT !["check"] = r]
    BY <1>2
  <1> HIDE DEF r
  <1>6. Fits("check", r)
    BY <1>1, <1>3, <1>4 DEF Fits, Busy, KindOf
  <1>7. /\ pool \in [Accounts -> Pooled \cup {NoSession}] /\ ~Busy(task["check"]) /\ billing_fetch_lock = NoOne
        /\ billing_fetch_lock' = "check" /\ UNCHANGED <<credentials, pool, upstream, written, monitoring, mixed>>
    BY DEF SessionsInv, Basic, StoresTyped, Check, AtRest, Busy, Unlocked
  <1> QED  BY <1>1, <1>4, <1>5, <1>6, <1>7, BeginKeeps

LEMMA SampleKeeps ==
  ASSUME SessionsInv, NEW a \in Accounts, Sample(a)
  PROVE  SessionsInv'
  <1>1. a \in Tasks /\ a \notin Commands
    BY SessionsAssumption DEF Tasks
  <1> DEFINE vpn == webvpn # "none"
             r == [Away EXCEPT !.phase = "resolved", !.kind = "sample", !.account = a, !.for = credentials[a],
                               !.vpn = vpn]
  <1>2. credentials[a] \in Versions
    BY DEF SessionsInv, Basic, StoresTyped
  <1>3. task' = [task EXCEPT ![a] = r]
    BY DEF Sample
  <1>4. monitoring /\ Meets(a, vpn)
    BY DEF Sample
  <1>5. vpn \in BOOLEAN
    OBVIOUS
  <1> HIDE DEF vpn
  <1>6. /\ r \in TaskRecord /\ r.phase = "resolved" /\ r.kind = "sample" /\ r.account = a /\ r.session = NoSession
        /\ r.data = NoAccount /\ r.sent = FALSE /\ r.for = credentials[a] /\ r.vpn = vpn
    BY <1>2, <1>5 DEF Away, TaskRecord, Phases, Kinds
  <1> HIDE DEF r
  <1>7. Fits(a, r)
    BY <1>1, <1>2, <1>6 DEF Fits, Busy, KindOf
  <1>8. /\ pool \in [Accounts -> Pooled \cup {NoSession}] /\ ~Busy(task[a]) /\ billing_fetch_lock = NoOne
        /\ UNCHANGED <<credentials, pool, upstream, written, monitoring, billing_fetch_lock>>
    BY DEF SessionsInv, Basic, StoresTyped, Sample, AtRest, Busy, Unlocked
  <1> QED  BY <1>1, <1>3, <1>4, <1>6, <1>7, <1>8, BeginKeeps

\* What empties the pool, or does not touch it, disturbs no task.
LEMMA RestKeeps ==
  ASSUME SessionsInv, UNCHANGED <<billing_fetch_lock, upstream, monitoring, written, task, mixed>>,
         credentials' \in [Accounts -> Versions], pool' \in {pool, Empty}
  PROVE  SessionsInv'
  <1>1. StoresTyped'
    BY DEF SessionsInv, Basic, StoresTyped, Empty
  <1>2. Basic'
    BY <1>1 DEF SessionsInv, Basic, TasksFit, LockHeld
  <1>3. Upstream'
    BY DEF SessionsInv, Upstream, Apart, MetSamples, OpenUpstream, OwnOrMixed, NothingYet
  <1>4. ~monitoring' => Current'
    <2> SUFFICES ASSUME Current PROVE Current'
      BY DEF SessionsInv
    <2>1. \A b \in Accounts : pool'[b] \in {pool[b], NoSession}
      BY DEF Empty
    <2>2. \A u \in Tasks : Busy(task[u]) => task[u].account \in Accounts
      BY FitsNow DEF Fits
    <2>3. PoolIsCurrent'
      BY <2>1 DEF Current, PoolIsCurrent
    <2>4. ActionEmptiesPool'
      BY <2>1, <2>2 DEF Current, ActionEmptiesPool
    <2> QED  BY <2>3, <2>4 DEF Current, Unsampled, ReadIsCurrent
  <1> QED  BY <1>2, <1>3, <1>4 DEF SessionsInv

LEMMA NextInv == SessionsInv /\ [Next]_vars => SessionsInv'
  <1> SUFFICES ASSUME SessionsInv, [Next]_vars PROVE SessionsInv'
    OBVIOUS
  <1>1. CASE UNCHANGED vars
    BY <1>1, RestKeeps DEF vars, SessionsInv, Basic, StoresTyped
  <1>2. ASSUME NEW a \in Accounts, ChangeCredentials(a) PROVE SessionsInv'
    <2>1. credentials' \in [Accounts -> Versions]
      BY <1>2, SessionsAssumption DEF ChangeCredentials, Versions, SessionsInv, Basic, StoresTyped
    <2> QED  BY <1>2, <2>1, RestKeeps DEF ChangeCredentials
  <1>3. CASE SetBackground \/ Destroy
    BY <1>3, RestKeeps DEF SetBackground, Destroy, SessionsInv, Basic, StoresTyped
  <1>4. ASSUME NEW c \in Commands, Call(c) \/ Resolve(c) \/ GivesUp(c) \/ Stop(c) PROVE SessionsInv'
    BY <1>4, CallKeeps, ResolveKeeps, GivesUpKeeps, StopKeeps
  <1>5. CASE Check \/ \E a \in Accounts : Sample(a)
    BY <1>5, CheckKeeps, SampleKeeps
  <1>6. CASE \E t \in Tasks : TaskStep(t)
    BY <1>6, TaskStepKeeps
  <1> QED  BY <1>1, <1>2, <1>3, <1>4, <1>5, <1>6 DEF Next

\* Whatever the calls and their order, tasks fit their records, who is under way holds the lock, and the
\* sessions through the WebVPN and in the pool are as current as they are said to be.
THEOREM SessionsInvariant == Spec => []SessionsInv
  BY InitInv, NextInv, PTL DEF Spec

\* The password and the VPN mode in use are those the session was logged in with (take, put).
THEOREM CurrentCredentialsAlways == Spec => []CurrentCredentials
  <1>1. SessionsInv => CurrentCredentials
    BY DEF SessionsInv, Basic, TasksFit, Fits, CurrentCredentials
  <1> QED  BY <1>1, SessionsInvariant, PTL

\* Nothing was sent by a call of which the user is told that it was stopped (run_mutation_to_completion).
THEOREM StoppedSentNothingAlways == Spec => []StoppedSentNothing
  <1>1. SessionsInv => StoppedSentNothing
    BY DEF SessionsInv, Basic, TasksFit, Fits, StoppedSentNothing
  <1> QED  BY <1>1, SessionsInvariant, PTL

\* No page of another account is read, and no other account changed, except by a task that met another
\* on its way through the WebVPN, which takes a sample (the dashboard is recognised, the lock is held).
THEOREM OwnPagesAlways == Spec => []OwnPages
  <1>1. SessionsInv => OwnPages
    BY DEF SessionsInv, Upstream, OwnOrMixed, MetSamples, OwnPages
  <1> QED  BY <1>1, SessionsInvariant, PTL

\* Without samples, no session that the pool keeps is older than a write that was carried out.
THEOREM NoSessionFromBeforeAWriteAlways == Spec => []NoSessionFromBeforeAWrite
  <1>1. SessionsInv => NoSessionFromBeforeAWrite
    <2> SUFFICES ASSUME SessionsInv, billing_fetch_lock = NoOne, ~monitoring,
                        NEW a \in Accounts, pool[a] # NoSession
                 PROVE  pool[a].since = written[a]
      BY DEF NoSessionFromBeforeAWrite
    <2>1. \A t \in Tasks : ~Busy(task[t])
      BY NoOneIsNoTask DEF SessionsInv, Basic, LockHeld, Current, Unsampled
    <2> QED  BY <2>1 DEF SessionsInv, Current, PoolIsCurrent, Busy
  <1> QED  BY <1>1, SessionsInvariant, PTL

=============================================================================
