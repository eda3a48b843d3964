----------------------------- MODULE WebVpnLogin -----------------------------
(***************************************************************************)
(* The login to the school's WebVPN (billing/webvpn.rs) and the images it  *)
(* may ask the user to read (captcha.rs).  One command at a time has the   *)
(* manager of the session; it visits the login page, may show an image and *)
(* wait for the answer, posts, and ends in a session or in a challenge by  *)
(* text message, which later commands answer, repeat or cancel.  Times are *)
(* ages, that grow together and stop where nothing looks further.          *)
(***************************************************************************)
EXTENDS Integers, Sequences

CONSTANTS
    VpnAccounts,
    Budget,                         \* 75 s of network time for a command
    PromptLimit,                    \* 120 s for an answer
    ChallengeLimit,                 \* 5 min for a challenge
    SendGap, SubmitGap,             \* 60 s and 3 s between requests of the same challenge
    MaxChallenges, MaxQueue, MaxStamp,  \* bounds: challenges, commands that wait, changes of the credentials
    MaxWaited                           \* bound: the time after which an image is not shown again

VARIABLES
    vpnStamp, bound,        \* the credentials; those the manager was bound to (credential_stamp)
    ready, pending,         \* the account of the manager's session; the manager's challenge
    queue,                  \* commands that wait for the manager
    login,                  \* the command that has it
    sent, submitted         \* ghosts: for each challenge, how long ago its last message was asked for and tried

manager == <<bound, ready, pending>>
ghosts == <<sent, submitted>>
vars == <<vpnStamp, manager, queue, login, ghosts>>

Long == 100                \* longer ago than anything looks, or never
NoChallenge == [id |-> 0, account |-> "none", left |-> 0, lastSend |-> Long, lastSubmit |-> Long, image |-> FALSE]
Nobody == [step |-> "none", kind |-> "begin", account |-> "none", tries |-> 0, progress |-> NoChallenge,
           elapsed |-> 0, waited |-> 0, prompt |-> 0, network |-> 0]
Kinds == {"begin", "send", "submit", "cancel"}
Challenges == DOMAIN sent
ChallengeRecord == [id : Nat, account : VpnAccounts \cup {"none"}, left : 0 .. ChallengeLimit, lastSend : Nat,
                    lastSubmit : Nat, image : BOOLEAN]

TypeOK ==
    /\ vpnStamp \in 0 .. MaxStamp /\ bound \in -1 .. MaxStamp /\ ready \in VpnAccounts \cup {"none"}
    /\ queue \in Seq([kind : Kinds, account : VpnAccounts \cup {"none"}, id : Nat]) /\ Len(queue) <= MaxQueue
    /\ login \in [step : {"none", "visit", "image", "prompt", "post", "finish"}, kind : Kinds,
                  account : VpnAccounts \cup {"none"}, tries : 0 .. 2, progress : ChallengeRecord, elapsed : Nat,
                  waited : Nat, prompt : 0 .. PromptLimit, network : 0 .. Budget]
    /\ sent \in Seq(Nat) /\ submitted \in Seq(Nat) /\ Len(sent) = Len(submitted)
    /\ pending \in ChallengeRecord /\ {pending.id, login.progress.id} \subseteq 0 .. Len(sent)

Init ==
    /\ vpnStamp = 0 /\ bound = -1 /\ ready = "none" /\ pending = NoChallenge
    /\ queue = <<>> /\ login = Nobody /\ sent = <<>> /\ submitted = <<>>

-----------------------------------------------------------------------------
(* The commands of the window *)

Call(r) == Len(queue) < MaxQueue /\ queue' = Append(queue, r)

Ask ==
    /\ \/ \E a \in VpnAccounts : Len(sent) < MaxChallenges /\ Call([kind |-> "begin", account |-> a, id |-> 0])
       \/ \E k \in Kinds \ {"begin"}, id \in Challenges : Call([kind |-> k, account |-> "none", id |-> id])
    /\ UNCHANGED <<vpnStamp, manager, login, ghosts>>

\* bind_credentials, of begin and verify: what was made before the credentials changed is cleared.
Binds(r) == r.kind # "cancel" /\ bound # vpnStamp
Kept(r) == IF Binds(r) THEN NoChallenge ELSE pending

\* verify: the challenge is the pending one, has time left, and its last request is long enough ago.
Verifiable(r, p) ==
    /\ p.id = r.id /\ p.left > 0
    /\ IF r.kind = "send" THEN p.lastSend >= SendGap ELSE p.lastSubmit >= SubmitGap

Granted(r) ==
    /\ login = Nobody /\ queue # <<>> /\ r = Head(queue) /\ queue' = Tail(queue)
    /\ IF Binds(r) THEN bound' = vpnStamp /\ ready' = "none" ELSE UNCHANGED <<bound, ready>>
    /\ UNCHANGED vpnStamp

Cancel(r) ==
    /\ r.kind = "cancel" /\ Granted(r)
    /\ pending' = IF pending.id = r.id THEN NoChallenge ELSE pending
    /\ UNCHANGED <<login, ghosts>>

Begin(r) ==
    /\ r.kind = "begin" /\ Granted(r) /\ pending' = NoChallenge
    /\ login' = [Nobody EXCEPT !.step = "visit", !.account = r.account]
    /\ UNCHANGED ghosts

Verify(r) ==
    LET p == Kept(r) IN
    /\ r.kind \in {"send", "submit"} /\ Granted(r)
    /\ IF ~Verifiable(r, p) THEN pending' = p /\ UNCHANGED <<login, ghosts>>
       ELSE /\ login' = [Nobody EXCEPT !.step = IF p.image THEN "image" ELSE "post", !.kind = r.kind,
                                       !.account = p.account]
            /\ IF r.kind = "send"
               THEN pending' = [p EXCEPT !.lastSend = 0] /\ sent' = [sent EXCEPT ![r.id] = 0] /\ UNCHANGED submitted
               ELSE pending' = [p EXCEPT !.lastSubmit = 0] /\ submitted' = [submitted EXCEPT ![r.id] = 0]
                    /\ UNCHANGED sent

Grant == queue # <<>> /\ LET r == Head(queue) IN Cancel(r) \/ Begin(r) \/ Verify(r)

-----------------------------------------------------------------------------
(* One login *)

Ends == login' = Nobody
Goes(step) == login' = [login EXCEPT !.step = step]

\* accept, after the account was found at /user/info.
Accept == pending' = NoChallenge /\ ready' = login.account /\ UNCHANGED bound /\ Ends

\* cas_captcha: a page of the school asks for an image or does not.
PageAsks == {"image", "post"}

\* The visitor's ticket: a session that still holds, the login page with an image or without, or an error.
Visit ==
    /\ login.step = "visit"
    /\ \/ Accept
       \/ ((\E step \in PageAsks : Goes(step)) \/ Ends) /\ UNCHANGED manager
    /\ UNCHANGED <<vpnStamp, queue, ghosts>>

\* The image is fetched and shown; from here on the clock of the user runs.
Prompt ==
    /\ login.step = "image" /\ ((login.waited < MaxWaited /\ Goes("prompt")) \/ Ends)
    /\ UNCHANGED <<vpnStamp, manager, queue, ghosts>>

ClosedUncounted(step) ==       \* variant: only the wait that is under way is counted
    login' = [login EXCEPT !.step = step, !.prompt = 0]

\* PromptGuard: the wait has ended and is remembered.
Closed(step) ==
    login' = [login EXCEPT !.step = step, !.prompt = 0, !.waited = @ + login.prompt]

\* The user submits, asks for another image or cancels, or 120 s have passed.  An answer to an image
\* that is gone is an error of its own and changes nothing.
Answer ==
    /\ login.step = "prompt" /\ (Closed("post") \/ Closed("image") \/ Ends)
    /\ UNCHANGED <<vpnStamp, manager, queue, ghosts>>

\* The form is posted: a page with another image (three times), the page that follows, or no answer, in
\* which case a challenge stays pending as it was.
Post ==
    /\ login.step = "post"
    /\ \/ /\ login.kind = "begin" /\ UNCHANGED manager
          /\ IF login.tries < 2 THEN login' = [login EXCEPT !.step = "image", !.tries = @ + 1] ELSE Ends
       \/ /\ login' = [login EXCEPT !.step = "finish", !.progress = pending]
          /\ pending' = NoChallenge /\ UNCHANGED <<bound, ready>>
       \/ Ends /\ UNCHANGED manager
    /\ UNCHANGED <<vpnStamp, queue, ghosts>>

FreshChallenge(image) ==
    [id |-> Len(sent) + 1, account |-> login.account, left |-> ChallengeLimit, lastSend |-> Long,
     lastSubmit |-> Long, image |-> image]

\* A page that asks for the text message: a new challenge, or the same with what was done for it.
Challenge(image) ==
    IF login.progress.id = 0 THEN FreshChallenge(image) ELSE [login.progress EXCEPT !.image = image]

AsksForMessage ==
    /\ \E step \in PageAsks : pending' = Challenge(step = "image")
    /\ IF login.progress.id = 0 THEN sent' = Append(sent, Long) /\ submitted' = Append(submitted, Long)
       ELSE UNCHANGED ghosts
    /\ Ends /\ UNCHANGED <<bound, ready>>

Finish ==
    /\ login.step = "finish"
    /\ AsksForMessage \/ (Accept /\ UNCHANGED ghosts) \/ (Ends /\ UNCHANGED <<manager, ghosts>>)
    /\ UNCHANGED <<vpnStamp, queue>>

-----------------------------------------------------------------------------
(* Time *)

\* with_timeout: the time since the start without what the user took for images.
NetworkTime == login.elapsed - (login.waited + login.prompt)

\* The command is dropped where it is.
TimesOut ==
    /\ login # Nobody /\ NetworkTime >= Budget /\ Ends
    /\ UNCHANGED <<vpnStamp, manager, queue, ghosts>>

Older(age, limit) == IF age >= limit THEN Long ELSE age + 1
Aged(c) ==
    IF c.id = 0 THEN c
    ELSE [c EXCEPT !.left = IF @ = 0 THEN 0 ELSE @ - 1, !.lastSend = Older(@, SendGap), !.lastSubmit = Older(@, SubmitGap)]

\* Time passes unless a limit has been reached that ends a command.
Tick ==
    /\ login # Nobody => NetworkTime < Budget
    /\ login.prompt < PromptLimit
    /\ login' = IF login = Nobody THEN login
                ELSE [login EXCEPT !.elapsed = @ + 1, !.progress = Aged(@),
                                   !.prompt = IF login.step = "prompt" THEN @ + 1 ELSE @,
                                   !.network = IF login.step = "prompt" THEN @ ELSE @ + 1]
    /\ pending' = Aged(pending)
    /\ sent' = [i \in Challenges |-> Older(sent[i], SendGap)]
    /\ submitted' = [i \in Challenges |-> Older(submitted[i], SubmitGap)]
    /\ UNCHANGED <<vpnStamp, bound, ready, queue>>

ChangeCredentials ==
    /\ vpnStamp < MaxStamp /\ vpnStamp' = vpnStamp + 1
    /\ UNCHANGED <<manager, queue, login, ghosts>>

\* The end of the background's fifteen minutes (update_billing_background_lifecycle), or of the eight
\* hours of a session (session).
Clear ==
    /\ login = Nobody /\ ready' = "none" /\ pending' \in {pending, NoChallenge}
    /\ UNCHANGED <<vpnStamp, bound, queue, login, ghosts>>

Next ==
    \/ Ask \/ Grant \/ Visit \/ Prompt \/ Answer \/ Post \/ Finish \/ TimesOut \/ Tick
    \/ ChangeCredentials \/ Clear

Spec == Init /\ [][Next]_vars

-----------------------------------------------------------------------------
(* Properties *)

\* The time the user takes for images, also for several of them, is not counted against the limit of
\* a command, and all other time is (with_timeout, PromptGuard).
UserTimeIsFree == login # Nobody => NetworkTime = login.network

=============================================================================
