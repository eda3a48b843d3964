---------------------------- MODULE LoginCancel ----------------------------
(***************************************************************************)
(* Cancelling a manual login.  The window (main.ts, LoginProgressView)     *)
(* begins an operation, asks for network approval and then calls           *)
(* manual_login; its cancel button calls cancel_manual_login, which is a   *)
(* separate IPC call and may be handled before, during or after the login  *)
(* call, even after the operation it names has ended.  cancel_manual_login *)
(* is a synchronous command: the main thread handles such calls in the     *)
(* order in which they arrive.  The window begins the next operation only  *)
(* when the call of the previous one has returned (isLoggingIn).           *)
(***************************************************************************)
EXTENDS LoginProgress, Sequences

CONSTANT
    MaxRequests     \* bound: logout and login requests one operation sends

ASSUME MaxRequestsAssumption == MaxRequests \in Nat \ {0}

VARIABLES
    login,      \* id -> where the operation is
    calls,      \* cancel calls on their way to the main thread
    cancel,     \* id -> the cancel call for it: none, in flight, handled, returned
    accepted,   \* ids whose cancel_manual_login returned Ok
    requests    \* id -> requests that changed the session at the gateway

vars == <<operation, login, calls, cancel, accepted, requests>>

LoginPhase == {"new", "approving", "invoked", "preparing", "sent", "finishing", "settled"}
CancelPhase == {"none", "inFlight", "handled", "returned"}

TypeOK ==
    /\ ProgressTypeOK
    /\ login \in [Ops -> LoginPhase]
    /\ calls \in Seq(Ops)
    /\ cancel \in [Ops -> CancelPhase]
    /\ accepted \in SUBSET Ops
    /\ requests \in [Ops -> 0 .. MaxRequests]

Init ==
    /\ ProgressInit
    /\ login = [id \in Ops |-> "new"]
    /\ calls = <<>>
    /\ cancel = [id \in Ops |-> "none"]
    /\ accepted = {}
    /\ requests = [id \in Ops |-> 0]

Underway(id) == login[id] \notin {"new", "settled"}

-----------------------------------------------------------------------------
(* The window. *)

Begin(id) ==
    /\ login[id] = "new"
    /\ \A other \in Ops : ~Underway(other)
    /\ login' = [login EXCEPT ![id] = "approving"]
    /\ UNCHANGED <<operation, calls, cancel, accepted, requests>>

\* LoginProgressView disables its button on the click; it enables it again only
\* when a progress event says canCancel, which a refusal rules out.
PressCancel(id) ==
    /\ Underway(id)
    /\ cancel[id] = "none"
    /\ cancel' = [cancel EXCEPT ![id] = "inFlight"]
    /\ calls' = Append(calls, id)
    /\ UNCHANGED <<operation, login, accepted, requests>>

CancelReturns(id) ==
    /\ cancel[id] = "handled"
    /\ cancel' = [cancel EXCEPT ![id] = "returned"]
    /\ UNCHANGED <<operation, login, calls, accepted, requests>>

\* The window knows of an accepted cancel once the call has returned.
SeenCancelled(id) == id \in accepted /\ cancel[id] = "returned"

Approved(id) ==
    /\ login[id] = "approving"
    /\ ~SeenCancelled(id)
    /\ login' = [login EXCEPT ![id] = "invoked"]
    /\ UNCHANGED <<operation, calls, cancel, accepted, requests>>

NotApproved(id) ==
    /\ login[id] = "approving"
    /\ login' = [login EXCEPT ![id] = "settled"]
    /\ UNCHANGED <<operation, calls, cancel, accepted, requests>>

-----------------------------------------------------------------------------
(* The commands. *)

HandleCancel(id) ==
    /\ calls # <<>>
    /\ id = Head(calls)
    /\ calls' = Tail(calls)
    /\ ProgressCancel(id)
    /\ accepted' = IF CancelAccepted(id) THEN accepted \cup {id} ELSE accepted
    /\ cancel' = [cancel EXCEPT ![id] = "handled"]
    /\ UNCHANGED <<login, requests>>

LoginRefused(id) ==
    /\ login[id] = "invoked"
    /\ StartRefused(id)
    /\ login' = [login EXCEPT ![id] = "settled"]
    /\ UNCHANGED <<operation, calls, cancel, accepted, requests>>

LoginStarts(id) ==
    /\ login[id] = "invoked"
    /\ ProgressStart(id)
    /\ login' = [login EXCEPT ![id] = "preparing"]
    /\ UNCHANGED <<calls, cancel, accepted, requests>>

\* Session::submitting guards every logout and login request.
Submit(id) ==
    /\ login[id] = "preparing"
    /\ requests[id] < MaxRequests
    /\ ProgressUpdate(id, TRUE, FALSE)
    /\ requests' = [requests EXCEPT ![id] = @ + 1]
    /\ login' = [login EXCEPT ![id] = "sent"]
    /\ UNCHANGED <<calls, cancel, accepted>>

\* The logout is done, or the account is rejected and the next one is tried.
NextRequest(id) ==
    /\ login[id] = "sent"
    /\ login' = [login EXCEPT ![id] = "preparing"]
    /\ UNCHANGED <<operation, calls, cancel, accepted, requests>>

ReturnAfterAnswer(id) ==      \* variant: a refused phase update is retried, not returned
    /\ login[id] = "sent"
    /\ login' = [login EXCEPT ![id] = "finishing"]
    /\ UNCHANGED <<operation, calls, cancel, accepted, requests>>

\* manual_login_inner returns: refused by a check, out of accounts, or done.
Return(id) ==
    /\ login[id] \in {"preparing", "sent"}
    /\ login' = [login EXCEPT ![id] = "finishing"]
    /\ UNCHANGED <<operation, calls, cancel, accepted, requests>>

Finish(id) ==
    /\ login[id] = "finishing"
    /\ ProgressFinish(id)
    /\ login' = [login EXCEPT ![id] = "settled"]
    /\ UNCHANGED <<calls, cancel, accepted, requests>>

Next ==
    \E id \in Ops :
        \/ Begin(id) \/ PressCancel(id) \/ CancelReturns(id)
        \/ Approved(id) \/ NotApproved(id)
        \/ HandleCancel(id) \/ LoginRefused(id) \/ LoginStarts(id)
        \/ Submit(id) \/ NextRequest(id) \/ Return(id) \/ Finish(id)

\* The commands and the IPC that carries them are run by the runtime; the
\* user is never obliged to press anything.
Fairness ==
    \A id \in Ops :
        /\ WF_vars(HandleCancel(id))
        /\ WF_vars(CancelReturns(id))
        /\ WF_vars(Approved(id) \/ NotApproved(id))
        /\ WF_vars(LoginRefused(id) \/ LoginStarts(id))
        /\ WF_vars(Submit(id) \/ Return(id) \/ NextRequest(id))
        /\ WF_vars(Finish(id))

Spec == Init /\ [][Next]_vars /\ Fairness

-----------------------------------------------------------------------------
(* Properties *)

Running(id) == login[id] \in {"preparing", "sent", "finishing"}

\* While a login command runs, the slot is its own: neither another login nor a
\* cancel call for another operation displaces it (login_progress.rs start, cancel).
RunningHoldsSlot == \A id \in Ops : Running(id) => Holds(id) /\ operation.active

\* Once a request has gone out, the phase update that follows its answer cannot
\* fail, so an accepted login is never reported as cancelled (lib.rs,
\* progress.phase("verifying")? after record_account_success).
AnswerIsReported == \A id \in Ops : login[id] = "sent" => UpdateAllowed(id, FALSE)

\* After the window was told that its cancel was accepted, the operation sends
\* nothing more, whichever of the two calls arrives first.
CancelIsFinal == [][\A id \in accepted : requests'[id] = requests[id]]_vars

\* A login the window has called for always returns to the window, so the next
\* operation can begin.
LoginSettles == \A id \in Ops : (login[id] = "invoked") ~> (login[id] = "settled")
=============================================================================
