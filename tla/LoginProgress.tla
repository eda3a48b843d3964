--------------------------- MODULE LoginProgress ---------------------------
(***************************************************************************)
(* The token of the manual login that is running: LoginProgressControl in  *)
(* src-tauri/src/login_progress.rs.  It is one mutex-protected slot, so    *)
(* every operator below is one atomic step of its owner.  The phase names, *)
(* messages and timings the slot also carries are only displayed and are   *)
(* left out.                                                               *)
(*                                                                         *)
(* A definition marked "variant" is what a plausible bug would make of the *)
(* definition after it; it is used only to see that a property notices.    *)
(***************************************************************************)
EXTENDS Naturals

CONSTANTS
    Ops,        \* identifiers of the manual logins the window may begin
    NoOp        \* the empty slot (Option::None)

VARIABLE operation

Operation == [id : Ops, submitted : BOOLEAN, cancelled : BOOLEAN, active : BOOLEAN]

ASSUME NoOpAssumption == NoOp \notin Operation

ProgressTypeOK == operation \in Operation \cup {NoOp}

ProgressInit == operation = NoOp

Holds(id) == operation # NoOp /\ operation.id = id

Active == operation # NoOp /\ operation.active

-----------------------------------------------------------------------------
(* LoginProgressControl::start *)

StartRefusedOnlyWhenActive(id) == Active      \* variant

StartRefused(id) == Active \/ (Holds(id) /\ operation.cancelled)

ProgressStart(id) ==
    /\ ~StartRefused(id)
    /\ operation' = [id |-> id, submitted |-> FALSE, cancelled |-> FALSE, active |-> TRUE]

(* LoginProgressControl::cancel: an operation that is not the current one  *)
(* is remembered as cancelled when nothing is active.                      *)

CancelAcceptedAnyTime(id) == IF Holds(id) THEN TRUE ELSE ~Active      \* variant

CancelAccepted(id) == IF Holds(id) THEN ~operation.submitted ELSE ~Active

ProgressCancel(id) ==
    operation' =
        IF ~CancelAccepted(id) THEN operation
        ELSE IF Holds(id) THEN [operation EXCEPT !.cancelled = TRUE]
        ELSE [id |-> id, submitted |-> FALSE, cancelled |-> TRUE, active |-> FALSE]

(* LoginProgressControl::update behind Session::phase, submitting, finish. *)

UpdateAllowed(id, terminal) == Holds(id) /\ (terminal \/ ~operation.cancelled)

ProgressUpdate(id, submitting, terminal) ==
    /\ UpdateAllowed(id, terminal)
    /\ operation' = [id |-> id,
                      submitted |-> operation.submitted \/ submitting,
                      cancelled |-> operation.cancelled,
                      active |-> operation.active /\ ~terminal]

ProgressFinish(id) ==
    IF Holds(id) THEN ProgressUpdate(id, FALSE, TRUE) ELSE UNCHANGED operation

=============================================================================
