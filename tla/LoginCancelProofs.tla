------------------------- MODULE LoginCancelProofs -------------------------
(***************************************************************************)
(* For every set of operations and every bound on their requests: the      *)
(* types of LoginCancel, the slot a running login holds, and that an       *)
(* accepted cancel is final.                                               *)
(*                                                                         *)
(* A late cancel call of an earlier operation could overwrite the          *)
(* remembered token of the current one.  It cannot be there: once the      *)
(* current operation's own cancel has been handled, no call is on its way  *)
(* (CallsDrained), because the calls are handled in order and the current  *)
(* operation's was the last one sent (LastCall).                           *)
(***************************************************************************)
EXTENDS LoginCancel, SequenceTheorems, TLAPS

AtMostOneUnderway == \A a, b \in Ops : Underway(a) /\ Underway(b) => a = b

ActiveIsRunning == Active => Running(operation.id)

NeverBoth == operation # NoOp => ~(operation.submitted /\ operation.cancelled)

SentIsSubmitted == \A id \in Ops : login[id] = "sent" => operation.submitted

Untouched ==
    \A id \in Ops :
        /\ login[id] = "new" => cancel[id] = "none"
        /\ cancel[id] \in {"none", "inFlight"} => id \notin accepted

CallsInFlight ==
    /\ \A i \in 1 .. Len(calls) : cancel[calls[i]] = "inFlight"
    /\ \A i, j \in 1 .. Len(calls) : calls[i] = calls[j] => i = j

LastCall ==
    \A id \in Ops :
        Underway(id) /\ cancel[id] = "inFlight" => calls # <<>> /\ calls[Len(calls)] = id

CallsDrained ==
    \A id \in Ops :
        Underway(id) /\ cancel[id] \in {"handled", "returned"} => calls = <<>>

CancelRemembered ==
    \A id \in Ops : id \in accepted /\ Underway(id) => Holds(id) /\ operation.cancelled

SlotInv == RunningHoldsSlot /\ AtMostOneUnderway /\ ActiveIsRunning /\ NeverBoth /\ SentIsSubmitted

CallInv == Untouched /\ CallsInFlight /\ LastCall /\ CallsDrained

Inv == TypeOK /\ SlotInv /\ CallInv /\ CancelRemembered

-----------------------------------------------------------------------------
(* What the operators of LoginProgress do to the slot. *)

\* start takes the slot for an operation that is neither submitted nor cancelled.
LEMMA StartEffect ==
  ASSUME ProgressTypeOK, NEW id \in Ops, ProgressStart(id)
  PROVE  /\ ProgressTypeOK'
         /\ Holds(id)'
         /\ operation'.active /\ ~operation'.submitted /\ ~operation'.cancelled
         /\ ~Active /\ ~(Holds(id) /\ operation.cancelled)
  <1>1. /\ operation' = [id |-> id, submitted |-> FALSE, cancelled |-> FALSE, active |-> TRUE]
        /\ ~StartRefused(id)
    BY DEF ProgressStart
  <1>2. operation' \in Operation
    BY <1>1 DEF Operation
  <1>3. operation' # NoOp
    BY <1>2, NoOpAssumption
  <1>. QED
    BY <1>1, <1>2, <1>3 DEF ProgressTypeOK, StartRefused, Holds, Active

\* cancel never takes the slot from an active operation nor undoes a submission,
\* and an accepted cancel leaves the token of the operation it names.
LEMMA CancelEffect ==
  ASSUME ProgressTypeOK, NEW id \in Ops, ProgressCancel(id)
  PROVE  /\ ProgressTypeOK'
         /\ CancelAccepted(id) => Holds(id)' /\ operation'.cancelled /\ ~operation'.submitted
         /\ ~CancelAccepted(id) => operation' = operation
         /\ Active => /\ operation'.id = operation.id
                      /\ operation'.submitted = operation.submitted
         /\ Active' = Active
  <1>1. CASE ~CancelAccepted(id)
    BY <1>1 DEF ProgressCancel, ProgressTypeOK, Active
  <1>2. CASE CancelAccepted(id) /\ Holds(id)
    <2>1. /\ operation \in Operation
          /\ operation' = [operation EXCEPT !.cancelled = TRUE]
          /\ ~operation.submitted
      BY <1>2 DEF ProgressCancel, CancelAccepted, ProgressTypeOK, Holds
    <2>2. operation' \in Operation
      BY <2>1 DEF Operation
    <2>3. operation' # NoOp
      BY <2>2, NoOpAssumption
    <2>. QED
      BY <1>2, <2>1, <2>2, <2>3 DEF ProgressTypeOK, Operation, Active, Holds
  <1>3. CASE CancelAccepted(id) /\ ~Holds(id)
    <2>1. /\ ~Active
          /\ operation' = [id |-> id, submitted |-> FALSE, cancelled |-> TRUE, active |-> FALSE]
      BY <1>3 DEF ProgressCancel, CancelAccepted
    <2>2. operation' \in Operation
      BY <2>1 DEF Operation
    <2>3. operation' # NoOp
      BY <2>2, NoOpAssumption
    <2>. QED
      BY <1>3, <2>1, <2>2, <2>3 DEF ProgressTypeOK, Active, Holds
  <1>. QED
    BY <1>1, <1>2, <1>3

\* update keeps the slot with its operation; only a terminal update ends it.
LEMMA UpdateEffect ==
  ASSUME ProgressTypeOK, NEW id \in Ops, NEW s \in BOOLEAN, NEW t \in BOOLEAN,
         ProgressUpdate(id, s, t)
  PROVE  /\ ProgressTypeOK'
         /\ Holds(id) /\ Holds(id)'
         /\ operation'.cancelled = operation.cancelled
         /\ operation'.submitted = (operation.submitted \/ s)
         /\ operation'.active = (operation.active /\ ~t)
         /\ t \/ ~operation.cancelled
  <1>1. Holds(id) /\ operation \in Operation
    BY DEF ProgressUpdate, UpdateAllowed, Holds, ProgressTypeOK
  <1>2. operation' \in Operation
    BY <1>1 DEF ProgressUpdate, Operation
  <1>3. operation' # NoOp
    BY <1>2, NoOpAssumption
  <1>. QED
    BY <1>1, <1>2, <1>3 DEF ProgressUpdate, UpdateAllowed, ProgressTypeOK, Operation, Holds

-----------------------------------------------------------------------------
(* One lemma per action of Next. *)

\* The window begins an operation only when no other is underway.
LEMMA BeginKeeps ==
  ASSUME Inv, NEW op \in Ops, Begin(op)
  PROVE  Inv'
<1>1. TypeOK'
  BY DEF Inv, TypeOK, ProgressTypeOK, Begin, LoginPhase, CancelPhase
<1>2. SlotInv'
  BY DEF Inv, TypeOK, Begin, LoginPhase,
      SlotInv, RunningHoldsSlot, AtMostOneUnderway, ActiveIsRunning, NeverBoth, SentIsSubmitted,
      Holds, Active, Running, Underway
<1>3. CallInv'
  BY DEF Inv, TypeOK, Begin, LoginPhase, CancelPhase,
      CallInv, Untouched, CallsInFlight, LastCall, CallsDrained, Underway
<1>4. CancelRemembered'
  BY DEF Inv, TypeOK, Begin, LoginPhase, CallInv, Untouched, CancelRemembered, Holds, Underway
<1>. QED
  BY <1>1, <1>2, <1>3, <1>4 DEF Inv

\* The answer of a cancel call reaches the window.
LEMMA CancelReturnsKeeps ==
  ASSUME Inv, NEW op \in Ops, CancelReturns(op)
  PROVE  Inv'
<1>1. TypeOK'
  BY DEF Inv, TypeOK, ProgressTypeOK, CancelReturns, LoginPhase, CancelPhase
<1>2. SlotInv'
  BY DEF Inv, TypeOK, CancelReturns, LoginPhase,
      SlotInv, RunningHoldsSlot, AtMostOneUnderway, ActiveIsRunning, NeverBoth, SentIsSubmitted,
      Holds, Active, Running, Underway
<1>3. CallInv'
  BY DEF Inv, TypeOK, CancelReturns, LoginPhase, CancelPhase,
      CallInv, Untouched, CallsInFlight, LastCall, CallsDrained, Underway
<1>4. CancelRemembered'
  BY DEF Inv, TypeOK, CancelReturns, LoginPhase, CallInv, Untouched, CancelRemembered, Holds, Underway
<1>. QED
  BY <1>1, <1>2, <1>3, <1>4 DEF Inv

\* The window calls manual_login.
LEMMA ApprovedKeeps ==
  ASSUME Inv, NEW op \in Ops, Approved(op)
  PROVE  Inv'
<1>1. TypeOK'
  BY DEF Inv, TypeOK, ProgressTypeOK, Approved, LoginPhase, CancelPhase
<1>2. SlotInv'
  BY DEF Inv, TypeOK, Approved, LoginPhase,
      SlotInv, RunningHoldsSlot, AtMostOneUnderway, ActiveIsRunning, NeverBoth, SentIsSubmitted,
      Holds, Active, Running, Underway
<1>3. CallInv'
  BY DEF Inv, TypeOK, Approved, LoginPhase, CancelPhase,
      CallInv, Untouched, CallsInFlight, LastCall, CallsDrained, Underway
<1>4. CancelRemembered'
  BY DEF Inv, TypeOK, Approved, LoginPhase, CallInv, Untouched, CancelRemembered, Holds, Underway
<1>. QED
  BY <1>1, <1>2, <1>3, <1>4 DEF Inv

\* The window gives the operation up before calling manual_login.
LEMMA NotApprovedKeeps ==
  ASSUME Inv, NEW op \in Ops, NotApproved(op)
  PROVE  Inv'
<1>1. TypeOK'
  BY DEF Inv, TypeOK, ProgressTypeOK, NotApproved, LoginPhase, CancelPhase
<1>2. SlotInv'
  BY DEF Inv, TypeOK, NotApproved, LoginPhase,
      SlotInv, RunningHoldsSlot, AtMostOneUnderway, ActiveIsRunning, NeverBoth, SentIsSubmitted,
      Holds, Active, Running, Underway
<1>3. CallInv'
  BY DEF Inv, TypeOK, NotApproved, LoginPhase, CancelPhase,
      CallInv, Untouched, CallsInFlight, LastCall, CallsDrained, Underway
<1>4. CancelRemembered'
  BY DEF Inv, TypeOK, NotApproved, LoginPhase, CallInv, Untouched, CancelRemembered, Holds, Underway
<1>. QED
  BY <1>1, <1>2, <1>3, <1>4 DEF Inv

\* start refuses the operation; it settles without having run.
LEMMA LoginRefusedKeeps ==
  ASSUME Inv, NEW op \in Ops, LoginRefused(op)
  PROVE  Inv'
<1>1. TypeOK'
  BY DEF Inv, TypeOK, ProgressTypeOK, LoginRefused, LoginPhase, CancelPhase
<1>2. SlotInv'
  BY DEF Inv, TypeOK, LoginRefused, LoginPhase,
      SlotInv, RunningHoldsSlot, AtMostOneUnderway, ActiveIsRunning, NeverBoth, SentIsSubmitted,
      Holds, Active, Running, Underway
<1>3. CallInv'
  BY DEF Inv, TypeOK, LoginRefused, LoginPhase, CancelPhase,
      CallInv, Untouched, CallsInFlight, LastCall, CallsDrained, Underway
<1>4. CancelRemembered'
  BY DEF Inv, TypeOK, LoginRefused, LoginPhase, CallInv, Untouched, CancelRemembered, Holds, Underway
<1>. QED
  BY <1>1, <1>2, <1>3, <1>4 DEF Inv

\* The operation goes on to its next request.
LEMMA NextRequestKeeps ==
  ASSUME Inv, NEW op \in Ops, NextRequest(op)
  PROVE  Inv'
<1>1. TypeOK'
  BY DEF Inv, TypeOK, ProgressTypeOK, NextRequest, LoginPhase, CancelPhase
<1>2. SlotInv'
  BY DEF Inv, TypeOK, NextRequest, LoginPhase,
      SlotInv, RunningHoldsSlot, AtMostOneUnderway, ActiveIsRunning, NeverBoth, SentIsSubmitted,
      Holds, Active, Running, Underway
<1>3. CallInv'
  BY DEF Inv, TypeOK, NextRequest, LoginPhase, CancelPhase,
      CallInv, Untouched, CallsInFlight, LastCall, CallsDrained, Underway
<1>4. CancelRemembered'
  BY DEF Inv, TypeOK, NextRequest, LoginPhase, CallInv, Untouched, CancelRemembered, Holds, Underway
<1>. QED
  BY <1>1, <1>2, <1>3, <1>4 DEF Inv

\* manual_login_inner returns.
LEMMA ReturnKeeps ==
  ASSUME Inv, NEW op \in Ops, Return(op)
  PROVE  Inv'
<1>1. TypeOK'
  BY DEF Inv, TypeOK, ProgressTypeOK, Return, LoginPhase, CancelPhase
<1>2. SlotInv'
  BY DEF Inv, TypeOK, Return, LoginPhase,
      SlotInv, RunningHoldsSlot, AtMostOneUnderway, ActiveIsRunning, NeverBoth, SentIsSubmitted,
      Holds, Active, Running, Underway
<1>3. CallInv'
  BY DEF Inv, TypeOK, Return, LoginPhase, CancelPhase,
      CallInv, Untouched, CallsInFlight, LastCall, CallsDrained, Underway
<1>4. CancelRemembered'
  BY DEF Inv, TypeOK, Return, LoginPhase, CallInv, Untouched, CancelRemembered, Holds, Underway
<1>. QED
  BY <1>1, <1>2, <1>3, <1>4 DEF Inv

\* A press appends a call for the one operation that is underway.
LEMMA PressCancelKeeps ==
  ASSUME Inv, NEW op \in Ops, PressCancel(op)
  PROVE  Inv'
<1>1. TypeOK'
  BY DEF Inv, TypeOK, ProgressTypeOK, PressCancel, CancelPhase
<1>2. SlotInv'
  BY DEF Inv, TypeOK, PressCancel,
      SlotInv, RunningHoldsSlot, AtMostOneUnderway, ActiveIsRunning, NeverBoth, SentIsSubmitted,
      Holds, Active, Running, Underway
<1>3. CallInv'
  <2>1. /\ Len(calls') = Len(calls) + 1 /\ Len(calls) \in Nat
        /\ \A i \in 1 .. Len(calls) : calls'[i] = calls[i]
        /\ calls'[Len(calls) + 1] = op
        /\ calls' # <<>>
    BY DEF Inv, TypeOK, PressCancel
  <2>2. cancel[op] = "none" /\ Underway(op) /\ cancel' = [cancel EXCEPT ![op] = "inFlight"] /\ login' = login /\ accepted' = accepted
    BY DEF PressCancel
  <2>3. \A i \in 1 .. Len(calls) : calls[i] # op /\ calls[i] \in Ops
    BY <2>2 DEF Inv, TypeOK, CallInv, CallsInFlight
  <2>4. Untouched'
    BY <2>2 DEF Inv, TypeOK, CallInv, Untouched, Underway
  <2>5. CallsInFlight'
    <3>1. ASSUME NEW i \in 1 .. Len(calls') PROVE cancel'[calls'[i]] = "inFlight"
      <4>1. CASE i \in 1 .. Len(calls)
        BY <4>1, <2>1, <2>2, <2>3 DEF Inv, TypeOK, CallInv, CallsInFlight
      <4>2. CASE i = Len(calls) + 1
        BY <4>2, <2>1, <2>2 DEF Inv, TypeOK
      <4>. QED
        BY <4>1, <4>2, <2>1
    <3>2. ASSUME NEW i \in 1 .. Len(calls'), NEW j \in 1 .. Len(calls'), calls'[i] = calls'[j]
          PROVE  i = j
      BY <3>2, <2>1, <2>3 DEF Inv, TypeOK, CallInv, CallsInFlight
    <3>. QED
      BY <3>1, <3>2 DEF CallsInFlight
  <2>6. LastCall'
    BY <2>1, <2>2 DEF Inv, TypeOK, SlotInv, AtMostOneUnderway, LastCall, Underway
  <2>7. CallsDrained'
    BY <2>1, <2>2 DEF Inv, TypeOK, SlotInv, AtMostOneUnderway, CallsDrained, Underway
  <2>. QED
    BY <2>4, <2>5, <2>6, <2>7 DEF CallInv
<1>4. CancelRemembered'
  BY DEF PressCancel, Inv, CancelRemembered, Holds, Underway
<1>. QED
  BY <1>1, <1>2, <1>3, <1>4 DEF Inv

\* The main thread handles the oldest call.  If the operation it names is still
\* underway it was also the newest, so none is left.
LEMMA HandleCancelKeeps ==
  ASSUME Inv, NEW op \in Ops, HandleCancel(op)
  PROVE  Inv'
<1>1. /\ ProgressTypeOK /\ ProgressCancel(op) /\ login' = login
      /\ calls # <<>> /\ op = Head(calls) /\ calls' = Tail(calls)
      /\ cancel' = [cancel EXCEPT ![op] = "handled"]
      /\ accepted' = IF CancelAccepted(op) THEN accepted \cup {op} ELSE accepted
  BY DEF Inv, TypeOK, HandleCancel
<1>2. /\ Len(calls) \in Nat /\ Len(calls) >= 1 /\ calls[1] = op
      /\ Len(calls') = Len(calls) - 1
      /\ \A i \in 1 .. Len(calls') : calls'[i] = calls[i + 1] /\ i + 1 \in 1 .. Len(calls)
  BY <1>1 DEF Inv, TypeOK
<1>3. cancel[op] = "inFlight"
  BY <1>2 DEF Inv, CallInv, CallsInFlight
<1>4. TypeOK'
  <2>1. ProgressTypeOK'
    BY <1>1, CancelEffect
  <2>. QED
    BY <1>1, <2>1 DEF Inv, TypeOK, HandleCancel, CancelPhase
<1>5. SlotInv'
  <2>1. RunningHoldsSlot'
    BY <1>1, CancelEffect DEF Inv, SlotInv, RunningHoldsSlot, Holds, Active, Running
  <2>2. ActiveIsRunning'
    BY <1>1, CancelEffect DEF Inv, SlotInv, ActiveIsRunning, Active, Running
  <2>3. NeverBoth'
    BY <1>1, CancelEffect DEF Inv, SlotInv, NeverBoth, Holds
  <2>4. SentIsSubmitted'
    BY <1>1, CancelEffect DEF Inv, SlotInv, SentIsSubmitted, RunningHoldsSlot, Running, Holds, Active
  <2>5. AtMostOneUnderway'
    BY <1>1 DEF Inv, SlotInv, AtMostOneUnderway, Underway
  <2>. QED
    BY <2>1, <2>2, <2>3, <2>4, <2>5 DEF SlotInv
<1>6. Underway(op) => calls' = <<>>
  <2>1. ASSUME Underway(op) PROVE Len(calls) = 1
    BY <2>1, <1>2, <1>3 DEF Inv, CallInv, CallsInFlight, LastCall
  <2>2. calls' \in Seq(Ops)
    BY <1>4 DEF TypeOK
  <2>. QED
    BY <2>1, <2>2, <1>2, EmptySeq
<1>7. CallInv'
  <2>1. Untouched'
    BY <1>1, <1>3 DEF Inv, TypeOK, CallInv, Untouched
  <2>2. CallsInFlight'
    <3>1. ASSUME NEW i \in 1 .. Len(calls') PROVE cancel'[calls'[i]] = "inFlight"
      <4>1. calls'[i] = calls[i + 1] /\ i + 1 \in 1 .. Len(calls) /\ i + 1 # 1 /\ 1 \in 1 .. Len(calls)
        BY <1>2
      <4>2. calls[i + 1] # op /\ cancel[calls[i + 1]] = "inFlight" /\ calls[i + 1] \in Ops
        BY <4>1, <1>2 DEF Inv, TypeOK, CallInv, CallsInFlight
      <4>. QED
        BY <4>1, <4>2, <1>1 DEF Inv, TypeOK
    <3>2. ASSUME NEW i \in 1 .. Len(calls'), NEW j \in 1 .. Len(calls'), calls'[i] = calls'[j]
          PROVE  i = j
      BY <3>2, <1>2 DEF Inv, CallInv, CallsInFlight
    <3>. QED
      BY <3>1, <3>2 DEF CallsInFlight
  <2>3. LastCall'
    <3>1. SUFFICES ASSUME NEW id \in Ops, Underway(id)', cancel'[id] = "inFlight"
                   PROVE  calls' # <<>> /\ calls'[Len(calls')] = id
      BY DEF LastCall
    <3>2. id # op /\ cancel[id] = "inFlight" /\ Underway(id)
      BY <3>1, <1>1 DEF Inv, TypeOK, Underway
    <3>3. calls[Len(calls)] = id
      BY <3>2 DEF Inv, CallInv, LastCall
    <3>4. Len(calls) > 1
      BY <3>2, <3>3, <1>2
    <3>5. calls' # <<>> /\ Len(calls') \in 1 .. Len(calls') /\ Len(calls') + 1 = Len(calls)
      BY <3>4, <1>2
    <3>. QED
      BY <3>3, <3>5, <1>2
  <2>4. CallsDrained'
    <3>1. SUFFICES ASSUME NEW id \in Ops, Underway(id)', cancel'[id] \in {"handled", "returned"}
                   PROVE  calls' = <<>>
      BY DEF CallsDrained
    <3>2. CASE id = op
      BY <3>1, <3>2, <1>1, <1>6 DEF Underway
    <3>3. CASE id # op
      BY <3>1, <3>3, <1>1 DEF Inv, TypeOK, CallInv, CallsDrained, Underway
    <3>. QED
      BY <3>2, <3>3
  <2>. QED
    BY <2>1, <2>2, <2>3, <2>4 DEF CallInv
<1>8. CancelRemembered'
  <2>1. SUFFICES ASSUME NEW id \in Ops, id \in accepted', Underway(id)'
                 PROVE  Holds(id)' /\ operation'.cancelled
    BY DEF CancelRemembered
  <2>2. CASE id = op
    <3>1. CancelAccepted(op)
      BY <2>1, <2>2, <1>1, <1>3 DEF Inv, CallInv, Untouched
    <3>. QED
      BY <2>2, <3>1, <1>1, CancelEffect
  <2>3. CASE id # op
    <3>1. id \in accepted /\ Underway(id)
      BY <2>1, <2>3, <1>1 DEF Underway
    <3>2. cancel[id] \in {"handled", "returned"}
      BY <3>1 DEF Inv, TypeOK, CallInv, Untouched, CancelPhase
    <3>3. calls = <<>>
      BY <3>1, <3>2 DEF Inv, CallInv, CallsDrained
    <3>. QED
      BY <3>3, <1>1
  <2>. QED
    BY <2>2, <2>3
<1>. QED
  BY <1>4, <1>5, <1>7, <1>8 DEF Inv

\* start gives the slot to the one operation that is underway; had its cancel
\* been accepted, start would have refused.
LEMMA LoginStartsKeeps ==
  ASSUME Inv, NEW op \in Ops, LoginStarts(op)
  PROVE  Inv'
<1>1. /\ ProgressTypeOK /\ ProgressStart(op)
      /\ login[op] = "invoked" /\ login' = [login EXCEPT ![op] = "preparing"]
      /\ UNCHANGED <<calls, cancel, accepted, requests>>
  BY DEF Inv, TypeOK, LoginStarts
<1>2. /\ ProgressTypeOK' /\ Holds(op)'
      /\ operation'.active /\ ~operation'.submitted /\ ~operation'.cancelled
      /\ ~Active /\ ~(Holds(op) /\ operation.cancelled)
  BY <1>1, StartEffect
<1>3. \A id \in Ops : Underway(id)' => id = op
  BY <1>1 DEF Inv, TypeOK, SlotInv, AtMostOneUnderway, Underway
<1>4. TypeOK'
  BY <1>1, <1>2 DEF Inv, TypeOK, LoginPhase
<1>5. SlotInv'
  <2>1. RunningHoldsSlot' /\ AtMostOneUnderway'
    BY <1>2, <1>3 DEF RunningHoldsSlot, AtMostOneUnderway, Running, Underway
  <2>2. ActiveIsRunning' /\ NeverBoth'
    BY <1>1, <1>2 DEF Inv, TypeOK, ActiveIsRunning, NeverBoth, Running, Holds
  <2>3. SentIsSubmitted'
    BY <1>1, <1>3 DEF Inv, TypeOK, SentIsSubmitted, Underway
  <2>. QED
    BY <2>1, <2>2, <2>3 DEF SlotInv
<1>6. CallInv'
  BY <1>1 DEF Inv, TypeOK, CallInv, Untouched, CallsInFlight, LastCall, CallsDrained, Underway
<1>7. op \notin accepted
  BY <1>1, <1>2 DEF Inv, CancelRemembered, Underway
<1>8. CancelRemembered'
  BY <1>1, <1>3, <1>7 DEF CancelRemembered
<1>. QED
  BY <1>4, <1>5, <1>6, <1>8 DEF Inv

\* A request goes out: the slot is marked submitted and was not cancelled.
LEMMA SubmitKeeps ==
  ASSUME Inv, NEW op \in Ops, Submit(op)
  PROVE  Inv' /\ op \notin accepted
<1>1. /\ ProgressTypeOK /\ ProgressUpdate(op, TRUE, FALSE)
      /\ login[op] = "preparing" /\ login' = [login EXCEPT ![op] = "sent"]
      /\ UNCHANGED <<calls, cancel, accepted>>
  BY DEF Inv, TypeOK, Submit
<1>2. /\ ProgressTypeOK' /\ Holds(op) /\ Holds(op)'
      /\ operation'.submitted /\ operation'.active = operation.active
      /\ ~operation.cancelled /\ ~operation'.cancelled
  <2>1. operation.active \in BOOLEAN
    BY <1>1 DEF ProgressTypeOK, Operation, ProgressUpdate, UpdateAllowed, Holds
  <2>. QED
    BY <2>1, <1>1, UpdateEffect
<1>3. \A id \in Ops : Underway(id)' => id = op
  BY <1>1 DEF Inv, TypeOK, SlotInv, AtMostOneUnderway, Underway
<1>4. TypeOK'
  BY <1>1, <1>2, MaxRequestsAssumption DEF Inv, TypeOK, Submit, LoginPhase
<1>5. SlotInv'
  <2>1. operation.active
    BY <1>1 DEF Inv, SlotInv, RunningHoldsSlot, Running
  <2>2. RunningHoldsSlot' /\ AtMostOneUnderway'
    BY <2>1, <1>2, <1>3 DEF RunningHoldsSlot, AtMostOneUnderway, Running, Underway
  <2>3. ActiveIsRunning' /\ NeverBoth' /\ SentIsSubmitted'
    BY <1>1, <1>2 DEF Inv, TypeOK, ActiveIsRunning, NeverBoth, SentIsSubmitted, Running, Holds
  <2>. QED
    BY <2>2, <2>3 DEF SlotInv
<1>6. CallInv'
  BY <1>1 DEF Inv, TypeOK, CallInv, Untouched, CallsInFlight, LastCall, CallsDrained, Underway
<1>7. op \notin accepted
  BY <1>1, <1>2 DEF Inv, CancelRemembered, Underway
<1>8. CancelRemembered'
  BY <1>1, <1>3, <1>7 DEF CancelRemembered
<1>. QED
  BY <1>4, <1>5, <1>6, <1>7, <1>8 DEF Inv

\* The terminal update ends the operation and gives the slot up.
LEMMA FinishKeeps ==
  ASSUME Inv, NEW op \in Ops, Finish(op)
  PROVE  Inv'
<1>1. /\ ProgressTypeOK /\ Holds(op) /\ ProgressUpdate(op, FALSE, TRUE)
      /\ login[op] = "finishing" /\ login' = [login EXCEPT ![op] = "settled"]
      /\ UNCHANGED <<calls, cancel, accepted, requests>>
  BY DEF Inv, TypeOK, SlotInv, RunningHoldsSlot, Running, Finish, ProgressFinish
<1>2. /\ ProgressTypeOK' /\ Holds(op)' /\ ~operation'.active
      /\ operation'.cancelled = operation.cancelled
      /\ operation'.submitted = (operation.submitted \/ FALSE)
  BY <1>1, UpdateEffect
<1>3. \A id \in Ops : ~Underway(id)'
  BY <1>1 DEF Inv, TypeOK, SlotInv, AtMostOneUnderway, Underway
<1>4. TypeOK'
  BY <1>1, <1>2 DEF Inv, TypeOK, LoginPhase
<1>5. SlotInv'
  <2>1. NeverBoth'
    BY <1>1, <1>2 DEF Inv, SlotInv, NeverBoth, Holds
  <2>. QED
    BY <2>1, <1>2, <1>3
    DEF SlotInv, RunningHoldsSlot, AtMostOneUnderway, ActiveIsRunning, SentIsSubmitted,
        Active, Running, Underway
<1>6. CallInv'
  BY <1>1 DEF Inv, TypeOK, CallInv, Untouched, CallsInFlight, LastCall, CallsDrained, Underway
<1>7. CancelRemembered'
  BY <1>3 DEF CancelRemembered
<1>. QED
  BY <1>4, <1>5, <1>6, <1>7 DEF Inv

-----------------------------------------------------------------------------
(* The theorems. *)

LEMMA InitHolds == Init => Inv
<1>. SUFFICES ASSUME Init PROVE Inv
  OBVIOUS
<1>1. TypeOK
  BY MaxRequestsAssumption DEF Init, ProgressInit, TypeOK, ProgressTypeOK, LoginPhase, CancelPhase
<1>2. SlotInv
  BY DEF Init, ProgressInit, SlotInv, RunningHoldsSlot, AtMostOneUnderway, ActiveIsRunning,
      NeverBoth, SentIsSubmitted, Active, Running, Underway
<1>3. CallInv /\ CancelRemembered
  BY DEF Init, CallInv, Untouched, CallsInFlight, LastCall, CallsDrained, CancelRemembered, Underway
<1>. QED
  BY <1>1, <1>2, <1>3 DEF Inv

LEMMA NextKeeps == Inv /\ [Next]_vars => Inv'
<1>1. CASE Next
  BY <1>1, BeginKeeps, PressCancelKeeps, CancelReturnsKeeps, ApprovedKeeps, NotApprovedKeeps,
     HandleCancelKeeps, LoginRefusedKeeps, LoginStartsKeeps, SubmitKeeps, NextRequestKeeps,
     ReturnKeeps, FinishKeeps
  DEF Next
<1>2. CASE UNCHANGED vars
  BY <1>2 DEF vars, Inv, TypeOK, ProgressTypeOK, SlotInv, RunningHoldsSlot, AtMostOneUnderway,
      ActiveIsRunning, NeverBoth, SentIsSubmitted, CallInv, Untouched, CallsInFlight, LastCall,
      CallsDrained, CancelRemembered, Holds, Active, Running, Underway
<1>. QED
  BY <1>1, <1>2

\* The inductive invariant holds in every behaviour.
THEOREM Invariance == Spec => []Inv
  BY InitHolds, NextKeeps, PTL DEF Spec

\* Every variable keeps its type (LoginProgressControl and its callers).
THEOREM TypeCorrect == Spec => []TypeOK
<1>1. Inv => TypeOK
  BY DEF Inv
<1>. QED
  BY <1>1, Invariance, PTL

\* While a login command runs, the slot is its own (login_progress.rs start, cancel).
THEOREM SlotHeld == Spec => []RunningHoldsSlot
<1>1. Inv => RunningHoldsSlot
  BY DEF Inv, SlotInv
<1>. QED
  BY <1>1, Invariance, PTL

\* A request that went out is never reported as cancelled (login_progress.rs update).
THEOREM AnswerReported == Spec => []AnswerIsReported
<1>1. Inv => AnswerIsReported
  BY DEF Inv, SlotInv, RunningHoldsSlot, NeverBoth, SentIsSubmitted, AnswerIsReported,
      UpdateAllowed, Running, Holds
<1>. QED
  BY <1>1, Invariance, PTL

\* An operation whose cancel was accepted sends nothing more (login_progress.rs
\* start, cancel, update; lib.rs before_submit).
THEOREM CancelFinal == Spec => CancelIsFinal
<1>1. Inv /\ [Next]_vars => [\A id \in accepted : requests'[id] = requests[id]]_vars
  <2>1. ASSUME Inv, NEW op \in Ops, Submit(op)
        PROVE  \A id \in accepted : requests'[id] = requests[id]
    <3>1. op \notin accepted
      BY <2>1, SubmitKeeps
    <3>. QED
      BY <2>1, <3>1 DEF Submit, Inv, TypeOK
  <2>2. ASSUME NEW op \in Ops,
               \/ Begin(op) \/ PressCancel(op) \/ CancelReturns(op)
               \/ Approved(op) \/ NotApproved(op)
               \/ HandleCancel(op) \/ LoginRefused(op) \/ LoginStarts(op)
               \/ NextRequest(op) \/ Return(op) \/ Finish(op)
        PROVE  requests' = requests
    BY <2>2 DEF Begin, PressCancel, CancelReturns, Approved, NotApproved, HandleCancel,
        LoginRefused, LoginStarts, NextRequest, Return, Finish
  <2>. QED
    BY <2>1, <2>2 DEF Next
<1>. QED
  BY <1>1, Invariance, PTL DEF Spec, CancelIsFinal

=============================================================================
