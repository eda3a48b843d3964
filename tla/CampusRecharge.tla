--------------------------- MODULE CampusRecharge ---------------------------
(***************************************************************************)
(* Recharging a network account: the commands of campus_commands.rs, the   *)
(* journal they keep in memory and in secure storage, the window of        *)
(* src/main.ts that calls them, the school's services, and the app being   *)
(* killed and started again.                                               *)
(*                                                                         *)
(* A payment (Alipay or WeChat) puts money on the campus card; a transfer  *)
(* moves money from the card to the network account, for one payment or    *)
(* for none. A flow is one conversation of the window with the commands:   *)
(* one for each payment and one for plain transfers. Steps end where the   *)
(* code awaits, writes storage or waits for the user; the commands that    *)
(* take campus_service_lock hold it from their first step to their last.   *)
(***************************************************************************)
EXTENDS RechargeJournal

CONSTANTS
    Wechat,       \* the payments made through WeChat; the others use Alipay
    Card,         \* the flow of plain transfers
    Settings,     \* the writer that saves settings and accounts
    Window,       \* the writer that reviews the journal at start-up
    NoTransfer,   \* an empty slot
    NoJournal,    \* no snapshot waiting to be written
    Overlap,      \* TRUE: a snapshot may be taken while another is not written
    MaxRestarts   \* bound on the number of times the app is killed

Flows == Payments \cup {Card}
Writers == Flows \cup {Settings, Window}

ASSUME RechargeAssumption ==
    /\ Wechat \subseteq Payments
    /\ Card \notin Payments
    /\ NoPayment # Card
    /\ {Settings, Window} \cap Flows = {}
    /\ Settings # Window
    /\ NoTransfer \notin Transfers
    /\ NoJournal \notin Journals
    /\ Overlap \in BOOLEAN
    /\ MaxRestarts \in Nat

VARIABLES
    mem,        \* config.recharge_transactions in memory
    disk,       \* the same in secure storage
    shot,       \* by writer: the copy of the journal it is about to store
    parent,     \* parent_id of each transfer
    used,       \* ids that have been given out
    orderSlot,  \* payments whose order waits for the user's confirmation
    slot,       \* campus_recharge_pending: the transfer that waits for it
    active,     \* payments the window offers to continue
    pc,         \* by flow: where the conversation is
    cur,        \* by flow: the transfer it is about
    orders,     \* payments with an order at the provider
    paid,       \* orders the user has paid
    sent,       \* transfers submitted to the school
    executed,   \* transfers the school has carried out
    refused,    \* transfers the school has turned down
    restarts

journalVars == <<mem, disk, shot, parent, used>>
windowVars == <<orderSlot, slot, active>>
flowVars == <<pc, cur>>
schoolVars == <<orders, paid, sent, executed, refused>>
vars == <<mem, disk, shot, parent, used, orderSlot, slot, active, pc, cur,
          orders, paid, sent, executed, refused, restarts>>

(***************************************************************************)
(* Where a flow can be. Locked: the command holds campus_service_lock.     *)
(***************************************************************************)
Locked == {"noting", "ordering", "handing", "checking", "preparing",
           "submitting", "sent", "done", "refused", "unclear"}
Places == Locked \cup
          {"idle", "asking", "checked", "offered",
           "finishing", "doubting", "leaving", "closing"}

LockFree == \A f \in Flows : pc[f] \notin Locked

Init ==
    /\ mem = [id \in Ids |-> "Absent"]
    /\ disk = mem
    /\ shot = [w \in Writers |-> NoJournal]
    /\ parent = [t \in Transfers |-> NoPayment]
    /\ used = {}
    /\ orderSlot = {}
    /\ slot = NoTransfer
    /\ active = {}
    /\ pc = [f \in Flows |-> "idle"]
    /\ cur = [f \in Flows |-> NoTransfer]
    /\ orders = {}
    /\ paid = {}
    /\ sent = {}
    /\ executed = {}
    /\ refused = {}
    /\ restarts = 0

-----------------------------------------------------------------------------
(***************************************************************************)
(* Storage. A writer changes the journal under the write lock of the       *)
(* configuration, copies it, and stores the copy after the lock is gone.   *)
(***************************************************************************)
MayUpdate == Overlap \/ \A w \in Writers : shot[w] = NoJournal

Update(w, journal) ==
    /\ MayUpdate
    /\ mem' = journal
    /\ shot' = [shot EXCEPT ![w] = journal]

\* save_recharge_snapshot_verified: stored and read back, or given up, in
\* which case the storage may hold the copy all the same.
Stored(w) ==
    /\ disk' = IF shot[w] = NoJournal THEN disk ELSE shot[w]
    /\ shot' = [shot EXCEPT ![w] = NoJournal]

StoreFailed(w) ==
    /\ shot[w] # NoJournal
    /\ disk' \in {disk, shot[w]}
    /\ shot' = [shot EXCEPT ![w] = NoJournal]

StoredOrNot(w) == Stored(w) \/ StoreFailed(w)

\* A transition whose error the caller drops: refused, it changes nothing.
Try(w, id, stage) ==
    IF Movable(mem, id, stage)
    THEN \E journal \in Put(mem, id, stage) : Update(w, journal)
    ELSE UNCHANGED <<mem, shot>>

Goto(f, place) == pc' = [pc EXCEPT ![f] = place]
SameMethod(p) == IF p \in Wechat THEN Wechat ELSE Payments \ Wechat

-----------------------------------------------------------------------------
(***************************************************************************)
(* Payments: prepare_, confirm_ and cancel_{alipay,wechat}_card_recharge.  *)
(***************************************************************************)
PrepareOrder(p) ==
    /\ pc[p] = "idle" /\ p \notin used /\ LockFree
    /\ \E journal \in Put(mem, p, "Prepared") : Update(p, journal)
    /\ used' = used \cup {p}
    /\ active' = IF p \in Wechat THEN active ELSE active \cap Wechat
    /\ p \in Wechat => active \cap Wechat = {}
    /\ Goto(p, "noting")
    /\ UNCHANGED <<disk, parent, orderSlot, slot, cur, schoolVars, restarts>>

OrderNoted(p) ==
    /\ pc[p] = "noting"
    /\ \/ /\ Stored(p)
          /\ orderSlot' = (orderSlot \ SameMethod(p)) \cup {p}
          /\ Goto(p, "asking")
       \/ /\ StoreFailed(p)
          /\ Goto(p, "idle")
          /\ UNCHANGED orderSlot
    /\ UNCHANGED <<mem, parent, used, slot, active, cur, schoolVars, restarts>>

\* The card could not be queried: an older confirmation is dropped as well.
OrderUnavailable(p) ==
    /\ pc[p] = "idle" /\ p \notin used /\ LockFree
    /\ orderSlot \cap SameMethod(p) # {}
    /\ orderSlot' = orderSlot \ SameMethod(p)
    /\ UNCHANGED <<journalVars, slot, active, flowVars, schoolVars, restarts>>

ConfirmOrder(p) ==
    /\ pc[p] = "asking" /\ LockFree
    /\ p \in orderSlot
    /\ orderSlot' = orderSlot \ {p}
    /\ \E place \in {"ordering", "idle"} : Goto(p, place)
    /\ UNCHANGED <<journalVars, slot, active, cur, schoolVars, restarts>>

\* The app is in the background, or another order has taken the slot.
OrderRejected(p) ==
    /\ pc[p] = "asking"
    /\ Goto(p, "idle")
    /\ UNCHANGED <<journalVars, windowVars, cur, schoolVars, restarts>>

CancelOrder(p) ==
    /\ pc[p] = "asking" /\ p \in orderSlot
    /\ MayUpdate
    /\ orderSlot' = orderSlot \ {p}
    /\ Try(p, p, "Cancelled")
    /\ Goto(p, "closing")
    /\ UNCHANGED <<disk, parent, used, slot, active, cur, schoolVars, restarts>>

ProviderCreatesOrder(p) ==
    /\ pc[p] = "ordering" /\ p \notin orders
    /\ orders' = orders \cup {p}
    /\ UNCHANGED <<journalVars, windowVars, flowVars, paid, sent, executed,
                   refused, restarts>>

\* The answer with the payment entry: the stage is assigned, not transitioned.
OrderAnswered(p) ==
    /\ pc[p] = "ordering" /\ p \in orders
    /\ IF mem[p] # "Absent"
       THEN \E journal \in Put(mem, p, "HandedOff") : Update(p, journal)
       ELSE Update(p, mem)
    /\ Goto(p, "handing")
    /\ UNCHANGED <<disk, parent, used, windowVars, cur, schoolVars, restarts>>

\* No answer within 45 seconds, or an error.
OrderUnclear(p) ==
    /\ pc[p] = "ordering"
    /\ MayUpdate
    /\ Try(p, p, "Unknown")
    /\ Goto(p, "closing")
    /\ UNCHANGED <<disk, parent, used, windowVars, cur, schoolVars, restarts>>

HandedOver(p) ==
    /\ pc[p] = "handing"
    /\ \/ Stored(p) /\ active' = (active \ SameMethod(p)) \cup {p}
       \/ StoreFailed(p) /\ UNCHANGED active
    /\ Goto(p, "idle")
    /\ UNCHANGED <<mem, parent, used, orderSlot, slot, cur, schoolVars, restarts>>

Pay(p) ==
    /\ p \in orders \ paid
    /\ paid' = paid \cup {p}
    /\ UNCHANGED <<journalVars, windowVars, flowVars, orders, sent, executed,
                   refused, restarts>>

-----------------------------------------------------------------------------
(***************************************************************************)
(* Transfers: check_wechat_card_recharge and {prepare,confirm,cancel}_     *)
(* network_recharge, called by completeWechatNetworkRecharge,              *)
(* completeAlipayNetworkRecharge and the plain recharge form.              *)
(***************************************************************************)

\* WeChat: the provider says the order is paid.
CheckPaid(p) ==
    /\ p \in Wechat \cap active \cap paid
    /\ pc[p] = "idle" /\ LockFree /\ MayUpdate
    /\ Try(p, p, "PaymentConfirmed")
    /\ Goto(p, "checking")
    /\ UNCHANGED <<disk, parent, used, windowVars, cur, schoolVars, restarts>>

Checked(p) ==
    /\ pc[p] = "checking"
    /\ StoredOrNot(p)
    /\ Goto(p, IF p \in active THEN "checked" ELSE "idle")
    /\ UNCHANGED <<mem, parent, used, windowVars, cur, schoolVars, restarts>>

\* Alipay: the balance of the card has grown by the amount, or had before.
ArrivalSeen(p) ==
    /\ p \in active \ Wechat
    /\ pc[p] = "idle"
    /\ Goto(p, "checked")
    /\ UNCHANGED <<journalVars, windowVars, cur, schoolVars, restarts>>

\* The plain form has no payment to check.
AskedFor(f) == pc[f] = IF f = Card THEN "idle" ELSE "checked"

SourceConfirmed(f) ==
    IF f = Card THEN {mem}
    ELSE IF mem[f] \in Recoverable /\ Movable(mem, f, "PaymentConfirmed")
         THEN Put(mem, f, "PaymentConfirmed")
         ELSE {}

\* The record of the transfer names the payment it spends, and the payment is
\* confirmed, in one update of the journal.
PrepareTransfer(f, t) ==
    /\ AskedFor(f) /\ LockFree
    /\ t \notin used
    /\ \E confirmed \in SourceConfirmed(f) :
         \E journal \in Put(confirmed, t, "Prepared") : Update(f, journal)
    /\ used' = used \cup {t}
    /\ parent' = [parent EXCEPT ![t] = IF f = Card THEN NoPayment ELSE f]
    /\ cur' = [cur EXCEPT ![f] = t]
    /\ Goto(f, "preparing")
    /\ UNCHANGED <<disk, windowVars, schoolVars, restarts>>

\* The payment cannot be continued.
SourceRefused(f) ==
    /\ AskedFor(f) /\ LockFree
    /\ SourceConfirmed(f) = {}
    /\ Goto(f, "idle")
    /\ UNCHANGED <<journalVars, windowVars, cur, schoolVars, restarts>>

\* The card could not be queried: a waiting transfer is dropped as well, unless
\* the query took more than a minute.
TransferUnavailable(f) ==
    /\ AskedFor(f) /\ LockFree
    /\ slot' \in {NoTransfer, slot}
    /\ Goto(f, "idle")
    /\ UNCHANGED <<journalVars, orderSlot, active, cur, schoolVars, restarts>>

TransferNoted(f) ==
    /\ pc[f] = "preparing"
    /\ \/ Stored(f) /\ slot' = cur[f] /\ Goto(f, "offered")
       \/ StoreFailed(f) /\ Goto(f, "idle") /\ UNCHANGED slot
    /\ UNCHANGED <<mem, parent, used, orderSlot, active, cur, schoolVars, restarts>>

\* The user of the plain form says no, or the window has dropped the payment.
CancelTransfer(f) ==
    /\ pc[f] = "offered"
    /\ f \notin active
    /\ IF slot = cur[f]
       THEN /\ MayUpdate
            /\ slot' = NoTransfer
            /\ Try(f, cur[f], "Cancelled")
       ELSE UNCHANGED <<slot, mem, shot>>
    /\ Goto(f, "closing")
    /\ UNCHANGED <<disk, parent, used, orderSlot, active, cur, schoolVars, restarts>>

MayConfirm(f) == pc[f] = "offered" /\ f \in active \cup {Card}

\* Where the window goes when a confirmation fails before it is submitted.
AfterRejection(f) == IF f \in Payments \ Wechat THEN "doubting" ELSE "idle"

\* The app is in the background, or another transfer has taken the slot.
ConfirmRejected(f) ==
    /\ MayConfirm(f)
    /\ Goto(f, AfterRejection(f))
    /\ UNCHANGED <<journalVars, windowVars, cur, schoolVars, restarts>>

\* The confirmation is more than two minutes old.
ConfirmExpired(f) ==
    /\ MayConfirm(f) /\ LockFree
    /\ slot = cur[f]
    /\ slot' = NoTransfer
    /\ Goto(f, AfterRejection(f))
    /\ UNCHANGED <<journalVars, orderSlot, active, cur, schoolVars, restarts>>

\* The transfer leaves the slot and is put on record as submitted before it is.
ConfirmTransfer(f) ==
    /\ MayConfirm(f) /\ LockFree
    /\ slot = cur[f]
    /\ slot' = NoTransfer
    /\ PairMovable(mem, cur[f], parent[cur[f]], "TransferSubmitted")
    /\ \E journal \in WithParent(mem, cur[f], parent[cur[f]], "TransferSubmitted") :
         Update(f, journal)
    /\ Goto(f, "submitting")
    /\ UNCHANGED <<disk, parent, used, orderSlot, active, cur, schoolVars, restarts>>

\* The journal refuses; the transfer's own record may have moved all the same.
SubmissionRefused(f) ==
    /\ MayConfirm(f) /\ LockFree
    /\ slot = cur[f]
    /\ slot' = NoTransfer
    /\ ~PairMovable(mem, cur[f], parent[cur[f]], "TransferSubmitted")
    /\ IF Movable(mem, cur[f], "TransferSubmitted")
       THEN MayUpdate /\ mem' \in Put(mem, cur[f], "TransferSubmitted")
       ELSE UNCHANGED mem
    /\ Goto(f, AfterRejection(f))
    /\ UNCHANGED <<disk, shot, parent, used, orderSlot, active, cur, schoolVars,
                   restarts>>

Submits(f) ==
    /\ sent' = sent \cup {cur[f]}
    /\ Goto(f, "sent")

\* variant: submitted even when the record could not be stored
RecordedOrNot(f) ==
    /\ pc[f] = "submitting"
    /\ StoredOrNot(f)
    /\ Submits(f)
    /\ UNCHANGED <<mem, parent, used, windowVars, cur, orders, paid, executed,
                   refused, restarts>>

TransferRecorded(f) ==
    /\ pc[f] = "submitting"
    /\ \/ Stored(f) /\ Submits(f)
       \/ StoreFailed(f) /\ Goto(f, AfterRejection(f)) /\ UNCHANGED sent
    /\ UNCHANGED <<mem, parent, used, windowVars, cur, orders, paid, executed,
                   refused, restarts>>

\* The school may carry out what it received long after the app gave up.
SchoolExecutes(t) ==
    /\ t \in sent \ (executed \cup refused)
    /\ executed' = executed \cup {t}
    /\ UNCHANGED <<journalVars, windowVars, flowVars, orders, paid, sent,
                   refused, restarts>>

\* The result is recorded on both records; an error of the journal is ignored.
Record(f, stage) ==
    /\ MayUpdate
    /\ IF PairMovable(mem, cur[f], parent[cur[f]], stage)
       THEN \E journal \in WithParent(mem, cur[f], parent[cur[f]], stage) :
              Update(f, journal)
       ELSE /\ mem' \in IF Movable(mem, cur[f], stage)
                        THEN Put(mem, cur[f], stage) ELSE {mem}
            /\ UNCHANGED shot
    /\ UNCHANGED <<disk, parent, used, windowVars, cur, orders, paid, sent,
                   executed, restarts>>

TransferAnswered(f) ==
    /\ pc[f] = "sent" /\ cur[f] \in executed
    /\ Record(f, "Completed")
    /\ Goto(f, "done")
    /\ UNCHANGED refused

TransferTurnedDown(f) ==
    /\ pc[f] = "sent" /\ cur[f] \notin executed
    /\ refused' = refused \cup {cur[f]}
    /\ Record(f, "Unknown")
    /\ Goto(f, "refused")

\* variant: no time limit, only an answer ends the wait
UnclearOnlyWhenExecuted(f) ==
    /\ pc[f] = "sent" /\ cur[f] \in executed
    /\ Record(f, "Unknown")
    /\ Goto(f, "unclear")
    /\ UNCHANGED refused

\* No answer within 45 seconds, or an answer that was lost or cut short.
TransferUnclear(f) ==
    /\ pc[f] = "sent"
    /\ Record(f, "Unknown")
    /\ Goto(f, "unclear")
    /\ UNCHANGED refused

-----------------------------------------------------------------------------
(***************************************************************************)
(* What the window does with the result.                                   *)
(***************************************************************************)
NextPlace(f) ==
    CASE f = Card -> "idle"
      [] f \in Wechat /\ pc[f] = "done" -> "leaving"
      [] f \in Wechat /\ pc[f] # "done" -> "idle"
      [] OTHER -> IF pc[f] = "done" THEN "finishing" ELSE "doubting"

\* variant: a payment with an unclear transfer stays on offer
SettledStillOffered(f) ==
    /\ pc[f] \in {"done", "refused", "unclear"}
    /\ StoredOrNot(f)
    /\ Goto(f, NextPlace(f))
    /\ UNCHANGED <<mem, parent, used, windowVars, cur, schoolVars, restarts>>

Settled(f) ==
    /\ pc[f] \in {"done", "refused", "unclear"}
    /\ StoredOrNot(f)
    /\ Goto(f, NextPlace(f))
    /\ active' = IF pc[f] = "unclear" /\ f \in Wechat THEN active \ {f} ELSE active
    /\ UNCHANGED <<mem, parent, used, orderSlot, slot, cur, schoolVars, restarts>>

\* variant: whatever became of the transfer, the payment is finished
FinishAnyway(p) ==
    /\ pc[p] \in {"finishing", "doubting"} /\ MayUpdate
    /\ Try(p, p, "Completed")
    /\ Goto(p, "closing")
    /\ UNCHANGED <<disk, parent, used, windowVars, cur, schoolVars, restarts>>

\* Alipay: finish_recharge_recovery, whose error the window ignores.
FinishRecovery(p) ==
    /\ pc[p] \in {"finishing", "doubting"} /\ MayUpdate
    /\ Try(p, p, IF pc[p] = "finishing" THEN "Completed" ELSE "Unknown")
    /\ Goto(p, "closing")
    /\ UNCHANGED <<disk, parent, used, windowVars, cur, schoolVars, restarts>>

\* variant: the stage is assigned, whatever it was
LeaveInDoubt(p) ==
    /\ p \in Wechat /\ MayUpdate
    /\ pc[p] = "leaving" \/ (pc[p] = "idle" /\ p \in active)
    /\ \E journal \in Put(mem, p, "Unknown") : Update(p, journal)
    /\ Goto(p, "closing")
    /\ UNCHANGED <<disk, parent, used, windowVars, cur, schoolVars, restarts>>

\* WeChat: cancel_wechat_card_recharge, after a transfer or to replace an order.
LeavePayment(p) ==
    /\ p \in Wechat /\ MayUpdate
    /\ pc[p] = "leaving" \/ (pc[p] = "idle" /\ p \in active)
    /\ IF mem[p] = "Absent" \/ AfterContextClosed(mem[p]) = {}
       THEN UNCHANGED <<mem, shot>>
       ELSE \E stage \in AfterContextClosed(mem[p]) : Try(p, p, stage)
    /\ Goto(p, "closing")
    /\ UNCHANGED <<disk, parent, used, windowVars, cur, schoolVars, restarts>>

\* Alipay: the window drops the payment to make room for another.
ForgetPayment(p) ==
    /\ p \in active \ Wechat
    /\ active' = active \ {p}
    /\ UNCHANGED <<journalVars, orderSlot, slot, flowVars, schoolVars, restarts>>

Closed(f) ==
    /\ pc[f] = "closing"
    /\ StoredOrNot(f)
    /\ active' = active \ {f}
    /\ Goto(f, "idle")
    /\ UNCHANGED <<mem, parent, used, orderSlot, slot, cur, schoolVars, restarts>>

-----------------------------------------------------------------------------
(***************************************************************************)
(* The rest of the app: saving settings writes the whole configuration it  *)
(* read earlier, and a killed app starts from what is in storage.          *)
(***************************************************************************)
SettingsRead ==
    /\ shot[Settings] = NoJournal
    /\ MayUpdate
    /\ shot' = [shot EXCEPT ![Settings] = mem]
    /\ UNCHANGED <<mem, disk, parent, used, windowVars, flowVars, schoolVars, restarts>>

SettingsSaved ==
    /\ shot[Settings] # NoJournal
    /\ disk' = shot[Settings]
    /\ mem' = shot[Settings]
    /\ shot' = [shot EXCEPT ![Settings] = NoJournal]
    /\ UNCHANGED <<parent, used, windowVars, flowVars, schoolVars, restarts>>

\* Storage refused: the configuration in memory stays as it is.
SettingsNotSaved ==
    /\ StoreFailed(Settings)
    /\ UNCHANGED <<mem, parent, used, windowVars, flowVars, schoolVars, restarts>>

\* restoreRecoverableRecharges: one payment of each method is offered again.
Restorable(journal) ==
    {p \in Payments : journal[p] \in {"OrderCreated", "HandedOff", "PaymentConfirmed"}}

OnePerMethod(ps) ==
    /\ \A p, q \in ps : SameMethod(p) = SameMethod(q) => p = q

Offered(journal) ==
    {ps \in SUBSET Restorable(journal) :
        /\ OnePerMethod(ps)
        /\ \A q \in Restorable(journal) : ps \cap SameMethod(q) # {}}

Restart ==
    /\ restarts < MaxRestarts
    /\ restarts' = restarts + 1
    /\ mem' \in Reviewed(disk, parent)
    /\ shot' = [w \in Writers |->
                   IF w = Window /\ mem' # disk THEN mem' ELSE NoJournal]
    /\ orderSlot' = {}
    /\ slot' = NoTransfer
    /\ active' \in Offered(mem')
    /\ pc' = [f \in Flows |-> "idle"]
    /\ cur' = [f \in Flows |-> NoTransfer]
    /\ UNCHANGED <<disk, parent, used, schoolVars>>

ReviewStored ==
    /\ shot[Window] # NoJournal
    /\ StoredOrNot(Window)
    /\ UNCHANGED <<mem, parent, used, windowVars, flowVars, schoolVars, restarts>>

-----------------------------------------------------------------------------
Order(p) ==
    \/ PrepareOrder(p) \/ OrderNoted(p) \/ OrderUnavailable(p)
    \/ ConfirmOrder(p) \/ OrderRejected(p) \/ CancelOrder(p)
    \/ ProviderCreatesOrder(p) \/ OrderAnswered(p) \/ OrderUnclear(p)
    \/ HandedOver(p) \/ Pay(p)
    \/ CheckPaid(p) \/ Checked(p) \/ ArrivalSeen(p)
    \/ FinishRecovery(p) \/ LeavePayment(p) \/ ForgetPayment(p)

Transfer(f) ==
    \/ \E t \in Transfers : PrepareTransfer(f, t)
    \/ SourceRefused(f) \/ TransferUnavailable(f) \/ TransferNoted(f)
    \/ CancelTransfer(f) \/ ConfirmRejected(f) \/ ConfirmExpired(f)
    \/ ConfirmTransfer(f) \/ SubmissionRefused(f) \/ TransferRecorded(f)
    \/ TransferAnswered(f) \/ TransferTurnedDown(f) \/ TransferUnclear(f)
    \/ Settled(f) \/ Closed(f)

Next ==
    \/ \E p \in Payments : Order(p)
    \/ \E f \in Flows : Transfer(f)
    \/ \E t \in Transfers : SchoolExecutes(t)
    \/ SettingsRead \/ SettingsSaved \/ SettingsNotSaved
    \/ Restart \/ ReviewStored

Spec == Init /\ [][Next]_vars

\* What a command or the window does by itself once the user has confirmed:
\* storage writes end, requests are given up after 45 seconds, and the window
\* goes on when its call returns. Nothing is assumed of the user, the provider,
\* the school, the settings page or of who kills the app.
Onward(f) ==
    \/ f \in Payments /\ (OrderNoted(f) \/ OrderUnclear(f) \/ HandedOver(f) \/
                           Checked(f) \/ FinishRecovery(f))
    \/ f \in Payments /\ pc[f] = "leaving" /\ LeavePayment(f)
    \/ TransferNoted(f) \/ TransferRecorded(f) \/ TransferUnclear(f)
    \/ Settled(f) \/ Closed(f)

FairSpec == Spec /\ \A f \in Flows : WF_vars(Onward(f))

-----------------------------------------------------------------------------
\* Every variable keeps its type.
TypeOK ==
    /\ mem \in Journals
    /\ disk \in Journals
    /\ shot \in [Writers -> Journals \cup {NoJournal}]
    /\ parent \in [Transfers -> Payments \cup {NoPayment}]
    /\ used \subseteq Ids
    /\ orderSlot \subseteq Payments
    /\ slot \in Transfers \cup {NoTransfer}
    /\ active \subseteq Payments
    /\ pc \in [Flows -> Places]
    /\ cur \in [Flows -> Transfers \cup {NoTransfer}]
    /\ orders \subseteq Payments
    /\ paid \subseteq orders
    /\ sent \subseteq Transfers
    /\ executed \subseteq sent
    /\ refused \subseteq sent
    /\ restarts \in 0 .. MaxRestarts

\* The money of one payment is moved to the network account at most once,
\* whatever is killed, lost, late or tried again on the way.
TransferredOnce ==
    \A t, u \in executed :
        parent[t] = parent[u] /\ parent[t] # NoPayment => t = u

\* A transfer the school may have received is on record in secure storage as
\* such: not as one that waits for the user, and as completed only if it was
\* carried out.
SubmissionOnRecord ==
    \A t \in sent :
        /\ disk[t] \notin {"Prepared", "Cancelled"}
        /\ disk[t] = "Completed" => t \in executed

\* A payment is closed as completed only when a transfer that spends it, or
\* one of the card that names no payment, has been carried out.
CompletedIsMoved ==
    \A p \in Payments :
        mem[p] = "Completed" =>
            \E t \in executed : parent[t] \in {p, NoPayment}

(***************************************************************************)
(* What all this is to the money (TransferLedger).                         *)
(***************************************************************************)
MoneyStage(t) ==
    CASE t \notin used -> "new"
      [] t \in used \ sent -> "held"
      [] t \in executed -> "moved"
      [] t \in refused \ executed -> "refused"
      [] OTHER -> "submitted"

EntryOf(stage) ==
    CASE stage = "Absent" -> "none"
      [] stage = "Prepared" -> "waiting"
      [] stage = "Completed" -> "completed"
      [] stage = "Cancelled" -> "cancelled"
      [] stage = "Expired" -> "expired"
      [] OTHER -> "submitted"

Money == INSTANCE TransferLedger WITH
    stage <- [t \in Transfers |-> MoneyStage(t)],
    source <- parent,
    entry <- [t \in Transfers |-> EntryOf(disk[t])],
    closed <- {p \in Payments : mem[p] = "Completed"}

\* Recharging keeps the ledger: a transfer is handed in for a payment with no
\* other that counts, once storage says so; what has ended in storage stays
\* ended, across restarts too; and only money that has moved closes a payment.
KeepsLedger == Money!Spec

\* While the app runs, a record that has ended never comes back to life.
EndedStaysEnded ==
    [][restarts' = restarts =>
        \A id \in Ids :
            mem[id] \in Terminal => mem'[id] \in {mem[id], "Absent"}]_vars

\* An order or a transfer that has been submitted is not waited for for ever:
\* its conversation ends and the service lock is given back.
SubmissionSettles ==
    \A f \in Flows : pc[f] \in {"ordering", "sent"} ~> pc[f] = "idle"

(***************************************************************************)
(* Claims of the repository that the code does not keep.                   *)
(***************************************************************************)

\* lib.rs, save_config: ordinary setting and account saves must not erase an
\* unfinished payment.
UnfinishedNotErased ==
    [][SettingsSaved =>
        \A id \in Ids : mem[id] \in Recoverable => mem'[id] = mem[id]]_vars

\* wiki/Billing.md: the app keeps the recharge records that are still to be
\* checked, and they can be continued after a restart.
OrdersSurviveRestart ==
    [][restarts' = restarts + 1 =>
        \A p \in orders : mem'[p] \in Recoverable \cup Terminal \cup {"Absent"}]_vars

\* recharge_state.rs, one_legacy_transfer_only_archives_the_nearest_matching_
\* payment: one transfer that names no payment completes at most one payment.
Unlinked ==
    {p \in Payments : mem[p] = "Completed" /\ \A t \in executed : parent[t] # p}
OneTransferOnePayment ==
    Cardinality(Unlinked) <= Cardinality({t \in executed : parent[t] = NoPayment})
=============================================================================
