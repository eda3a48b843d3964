-------------------------- MODULE RechargeJournal --------------------------
(***************************************************************************)
(* The recharge journal of src-tauri/src/recharge_state.rs: the record of  *)
(* every recharge the app has started, by its transaction id, and the      *)
(* operations that move a record from one stage to the next.               *)
(*                                                                         *)
(* A journal is a function from ids to stages, Absent where the journal    *)
(* has no record. Amounts, accounts, provider material and dates are left  *)
(* out; where the code compares dates the operation returns the set of     *)
(* journals the comparison may produce.                                    *)
(***************************************************************************)
EXTENDS Integers, FiniteSets

CONSTANTS
    Payments,     \* ids of Alipay and WeChat payments
    Transfers,    \* ids of transfers from the campus card to a network account
    NoPayment,    \* the empty parent_id of a transfer nobody paid for first
    MaxArchived   \* terminal records kept (MAX_ARCHIVED_TRANSACTION_HISTORY, 32)

ASSUME JournalAssumption ==
    /\ Payments \cap Transfers = {}
    /\ NoPayment \notin Payments
    /\ IsFiniteSet(Payments)
    /\ MaxArchived \in Nat

Ids == Payments \cup Transfers

Terminal == {"Completed", "Cancelled", "Expired"}
Recoverable == {"TransferSubmitted", "OrderCreated", "HandedOff",
                "PaymentConfirmed", "Unknown"}
Stages == {"Prepared"} \cup Recoverable \cup Terminal

Journals == [Ids -> Stages \cup {"Absent"}]

\* can_transition_to: the stages a record may move to, itself included.
Successors(stage) ==
    {stage} \cup
    CASE stage = "Prepared" ->
            {"TransferSubmitted", "OrderCreated", "HandedOff", "Cancelled", "Unknown"}
      [] stage = "TransferSubmitted" -> {"Completed", "Unknown"}
      [] stage = "OrderCreated" ->
            {"HandedOff", "PaymentConfirmed", "Completed", "Unknown", "Cancelled"}
      [] stage = "HandedOff" -> {"PaymentConfirmed", "Completed", "Unknown", "Cancelled"}
      [] stage = "PaymentConfirmed" ->
            {"TransferSubmitted", "Completed", "Unknown", "Expired"}
      [] stage = "Unknown" ->
            {"PaymentConfirmed", "TransferSubmitted", "Completed", "Cancelled", "Expired"}
      [] OTHER -> {}

CanTransition(stage, next) == next \in Successors(stage)

\* The stage a payment is left in when the window drops it; none for a
\* payment that has already ended.
AfterContextClosed(stage) ==
    CASE stage = "Prepared" -> {"Cancelled"}
      [] stage \in {"OrderCreated", "HandedOff", "TransferSubmitted", "Unknown"} -> {"Unknown"}
      [] stage = "PaymentConfirmed" -> {"PaymentConfirmed"}
      [] OTHER -> {}

\* trim: of the terminal records only the MaxArchived newest stay. Which ones
\* are the newest is left open, so any of them may be the ones that go.
Archived(journal) == {id \in Ids : journal[id] \in Terminal}
Surplus(journal) ==
    IF Cardinality(Archived(journal)) > MaxArchived
    THEN Cardinality(Archived(journal)) - MaxArchived
    ELSE 0
Trimmed(journal) ==
    {[id \in Ids |-> IF id \in gone THEN "Absent" ELSE journal[id]] :
        gone \in {ids \in SUBSET Archived(journal) :
                     Cardinality(ids) = Surplus(journal)}}

\* upsert of a new record, and the assignment of a stage to a record at hand.
Put(journal, id, stage) == Trimmed([journal EXCEPT ![id] = stage])

\* transition succeeds on a record that exists and may move to the stage.
Movable(journal, id, stage) ==
    /\ journal[id] # "Absent"
    /\ CanTransition(journal[id], stage)

\* transition_with_parent moves the transfer first and then its payment; when
\* the payment refuses, the call fails and the transfer has already moved.
MovedPair(journal, transfer, payment, stage) ==
    UNION {Put(moved, payment, stage) : moved \in Put(journal, transfer, stage)}

PairMovable(journal, transfer, payment, stage) ==
    /\ Movable(journal, transfer, stage)
    /\ payment # NoPayment => Movable(journal, payment, stage)

WithParent(journal, transfer, payment, stage) ==
    IF payment = NoPayment
    THEN Put(journal, transfer, stage)
    ELSE MovedPair(journal, transfer, payment, stage)

\* reconcile_legacy_completed_transfers: a completed transfer without a payment
\* completes at most one payment still open, the newest whose accounts, amount
\* and dates fit. Which payments fit is left open.
Loose(journal, parent) ==
    {t \in Transfers : journal[t] = "Completed" /\ parent[t] = NoPayment}
OpenPayments(journal) == {p \in Payments : journal[p] \in Recoverable}
Reconciled(journal, parent) ==
    {[id \in Ids |-> IF id \in matched THEN "Completed" ELSE journal[id]] :
        matched \in {ps \in SUBSET OpenPayments(journal) :
                        Cardinality(ps) <= Cardinality(Loose(journal, parent))}}

\* prune_expired: a payment entry closes after fifteen minutes, an unclear
\* record is archived after thirty days. Which records are that old is open.
Lapsing(journal) == {id \in Ids : journal[id] \in {"OrderCreated", "HandedOff"}}
Unclear(journal) == {id \in Ids : journal[id] = "Unknown"}
Pruned(journal) ==
    UNION {{[id \in Ids |-> IF id \in old THEN "Expired"
                            ELSE IF id \in lapsed THEN "Unknown"
                            ELSE journal[id]] :
               old \in SUBSET (lapsed \cup Unclear(journal))} :
           lapsed \in SUBSET Lapsing(journal)}

\* get_recoverable_recharges reconciles and then prunes what it has reconciled.
Reviewed(journal, parent) ==
    UNION {Trimmed(pruned) : pruned \in
        UNION {Pruned(reconciled) : reconciled \in Reconciled(journal, parent)}}
=============================================================================
