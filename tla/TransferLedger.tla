--------------------------- MODULE TransferLedger ---------------------------
(***************************************************************************)
(* What recharging promises about the money, whatever the commands, the    *)
(* window, storage and the school do on the way: a transfer is in storage  *)
(* as submitted when it is handed in, no payment has two transfers that    *)
(* count, an entry that has ended stays ended across restarts, and only    *)
(* money that has moved closes a payment.                                  *)
(***************************************************************************)
CONSTANTS
    Payments,
    Transfers,
    NoPayment     \* the source of a transfer that spends no payment

VARIABLES
    stage,    \* transfer -> new, held, submitted, moved or refused
    source,   \* transfer -> the payment it spends
    entry,    \* transfer -> what storage says of it
    closed    \* payments the app takes for completed

vars == <<stage, source, entry, closed>>

EndedEntries == {"completed", "cancelled", "expired"}
Entries == {"none", "waiting", "submitted"} \cup EndedEntries

Init ==
    /\ stage = [t \in Transfers |-> "new"]
    /\ source = [t \in Transfers |-> NoPayment]
    /\ entry = [t \in Transfers |-> "none"]
    /\ closed = {}

\* No transfer of the payment counts: none is underway and none has moved.
Unspent(p) ==
    p # NoPayment =>
        \A t \in Transfers : source[t] = p => stage[t] \notin {"submitted", "moved"}

\* Money has moved that the payment stands for.
Funded(p) == \E t \in Transfers : stage[t] = "moved" /\ source[t] \in {p, NoPayment}

Advance(t, before, after) ==
    stage[t] = before /\ stage' = [stage EXCEPT ![t] = after]

Draw(t, p) ==
    /\ Unspent(p) /\ p \notin closed
    /\ Advance(t, "new", "held")
    /\ source' = [source EXCEPT ![t] = p]

HandIn(t) ==
    /\ Unspent(source[t])
    /\ Advance(t, "held", "submitted")
    /\ entry'[t] = "submitted"
    /\ UNCHANGED source

Move(t) == Advance(t, "submitted", "moved") /\ UNCHANGED source
TurnDown(t) == Advance(t, "submitted", "refused") /\ UNCHANGED source

\* What may happen to the books with any of these, or by itself.
EntryMoves(t) ==
    /\ entry[t] \in EndedEntries => entry'[t] \in {entry[t], "none"}
    /\ stage'[t] \in {"submitted", "moved", "refused"} =>
           entry'[t] \notin {"waiting", "cancelled"}
    /\ entry'[t] = "completed" => stage[t] = "moved"

Books ==
    /\ entry' \in [Transfers -> Entries]
    /\ \A t \in Transfers : EntryMoves(t)
    /\ closed' \subseteq closed \cup {p \in Payments : Funded(p)}

Next ==
    /\ Books
    /\ \/ \E t \in Transfers :
             \/ \E p \in Payments \cup {NoPayment} : Draw(t, p)
             \/ HandIn(t) \/ Move(t) \/ TurnDown(t)
       \/ UNCHANGED <<stage, source>>

Spec == Init /\ [][Next]_vars

-----------------------------------------------------------------------------
TypeOK ==
    /\ stage \in [Transfers -> {"new", "held", "submitted", "moved", "refused"}]
    /\ source \in [Transfers -> Payments \cup {NoPayment}]
    /\ entry \in [Transfers -> Entries]
    /\ closed \subseteq Payments

\* No payment has two transfers that are underway or have moved.
OneCounts ==
    \A t, u \in Transfers :
        /\ {stage[t], stage[u]} \subseteq {"submitted", "moved"}
        /\ source[t] = source[u] /\ source[t] # NoPayment
        => t = u

\* A closed payment is one that money has moved for.
ClosedIsFunded == \A p \in closed : Funded(p)
=============================================================================
