------------------------ MODULE CampusRechargeProofs ------------------------
(***************************************************************************)
(* Proofs about CampusRecharge, under the assumption that a copy of the    *)
(* journal is stored before the next copy is taken.                        *)
(***************************************************************************)
EXTENDS CampusRecharge, FiniteSetTheorems, TLAPS

-----------------------------------------------------------------------------
(***************************************************************************)
(* The inductive invariant.                                                *)
(***************************************************************************)

\* The payment whose money a flow moves.
Owner(f) == IF f = Card THEN NoPayment ELSE f

\* Transfers the school may still carry out, or has.
Live == sent \ refused

\* Stages from which no restart offers a payment again.
Spent == {"TransferSubmitted", "Unknown", "Completed", "Cancelled", "Expired", "Absent"}

\* Stages of the record of a transfer that has been submitted.
Submitted == {"TransferSubmitted", "Unknown", "Expired", "Absent"}

Talking == {"preparing", "offered", "submitting"}

\* Where the conversation about a payment with a live transfer can be.
After == {"sent", "done", "unclear", "finishing", "doubting", "leaving", "closing"}

TypeJournal ==
    /\ mem \in Journals
    /\ disk \in Journals
    /\ shot \in [Writers -> Journals \cup {NoJournal}]
    /\ parent \in [Transfers -> Payments \cup {NoPayment}]
    /\ used \subseteq Ids

TypeWindow ==
    /\ orderSlot \subseteq Payments
    /\ slot \in Transfers \cup {NoTransfer}
    /\ active \subseteq Payments
    /\ pc \in [Flows -> Places]
    /\ cur \in [Flows -> Transfers \cup {NoTransfer}]

TypeSchool ==
    /\ orders \subseteq Payments
    /\ paid \subseteq orders
    /\ sent \subseteq Transfers
    /\ executed \subseteq sent
    /\ refused \subseteq sent

TypeRestarts == restarts \in 0 .. MaxRestarts

\* At most one copy waits to be written, and it is what memory holds.
OneCopy ==
    \A w \in Writers :
        shot[w] # NoJournal =>
            /\ shot[w] = mem
            /\ \A v \in Writers \ {w} : shot[v] = NoJournal

\* Every id on record, submitted or named as a parent has been given out.
Known ==
    /\ \A id \in Ids : mem[id] # "Absent" \/ disk[id] # "Absent" => id \in used
    /\ sent \subseteq used
    /\ \A t \in Transfers : parent[t] # NoPayment => parent[t] \in used

\* A payment whose order is being prepared has not moved on.
Fresh ==
    \A p \in Payments :
        pc[p] \in {"noting", "asking", "ordering"} => mem[p] = "Prepared"

\* A conversation owns the transfer it is about.
Owned ==
    \A f \in Flows :
        /\ pc[f] \in Talking =>
            /\ cur[f] \in Transfers \cap used
            /\ cur[f] \notin sent
            /\ parent[cur[f]] = Owner(f)
        /\ pc[f] = "sent" =>
            /\ cur[f] \in Live
            /\ parent[cur[f]] = Owner(f)
        /\ pc[f] \in {"done", "finishing"} =>
            /\ cur[f] \in executed
            /\ parent[cur[f]] = Owner(f)

\* What is about to be submitted is on record, in the copy to be written.
Noted ==
    \A f \in Flows :
        pc[f] = "submitting" =>
            /\ shot[f] # NoJournal
            /\ mem[cur[f]] = "TransferSubmitted"
            /\ f \in Payments => mem[f] = "TransferSubmitted"

\* A submitted transfer is on record in memory and in storage.
OnRecord ==
    /\ \A t \in sent : mem[t] \in Submitted \cup {"Completed"}
    /\ \A t \in sent : disk[t] \in Submitted \cup {"Completed"}

\* A transfer on record as completed has been carried out.
Carried ==
    \A t \in Transfers :
        mem[t] = "Completed" \/ disk[t] = "Completed" => t \in executed

\* A payment on record as completed has been moved.
Moved ==
    \A p \in Payments :
        mem[p] = "Completed" \/ disk[p] = "Completed" =>
            \E t \in executed : parent[t] \in {p, NoPayment}

OnePerPayment ==
    \A t, u \in Live : parent[t] = parent[u] /\ parent[t] # NoPayment => t = u

\* A payment with a live transfer is on record, and at a stage from which no
\* restart offers it again.
SpentOnRecord ==
    \A t \in Live : parent[t] # NoPayment =>
        mem[parent[t]] \in Spent /\ disk[parent[t]] \in Spent

\* The window does not offer it again either.
NotOffered ==
    \A t \in Live : parent[t] # NoPayment =>
        \/ pc[parent[t]] \in After
        \/ pc[parent[t]] = "idle" /\ parent[t] \notin active

Settledness == executed \cap refused = {}

\* What the journal says, in memory and in storage.
Recorded ==
    OneCopy /\ Known /\ OnRecord /\ Carried /\ Moved /\ SpentOnRecord

\* Where the conversations are.
Placed == Fresh /\ Owned /\ Noted /\ NotOffered

Inv ==
    /\ ~Overlap
    /\ TypeJournal /\ TypeWindow /\ TypeSchool /\ TypeRestarts
    /\ Recorded
    /\ Placed
    /\ OnePerPayment /\ Settledness

-----------------------------------------------------------------------------
(***************************************************************************)
(* What the operations of the journal may do to a record.                  *)
(***************************************************************************)

\* The record stays, or it had ended and is trimmed.
Kept(before, after, id) ==
    \/ after[id] = before[id]
    \/ before[id] \in Terminal /\ after[id] = "Absent"

\* The record is put at the stage, and trimmed at once if the stage is final.
PutAt(after, id, stage) ==
    after[id] = stage \/ (stage \in Terminal /\ after[id] = "Absent")

LEMMA TrimmedKeeps ==
    ASSUME NEW journal \in Journals, NEW after \in Trimmed(journal)
    PROVE  /\ after \in Journals
           /\ \A id \in Ids : Kept(journal, after, id)
  <1>1. PICK gone \in {ids \in SUBSET Archived(journal) : Cardinality(ids) = Surplus(journal)} :
             after = [id \in Ids |-> IF id \in gone THEN "Absent" ELSE journal[id]]
    BY DEF Trimmed
  <1>2. gone \subseteq Archived(journal)
    OBVIOUS
  <1> QED
    BY <1>1, <1>2 DEF Kept, Journals, Archived

LEMMA PutMoves ==
    ASSUME NEW journal \in Journals, NEW id \in Ids, NEW stage \in Stages,
           NEW after \in Put(journal, id, stage)
    PROVE  /\ after \in Journals
           /\ PutAt(after, id, stage)
           /\ \A other \in Ids \ {id} : Kept(journal, after, other)
  <1> DEFINE placed == [journal EXCEPT ![id] = stage]
  <1>1. placed \in Journals
    BY DEF Journals
  <1>2. /\ after \in Journals
        /\ \A other \in Ids : Kept(placed, after, other)
    BY <1>1, TrimmedKeeps DEF Put
  <1>3. placed[id] = stage /\ \A other \in Ids \ {id} : placed[other] = journal[other]
    BY DEF Journals
  <1> QED
    BY <1>2, <1>3 DEF Kept, PutAt

LEMMA WithParentMoves ==
    ASSUME NEW journal \in Journals, NEW transfer \in Transfers,
           NEW payment \in Payments \cup {NoPayment}, NEW stage \in Stages,
           NEW after \in WithParent(journal, transfer, payment, stage)
    PROVE  /\ after \in Journals
           /\ PutAt(after, transfer, stage)
           /\ payment # NoPayment => PutAt(after, payment, stage)
           /\ \A other \in Ids \ {transfer} :
                (other = payment /\ payment # NoPayment) \/ Kept(journal, after, other)
  <1>1. transfer \in Ids /\ (payment # NoPayment => payment \in Ids /\ payment # transfer)
    BY JournalAssumption DEF Ids
  <1>2. CASE payment = NoPayment
    <2>1. after \in Put(journal, transfer, stage)
      BY <1>2 DEF WithParent
    <2> QED
      BY <2>1, <1>1, <1>2, PutMoves
  <1>3. CASE payment # NoPayment
    <2>1. PICK moved \in Put(journal, transfer, stage) : after \in Put(moved, payment, stage)
      BY <1>3 DEF WithParent, MovedPair
    <2>2. /\ moved \in Journals
          /\ PutAt(moved, transfer, stage)
          /\ \A other \in Ids \ {transfer} : Kept(journal, moved, other)
      BY <2>1, <1>1, PutMoves
    <2>3. /\ after \in Journals
          /\ PutAt(after, payment, stage)
          /\ \A other \in Ids \ {payment} : Kept(moved, after, other)
      BY <2>1, <2>2, <1>1, <1>3, PutMoves
    <2>4. PutAt(after, transfer, stage)
      BY <2>2, <2>3, <1>1, <1>3 DEF PutAt, Kept
    <2>5. \A other \in Ids \ {transfer, payment} : Kept(journal, after, other)
      BY <2>2, <2>3 DEF Kept
    <2> QED
      BY <1>3, <2>3, <2>4, <2>5
  <1> QED
    BY <1>2, <1>3

LEMMA ReviewedMoves ==
    ASSUME NEW journal \in Journals, NEW after \in Reviewed(journal, parent)
    PROVE  /\ after \in Journals
           /\ \A id \in Ids :
                \/ Kept(journal, after, id)
                \/ id \in Payments /\ journal[id] \in Recoverable /\ PutAt(after, id, "Completed")
                   /\ Loose(journal, parent) # {}
                \/ journal[id] \in {"OrderCreated", "HandedOff", "Unknown"}
                   /\ (after[id] = "Unknown" \/ PutAt(after, id, "Expired"))
  <1>1. PICK reconciled \in Reconciled(journal, parent) :
             after \in UNION {Trimmed(pruned) : pruned \in Pruned(reconciled)}
    BY DEF Reviewed
  <1>2. PICK pruned \in Pruned(reconciled) : after \in Trimmed(pruned)
    BY <1>1
  <1>3. PICK matched \in SUBSET OpenPayments(journal) :
             /\ Cardinality(matched) <= Cardinality(Loose(journal, parent))
             /\ reconciled = [id \in Ids |-> IF id \in matched THEN "Completed" ELSE journal[id]]
    BY DEF Reconciled
  <1>4. Loose(journal, parent) = {} => matched = {}
    <2>1. IsFiniteSet(matched)
      BY FS_Subset, JournalAssumption DEF OpenPayments
    <2>2. Cardinality({}) = 0
      BY FS_EmptySet
    <2>3. Cardinality(matched) \in Nat
      BY <2>1, FS_CardinalityType
    <2>4. Loose(journal, parent) = {} => Cardinality(matched) = 0
      BY <1>3, <2>2, <2>3
    <2> QED
      BY <2>1, <2>4, FS_EmptySet
  <1>5. /\ reconciled \in Journals
        /\ \A id \in Ids : \/ reconciled[id] = journal[id]
                           \/ /\ id \in Payments /\ journal[id] \in Recoverable
                              /\ reconciled[id] = "Completed"
                              /\ Loose(journal, parent) # {}
    BY <1>3, <1>4 DEF Journals, OpenPayments, Stages, Terminal
  <1>6. PICK lapsed \in SUBSET Lapsing(reconciled) :
          \E old \in SUBSET (lapsed \cup Unclear(reconciled)) :
             pruned = [id \in Ids |-> IF id \in old THEN "Expired"
                                     ELSE IF id \in lapsed THEN "Unknown" ELSE reconciled[id]]
    BY DEF Pruned
  <1>7. PICK old \in SUBSET (lapsed \cup Unclear(reconciled)) :
             pruned = [id \in Ids |-> IF id \in old THEN "Expired"
                                     ELSE IF id \in lapsed THEN "Unknown" ELSE reconciled[id]]
    BY <1>6
  <1>8. /\ pruned \in Journals
        /\ \A id \in Ids : \/ pruned[id] = reconciled[id]
                           \/ /\ reconciled[id] \in {"OrderCreated", "HandedOff", "Unknown"}
                              /\ pruned[id] \in {"Unknown", "Expired"}
    BY <1>5, <1>7 DEF Journals, Lapsing, Unclear, Stages, Terminal, Recoverable
  <1>9. /\ after \in Journals
        /\ \A id \in Ids : Kept(pruned, after, id)
    BY <1>8, <1>2, TrimmedKeeps
  <1> QED
    BY <1>5, <1>8, <1>9 DEF Kept, PutAt, Terminal, Recoverable

-----------------------------------------------------------------------------
(***************************************************************************)
(* The journal under the three kinds of step there are: one that leaves it *)
(* alone, one that stores a copy, and one that changes it in memory.       *)
(***************************************************************************)
LEMMA FlowKinds ==
    /\ Payments \subseteq Ids /\ Transfers \subseteq Ids
    /\ Payments \subseteq Flows /\ Card \in Flows
    /\ Flows \subseteq Writers /\ Settings \in Writers /\ Window \in Writers
    /\ Settings \notin Flows /\ Window \notin Flows /\ Settings # Window
    /\ \A f \in Flows : Owner(f) \in Payments \cup {NoPayment}
    /\ \A f \in Flows : Owner(f) # NoPayment <=> f \in Payments
    /\ \A f \in Payments : Owner(f) = f
    /\ \A f, g \in Flows : Owner(f) = Owner(g) => f = g
    /\ NoTransfer \notin Transfers
  BY JournalAssumption, RechargeAssumption DEF Ids, Flows, Writers, Owner

\* What the school has received and carried out stays as it is.
SchoolStays == UNCHANGED <<sent, executed>> /\ refused \subseteq refused'

\* Only a transfer whose id is new is given a payment.
ParentStays ==
    /\ parent' \in [Transfers -> Payments \cup {NoPayment}]
    /\ \A t \in Transfers :
         parent'[t] = parent[t] \/ (t \notin used /\ parent'[t] \in used' \cup {NoPayment})

LEMMA QuietKeepsRecorded ==
    ASSUME Inv, UNCHANGED journalVars, SchoolStays
    PROVE  TypeJournal' /\ Recorded'
  <1>1. TypeJournal'
    BY DEF Inv, TypeJournal, journalVars
  <1>2. OneCopy' /\ Known'
    BY DEF Inv, Recorded, OneCopy, Known, journalVars, SchoolStays
  <1>3. OnRecord' /\ Carried' /\ Moved' /\ SpentOnRecord'
    BY DEF Inv, Recorded, OnRecord, Carried, Moved, SpentOnRecord, Live,
           journalVars, SchoolStays
  <1> QED
    BY <1>1, <1>2, <1>3 DEF Recorded

LEMMA StoredMoves ==
    ASSUME Inv, NEW w \in Writers, StoredOrNot(w)
    PROVE  /\ disk' \in Journals
           /\ disk' \in {disk, mem}
           /\ shot' \in [Writers -> Journals \cup {NoJournal}]
           /\ shot'[w] = NoJournal
           /\ \A v \in Writers \ {w} : shot'[v] = shot[v]
  BY DEF Inv, TypeJournal, Recorded, OneCopy, StoredOrNot, Stored, StoreFailed

LEMMA StoredKeepsRecorded ==
    ASSUME Inv, NEW w \in Writers, StoredOrNot(w),
           UNCHANGED <<mem, parent, used>>, SchoolStays
    PROVE  TypeJournal' /\ Recorded'
  <1>1. /\ disk' \in Journals
        /\ disk' \in {disk, mem}
        /\ shot' \in [Writers -> Journals \cup {NoJournal}]
        /\ shot'[w] = NoJournal
        /\ \A v \in Writers \ {w} : shot'[v] = shot[v]
    BY StoredMoves
  <1>2. TypeJournal'
    BY <1>1 DEF Inv, TypeJournal
  <1>3. OneCopy'
    BY <1>1 DEF Inv, Recorded, OneCopy
  <1>4. Known'
    BY <1>1 DEF Inv, Recorded, Known, SchoolStays
  <1>5. OnRecord' /\ Carried'
    BY <1>1 DEF Inv, Recorded, OnRecord, Carried, SchoolStays
  <1>6. Moved'
    BY <1>1 DEF Inv, Recorded, Moved, SchoolStays
  <1>7. SpentOnRecord'
    BY <1>1 DEF Inv, Recorded, SpentOnRecord, Live, SchoolStays
  <1> QED
    BY <1>2, <1>3, <1>4, <1>5, <1>6, <1>7 DEF Recorded

\* A stage a record may be moved to.
Admissible(id, stage) ==
    /\ id \in sent => stage \in Submitted \cup {"Completed"}
    /\ stage = "Completed" =>
        /\ id \in Transfers => id \in executed
        /\ id \in Payments => \E t \in executed : parent[t] \in {id, NoPayment}
    /\ id \in Payments /\ (\E t \in Live : parent[t] = id) => stage \in Spent

LEMMA ChangedKeepsRecorded ==
    ASSUME Inv,
           mem' \in Journals,
           shot' \in [Writers -> Journals \cup {NoJournal}],
           OneCopy',
           used \subseteq used', used' \subseteq Ids,
           UNCHANGED disk, ParentStays, SchoolStays,
           \A id \in Ids : \/ Kept(mem, mem', id)
                           \/ id \in used' /\ Admissible(id, mem'[id])
    PROVE  TypeJournal' /\ Recorded'
  <1>1. Transfers \subseteq Ids /\ Payments \subseteq Ids /\ sent \subseteq Transfers
        /\ executed \subseteq sent
        /\ \A t \in sent : parent'[t] = parent[t] /\ parent[t] \in Payments \cup {NoPayment}
    BY FlowKinds DEF Inv, TypeSchool, Recorded, Known, ParentStays
  <1>2. TypeJournal'
    BY DEF Inv, TypeJournal, ParentStays
  <1>3. Known'
    BY DEF Inv, Recorded, Known, ParentStays, SchoolStays, Kept
  <1>4. OnRecord'
    BY <1>1
       DEF Inv, Recorded, OnRecord, SchoolStays, Kept, Admissible, Submitted
  <1>5. Carried'
    BY <1>1 DEF Inv, Recorded, Carried, SchoolStays, Kept, Admissible
  <1>6. Moved'
    BY <1>1 DEF Inv, Recorded, Moved, SchoolStays, Kept, Admissible
  <1>7. SpentOnRecord'
    BY <1>1
       DEF Inv, Recorded, SpentOnRecord, Live, SchoolStays, Kept, Admissible,
           Spent
  <1> QED
    BY <1>2, <1>3, <1>4, <1>5, <1>6, <1>7 DEF Recorded

-----------------------------------------------------------------------------
(***************************************************************************)
(* The steps that change the journal, one lemma per operator they share.   *)
(***************************************************************************)
NoneWaiting == \A w \in Writers : shot[w] = NoJournal

LEMMA UpdateMoves ==
    ASSUME Inv, NEW w \in Writers, NEW journal \in Journals, Update(w, journal)
    PROVE  /\ NoneWaiting
           /\ mem' = journal
           /\ shot' \in [Writers -> Journals \cup {NoJournal}]
           /\ OneCopy'
           /\ shot'[w] # NoJournal
  <1>1. /\ NoneWaiting
        /\ mem' = journal
        /\ shot' = [shot EXCEPT ![w] = journal]
    BY DEF Inv, Update, MayUpdate, NoneWaiting
  <1>2. shot' \in [Writers -> Journals \cup {NoJournal}]
    BY <1>1 DEF Inv, TypeJournal
  <1>3. shot'[w] = journal /\ \A v \in Writers \ {w} : shot'[v] = NoJournal
    BY <1>1 DEF Inv, TypeJournal, NoneWaiting
  <1>4. OneCopy'
    BY <1>1, <1>3 DEF OneCopy
  <1> QED
    BY <1>1, <1>2, <1>3, <1>4, RechargeAssumption

LEMMA TryMoves ==
    ASSUME Inv, NEW w \in Writers, NEW id \in Ids, NEW stage \in Stages,
           MayUpdate, Try(w, id, stage)
    PROVE  /\ NoneWaiting
           /\ mem' \in Journals
           /\ shot' \in [Writers -> Journals \cup {NoJournal}]
           /\ OneCopy'
           /\ \/ mem'[id] = mem[id]
              \/ Movable(mem, id, stage) /\ PutAt(mem', id, stage)
           /\ \A other \in Ids \ {id} : Kept(mem, mem', other)
  <1>1. NoneWaiting
    BY DEF Inv, MayUpdate, NoneWaiting
  <1>2. CASE Movable(mem, id, stage)
    <2>1. PICK journal \in Put(mem, id, stage) : Update(w, journal)
      BY <1>2 DEF Try
    <2>2. /\ journal \in Journals
          /\ PutAt(journal, id, stage)
          /\ \A other \in Ids \ {id} : Kept(mem, journal, other)
      BY <2>1, PutMoves DEF Inv, TypeJournal
    <2> QED
      BY <1>1, <1>2, <2>1, <2>2, UpdateMoves
  <1>3. CASE ~Movable(mem, id, stage)
    BY <1>1, <1>3 DEF Inv, TypeJournal, Recorded, OneCopy, Try, Kept
  <1> QED
    BY <1>2, <1>3

LEMMA RecordMoves ==
    ASSUME Inv, NEW f \in Flows, cur[f] \in Transfers, parent[cur[f]] = Owner(f),
           NEW stage \in Stages, Record(f, stage)
    PROVE  /\ NoneWaiting
           /\ mem' \in Journals
           /\ shot' \in [Writers -> Journals \cup {NoJournal}]
           /\ OneCopy'
           /\ Kept(mem, mem', cur[f]) \/ PutAt(mem', cur[f], stage)
           /\ \A p \in Payments :
                Kept(mem, mem', p) \/ (p = f /\ PutAt(mem', p, stage))
           /\ \A other \in Transfers \ {cur[f]} : Kept(mem, mem', other)
  <1>1. /\ NoneWaiting
        /\ cur[f] \in Ids /\ Owner(f) \in Payments \cup {NoPayment}
        /\ cur[f] \notin Payments
        /\ f \in Payments => Owner(f) = f
        /\ f \notin Payments => Owner(f) = NoPayment
        /\ f \in Writers
    BY FlowKinds, JournalAssumption DEF Inv, Record, MayUpdate, NoneWaiting
  <1>2. CASE PairMovable(mem, cur[f], parent[cur[f]], stage)
    <2>1. PICK journal \in WithParent(mem, cur[f], Owner(f), stage) : Update(f, journal)
      BY <1>2 DEF Record
    <2>2. /\ journal \in Journals
          /\ PutAt(journal, cur[f], stage)
          /\ Owner(f) # NoPayment => PutAt(journal, Owner(f), stage)
          /\ \A other \in Ids \ {cur[f]} :
               (other = Owner(f) /\ Owner(f) # NoPayment) \/ Kept(mem, journal, other)
      BY <1>1, <2>1, WithParentMoves DEF Inv, TypeJournal
    <2>3. /\ mem' = journal
          /\ shot' \in [Writers -> Journals \cup {NoJournal}]
          /\ OneCopy'
      BY <1>1, <2>1, <2>2, UpdateMoves
    <2>4. \A p \in Payments : p # f => p # Owner(f)
      BY <1>1, JournalAssumption
    <2> QED
      BY <1>1, <2>2, <2>3, <2>4, FlowKinds, JournalAssumption
  <1>3. CASE ~PairMovable(mem, cur[f], parent[cur[f]], stage)
    <2>1. UNCHANGED shot
      BY <1>3 DEF Record
    <2>2. shot' \in [Writers -> Journals \cup {NoJournal}] /\ OneCopy'
      BY <1>1, <2>1 DEF Inv, TypeJournal, OneCopy, NoneWaiting
    <2>3. CASE mem' \in Put(mem, cur[f], stage)
      <3>1. /\ mem' \in Journals
            /\ PutAt(mem', cur[f], stage)
            /\ \A other \in Ids \ {cur[f]} : Kept(mem, mem', other)
        BY <1>1, <2>3, PutMoves DEF Inv, TypeJournal
      <3> QED
        BY <1>1, <2>2, <3>1, FlowKinds
    <2>4. CASE mem' = mem
      BY <1>1, <2>2, <2>4 DEF Inv, TypeJournal, Kept
    <2> QED
      BY <1>3, <2>3, <2>4 DEF Record
  <1> QED
    BY <1>2, <1>3

-----------------------------------------------------------------------------
(***************************************************************************)
(* Every step keeps the invariant.                                         *)
(***************************************************************************)
LEMMA OrderNotedKeeps ==
    ASSUME Inv, NEW p \in Payments, OrderNoted(p)
    PROVE  Inv'
  <1>1. p \in Writers /\ StoredOrNot(p) /\ UNCHANGED <<mem, parent, used>> /\ SchoolStays
    BY FlowKinds DEF OrderNoted, StoredOrNot, schoolVars, SchoolStays
  <1>2. TypeJournal' /\ Recorded'
    BY <1>1, StoredKeepsRecorded
  <1>3. /\ \A w \in Writers \ {p} : shot'[w] = shot[w]
    BY <1>1, StoredMoves
  <1>4. TypeWindow' /\ TypeSchool' /\ TypeRestarts'
    BY <1>1, <1>3
       DEF Inv, TypeWindow, TypeSchool, TypeRestarts, Places, OrderNoted, Goto,
           schoolVars
  <1>5. Fresh'
    BY <1>1, <1>3, FlowKinds
       DEF Inv, Placed, TypeWindow, Fresh, OrderNoted, Goto
  <1>6. Owned'
    BY <1>1, <1>3
       DEF Inv, Placed, TypeWindow, Owned, Talking, Live, OrderNoted, Goto,
           schoolVars
  <1>7. Noted'
    BY <1>1, <1>3, FlowKinds
       DEF Inv, Placed, TypeWindow, Noted, OrderNoted, Goto
  <1>8. NotOffered'
    BY <1>1, <1>3, FlowKinds
       DEF Inv, Placed, TypeWindow, TypeSchool, TypeJournal, NotOffered, After,
           Live, OrderNoted, Goto, SchoolStays
  <1>9. OnePerPayment' /\ Settledness'
    BY <1>1, <1>3
       DEF Inv, OnePerPayment, Settledness, Live, OrderNoted, schoolVars
  <1> QED
    BY <1>2, <1>4, <1>5, <1>6, <1>7, <1>8, <1>9 DEF Inv, Placed

LEMMA OrderUnavailableKeeps ==
    ASSUME Inv, NEW p \in Payments, OrderUnavailable(p)
    PROVE  Inv'
  <1>1. UNCHANGED journalVars /\ SchoolStays
    BY DEF OrderUnavailable, schoolVars, SchoolStays
  <1>2. TypeJournal' /\ Recorded'
    BY <1>1, QuietKeepsRecorded
  <1>3. TypeWindow' /\ TypeSchool' /\ TypeRestarts'
    BY <1>1
       DEF Inv, TypeWindow, TypeSchool, TypeRestarts, OrderUnavailable,
           flowVars, schoolVars
  <1>4. Fresh'
    BY <1>1 DEF Inv, Placed, Fresh, OrderUnavailable, flowVars, journalVars
  <1>5. Owned'
    BY <1>1
       DEF Inv, Placed, Owned, Live, OrderUnavailable, flowVars, schoolVars,
           journalVars
  <1>6. Noted'
    BY <1>1 DEF Inv, Placed, Noted, OrderUnavailable, flowVars, journalVars
  <1>7. NotOffered'
    BY <1>1
       DEF Inv, Placed, NotOffered, After, Live, OrderUnavailable, flowVars,
           journalVars, SchoolStays
  <1>8. OnePerPayment' /\ Settledness'
    BY <1>1
       DEF Inv, OnePerPayment, Settledness, Live, OrderUnavailable, schoolVars,
           journalVars
  <1> QED
    BY <1>2, <1>3, <1>4, <1>5, <1>6, <1>7, <1>8 DEF Inv, Placed

LEMMA ConfirmOrderKeeps ==
    ASSUME Inv, NEW p \in Payments, ConfirmOrder(p)
    PROVE  Inv'
  <1>1. UNCHANGED journalVars /\ SchoolStays
    BY DEF ConfirmOrder, schoolVars, SchoolStays
  <1>2. TypeJournal' /\ Recorded'
    BY <1>1, QuietKeepsRecorded
  <1>3. TypeWindow' /\ TypeSchool' /\ TypeRestarts'
    BY <1>1
       DEF Inv, TypeWindow, TypeSchool, TypeRestarts, Places, Locked,
           ConfirmOrder, Goto, schoolVars
  <1>4. Fresh'
    BY <1>1 DEF Inv, Placed, Fresh, ConfirmOrder, Goto, journalVars
  <1>5. Owned'
    BY <1>1
       DEF Inv, Placed, Owned, Talking, Live, ConfirmOrder, Goto, schoolVars,
           journalVars
  <1>6. Noted'
    BY <1>1 DEF Inv, Placed, Noted, ConfirmOrder, Goto, journalVars
  <1>7. NotOffered'
    BY <1>1
       DEF Inv, Placed, NotOffered, After, Live, ConfirmOrder, Goto,
           journalVars, SchoolStays
  <1>8. OnePerPayment' /\ Settledness'
    BY <1>1
       DEF Inv, OnePerPayment, Settledness, Live, ConfirmOrder, schoolVars,
           journalVars
  <1> QED
    BY <1>2, <1>3, <1>4, <1>5, <1>6, <1>7, <1>8 DEF Inv, Placed

LEMMA OrderRejectedKeeps ==
    ASSUME Inv, NEW p \in Payments, OrderRejected(p)
    PROVE  Inv'
  <1>1. UNCHANGED journalVars /\ SchoolStays
    BY DEF OrderRejected, schoolVars, SchoolStays
  <1>2. TypeJournal' /\ Recorded'
    BY <1>1, QuietKeepsRecorded
  <1>3. TypeWindow' /\ TypeSchool' /\ TypeRestarts'
    BY <1>1
       DEF Inv, TypeWindow, TypeSchool, TypeRestarts, Places, OrderRejected,
           Goto, windowVars, schoolVars
  <1>4. Fresh'
    BY <1>1 DEF Inv, Placed, Fresh, OrderRejected, Goto, journalVars
  <1>5. Owned'
    BY <1>1
       DEF Inv, Placed, Owned, Talking, Live, OrderRejected, Goto, schoolVars,
           journalVars
  <1>6. Noted'
    BY <1>1 DEF Inv, Placed, Noted, OrderRejected, Goto, journalVars
  <1>7. NotOffered'
    BY <1>1
       DEF Inv, Placed, NotOffered, After, Live, OrderRejected, Goto,
           windowVars, journalVars, SchoolStays
  <1>8. OnePerPayment' /\ Settledness'
    BY <1>1
       DEF Inv, OnePerPayment, Settledness, Live, OrderRejected, schoolVars,
           journalVars
  <1> QED
    BY <1>2, <1>3, <1>4, <1>5, <1>6, <1>7, <1>8 DEF Inv, Placed

LEMMA CancelOrderKeeps ==
    ASSUME Inv, NEW p \in Payments, CancelOrder(p)
    PROVE  Inv'
  <1>1. p \in Ids /\ p \in Writers /\ "Cancelled" \in Stages /\ Try(p, p, "Cancelled") /\ MayUpdate
    BY FlowKinds DEF CancelOrder, Stages, Recoverable, Terminal
  <1>2. /\ NoneWaiting
        /\ mem' \in Journals
        /\ shot' \in [Writers -> Journals \cup {NoJournal}]
        /\ OneCopy'
        /\ mem'[p] = mem[p] \/ (Movable(mem, p, "Cancelled") /\ PutAt(mem', p, "Cancelled"))
        /\ \A other \in Ids \ {p} : Kept(mem, mem', other)
    BY <1>1, TryMoves
  <1>3. TypeJournal' /\ Recorded'
    <2>1. UNCHANGED <<disk, parent, used>> /\ SchoolStays
      BY DEF CancelOrder, schoolVars, SchoolStays
    <2>2. Kept(mem, mem', p) \/ (p \in used' /\ Admissible(p, mem'[p]))
      BY <1>1, <1>2, <2>1, JournalAssumption
         DEF Inv, Recorded, Known, NotOffered, After, TypeSchool, Movable,
             CanTransition, Successors, PutAt, Kept, Admissible, Spent,
             CancelOrder
    <2> QED
      BY <1>1, <1>2, <2>1, <2>2, ChangedKeepsRecorded
         DEF Inv, TypeJournal, ParentStays
  <1>4. TypeWindow' /\ TypeSchool' /\ TypeRestarts'
    BY <1>1, <1>2
       DEF Inv, TypeWindow, TypeSchool, TypeRestarts, Places, CancelOrder,
           Goto, schoolVars
  <1>5. Fresh'
    BY <1>1, <1>2, FlowKinds
       DEF Inv, Placed, TypeWindow, Fresh, CancelOrder, Goto, Kept, Terminal
  <1>6. Owned'
    BY <1>1, <1>2
       DEF Inv, Placed, Owned, Talking, Live, CancelOrder, Goto, schoolVars
  <1>7. Noted'
    BY <1>1, <1>2, FlowKinds
       DEF Inv, Placed, Noted, CancelOrder, Goto, NoneWaiting
  <1>8. NotOffered'
    BY <1>1, <1>2
       DEF Inv, Placed, NotOffered, After, Live, CancelOrder, Goto, schoolVars
  <1>9. OnePerPayment' /\ Settledness'
    BY <1>1, <1>2
       DEF Inv, OnePerPayment, Settledness, Live, CancelOrder, schoolVars
  <1> QED
    BY <1>3, <1>4, <1>5, <1>6, <1>7, <1>8, <1>9 DEF Inv, Placed

LEMMA ProviderCreatesOrderKeeps ==
    ASSUME Inv, NEW p \in Payments, ProviderCreatesOrder(p)
    PROVE  Inv'
  <1>1. UNCHANGED journalVars /\ SchoolStays
    BY DEF ProviderCreatesOrder, SchoolStays
  <1>2. TypeJournal' /\ Recorded'
    BY <1>1, QuietKeepsRecorded
  <1>3. TypeWindow' /\ TypeSchool' /\ TypeRestarts'
    BY <1>1
       DEF Inv, TypeWindow, TypeSchool, TypeRestarts, ProviderCreatesOrder,
           windowVars, flowVars
  <1>4. Fresh'
    BY <1>1 DEF Inv, Placed, Fresh, ProviderCreatesOrder, flowVars, journalVars
  <1>5. Owned'
    BY <1>1
       DEF Inv, Placed, Owned, Live, ProviderCreatesOrder, flowVars,
           journalVars
  <1>6. Noted'
    BY <1>1 DEF Inv, Placed, Noted, ProviderCreatesOrder, flowVars, journalVars
  <1>7. NotOffered'
    BY <1>1
       DEF Inv, Placed, NotOffered, After, Live, ProviderCreatesOrder,
           windowVars, flowVars, journalVars
  <1>8. OnePerPayment' /\ Settledness'
    BY <1>1
       DEF Inv, OnePerPayment, Settledness, Live, ProviderCreatesOrder,
           journalVars
  <1> QED
    BY <1>2, <1>3, <1>4, <1>5, <1>6, <1>7, <1>8 DEF Inv, Placed

LEMMA OrderUnclearKeeps ==
    ASSUME Inv, NEW p \in Payments, OrderUnclear(p)
    PROVE  Inv'
  <1>1. p \in Ids /\ p \in Writers /\ "Unknown" \in Stages /\ Try(p, p, "Unknown") /\ MayUpdate
    BY FlowKinds DEF OrderUnclear, Stages, Recoverable
  <1>2. /\ NoneWaiting
        /\ mem' \in Journals
        /\ shot' \in [Writers -> Journals \cup {NoJournal}]
        /\ OneCopy'
        /\ mem'[p] = mem[p] \/ (Movable(mem, p, "Unknown") /\ PutAt(mem', p, "Unknown"))
        /\ \A other \in Ids \ {p} : Kept(mem, mem', other)
    BY <1>1, TryMoves
  <1>3. TypeJournal' /\ Recorded'
    <2>1. UNCHANGED <<disk, parent, used>> /\ SchoolStays
      BY DEF OrderUnclear, schoolVars, SchoolStays
    <2>2. Kept(mem, mem', p) \/ (p \in used' /\ Admissible(p, mem'[p]))
      BY <1>1, <1>2, <2>1, JournalAssumption
         DEF Inv, Recorded, Known, NotOffered, After, TypeSchool, Movable,
             CanTransition, Successors, PutAt, Kept, Admissible, Spent,
             OrderUnclear
    <2> QED
      BY <1>1, <1>2, <2>1, <2>2, ChangedKeepsRecorded
         DEF Inv, TypeJournal, ParentStays
  <1>4. TypeWindow' /\ TypeSchool' /\ TypeRestarts'
    BY <1>1, <1>2
       DEF Inv, TypeWindow, TypeSchool, TypeRestarts, Places, OrderUnclear,
           Goto, windowVars, schoolVars
  <1>5. Fresh'
    BY <1>1, <1>2, FlowKinds
       DEF Inv, Placed, TypeWindow, Fresh, OrderUnclear, Goto, Kept, Terminal
  <1>6. Owned'
    BY <1>1, <1>2
       DEF Inv, Placed, Owned, Talking, Live, OrderUnclear, Goto, schoolVars
  <1>7. Noted'
    BY <1>1, <1>2, FlowKinds
       DEF Inv, Placed, Noted, OrderUnclear, Goto, NoneWaiting
  <1>8. NotOffered'
    BY <1>1, <1>2
       DEF Inv, Placed, NotOffered, After, Live, OrderUnclear, Goto,
           windowVars, schoolVars
  <1>9. OnePerPayment' /\ Settledness'
    BY <1>1, <1>2
       DEF Inv, OnePerPayment, Settledness, Live, OrderUnclear, schoolVars
  <1> QED
    BY <1>3, <1>4, <1>5, <1>6, <1>7, <1>8, <1>9 DEF Inv, Placed

LEMMA HandedOverKeeps ==
    ASSUME Inv, NEW p \in Payments, HandedOver(p)
    PROVE  Inv'
  <1>1. p \in Writers /\ StoredOrNot(p) /\ UNCHANGED <<mem, parent, used>> /\ SchoolStays
    BY FlowKinds DEF HandedOver, StoredOrNot, schoolVars, SchoolStays
  <1>2. TypeJournal' /\ Recorded'
    BY <1>1, StoredKeepsRecorded
  <1>3. /\ \A w \in Writers \ {p} : shot'[w] = shot[w]
    BY <1>1, StoredMoves
  <1>4. TypeWindow' /\ TypeSchool' /\ TypeRestarts'
    BY <1>1, <1>3
       DEF Inv, TypeWindow, TypeSchool, TypeRestarts, Places, HandedOver, Goto,
           schoolVars
  <1>5. Fresh'
    BY <1>1, <1>3 DEF Inv, Placed, Fresh, HandedOver, Goto
  <1>6. Owned'
    BY <1>1, <1>3
       DEF Inv, Placed, Owned, Talking, Live, HandedOver, Goto, schoolVars
  <1>7. Noted'
    BY <1>1, <1>3, FlowKinds DEF Inv, Placed, Noted, HandedOver, Goto
  <1>8. NotOffered'
    BY <1>1, <1>3
       DEF Inv, Placed, NotOffered, After, Live, HandedOver, Goto, SchoolStays
  <1>9. OnePerPayment' /\ Settledness'
    BY <1>1, <1>3
       DEF Inv, OnePerPayment, Settledness, Live, HandedOver, schoolVars
  <1> QED
    BY <1>2, <1>4, <1>5, <1>6, <1>7, <1>8, <1>9 DEF Inv, Placed

LEMMA PayKeeps ==
    ASSUME Inv, NEW p \in Payments, Pay(p)
    PROVE  Inv'
  <1>1. UNCHANGED journalVars /\ SchoolStays
    BY DEF Pay, SchoolStays
  <1>2. TypeJournal' /\ Recorded'
    BY <1>1, QuietKeepsRecorded
  <1>3. TypeWindow' /\ TypeSchool' /\ TypeRestarts'
    BY <1>1
       DEF Inv, TypeWindow, TypeSchool, TypeRestarts, Pay, windowVars, flowVars
  <1>4. Fresh'
    BY <1>1 DEF Inv, Placed, Fresh, Pay, flowVars, journalVars
  <1>5. Owned'
    BY <1>1 DEF Inv, Placed, Owned, Live, Pay, flowVars, journalVars
  <1>6. Noted'
    BY <1>1 DEF Inv, Placed, Noted, Pay, flowVars, journalVars
  <1>7. NotOffered'
    BY <1>1
       DEF Inv, Placed, NotOffered, After, Live, Pay, windowVars, flowVars,
           journalVars
  <1>8. OnePerPayment' /\ Settledness'
    BY <1>1 DEF Inv, OnePerPayment, Settledness, Live, Pay, journalVars
  <1> QED
    BY <1>2, <1>3, <1>4, <1>5, <1>6, <1>7, <1>8 DEF Inv, Placed

LEMMA CheckPaidKeeps ==
    ASSUME Inv, NEW p \in Payments, CheckPaid(p)
    PROVE  Inv'
  <1>1. p \in Ids /\ p \in Writers /\ "PaymentConfirmed" \in Stages /\ Try(p, p, "PaymentConfirmed") /\ MayUpdate
    BY FlowKinds DEF CheckPaid, Stages, Recoverable
  <1>2. /\ NoneWaiting
        /\ mem' \in Journals
        /\ shot' \in [Writers -> Journals \cup {NoJournal}]
        /\ OneCopy'
        /\ mem'[p] = mem[p] \/ (Movable(mem, p, "PaymentConfirmed") /\ PutAt(mem', p, "PaymentConfirmed"))
        /\ \A other \in Ids \ {p} : Kept(mem, mem', other)
    BY <1>1, TryMoves
  <1>3. TypeJournal' /\ Recorded'
    <2>1. UNCHANGED <<disk, parent, used>> /\ SchoolStays
      BY DEF CheckPaid, schoolVars, SchoolStays
    <2>2. Kept(mem, mem', p) \/ (p \in used' /\ Admissible(p, mem'[p]))
      BY <1>1, <1>2, <2>1, JournalAssumption
         DEF Inv, Recorded, Known, Placed, NotOffered, After, TypeSchool,
             Movable, CanTransition, Successors, PutAt, Kept, Admissible,
             Spent, CheckPaid
    <2> QED
      BY <1>1, <1>2, <2>1, <2>2, ChangedKeepsRecorded
         DEF Inv, TypeJournal, ParentStays
  <1>4. TypeWindow' /\ TypeSchool' /\ TypeRestarts'
    BY <1>1, <1>2
       DEF Inv, TypeWindow, TypeSchool, TypeRestarts, Places, Locked,
           CheckPaid, Goto, windowVars, schoolVars
  <1>5. Fresh'
    BY <1>1, <1>2, FlowKinds
       DEF Inv, Placed, Fresh, CheckPaid, Goto, Kept, Terminal
  <1>6. Owned'
    BY <1>1, <1>2
       DEF Inv, Placed, Owned, Talking, Live, CheckPaid, Goto, schoolVars
  <1>7. Noted'
    BY <1>1, <1>2, FlowKinds
       DEF Inv, Placed, Noted, CheckPaid, Goto, NoneWaiting
  <1>8. NotOffered'
    BY <1>1, <1>2
       DEF Inv, Placed, NotOffered, After, Live, CheckPaid, Goto, windowVars,
           schoolVars
  <1>9. OnePerPayment' /\ Settledness'
    BY <1>1, <1>2
       DEF Inv, OnePerPayment, Settledness, Live, CheckPaid, schoolVars
  <1> QED
    BY <1>3, <1>4, <1>5, <1>6, <1>7, <1>8, <1>9 DEF Inv, Placed

LEMMA CheckedKeeps ==
    ASSUME Inv, NEW p \in Payments, Checked(p)
    PROVE  Inv'
  <1>1. p \in Writers /\ StoredOrNot(p) /\ UNCHANGED <<mem, parent, used>> /\ SchoolStays
    BY FlowKinds DEF Checked, StoredOrNot, schoolVars, SchoolStays
  <1>2. TypeJournal' /\ Recorded'
    BY <1>1, StoredKeepsRecorded
  <1>3. /\ \A w \in Writers \ {p} : shot'[w] = shot[w]
    BY <1>1, StoredMoves
  <1>4. TypeWindow' /\ TypeSchool' /\ TypeRestarts'
    BY <1>1, <1>3
       DEF Inv, TypeWindow, TypeSchool, TypeRestarts, Places, Checked, Goto,
           windowVars, schoolVars
  <1>5. Fresh'
    BY <1>1, <1>3 DEF Inv, Placed, Fresh, Checked, Goto
  <1>6. Owned'
    BY <1>1, <1>3
       DEF Inv, Placed, Owned, Talking, Live, Checked, Goto, schoolVars
  <1>7. Noted'
    BY <1>1, <1>3, FlowKinds DEF Inv, Placed, Noted, Checked, Goto
  <1>8. NotOffered'
    BY <1>1, <1>3
       DEF Inv, Placed, NotOffered, After, Live, Checked, Goto, windowVars,
           SchoolStays
  <1>9. OnePerPayment' /\ Settledness'
    BY <1>1, <1>3 DEF Inv, OnePerPayment, Settledness, Live, Checked, schoolVars
  <1> QED
    BY <1>2, <1>4, <1>5, <1>6, <1>7, <1>8, <1>9 DEF Inv, Placed

LEMMA ArrivalSeenKeeps ==
    ASSUME Inv, NEW p \in Payments, ArrivalSeen(p)
    PROVE  Inv'
  <1>1. UNCHANGED journalVars /\ SchoolStays
    BY DEF ArrivalSeen, schoolVars, SchoolStays
  <1>2. TypeJournal' /\ Recorded'
    BY <1>1, QuietKeepsRecorded
  <1>3. TypeWindow' /\ TypeSchool' /\ TypeRestarts'
    BY <1>1
       DEF Inv, TypeWindow, TypeSchool, TypeRestarts, Places, ArrivalSeen,
           Goto, windowVars, schoolVars
  <1>4. Fresh'
    BY <1>1 DEF Inv, Placed, Fresh, ArrivalSeen, Goto, journalVars
  <1>5. Owned'
    BY <1>1
       DEF Inv, Placed, Owned, Talking, Live, ArrivalSeen, Goto, schoolVars,
           journalVars
  <1>6. Noted'
    BY <1>1 DEF Inv, Placed, Noted, ArrivalSeen, Goto, journalVars
  <1>7. NotOffered'
    BY <1>1
       DEF Inv, Placed, NotOffered, After, Live, ArrivalSeen, Goto, windowVars,
           journalVars, SchoolStays
  <1>8. OnePerPayment' /\ Settledness'
    BY <1>1
       DEF Inv, OnePerPayment, Settledness, Live, ArrivalSeen, schoolVars,
           journalVars
  <1> QED
    BY <1>2, <1>3, <1>4, <1>5, <1>6, <1>7, <1>8 DEF Inv, Placed

LEMMA ForgetPaymentKeeps ==
    ASSUME Inv, NEW p \in Payments, ForgetPayment(p)
    PROVE  Inv'
  <1>1. UNCHANGED journalVars /\ SchoolStays
    BY DEF ForgetPayment, schoolVars, SchoolStays
  <1>2. TypeJournal' /\ Recorded'
    BY <1>1, QuietKeepsRecorded
  <1>3. TypeWindow' /\ TypeSchool' /\ TypeRestarts'
    BY <1>1
       DEF Inv, TypeWindow, TypeSchool, TypeRestarts, ForgetPayment, flowVars,
           schoolVars
  <1>4. Fresh'
    BY <1>1 DEF Inv, Placed, Fresh, ForgetPayment, flowVars, journalVars
  <1>5. Owned'
    BY <1>1
       DEF Inv, Placed, Owned, Live, ForgetPayment, flowVars, schoolVars,
           journalVars
  <1>6. Noted'
    BY <1>1 DEF Inv, Placed, Noted, ForgetPayment, flowVars, journalVars
  <1>7. NotOffered'
    BY <1>1
       DEF Inv, Placed, NotOffered, After, Live, ForgetPayment, flowVars,
           journalVars, SchoolStays
  <1>8. OnePerPayment' /\ Settledness'
    BY <1>1
       DEF Inv, OnePerPayment, Settledness, Live, ForgetPayment, schoolVars,
           journalVars
  <1> QED
    BY <1>2, <1>3, <1>4, <1>5, <1>6, <1>7, <1>8 DEF Inv, Placed

LEMMA SourceRefusedKeeps ==
    ASSUME Inv, NEW f \in Flows, SourceRefused(f)
    PROVE  Inv'
  <1>1. UNCHANGED journalVars /\ SchoolStays
    BY DEF SourceRefused, schoolVars, SchoolStays
  <1>2. TypeJournal' /\ Recorded'
    BY <1>1, QuietKeepsRecorded
  <1>3. TypeWindow' /\ TypeSchool' /\ TypeRestarts'
    BY <1>1
       DEF Inv, TypeWindow, TypeSchool, TypeRestarts, Places, SourceRefused,
           Goto, windowVars, schoolVars
  <1>4. Fresh'
    BY <1>1 DEF Inv, Placed, Fresh, SourceRefused, Goto, journalVars
  <1>5. Owned'
    BY <1>1
       DEF Inv, Placed, Owned, Talking, Live, SourceRefused, Goto, schoolVars,
           journalVars
  <1>6. Noted'
    BY <1>1 DEF Inv, Placed, Noted, SourceRefused, Goto, journalVars
  <1>7. NotOffered'
    BY <1>1
       DEF Inv, Placed, NotOffered, After, Live, AskedFor, SourceRefused, Goto,
           windowVars, journalVars, SchoolStays
  <1>8. OnePerPayment' /\ Settledness'
    BY <1>1
       DEF Inv, OnePerPayment, Settledness, Live, SourceRefused, schoolVars,
           journalVars
  <1> QED
    BY <1>2, <1>3, <1>4, <1>5, <1>6, <1>7, <1>8 DEF Inv, Placed

LEMMA TransferUnavailableKeeps ==
    ASSUME Inv, NEW f \in Flows, TransferUnavailable(f)
    PROVE  Inv'
  <1>1. UNCHANGED journalVars /\ SchoolStays
    BY DEF TransferUnavailable, schoolVars, SchoolStays
  <1>2. TypeJournal' /\ Recorded'
    BY <1>1, QuietKeepsRecorded
  <1>3. TypeWindow' /\ TypeSchool' /\ TypeRestarts'
    BY <1>1
       DEF Inv, TypeWindow, TypeSchool, TypeRestarts, Places,
           TransferUnavailable, Goto, schoolVars
  <1>4. Fresh'
    BY <1>1 DEF Inv, Placed, Fresh, TransferUnavailable, Goto, journalVars
  <1>5. Owned'
    BY <1>1
       DEF Inv, Placed, Owned, Talking, Live, TransferUnavailable, Goto,
           schoolVars, journalVars
  <1>6. Noted'
    BY <1>1 DEF Inv, Placed, Noted, TransferUnavailable, Goto, journalVars
  <1>7. NotOffered'
    BY <1>1
       DEF Inv, Placed, NotOffered, After, Live, AskedFor, TransferUnavailable,
           Goto, journalVars, SchoolStays
  <1>8. OnePerPayment' /\ Settledness'
    BY <1>1
       DEF Inv, OnePerPayment, Settledness, Live, TransferUnavailable,
           schoolVars, journalVars
  <1> QED
    BY <1>2, <1>3, <1>4, <1>5, <1>6, <1>7, <1>8 DEF Inv, Placed

LEMMA TransferNotedKeeps ==
    ASSUME Inv, NEW f \in Flows, TransferNoted(f)
    PROVE  Inv'
  <1>1. f \in Writers /\ StoredOrNot(f) /\ UNCHANGED <<mem, parent, used>> /\ SchoolStays
    BY FlowKinds DEF TransferNoted, StoredOrNot, schoolVars, SchoolStays
  <1>2. TypeJournal' /\ Recorded'
    BY <1>1, StoredKeepsRecorded
  <1>3. /\ \A w \in Writers \ {f} : shot'[w] = shot[w]
    BY <1>1, StoredMoves
  <1>4. TypeWindow' /\ TypeSchool' /\ TypeRestarts'
    BY <1>1, <1>3
       DEF Inv, TypeWindow, TypeSchool, TypeRestarts, Places, TransferNoted,
           Goto, schoolVars
  <1>5. Fresh'
    BY <1>1, <1>3, FlowKinds
       DEF Inv, Placed, TypeWindow, Fresh, TransferNoted, Goto
  <1>6. Owned'
    BY <1>1, <1>3
       DEF Inv, Placed, TypeWindow, Owned, Talking, Live, TransferNoted, Goto,
           schoolVars
  <1>7. Noted'
    BY <1>1, <1>3, FlowKinds
       DEF Inv, Placed, TypeWindow, Noted, TransferNoted, Goto
  <1>8. NotOffered'
    BY <1>1, <1>3, FlowKinds
       DEF Inv, Placed, TypeWindow, TypeSchool, TypeJournal, NotOffered, After,
           Live, TransferNoted, Goto, SchoolStays
  <1>9. OnePerPayment' /\ Settledness'
    BY <1>1, <1>3
       DEF Inv, OnePerPayment, Settledness, Live, TransferNoted, schoolVars
  <1> QED
    BY <1>2, <1>4, <1>5, <1>6, <1>7, <1>8, <1>9 DEF Inv, Placed

LEMMA ConfirmRejectedKeeps ==
    ASSUME Inv, NEW f \in Flows, ConfirmRejected(f)
    PROVE  Inv'
  <1>1. UNCHANGED journalVars /\ SchoolStays
    BY DEF ConfirmRejected, schoolVars, SchoolStays
  <1>2. TypeJournal' /\ Recorded'
    BY <1>1, QuietKeepsRecorded
  <1>3. TypeWindow' /\ TypeSchool' /\ TypeRestarts'
    BY <1>1
       DEF Inv, TypeWindow, TypeSchool, TypeRestarts, Places, AfterRejection,
           ConfirmRejected, Goto, windowVars, schoolVars
  <1>4. Fresh'
    BY <1>1
       DEF Inv, Placed, Fresh, AfterRejection, ConfirmRejected, Goto,
           journalVars
  <1>5. Owned'
    BY <1>1
       DEF Inv, Placed, Owned, Talking, Live, AfterRejection, ConfirmRejected,
           Goto, schoolVars, journalVars
  <1>6. Noted'
    BY <1>1
       DEF Inv, Placed, Noted, AfterRejection, ConfirmRejected, Goto,
           journalVars
  <1>7. NotOffered'
    BY <1>1
       DEF Inv, Placed, NotOffered, After, Live, MayConfirm, ConfirmRejected,
           Goto, windowVars, journalVars, SchoolStays
  <1>8. OnePerPayment' /\ Settledness'
    BY <1>1
       DEF Inv, OnePerPayment, Settledness, Live, ConfirmRejected, schoolVars,
           journalVars
  <1> QED
    BY <1>2, <1>3, <1>4, <1>5, <1>6, <1>7, <1>8 DEF Inv, Placed

LEMMA ConfirmExpiredKeeps ==
    ASSUME Inv, NEW f \in Flows, ConfirmExpired(f)
    PROVE  Inv'
  <1>1. UNCHANGED journalVars /\ SchoolStays
    BY DEF ConfirmExpired, schoolVars, SchoolStays
  <1>2. TypeJournal' /\ Recorded'
    BY <1>1, QuietKeepsRecorded
  <1>3. TypeWindow' /\ TypeSchool' /\ TypeRestarts'
    BY <1>1
       DEF Inv, TypeWindow, TypeSchool, TypeRestarts, Places, AfterRejection,
           ConfirmExpired, Goto, schoolVars
  <1>4. Fresh'
    BY <1>1
       DEF Inv, Placed, Fresh, AfterRejection, ConfirmExpired, Goto,
           journalVars
  <1>5. Owned'
    BY <1>1
       DEF Inv, Placed, Owned, Talking, Live, AfterRejection, ConfirmExpired,
           Goto, schoolVars, journalVars
  <1>6. Noted'
    BY <1>1
       DEF Inv, Placed, Noted, AfterRejection, ConfirmExpired, Goto,
           journalVars
  <1>7. NotOffered'
    BY <1>1
       DEF Inv, Placed, NotOffered, After, Live, MayConfirm, ConfirmExpired,
           Goto, journalVars, SchoolStays
  <1>8. OnePerPayment' /\ Settledness'
    BY <1>1
       DEF Inv, OnePerPayment, Settledness, Live, ConfirmExpired, schoolVars,
           journalVars
  <1> QED
    BY <1>2, <1>3, <1>4, <1>5, <1>6, <1>7, <1>8 DEF Inv, Placed

LEMMA SettledKeeps ==
    ASSUME Inv, NEW f \in Flows, Settled(f)
    PROVE  Inv'
  <1>1. f \in Writers /\ StoredOrNot(f) /\ UNCHANGED <<mem, parent, used>> /\ SchoolStays
    BY FlowKinds DEF Settled, StoredOrNot, schoolVars, SchoolStays
  <1>2. TypeJournal' /\ Recorded'
    BY <1>1, StoredKeepsRecorded
  <1>3. /\ \A w \in Writers \ {f} : shot'[w] = shot[w]
    BY <1>1, StoredMoves
  <1>4. TypeWindow' /\ TypeSchool' /\ TypeRestarts'
    BY <1>1, <1>3
       DEF Inv, TypeWindow, TypeSchool, TypeRestarts, Places, NextPlace,
           Settled, Goto, schoolVars
  <1>5. Fresh'
    BY <1>1, <1>3 DEF Inv, Placed, Fresh, NextPlace, Settled, Goto
  <1>6. Owned'
    BY <1>1, <1>3
       DEF Inv, Placed, Owned, Talking, Live, NextPlace, Settled, Goto,
           schoolVars
  <1>7. Noted'
    BY <1>1, <1>3, FlowKinds DEF Inv, Placed, Noted, NextPlace, Settled, Goto
  <1>8. NotOffered'
    BY <1>1, <1>3, RechargeAssumption
       DEF Inv, Placed, TypeWindow, NotOffered, After, Live, NextPlace,
           Settled, Goto, SchoolStays
  <1>9. OnePerPayment' /\ Settledness'
    BY <1>1, <1>3 DEF Inv, OnePerPayment, Settledness, Live, Settled, schoolVars
  <1> QED
    BY <1>2, <1>4, <1>5, <1>6, <1>7, <1>8, <1>9 DEF Inv, Placed

LEMMA ClosedKeeps ==
    ASSUME Inv, NEW f \in Flows, Closed(f)
    PROVE  Inv'
  <1>1. f \in Writers /\ StoredOrNot(f) /\ UNCHANGED <<mem, parent, used>> /\ SchoolStays
    BY FlowKinds DEF Closed, StoredOrNot, schoolVars, SchoolStays
  <1>2. TypeJournal' /\ Recorded'
    BY <1>1, StoredKeepsRecorded
  <1>3. /\ \A w \in Writers \ {f} : shot'[w] = shot[w]
    BY <1>1, StoredMoves
  <1>4. TypeWindow' /\ TypeSchool' /\ TypeRestarts'
    BY <1>1, <1>3
       DEF Inv, TypeWindow, TypeSchool, TypeRestarts, Places, Closed, Goto,
           schoolVars
  <1>5. Fresh'
    BY <1>1, <1>3 DEF Inv, Placed, Fresh, Closed, Goto
  <1>6. Owned'
    BY <1>1, <1>3
       DEF Inv, Placed, Owned, Talking, Live, Closed, Goto, schoolVars
  <1>7. Noted'
    BY <1>1, <1>3, FlowKinds DEF Inv, Placed, Noted, Closed, Goto
  <1>8. NotOffered'
    BY <1>1, <1>3
       DEF Inv, Placed, NotOffered, After, Live, Closed, Goto, SchoolStays
  <1>9. OnePerPayment' /\ Settledness'
    BY <1>1, <1>3 DEF Inv, OnePerPayment, Settledness, Live, Closed, schoolVars
  <1> QED
    BY <1>2, <1>4, <1>5, <1>6, <1>7, <1>8, <1>9 DEF Inv, Placed

LEMMA PrepareOrderKeeps ==
    ASSUME Inv, NEW p \in Payments, PrepareOrder(p)
    PROVE  Inv'
  <1>1. PICK journal \in Put(mem, p, "Prepared") : Update(p, journal)
    BY DEF PrepareOrder
  <1>2. /\ NoneWaiting
        /\ mem' \in Journals
        /\ shot' \in [Writers -> Journals \cup {NoJournal}]
        /\ OneCopy'
        /\ PutAt(mem', p, "Prepared")
        /\ \A other \in Ids \ {p} : Kept(mem, mem', other)
    <2>1. p \in Ids /\ p \in Writers /\ "Prepared" \in Stages
      BY FlowKinds DEF Stages
    <2> QED
      BY <1>1, <2>1, PutMoves, UpdateMoves DEF Inv, TypeJournal
  <1>3. TypeJournal' /\ Recorded'
    <2>1. UNCHANGED <<disk, parent>> /\ SchoolStays /\ used' = used \cup {p} /\ p \notin used
      BY DEF PrepareOrder, schoolVars, SchoolStays
    <2>2. Admissible(p, mem'[p])
      BY <1>2, <2>1, FlowKinds
         DEF Inv, Recorded, Known, TypeSchool, Live, Admissible, PutAt
    <2> QED
      BY <1>2, <2>1, <2>2, FlowKinds, ChangedKeepsRecorded
         DEF Inv, TypeJournal, ParentStays
  <1>4. TypeWindow' /\ TypeSchool' /\ TypeRestarts'
    BY <1>2
       DEF Inv, TypeWindow, TypeSchool, TypeRestarts, Places, Locked,
           PrepareOrder, Goto, schoolVars
  <1>5. Fresh'
    BY <1>2, FlowKinds
       DEF Inv, Placed, Fresh, PrepareOrder, Goto, Kept, PutAt, Terminal
  <1>6. Owned'
    BY <1>2
       DEF Inv, Placed, Owned, Talking, Live, PrepareOrder, Goto, schoolVars
  <1>7. Noted'
    BY <1>2, FlowKinds DEF Inv, Placed, Noted, PrepareOrder, Goto, NoneWaiting
  <1>8. NotOffered'
    BY <1>2
       DEF Inv, Placed, TypeSchool, NotOffered, After, Live, PrepareOrder,
           Goto, schoolVars, Recorded, Known
  <1>9. OnePerPayment' /\ Settledness'
    BY <1>2 DEF Inv, OnePerPayment, Settledness, Live, PrepareOrder, schoolVars
  <1> QED
    BY <1>3, <1>4, <1>5, <1>6, <1>7, <1>8, <1>9 DEF Inv, Placed

LEMMA OrderAnsweredKeeps ==
    ASSUME Inv, NEW p \in Payments, OrderAnswered(p)
    PROVE  Inv'
  <1>1. /\ NoneWaiting
        /\ mem' \in Journals
        /\ shot' \in [Writers -> Journals \cup {NoJournal}]
        /\ OneCopy'
        /\ mem'[p] \in {mem[p], "HandedOff"}
        /\ \A other \in Ids \ {p} : Kept(mem, mem', other)
    <2>0. p \in Ids /\ p \in Writers /\ "HandedOff" \in Stages /\ "HandedOff" \notin Terminal
      BY FlowKinds DEF Stages, Recoverable, Terminal
    <2>1. CASE mem[p] # "Absent"
      <3>1. PICK journal \in Put(mem, p, "HandedOff") : Update(p, journal)
        BY <2>1 DEF OrderAnswered
      <3> QED
        BY <2>0, <3>1, PutMoves, UpdateMoves DEF Inv, TypeJournal, PutAt
    <2>2. CASE mem[p] = "Absent"
      BY <2>0, <2>2, UpdateMoves DEF Inv, TypeJournal, OrderAnswered, Kept
    <2> QED
      BY <2>1, <2>2
  <1>2. TypeJournal' /\ Recorded'
    <2>1. UNCHANGED <<disk, parent, used>> /\ SchoolStays
      BY DEF OrderAnswered, schoolVars, SchoolStays
    <2>2. p \in used /\ Admissible(p, mem'[p])
      BY <1>1, <2>1, FlowKinds, JournalAssumption
         DEF Inv, Recorded, Known, Placed, Fresh, NotOffered, After,
             TypeSchool, Admissible, OrderAnswered
    <2> QED
      BY <1>1, <2>1, <2>2, ChangedKeepsRecorded
         DEF Inv, TypeJournal, ParentStays
  <1>3. TypeWindow' /\ TypeSchool' /\ TypeRestarts'
    BY <1>1
       DEF Inv, TypeWindow, TypeSchool, TypeRestarts, Places, Locked,
           OrderAnswered, Goto, windowVars, schoolVars
  <1>4. Fresh'
    BY <1>1, FlowKinds
       DEF Inv, Placed, TypeWindow, Fresh, OrderAnswered, Goto, Kept, Terminal
  <1>5. Owned'
    BY <1>1
       DEF Inv, Placed, Owned, Talking, Live, OrderAnswered, Goto, schoolVars
  <1>6. Noted'
    BY <1>1, FlowKinds DEF Inv, Placed, Noted, OrderAnswered, Goto, NoneWaiting
  <1>7. NotOffered'
    BY <1>1
       DEF Inv, Placed, NotOffered, After, Live, OrderAnswered, Goto,
           windowVars, schoolVars
  <1>8. OnePerPayment' /\ Settledness'
    BY <1>1 DEF Inv, OnePerPayment, Settledness, Live, OrderAnswered, schoolVars
  <1> QED
    BY <1>2, <1>3, <1>4, <1>5, <1>6, <1>7, <1>8 DEF Inv, Placed

LEMMA FinishRecoveryKeeps ==
    ASSUME Inv, NEW p \in Payments, FinishRecovery(p)
    PROVE  Inv'
  <1> DEFINE stage == IF pc[p] = "finishing" THEN "Completed" ELSE "Unknown"
  <1>1. /\ p \in Ids /\ p \in Writers /\ stage \in Stages
        /\ Try(p, p, stage) /\ MayUpdate
        /\ stage = "Completed" => pc[p] = "finishing"
        /\ stage \in {"Completed", "Unknown"}
    BY FlowKinds DEF FinishRecovery, Stages, Recoverable, Terminal
  <1> HIDE DEF stage
  <1>2. /\ NoneWaiting
        /\ mem' \in Journals
        /\ shot' \in [Writers -> Journals \cup {NoJournal}]
        /\ OneCopy'
        /\ mem'[p] = mem[p] \/ (Movable(mem, p, stage) /\ PutAt(mem', p, stage))
        /\ \A other \in Ids \ {p} : Kept(mem, mem', other)
    BY <1>1, TryMoves
  <1>3. TypeJournal' /\ Recorded'
    <2>1. UNCHANGED <<disk, parent, used>> /\ SchoolStays
      BY DEF FinishRecovery, schoolVars, SchoolStays
    <2>2. pc[p] = "finishing" => \E t \in executed : parent[t] = p
      BY FlowKinds DEF Inv, Placed, Owned
    <2>3. Kept(mem, mem', p) \/ (p \in used' /\ Admissible(p, mem'[p]))
      BY <1>1, <1>2, <2>1, <2>2, JournalAssumption
         DEF Inv, Recorded, Known, TypeSchool, Movable, PutAt, Kept,
             Admissible, Spent
    <2> QED
      BY <1>1, <1>2, <2>1, <2>3, ChangedKeepsRecorded
         DEF Inv, TypeJournal, ParentStays
  <1>4. TypeWindow' /\ TypeSchool' /\ TypeRestarts'
    BY <1>1, <1>2
       DEF Inv, TypeWindow, TypeSchool, TypeRestarts, Places, FinishRecovery,
           Goto, windowVars, schoolVars
  <1>5. Fresh'
    BY <1>1, <1>2, FlowKinds
       DEF Inv, Placed, Fresh, FinishRecovery, Goto, Kept, Terminal
  <1>6. Owned'
    BY <1>1, <1>2
       DEF Inv, Placed, Owned, Talking, Live, FinishRecovery, Goto, schoolVars
  <1>7. Noted'
    BY <1>1, <1>2, FlowKinds
       DEF Inv, Placed, Noted, FinishRecovery, Goto, NoneWaiting
  <1>8. NotOffered'
    BY <1>1, <1>2
       DEF Inv, Placed, NotOffered, After, Live, FinishRecovery, Goto,
           windowVars, schoolVars
  <1>9. OnePerPayment' /\ Settledness'
    BY <1>1, <1>2
       DEF Inv, OnePerPayment, Settledness, Live, FinishRecovery, schoolVars
  <1> QED
    BY <1>3, <1>4, <1>5, <1>6, <1>7, <1>8, <1>9 DEF Inv, Placed

LEMMA LeavePaymentKeeps ==
    ASSUME Inv, NEW p \in Payments, LeavePayment(p)
    PROVE  Inv'
  <1>1. p \in Ids /\ p \in Writers /\ MayUpdate
    BY FlowKinds DEF LeavePayment
  <1>2. /\ NoneWaiting
        /\ mem' \in Journals
        /\ shot' \in [Writers -> Journals \cup {NoJournal}]
        /\ OneCopy'
        /\ \/ mem'[p] = mem[p]
           \/ \E stage \in AfterContextClosed(mem[p]) :
                mem[p] # "Absent" /\ PutAt(mem', p, stage)
        /\ \A other \in Ids \ {p} : Kept(mem, mem', other)
    <2>1. CASE mem[p] = "Absent" \/ AfterContextClosed(mem[p]) = {}
      BY <1>1, <2>1
         DEF Inv, TypeJournal, OneCopy, MayUpdate, NoneWaiting, Kept,
             LeavePayment
    <2>2. CASE ~(mem[p] = "Absent" \/ AfterContextClosed(mem[p]) = {})
      <3>1. PICK stage \in AfterContextClosed(mem[p]) : Try(p, p, stage)
        BY <2>2 DEF LeavePayment
      <3>2. stage \in Stages
        BY DEF AfterContextClosed, Stages, Recoverable, Terminal
      <3> QED
        BY <1>1, <2>2, <3>1, <3>2, TryMoves
    <2> QED
      BY <2>1, <2>2
  <1>3. TypeJournal' /\ Recorded'
    <2>1. UNCHANGED <<disk, parent, used>> /\ SchoolStays
      BY DEF LeavePayment, schoolVars, SchoolStays
    <2>2. \A stage \in AfterContextClosed(mem[p]) :
             stage \in {"Cancelled", "Unknown"} \/ (stage = "PaymentConfirmed" /\ mem[p] = stage)
      BY DEF AfterContextClosed
    <2>3. Kept(mem, mem', p) \/ (p \in used' /\ Admissible(p, mem'[p]))
      BY <1>1, <1>2, <2>1, <2>2, JournalAssumption
         DEF Inv, Recorded, Known, TypeSchool, PutAt, Kept, Admissible, Spent
    <2> QED
      BY <1>1, <1>2, <2>1, <2>3, ChangedKeepsRecorded
         DEF Inv, TypeJournal, ParentStays
  <1>4. TypeWindow' /\ TypeSchool' /\ TypeRestarts'
    BY <1>1, <1>2
       DEF Inv, TypeWindow, TypeSchool, TypeRestarts, Places, LeavePayment,
           Goto, windowVars, schoolVars
  <1>5. Fresh'
    BY <1>1, <1>2, FlowKinds
       DEF Inv, Placed, Fresh, LeavePayment, Goto, Kept, Terminal
  <1>6. Owned'
    BY <1>1, <1>2
       DEF Inv, Placed, Owned, Talking, Live, LeavePayment, Goto, schoolVars
  <1>7. Noted'
    BY <1>1, <1>2, FlowKinds
       DEF Inv, Placed, Noted, LeavePayment, Goto, NoneWaiting
  <1>8. NotOffered'
    BY <1>1, <1>2
       DEF Inv, Placed, NotOffered, After, Live, LeavePayment, Goto,
           windowVars, schoolVars
  <1>9. OnePerPayment' /\ Settledness'
    BY <1>1, <1>2
       DEF Inv, OnePerPayment, Settledness, Live, LeavePayment, schoolVars
  <1> QED
    BY <1>3, <1>4, <1>5, <1>6, <1>7, <1>8, <1>9 DEF Inv, Placed

LEMMA CancelTransferKeeps ==
    ASSUME Inv, NEW f \in Flows, CancelTransfer(f)
    PROVE  Inv'
  <1>1. f \in Writers /\ cur[f] \in Transfers /\ cur[f] \in Ids /\ cur[f] \in used
        /\ cur[f] \notin sent /\ cur[f] \notin Payments
    BY FlowKinds, JournalAssumption
       DEF Inv, Placed, Owned, Talking, CancelTransfer
  <1>2. /\ mem' \in Journals
        /\ shot' \in [Writers -> Journals \cup {NoJournal}]
        /\ OneCopy'
        /\ NoneWaiting \/ UNCHANGED <<mem, shot>>
        /\ mem'[cur[f]] = mem[cur[f]] \/ PutAt(mem', cur[f], "Cancelled")
        /\ \A other \in Ids \ {cur[f]} : Kept(mem, mem', other)
    <2>1. CASE slot = cur[f]
      <3>1. MayUpdate /\ Try(f, cur[f], "Cancelled") /\ "Cancelled" \in Stages
        BY <2>1 DEF CancelTransfer, Stages, Terminal
      <3> QED
        BY <1>1, <3>1, TryMoves
    <2>2. CASE slot # cur[f]
      BY <2>2 DEF Inv, TypeJournal, Recorded, OneCopy, Kept, CancelTransfer
    <2> QED
      BY <2>1, <2>2
  <1>3. TypeJournal' /\ Recorded'
    <2>1. UNCHANGED <<disk, parent, used>> /\ SchoolStays
      BY DEF CancelTransfer, schoolVars, SchoolStays
    <2>2. Kept(mem, mem', cur[f]) \/ (cur[f] \in used' /\ Admissible(cur[f], mem'[cur[f]]))
      BY <1>1, <1>2, <2>1 DEF PutAt, Kept, Admissible, Spent
    <2> QED
      BY <1>1, <1>2, <2>1, <2>2, ChangedKeepsRecorded
         DEF Inv, TypeJournal, ParentStays
  <1>4. TypeWindow' /\ TypeSchool' /\ TypeRestarts'
    BY <1>1, <1>2
       DEF Inv, TypeWindow, TypeSchool, TypeRestarts, Places, CancelTransfer,
           Goto, schoolVars
  <1>5. Fresh'
    BY <1>1, <1>2, FlowKinds
       DEF Inv, Placed, Fresh, CancelTransfer, Goto, Kept, Terminal
  <1>6. Owned'
    BY <1>1, <1>2
       DEF Inv, Placed, Owned, Talking, Live, CancelTransfer, Goto, schoolVars
  <1>7. Noted'
    BY <1>1, <1>2, FlowKinds
       DEF Inv, Placed, Noted, CancelTransfer, Goto, NoneWaiting
  <1>8. NotOffered'
    BY <1>1, <1>2
       DEF Inv, Placed, NotOffered, After, Live, CancelTransfer, Goto,
           schoolVars
  <1>9. OnePerPayment' /\ Settledness'
    BY <1>1, <1>2
       DEF Inv, OnePerPayment, Settledness, Live, CancelTransfer, schoolVars
  <1> QED
    BY <1>3, <1>4, <1>5, <1>6, <1>7, <1>8, <1>9 DEF Inv, Placed

LEMMA TransferAnsweredKeeps ==
    ASSUME Inv, NEW f \in Flows, TransferAnswered(f)
    PROVE  Inv'
  <1>1. /\ cur[f] \in Live /\ parent[cur[f]] = Owner(f)
        /\ cur[f] \in Transfers /\ cur[f] \in used /\ "Completed" \in Stages
        /\ f \in Payments => f \in used /\ parent[cur[f]] = f
    BY FlowKinds
       DEF Inv, Recorded, Known, TypeSchool, Placed, Owned, Stages,
           Recoverable, Terminal, TransferAnswered
  <1>2. /\ NoneWaiting
        /\ mem' \in Journals
        /\ shot' \in [Writers -> Journals \cup {NoJournal}]
        /\ OneCopy'
        /\ Kept(mem, mem', cur[f]) \/ PutAt(mem', cur[f], "Completed")
        /\ \A p \in Payments :
             Kept(mem, mem', p) \/ (p = f /\ PutAt(mem', p, "Completed"))
        /\ \A other \in Transfers \ {cur[f]} : Kept(mem, mem', other)
    BY <1>1, RecordMoves DEF TransferAnswered
  <1>3. TypeJournal' /\ Recorded'
    <2>1. UNCHANGED <<disk, parent, used>> /\ SchoolStays
      BY DEF TransferAnswered, Record, SchoolStays
    <2>2. Kept(mem, mem', cur[f]) \/ Admissible(cur[f], mem'[cur[f]])
      BY <1>1, <1>2, JournalAssumption
         DEF PutAt, Admissible, Submitted, TransferAnswered
    <2>3. f \in Payments => Kept(mem, mem', f) \/ Admissible(f, mem'[f])
      BY <1>1, <1>2, JournalAssumption
         DEF Inv, TypeSchool, PutAt, Admissible, Spent, TransferAnswered
    <2>4. \A id \in Ids : Kept(mem, mem', id) \/ (id \in used' /\ Admissible(id, mem'[id]))
      BY <1>1, <1>2, <2>1, <2>2, <2>3 DEF Ids
    <2> QED
      BY <1>1, <1>2, <2>1, <2>4, ChangedKeepsRecorded
         DEF Inv, TypeJournal, ParentStays
  <1>4. TypeWindow' /\ TypeSchool' /\ TypeRestarts'
    BY <1>1, <1>2
       DEF Inv, TypeWindow, TypeSchool, TypeRestarts, Places, Locked,
           TransferAnswered, Goto, windowVars, Record
  <1>5. Fresh'
    BY <1>1, <1>2
       DEF Inv, Placed, Fresh, TransferAnswered, Goto, Kept, Terminal, Record
  <1>6. Owned'
    BY <1>1, <1>2
       DEF Inv, Placed, Owned, Talking, Live, TransferAnswered, Goto, Record
  <1>7. Noted'
    BY <1>1, <1>2, FlowKinds
       DEF Inv, Placed, Noted, TransferAnswered, Goto, NoneWaiting, Record
  <1>8. NotOffered'
    BY <1>1, <1>2
       DEF Inv, Placed, NotOffered, After, Live, TransferAnswered, Goto,
           windowVars, Record
  <1>9. OnePerPayment' /\ Settledness'
    BY <1>1, <1>2
       DEF Inv, OnePerPayment, Settledness, Live, TransferAnswered, Record
  <1> QED
    BY <1>3, <1>4, <1>5, <1>6, <1>7, <1>8, <1>9 DEF Inv, Placed

LEMMA TransferUnclearKeeps ==
    ASSUME Inv, NEW f \in Flows, TransferUnclear(f)
    PROVE  Inv'
  <1>1. /\ cur[f] \in Live /\ parent[cur[f]] = Owner(f)
        /\ cur[f] \in Transfers /\ cur[f] \in used /\ "Unknown" \in Stages
        /\ f \in Payments => f \in used /\ parent[cur[f]] = f
    BY FlowKinds
       DEF Inv, Recorded, Known, TypeSchool, Placed, Owned, Live, Stages,
           Recoverable, TransferUnclear
  <1>2. /\ NoneWaiting
        /\ mem' \in Journals
        /\ shot' \in [Writers -> Journals \cup {NoJournal}]
        /\ OneCopy'
        /\ Kept(mem, mem', cur[f]) \/ PutAt(mem', cur[f], "Unknown")
        /\ \A p \in Payments :
             Kept(mem, mem', p) \/ (p = f /\ PutAt(mem', p, "Unknown"))
        /\ \A other \in Transfers \ {cur[f]} : Kept(mem, mem', other)
    BY <1>1, RecordMoves DEF TransferUnclear
  <1>3. TypeJournal' /\ Recorded'
    <2>1. UNCHANGED <<disk, parent, used>> /\ SchoolStays
      BY DEF TransferUnclear, Record, SchoolStays
    <2>2. Kept(mem, mem', cur[f]) \/ Admissible(cur[f], mem'[cur[f]])
      BY <1>1, <1>2, JournalAssumption
         DEF PutAt, Admissible, Submitted, TransferUnclear
    <2>3. f \in Payments => Kept(mem, mem', f) \/ Admissible(f, mem'[f])
      BY <1>1, <1>2, JournalAssumption
         DEF Inv, TypeSchool, PutAt, Admissible, Spent, TransferUnclear
    <2>4. \A id \in Ids : Kept(mem, mem', id) \/ (id \in used' /\ Admissible(id, mem'[id]))
      BY <1>1, <1>2, <2>1, <2>2, <2>3 DEF Ids
    <2> QED
      BY <1>1, <1>2, <2>1, <2>4, ChangedKeepsRecorded
         DEF Inv, TypeJournal, ParentStays
  <1>4. TypeWindow' /\ TypeSchool' /\ TypeRestarts'
    BY <1>1, <1>2
       DEF Inv, TypeWindow, TypeSchool, TypeRestarts, Places, Locked,
           TransferUnclear, Goto, windowVars, Record
  <1>5. Fresh'
    BY <1>1, <1>2
       DEF Inv, Placed, Fresh, TransferUnclear, Goto, Kept, Terminal, Record
  <1>6. Owned'
    BY <1>1, <1>2
       DEF Inv, Placed, Owned, Talking, Live, TransferUnclear, Goto, Record
  <1>7. Noted'
    BY <1>1, <1>2, FlowKinds
       DEF Inv, Placed, Noted, TransferUnclear, Goto, NoneWaiting, Record
  <1>8. NotOffered'
    BY <1>1, <1>2
       DEF Inv, Placed, NotOffered, After, Live, TransferUnclear, Goto,
           windowVars, Record
  <1>9. OnePerPayment' /\ Settledness'
    BY <1>1, <1>2
       DEF Inv, OnePerPayment, Settledness, Live, TransferUnclear, Record
  <1> QED
    BY <1>3, <1>4, <1>5, <1>6, <1>7, <1>8, <1>9 DEF Inv, Placed

LEMMA TransferTurnedDownKeeps ==
    ASSUME Inv, NEW f \in Flows, TransferTurnedDown(f)
    PROVE  Inv'
  <1>1. /\ cur[f] \in Live /\ parent[cur[f]] = Owner(f)
        /\ cur[f] \in Transfers /\ cur[f] \in used /\ "Unknown" \in Stages
        /\ f \in Payments => f \in used /\ parent[cur[f]] = f
    BY FlowKinds
       DEF Inv, Recorded, Known, TypeSchool, Placed, Owned, Live, Stages,
           Recoverable, TransferTurnedDown
  <1>2. /\ NoneWaiting
        /\ mem' \in Journals
        /\ shot' \in [Writers -> Journals \cup {NoJournal}]
        /\ OneCopy'
        /\ Kept(mem, mem', cur[f]) \/ PutAt(mem', cur[f], "Unknown")
        /\ \A p \in Payments :
             Kept(mem, mem', p) \/ (p = f /\ PutAt(mem', p, "Unknown"))
        /\ \A other \in Transfers \ {cur[f]} : Kept(mem, mem', other)
    BY <1>1, RecordMoves DEF TransferTurnedDown
  <1>3. TypeJournal' /\ Recorded'
    <2>1. UNCHANGED <<disk, parent, used>> /\ SchoolStays
      BY DEF TransferTurnedDown, Record, SchoolStays
    <2>2. Kept(mem, mem', cur[f]) \/ Admissible(cur[f], mem'[cur[f]])
      BY <1>1, <1>2, JournalAssumption
         DEF PutAt, Admissible, Submitted, TransferTurnedDown
    <2>3. f \in Payments => Kept(mem, mem', f) \/ Admissible(f, mem'[f])
      BY <1>1, <1>2, JournalAssumption
         DEF Inv, TypeSchool, PutAt, Admissible, Spent, TransferTurnedDown
    <2>4. \A id \in Ids : Kept(mem, mem', id) \/ (id \in used' /\ Admissible(id, mem'[id]))
      BY <1>1, <1>2, <2>1, <2>2, <2>3 DEF Ids
    <2> QED
      BY <1>1, <1>2, <2>1, <2>4, ChangedKeepsRecorded
         DEF Inv, TypeJournal, ParentStays
  <1>4. TypeWindow' /\ TypeSchool' /\ TypeRestarts'
    BY <1>1, <1>2
       DEF Inv, TypeWindow, TypeSchool, TypeRestarts, Live, Places, Locked,
           TransferTurnedDown, Goto, windowVars, Record
  <1>5. Fresh'
    BY <1>1, <1>2
       DEF Inv, Placed, Fresh, TransferTurnedDown, Goto, Kept, Terminal, Record
  <1>6. Owned'
    BY <1>1, <1>2, FlowKinds
       DEF Inv, Placed, TypeWindow, Owned, Talking, Live, TransferTurnedDown,
           Goto, Record
  <1>7. Noted'
    BY <1>1, <1>2, FlowKinds
       DEF Inv, Placed, Noted, TransferTurnedDown, Goto, NoneWaiting, Record
  <1>8. NotOffered'
    BY <1>1, <1>2
       DEF Inv, Placed, TypeSchool, TypeJournal, OnePerPayment, NotOffered,
           After, Live, TransferTurnedDown, Goto, windowVars, Record
  <1>9. OnePerPayment' /\ Settledness'
    BY <1>1, <1>2
       DEF Inv, OnePerPayment, Settledness, Live, TransferTurnedDown, Record
  <1> QED
    BY <1>3, <1>4, <1>5, <1>6, <1>7, <1>8, <1>9 DEF Inv, Placed

LEMMA PrepareTransferKeeps ==
    ASSUME Inv, NEW f \in Flows, NEW t \in Transfers, PrepareTransfer(f, t)
    PROVE  Inv'
  <1>1. /\ f \in Writers /\ t \in Ids /\ t \notin Payments /\ t \notin used /\ t \notin sent
        /\ f \in Payments => f \in Ids /\ f # Card
        /\ f \notin Payments => f = Card
        /\ {"Prepared", "PaymentConfirmed"} \subseteq Stages
    BY FlowKinds, JournalAssumption, RechargeAssumption
       DEF Inv, Recorded, Known, Flows, Stages, Recoverable, PrepareTransfer
  <1>2. PICK confirmed \in SourceConfirmed(f) :
             \E journal \in Put(confirmed, t, "Prepared") : Update(f, journal)
    BY DEF PrepareTransfer
  <1>3. PICK journal \in Put(confirmed, t, "Prepared") : Update(f, journal)
    BY <1>2
  <1>4. /\ confirmed \in Journals
        /\ \A id \in Ids : \/ Kept(mem, confirmed, id)
                           \/ /\ id = f /\ f \in Payments /\ mem[f] # "Absent"
                              /\ PutAt(confirmed, f, "PaymentConfirmed")
    <2>1. CASE f = Card
      BY <2>1 DEF SourceConfirmed, Inv, TypeJournal, Kept
    <2>2. CASE f # Card
      <3>1. confirmed \in Put(mem, f, "PaymentConfirmed") /\ mem[f] # "Absent"
        BY <2>2 DEF SourceConfirmed, Recoverable
      <3> QED
        BY <1>1, <2>2, <3>1, PutMoves DEF Inv, TypeJournal
    <2> QED
      BY <2>1, <2>2
  <1>5. /\ journal \in Journals
        /\ PutAt(journal, t, "Prepared")
        /\ \A other \in Ids \ {t} : Kept(confirmed, journal, other)
    BY <1>1, <1>3, <1>4, PutMoves
  <1>6. /\ NoneWaiting
        /\ mem' = journal
        /\ shot' \in [Writers -> Journals \cup {NoJournal}]
        /\ OneCopy'
    BY <1>1, <1>3, <1>5, UpdateMoves
  <1>7. /\ parent' = [parent EXCEPT ![t] = Owner(f)]
        /\ used' = used \cup {t} /\ UNCHANGED disk /\ SchoolStays
    BY DEF PrepareTransfer, Owner, SchoolStays, schoolVars
  <1>8. f \in Payments => f \in used /\ \A u \in Live : parent[u] # f
    BY <1>1, <1>4, FlowKinds
       DEF Inv, Recorded, Known, Placed, NotOffered, After, AskedFor,
           PrepareTransfer, SourceConfirmed, Recoverable
  <1>9. TypeJournal' /\ Recorded'
    <2>1. ParentStays
      BY <1>1, <1>7, <1>8 DEF Inv, TypeJournal, ParentStays, Owner
    <2>2. \A id \in Ids :
             Kept(mem, journal, id) \/ (id \in used' /\ Admissible(id, journal[id]))
      <3>1. Admissible(t, journal[t]) /\ t \in used'
        BY <1>1, <1>5, <1>7 DEF Admissible, PutAt
      <3>2. \A id \in Ids \ {t, f} : Kept(mem, journal, id)
        BY <1>4, <1>5 DEF Kept
      <3>3. f \in Payments => Kept(mem, journal, f) \/ journal[f] = "PaymentConfirmed"
        BY <1>1, <1>4, <1>5 DEF Kept, PutAt, Terminal
      <3>4. f \in Payments => Kept(mem, journal, f) \/ (f \in used' /\ Admissible(f, journal[f]))
        BY <1>1, <1>7, <1>8, <3>3, JournalAssumption
           DEF Admissible, Inv, TypeSchool
      <3>5. f \in Ids /\ f \notin Payments /\ f # t => Kept(mem, journal, f)
        BY <1>4, <1>5 DEF Kept
      <3> QED
        BY <3>1, <3>2, <3>4, <3>5
    <2> QED
      BY <1>5, <1>6, <1>7, <1>1, <2>1, <2>2, ChangedKeepsRecorded
         DEF Inv, TypeJournal
  <1>10. /\ cur' = [cur EXCEPT ![f] = t] /\ pc' = [pc EXCEPT ![f] = "preparing"]
         /\ \A u \in Transfers \ {t} : parent'[u] = parent[u]
         /\ parent'[t] = Owner(f)
         /\ \A p \in Payments \ {f} : Kept(mem, mem', p)
         /\ UNCHANGED <<orderSlot, slot, active, orders, paid, sent, executed, refused, restarts>>
         /\ f \in Payments => pc[f] = "checked"
    BY <1>1, <1>4, <1>5, <1>6, <1>7
       DEF PrepareTransfer, Goto, windowVars, schoolVars, Inv, TypeJournal,
           Kept, AskedFor, Ids
  <1>11. TypeWindow' /\ TypeSchool' /\ TypeRestarts'
    BY <1>10 DEF Inv, TypeWindow, TypeSchool, TypeRestarts, Places, Locked
  <1>12. Fresh'
    BY <1>1, <1>10 DEF Inv, Placed, Fresh, Kept, Terminal
  <1>13. Owned'
    <2>1. \A g \in Flows \ {f} : cur'[g] = cur[g] /\ pc'[g] = pc[g]
      BY <1>10
    <2>2. cur'[f] = t /\ pc'[f] = "preparing"
      BY <1>10 DEF Inv, TypeWindow
    <2>3. \A g \in Flows \ {f} : cur[g] \in used \cap Transfers => parent'[cur[g]] = parent[cur[g]]
      BY <1>1, <1>10
    <2>4. sent \subseteq used \cap Transfers /\ executed \subseteq sent
      BY DEF Inv, TypeSchool
    <2> QED
      BY <1>1, <1>7, <1>10, <2>1, <2>2, <2>3, <2>4 DEF Inv, Placed, Owned, Live
  <1>14. Noted'
    BY <1>6, <1>10, FlowKinds DEF Inv, Placed, Noted, NoneWaiting
  <1>15. NotOffered' /\ OnePerPayment' /\ Settledness'
    <2>1. Live' = Live /\ t \notin Live /\ Live \subseteq Transfers
      BY <1>1, <1>10 DEF Live, Inv, TypeSchool
    <2>2. \A u \in Live : parent'[u] = parent[u] /\ parent[u] # f
      BY <1>1, <1>8, <1>10, <2>1, RechargeAssumption DEF Inv, TypeJournal
    <2> QED
      BY <1>10, <2>1, <2>2
         DEF Inv, Placed, NotOffered, OnePerPayment, Settledness
  <1> QED
    BY <1>9, <1>11, <1>12, <1>13, <1>14, <1>15 DEF Inv, Placed

LEMMA ConfirmTransferKeeps ==
    ASSUME Inv, NEW f \in Flows, ConfirmTransfer(f)
    PROVE  Inv'
  <1>1. /\ f \in Writers /\ cur[f] \in Transfers /\ cur[f] \in Ids /\ cur[f] \in used
        /\ cur[f] \notin sent /\ cur[f] \notin Payments
        /\ parent[cur[f]] = Owner(f) /\ Owner(f) \in Payments \cup {NoPayment}
        /\ f \in Payments => Owner(f) = f /\ f \in used
        /\ f \notin Payments => Owner(f) = NoPayment
        /\ "TransferSubmitted" \in Stages /\ "TransferSubmitted" \notin Terminal
    BY FlowKinds, JournalAssumption
       DEF Inv, Recorded, Known, Placed, Owned, Talking, MayConfirm, Stages,
           Recoverable, Terminal, ConfirmTransfer
  <1>2. PICK journal \in WithParent(mem, cur[f], Owner(f), "TransferSubmitted") : Update(f, journal)
    BY <1>1 DEF ConfirmTransfer
  <1>3. /\ NoneWaiting
        /\ mem' \in Journals
        /\ shot' \in [Writers -> Journals \cup {NoJournal}]
        /\ shot'[f] # NoJournal
        /\ OneCopy'
        /\ mem'[cur[f]] = "TransferSubmitted"
        /\ \A p \in Payments : Kept(mem, mem', p) \/ p = f
        /\ f \in Payments => mem'[f] = "TransferSubmitted"
        /\ \A other \in Transfers \ {cur[f]} : Kept(mem, mem', other)
    <2>1. /\ journal \in Journals
          /\ PutAt(journal, cur[f], "TransferSubmitted")
          /\ Owner(f) # NoPayment => PutAt(journal, Owner(f), "TransferSubmitted")
          /\ \A other \in Ids \ {cur[f]} :
               (other = Owner(f) /\ Owner(f) # NoPayment) \/ Kept(mem, journal, other)
      BY <1>1, <1>2, WithParentMoves DEF Inv, TypeJournal
    <2>2. /\ NoneWaiting
          /\ mem' = journal
          /\ shot' \in [Writers -> Journals \cup {NoJournal}]
          /\ shot'[f] # NoJournal
          /\ OneCopy'
      BY <1>1, <1>2, <2>1, UpdateMoves
    <2> QED
      BY <1>1, <2>1, <2>2, FlowKinds, JournalAssumption DEF PutAt
  <1>4. TypeJournal' /\ Recorded'
    <2>1. UNCHANGED <<disk, parent, used>> /\ SchoolStays
      BY DEF ConfirmTransfer, schoolVars, SchoolStays
    <2>2. Admissible(cur[f], mem'[cur[f]])
      BY <1>1, <1>3 DEF Admissible
    <2>3. f \in Payments => Admissible(f, mem'[f])
      BY <1>1, <1>3, JournalAssumption DEF Admissible, Spent, Inv, TypeSchool
    <2>4. \A id \in Ids : Kept(mem, mem', id) \/ (id \in used' /\ Admissible(id, mem'[id]))
      BY <1>1, <1>3, <2>1, <2>2, <2>3 DEF Ids
    <2> QED
      BY <1>1, <1>3, <2>1, <2>4, ChangedKeepsRecorded
         DEF Inv, TypeJournal, ParentStays
  <1>5. TypeWindow' /\ TypeSchool' /\ TypeRestarts'
    BY <1>1, <1>3
       DEF Inv, TypeWindow, TypeSchool, TypeRestarts, Places, Locked,
           ConfirmTransfer, Goto, schoolVars
  <1>6. Fresh'
    BY <1>1, <1>3
       DEF Inv, Placed, TypeWindow, Fresh, ConfirmTransfer, Goto, Kept,
           Terminal
  <1>7. Owned'
    BY <1>1, <1>3
       DEF Inv, Placed, Owned, Live, ConfirmTransfer, Goto, schoolVars
  <1>8. Noted'
    BY <1>1, <1>3, FlowKinds
       DEF Inv, Placed, Noted, ConfirmTransfer, Goto, NoneWaiting
  <1>9. NotOffered'
    BY <1>1, <1>3
       DEF Inv, Placed, NotOffered, After, Live, MayConfirm, ConfirmTransfer,
           Goto, schoolVars
  <1>10. OnePerPayment' /\ Settledness'
    BY <1>1, <1>3
       DEF Inv, OnePerPayment, Settledness, Live, ConfirmTransfer, schoolVars
  <1> QED
    BY <1>4, <1>5, <1>6, <1>7, <1>8, <1>9, <1>10 DEF Inv, Placed

LEMMA SubmissionRefusedKeeps ==
    ASSUME Inv, NEW f \in Flows, SubmissionRefused(f)
    PROVE  Inv'
  <1>1. /\ f \in Writers /\ cur[f] \in Transfers /\ cur[f] \in Ids /\ cur[f] \in used
        /\ cur[f] \notin sent /\ cur[f] \notin Payments
        /\ parent[cur[f]] = Owner(f) /\ Owner(f) \in Payments \cup {NoPayment}
        /\ f \in Payments => Owner(f) = f /\ f \in used
        /\ f \notin Payments => Owner(f) = NoPayment
        /\ "TransferSubmitted" \in Stages /\ "TransferSubmitted" \notin Terminal
    BY FlowKinds, JournalAssumption
       DEF Inv, Recorded, Known, Placed, Owned, Talking, MayConfirm, Stages,
           Recoverable, Terminal, SubmissionRefused
  <1>2. /\ mem' \in Journals
        /\ shot' \in [Writers -> Journals \cup {NoJournal}]
        /\ OneCopy'
        /\ NoneWaiting \/ UNCHANGED mem
        /\ UNCHANGED shot
        /\ mem'[cur[f]] = mem[cur[f]] \/ mem'[cur[f]] = "TransferSubmitted"
        /\ \A other \in Ids \ {cur[f]} : Kept(mem, mem', other)
    <2>1. UNCHANGED shot
      BY DEF SubmissionRefused
    <2>2. CASE Movable(mem, cur[f], "TransferSubmitted")
      <3>1. NoneWaiting /\ mem' \in Put(mem, cur[f], "TransferSubmitted")
        BY <2>2 DEF SubmissionRefused, MayUpdate, Inv, NoneWaiting
      <3>2. /\ mem' \in Journals
            /\ mem'[cur[f]] = "TransferSubmitted"
            /\ \A other \in Ids \ {cur[f]} : Kept(mem, mem', other)
        BY <1>1, <3>1, PutMoves DEF Inv, TypeJournal, PutAt
      <3> QED
        BY <2>1, <3>1, <3>2 DEF Inv, TypeJournal, OneCopy, NoneWaiting
    <2>3. CASE ~Movable(mem, cur[f], "TransferSubmitted")
      BY <2>1, <2>3
         DEF Inv, TypeJournal, Recorded, OneCopy, Kept, SubmissionRefused
    <2> QED
      BY <2>2, <2>3
  <1>3. TypeJournal' /\ Recorded'
    <2>1. UNCHANGED <<disk, parent, used>> /\ SchoolStays
      BY DEF SubmissionRefused, schoolVars, SchoolStays
    <2>2. Kept(mem, mem', cur[f]) \/ (cur[f] \in used' /\ Admissible(cur[f], mem'[cur[f]]))
      BY <1>1, <1>2, <2>1 DEF Kept, Admissible
    <2> QED
      BY <1>1, <1>2, <2>1, <2>2, ChangedKeepsRecorded
         DEF Inv, TypeJournal, ParentStays
  <1>4. TypeWindow' /\ TypeSchool' /\ TypeRestarts'
    BY <1>1, <1>2
       DEF Inv, TypeWindow, TypeSchool, TypeRestarts, Places, AfterRejection,
           SubmissionRefused, Goto, schoolVars
  <1>5. Fresh'
    BY <1>1, <1>2, FlowKinds
       DEF Inv, Placed, Fresh, AfterRejection, SubmissionRefused, Goto, Kept,
           Terminal
  <1>6. Owned'
    BY <1>1, <1>2
       DEF Inv, Placed, Owned, Live, AfterRejection, SubmissionRefused, Goto,
           schoolVars
  <1>7. Noted'
    BY <1>1, <1>2, FlowKinds
       DEF Inv, Placed, Noted, AfterRejection, SubmissionRefused, Goto,
           NoneWaiting
  <1>8. NotOffered'
    BY <1>1, <1>2
       DEF Inv, Placed, NotOffered, After, Live, MayConfirm, SubmissionRefused,
           Goto, schoolVars
  <1>9. OnePerPayment' /\ Settledness'
    BY <1>1, <1>2
       DEF Inv, OnePerPayment, Settledness, Live, SubmissionRefused, schoolVars
  <1> QED
    BY <1>3, <1>4, <1>5, <1>6, <1>7, <1>8, <1>9 DEF Inv, Placed

LEMMA TransferRecordedKeeps ==
    ASSUME Inv, NEW f \in Flows, TransferRecorded(f)
    PROVE  Inv'
  <1>1. /\ f \in Writers /\ cur[f] \in Transfers /\ cur[f] \in Ids /\ cur[f] \in used
        /\ cur[f] \notin sent /\ cur[f] \notin Payments
        /\ parent[cur[f]] = Owner(f) /\ Owner(f) \in Payments \cup {NoPayment}
        /\ f \in Payments => Owner(f) = f /\ f \in used
        /\ f \notin Payments => Owner(f) = NoPayment
        /\ "TransferSubmitted" \in Stages /\ "TransferSubmitted" \notin Terminal
    BY FlowKinds, JournalAssumption
       DEF Inv, Recorded, Known, Placed, Owned, Talking, Stages, Recoverable,
           Terminal, TransferRecorded
  <1>2. /\ StoredOrNot(f)
        /\ shot[f] # NoJournal /\ mem[cur[f]] = "TransferSubmitted"
        /\ f \in Payments => mem[f] = "TransferSubmitted"
        /\ pc[f] = "submitting"
        /\ UNCHANGED <<mem, parent, used, executed, refused>>
    BY DEF TransferRecorded, StoredOrNot, Inv, Placed, Noted
  <1>3. /\ \A w \in Writers \ {f} : shot'[w] = shot[w]
        /\ \A w \in Writers \ {f} : shot[w] = NoJournal
        /\ disk' \in Journals /\ disk' \in {disk, mem}
        /\ shot' \in [Writers -> Journals \cup {NoJournal}]
        /\ shot'[f] = NoJournal
        /\ sent' = sent \/ (sent' = sent \cup {cur[f]} /\ disk' = mem)
    BY <1>1, <1>2, StoredMoves
       DEF TransferRecorded, Stored, Submits, Inv, Recorded, OneCopy
  <1>4. f \in Payments => \A t \in Live : parent[t] # f
    BY <1>1, <1>2, JournalAssumption DEF Inv, Placed, NotOffered, After
  <1>5. TypeJournal' /\ Recorded'
    <2>1. TypeJournal' /\ OneCopy'
      BY <1>1, <1>2, <1>3 DEF Inv, TypeJournal, OneCopy
    <2>2. Known'
      BY <1>1, <1>2, <1>3 DEF Inv, Recorded, Known
    <2>3. OnRecord'
      BY <1>1, <1>2, <1>3 DEF Inv, Recorded, OnRecord, Submitted
    <2>4. Carried' /\ Moved'
      BY <1>2, <1>3 DEF Inv, Recorded, Carried, Moved
    <2>5. SpentOnRecord'
      <3>1. Live' \subseteq Live \cup {cur[f]}
        BY <1>2, <1>3 DEF Live
      <3>2. \A t \in Live' : t # cur[f] => t \in Live
        BY <3>1
      <3>3. cur[f] \in Live' => disk' = mem
        BY <1>1, <1>3 DEF Live
      <3> QED
        BY <1>1, <1>2, <1>3, <3>2, <3>3 DEF Inv, Recorded, SpentOnRecord, Spent
    <2> QED
      BY <2>1, <2>2, <2>3, <2>4, <2>5 DEF Recorded
  <1>6. TypeWindow' /\ TypeSchool' /\ TypeRestarts'
    BY <1>1, <1>2, <1>3, <1>4
       DEF Inv, TypeWindow, TypeSchool, TypeRestarts, Places, Locked,
           AfterRejection, TransferRecorded, Goto, windowVars, Submits
  <1>7. Fresh'
    BY <1>1, <1>2, <1>3, <1>4, FlowKinds
       DEF Inv, Placed, TypeWindow, Fresh, AfterRejection, TransferRecorded,
           Goto, Submits
  <1>8. Owned'
    BY <1>1, <1>2, <1>3, <1>4, FlowKinds
       DEF Inv, Placed, TypeWindow, TypeSchool, Owned, Talking, Live,
           AfterRejection, TransferRecorded, Goto, Submits
  <1>9. Noted'
    BY <1>1, <1>2, <1>3, <1>4, FlowKinds
       DEF Inv, Placed, TypeWindow, Noted, AfterRejection, TransferRecorded,
           Goto, Submits
  <1>10. NotOffered'
    BY <1>1, <1>2, <1>3, <1>4, FlowKinds
       DEF Inv, Placed, TypeWindow, TypeSchool, TypeJournal, NotOffered, After,
           Live, TransferRecorded, Goto, windowVars, Submits
  <1>11. OnePerPayment' /\ Settledness'
    <2>1. Live' \subseteq Live \cup {cur[f]}
      BY <1>2, <1>3 DEF Live
    <2>2. \A t \in Live : parent[t] = parent[cur[f]] => parent[t] = NoPayment
      BY <1>1, <1>4
    <2>3. OnePerPayment'
      BY <1>2, <2>1, <2>2 DEF Inv, OnePerPayment
    <2> QED
      BY <1>2, <2>3 DEF Inv, Settledness
  <1> QED
    BY <1>5, <1>6, <1>7, <1>8, <1>9, <1>10, <1>11 DEF Inv, Placed

LEMMA SchoolExecutesKeeps ==
    ASSUME Inv, NEW t \in Transfers, SchoolExecutes(t)
    PROVE  Inv'
  <1>1. /\ t \in sent \ refused
        /\ executed' = executed \cup {t}
        /\ UNCHANGED <<mem, disk, shot, parent, used, orderSlot, slot, active, pc, cur,
                       orders, paid, sent, refused, restarts>>
    BY DEF SchoolExecutes, journalVars, windowVars, flowVars
  <1>2. TypeJournal' /\ TypeWindow' /\ TypeSchool' /\ TypeRestarts'
    BY <1>1 DEF Inv, TypeJournal, TypeWindow, TypeSchool, TypeRestarts
  <1>3. OneCopy' /\ Known' /\ OnRecord'
    BY <1>1 DEF Inv, Recorded, OneCopy, Known, OnRecord
  <1>4. Carried' /\ Moved' /\ SpentOnRecord'
    BY <1>1 DEF Inv, Recorded, Carried, Moved, SpentOnRecord, Live
  <1>5. Fresh' /\ Owned' /\ Noted' /\ NotOffered'
    BY <1>1 DEF Inv, Placed, Fresh, Owned, Noted, NotOffered, Live
  <1>6. OnePerPayment' /\ Settledness'
    BY <1>1 DEF Inv, OnePerPayment, Settledness, Live
  <1> QED
    BY <1>2, <1>3, <1>4, <1>5, <1>6 DEF Inv, Recorded, Placed

\* Steps of the settings page and of the start-up review touch no conversation.
LEMMA ElsewhereKeeps ==
    ASSUME Inv, NEW w \in {Settings, Window},
           TypeJournal', Recorded',
           UNCHANGED <<mem, parent, used, windowVars, flowVars, schoolVars, restarts>>,
           \A v \in Writers \ {w} : shot'[v] = shot[v]
    PROVE  Inv'
  <1>1. TypeWindow' /\ TypeSchool' /\ TypeRestarts'
    BY DEF Inv, TypeWindow, TypeSchool, TypeRestarts, windowVars, flowVars,
           schoolVars
  <1>2. Fresh' /\ Owned' /\ NotOffered'
    BY DEF Inv, Placed, Fresh, Owned, NotOffered, Live, windowVars, flowVars,
           schoolVars
  <1>3. Noted'
    BY FlowKinds DEF Inv, Placed, Noted, flowVars
  <1>4. OnePerPayment' /\ Settledness'
    BY DEF Inv, OnePerPayment, Settledness, Live, schoolVars
  <1> QED
    BY <1>1, <1>2, <1>3, <1>4 DEF Inv, Placed

LEMMA SettingsReadKeeps ==
    ASSUME Inv, SettingsRead
    PROVE  Inv'
  <1>1. Update(Settings, mem) /\ UNCHANGED <<disk, parent, used>> /\ SchoolStays
    BY DEF SettingsRead, Update, schoolVars, SchoolStays
  <1>2. /\ mem' = mem
        /\ shot' \in [Writers -> Journals \cup {NoJournal}]
        /\ OneCopy'
    BY <1>1, UpdateMoves, FlowKinds DEF Inv, TypeJournal
  <1>3. TypeJournal' /\ Recorded'
    BY <1>1, <1>2, ChangedKeepsRecorded DEF Inv, TypeJournal, ParentStays, Kept
  <1>4. \A v \in Writers \ {Settings} : shot'[v] = shot[v]
    BY DEF SettingsRead
  <1> QED
    BY <1>3, <1>4, ElsewhereKeeps DEF SettingsRead

LEMMA SettingsSavedKeeps ==
    ASSUME Inv, SettingsSaved
    PROVE  Inv'
  <1>1. /\ Stored(Settings) /\ UNCHANGED <<mem, parent, used>> /\ SchoolStays
    BY FlowKinds
       DEF SettingsSaved, Stored, Inv, Recorded, OneCopy, schoolVars,
           SchoolStays
  <1>2. TypeJournal' /\ Recorded'
    BY <1>1, StoredKeepsRecorded, FlowKinds DEF StoredOrNot
  <1>3. \A v \in Writers \ {Settings} : shot'[v] = shot[v]
    BY <1>1, StoredMoves, FlowKinds DEF StoredOrNot
  <1> QED
    BY <1>1, <1>2, <1>3, ElsewhereKeeps DEF SettingsSaved

LEMMA SettingsNotSavedKeeps ==
    ASSUME Inv, SettingsNotSaved
    PROVE  Inv'
  <1>1. /\ StoredOrNot(Settings) /\ UNCHANGED <<mem, parent, used>> /\ SchoolStays
    BY DEF SettingsNotSaved, StoredOrNot, schoolVars, SchoolStays
  <1>2. TypeJournal' /\ Recorded'
    BY <1>1, StoredKeepsRecorded, FlowKinds
  <1>3. \A v \in Writers \ {Settings} : shot'[v] = shot[v]
    BY <1>1, StoredMoves, FlowKinds
  <1> QED
    BY <1>2, <1>3, ElsewhereKeeps DEF SettingsNotSaved

LEMMA ReviewStoredKeeps ==
    ASSUME Inv, ReviewStored
    PROVE  Inv'
  <1>1. /\ StoredOrNot(Window) /\ UNCHANGED <<mem, parent, used>> /\ SchoolStays
    BY DEF ReviewStored, schoolVars, SchoolStays
  <1>2. TypeJournal' /\ Recorded'
    BY <1>1, StoredKeepsRecorded, FlowKinds
  <1>3. \A v \in Writers \ {Window} : shot'[v] = shot[v]
    BY <1>1, StoredMoves, FlowKinds
  <1> QED
    BY <1>2, <1>3, ElsewhereKeeps DEF ReviewStored

LEMMA RestartKeeps ==
    ASSUME Inv, Restart
    PROVE  Inv'
  <1>1. /\ mem' \in Reviewed(disk, parent)
        /\ active' \in Offered(mem')
        /\ UNCHANGED <<disk, parent, used>> /\ UNCHANGED schoolVars
        /\ pc' = [f \in Flows |-> "idle"]
    BY DEF Restart
  <1>2. /\ mem' \in Journals
        /\ \A id \in Ids :
             \/ Kept(disk, mem', id)
             \/ id \in Payments /\ disk[id] \in Recoverable /\ PutAt(mem', id, "Completed")
                /\ Loose(disk, parent) # {}
             \/ disk[id] \in {"OrderCreated", "HandedOff", "Unknown"}
                /\ (mem'[id] = "Unknown" \/ PutAt(mem', id, "Expired"))
    BY <1>1, ReviewedMoves DEF Inv, TypeJournal
  <1>3. /\ shot' \in [Writers -> Journals \cup {NoJournal}]
        /\ \A w \in Writers : shot'[w] # NoJournal => w = Window /\ shot'[w] = mem'
    BY <1>2 DEF Restart
  <1>4. active' \subseteq Payments /\ active' \subseteq Restorable(mem')
    BY <1>1 DEF Offered, Restorable
  <1>5. TypeJournal' /\ OneCopy'
    BY <1>1, <1>2, <1>3 DEF Inv, TypeJournal, OneCopy
  <1>6. TypeWindow' /\ TypeSchool' /\ TypeRestarts'
    <2>1. TypeWindow'
      BY <1>4 DEF Restart, TypeWindow, Places
    <2>2. TypeSchool' /\ TypeRestarts'
      BY RechargeAssumption
         DEF Inv, Restart, TypeSchool, TypeRestarts, schoolVars
    <2> QED
      BY <2>1, <2>2
  <1>7. Known'
    BY <1>1, <1>2 DEF Inv, Recorded, Known, Kept, Recoverable, schoolVars
  <1>8. OnRecord'
    <2>1. sent \subseteq Ids /\ sent \cap Payments = {}
      BY FlowKinds, JournalAssumption DEF Inv, TypeSchool
    <2> QED
      BY <1>1, <1>2, <2>1
         DEF Inv, Recorded, OnRecord, Submitted, Kept, PutAt, schoolVars
  <1>9. Carried'
    BY <1>1, <1>2, FlowKinds, JournalAssumption
       DEF Inv, Recorded, Carried, Kept, PutAt, schoolVars
  <1>10. Moved'
    <2>1. Loose(disk, parent) # {} => \E t \in executed : parent[t] = NoPayment
      BY DEF Loose, Inv, Recorded, Carried
    <2> QED
      BY <1>1, <1>2, <2>1, FlowKinds
         DEF Inv, Recorded, Moved, Kept, PutAt, schoolVars
  <1>11. SpentOnRecord'
    <2>1. \A p \in Payments : disk[p] \in Spent => mem'[p] \in Spent
      BY <1>2, FlowKinds DEF Spent, Kept, PutAt
    <2> QED
      BY <1>1, <2>1
         DEF Inv, TypeJournal, TypeSchool, Recorded, SpentOnRecord, Live,
             schoolVars
  <1>12. Fresh' /\ Owned' /\ Noted'
    BY <1>1, FlowKinds DEF Fresh, Owned, Talking, Noted
  <1>13. NotOffered'
    <2>1. \A p \in active' : mem'[p] \notin Spent
      BY <1>4 DEF Restorable, Spent
    <2>2. \A t \in Live' : parent'[t] # NoPayment => parent'[t] \in Payments
      BY <1>5, <1>6 DEF TypeJournal, TypeSchool, Live
    <2> QED
      BY <1>1, <1>11, <2>1, <2>2, FlowKinds DEF SpentOnRecord, NotOffered
  <1>14. OnePerPayment' /\ Settledness'
    BY <1>1 DEF Inv, OnePerPayment, Settledness, Live, schoolVars
  <1> QED
    BY <1>5, <1>6, <1>7, <1>8, <1>9, <1>10, <1>11, <1>12, <1>13, <1>14
       DEF Inv, Recorded, Placed

-----------------------------------------------------------------------------
(***************************************************************************)
(* The invariant holds of every behaviour, and the properties follow.      *)
(***************************************************************************)
LEMMA InitInv == ~Overlap /\ Init => Inv
  <1> SUFFICES ASSUME ~Overlap, Init PROVE Inv
    OBVIOUS
  <1>1. TypeJournal /\ TypeWindow
    BY DEF Init, TypeJournal, TypeWindow, Journals, Places
  <1>2. TypeSchool /\ TypeRestarts
    BY RechargeAssumption DEF Init, TypeSchool, TypeRestarts
  <1>3. Recorded
    BY FlowKinds
       DEF Init, Recorded, OneCopy, Known, OnRecord, Carried, Moved,
           SpentOnRecord, Live
  <1>4. Placed /\ OnePerPayment /\ Settledness
    BY FlowKinds
       DEF Init, Placed, Fresh, Owned, Talking, Noted, NotOffered, Live,
           OnePerPayment, Settledness
  <1> QED
    BY <1>1, <1>2, <1>3, <1>4 DEF Inv

LEMMA NextInv == Inv /\ [Next]_vars => Inv'
  <1> SUFFICES ASSUME Inv, [Next]_vars PROVE Inv'
    OBVIOUS
  <1>1. ASSUME NEW p \in Payments, Order(p) PROVE Inv'
    BY <1>1, PrepareOrderKeeps, OrderNotedKeeps, OrderUnavailableKeeps,
       ConfirmOrderKeeps, OrderRejectedKeeps, CancelOrderKeeps,
       ProviderCreatesOrderKeeps, OrderAnsweredKeeps, OrderUnclearKeeps,
       HandedOverKeeps, PayKeeps, CheckPaidKeeps, CheckedKeeps,
       ArrivalSeenKeeps, FinishRecoveryKeeps, LeavePaymentKeeps,
       ForgetPaymentKeeps
       DEF Order
  <1>2. ASSUME NEW f \in Flows, Transfer(f) PROVE Inv'
    BY <1>2, PrepareTransferKeeps, SourceRefusedKeeps,
       TransferUnavailableKeeps, TransferNotedKeeps, CancelTransferKeeps,
       ConfirmRejectedKeeps, ConfirmExpiredKeeps, ConfirmTransferKeeps,
       SubmissionRefusedKeeps, TransferRecordedKeeps, TransferAnsweredKeeps,
       TransferTurnedDownKeeps, TransferUnclearKeeps, SettledKeeps, ClosedKeeps
       DEF Transfer
  <1>3. ASSUME NEW t \in Transfers, SchoolExecutes(t) PROVE Inv'
    BY <1>3, SchoolExecutesKeeps
  <1>4. CASE SettingsRead \/ SettingsSaved \/ SettingsNotSaved
    BY <1>4, SettingsReadKeeps, SettingsSavedKeeps, SettingsNotSavedKeeps
  <1>5. CASE Restart \/ ReviewStored
    BY <1>5, RestartKeeps, ReviewStoredKeeps
  <1>6. CASE UNCHANGED vars
    <2>1. UNCHANGED journalVars /\ UNCHANGED windowVars /\ UNCHANGED flowVars
          /\ UNCHANGED schoolVars /\ UNCHANGED restarts
      BY <1>6 DEF vars, journalVars, windowVars, flowVars, schoolVars
    <2>2. UNCHANGED <<mem, parent, used>> /\ UNCHANGED shot
      BY <2>1 DEF journalVars
    <2>3. SchoolStays
      BY <2>1 DEF SchoolStays, schoolVars
    <2> QED
      BY <2>1, <2>2, <2>3, QuietKeepsRecorded, ElsewhereKeeps
  <1> QED
    BY <1>1, <1>2, <1>3, <1>4, <1>5, <1>6 DEF Next

\* While copies of the journal do not overlap, every reachable state satisfies
\* the inductive invariant.
THEOREM Invariance == ~Overlap /\ Spec => []Inv
  <1>1. ~Overlap /\ Init => Inv
    BY InitInv
  <1>2. Inv /\ [Next]_vars => Inv'
    BY NextInv
  <1> QED
    BY <1>1, <1>2, PTL DEF Spec

\* Journal, window, flows and school keep their types.
THEOREM TypeCorrect == ~Overlap /\ Spec => []TypeOK
  <1>1. Inv => TypeOK
    BY DEF Inv, TypeJournal, TypeWindow, TypeSchool, TypeRestarts, TypeOK
  <1> QED
    BY <1>1, Invariance, PTL

\* The money of one payment is transferred at most once, for any number of
\* payments, transfers and restarts.
THEOREM TransferIsOnce == ~Overlap /\ Spec => []TransferredOnce
  <1>1. Inv => TransferredOnce
    BY DEF Inv, TypeSchool, OnePerPayment, Settledness, Live, TransferredOnce
  <1> QED
    BY <1>1, Invariance, PTL

\* Whatever the school may have received is in secure storage as submitted.
THEOREM SubmissionIsOnRecord == ~Overlap /\ Spec => []SubmissionOnRecord
  <1>1. Inv => SubmissionOnRecord
    BY DEF Inv, TypeSchool, Recorded, OnRecord, Carried, Submitted,
           SubmissionOnRecord
  <1> QED
    BY <1>1, Invariance, PTL

\* No payment is closed as completed without a transfer that moved the money.
THEOREM CompletionIsMoved == ~Overlap /\ Spec => []CompletedIsMoved
  <1>1. Inv => CompletedIsMoved
    BY DEF Inv, Recorded, Moved, CompletedIsMoved
  <1> QED
    BY <1>1, Invariance, PTL

-----------------------------------------------------------------------------
(***************************************************************************)
(* A record that has ended stays ended, or is trimmed, and one that has    *)
(* been trimmed stays away.                                                *)
(***************************************************************************)
Over(journal, id) == journal[id] \in Terminal \/ (journal[id] = "Absent" /\ id \in used)

Ended(before, after) ==
    \A id \in Ids : Over(before, id) => after[id] \in {before[id], "Absent"}

LEMMA MovableEnds ==
    ASSUME NEW journal, NEW id, NEW stage,
           Movable(journal, id, stage), Over(journal, id)
    PROVE  stage = journal[id]
  BY DEF Over, Movable, CanTransition, Successors, Terminal

LEMMA TryEnds ==
    ASSUME Inv, NEW w \in Writers, NEW id \in Ids, NEW stage \in Stages,
           MayUpdate, Try(w, id, stage)
    PROVE  Ended(mem, mem')
  <1>1. /\ \/ mem'[id] = mem[id]
           \/ Movable(mem, id, stage) /\ PutAt(mem', id, stage)
        /\ \A other \in Ids \ {id} : Kept(mem, mem', other)
    BY TryMoves
  <1>2. Movable(mem, id, stage) /\ Over(mem, id) => stage = mem[id]
    BY MovableEnds
  <1> QED
    BY <1>1, <1>2 DEF Ended, Kept, PutAt

LEMMA WithParentEnds ==
    ASSUME Inv, NEW t \in Transfers, NEW stage \in Stages,
           PairMovable(mem, t, parent[t], stage),
           mem' \in WithParent(mem, t, parent[t], stage)
    PROVE  Ended(mem, mem')
  <1>1. parent[t] \in Payments \cup {NoPayment}
    BY DEF Inv, TypeJournal
  <1>2. /\ PutAt(mem', t, stage)
        /\ parent[t] # NoPayment => PutAt(mem', parent[t], stage)
        /\ \A other \in Ids \ {t} :
             (other = parent[t] /\ parent[t] # NoPayment) \/ Kept(mem, mem', other)
    BY <1>1, WithParentMoves DEF Inv, TypeJournal
  <1>3. Over(mem, t) => stage = mem[t]
    BY MovableEnds DEF PairMovable
  <1>4. parent[t] # NoPayment /\ Over(mem, parent[t]) => stage = mem[parent[t]]
    BY MovableEnds DEF PairMovable
  <1> QED
    BY <1>2, <1>3, <1>4 DEF Ended, Kept, PutAt

LEMMA PutEnds ==
    ASSUME Inv, NEW id \in Ids, NEW stage \in Stages,
           ~Over(mem, id) \/ Movable(mem, id, stage),
           mem' \in Put(mem, id, stage)
    PROVE  Ended(mem, mem')
  <1>1. /\ PutAt(mem', id, stage)
        /\ \A other \in Ids \ {id} : Kept(mem, mem', other)
    BY PutMoves DEF Inv, TypeJournal
  <1>2. Over(mem, id) => stage = mem[id]
    BY MovableEnds
  <1> QED
    BY <1>1, <1>2 DEF Ended, Kept, PutAt

LEMMA RecordEnds ==
    ASSUME Inv, NEW f \in Flows, cur[f] \in Transfers, NEW stage \in Stages,
           Record(f, stage)
    PROVE  Ended(mem, mem')
  <1>1. CASE PairMovable(mem, cur[f], parent[cur[f]], stage)
    <2>1. mem' \in WithParent(mem, cur[f], parent[cur[f]], stage)
      BY <1>1 DEF Record, Update
    <2> QED
      BY <1>1, <2>1, WithParentEnds
  <1>2. CASE ~PairMovable(mem, cur[f], parent[cur[f]], stage)
    <2>1. mem' = mem \/ (Movable(mem, cur[f], stage) /\ mem' \in Put(mem, cur[f], stage))
      BY <1>2 DEF Record
    <2> QED
      BY <2>1, PutEnds, FlowKinds DEF Ended
  <1> QED
    BY <1>1, <1>2

LEMMA OrderEnds ==
    ASSUME Inv, NEW p \in Payments, Order(p)
    PROVE  Ended(mem, mem')
  <1>1. /\ p \in Ids /\ p \in Writers
        /\ {"Prepared", "Cancelled", "HandedOff", "Unknown", "PaymentConfirmed", "Completed"}
             \subseteq Stages
    BY FlowKinds DEF Stages, Recoverable, Terminal
  <1>2. CASE PrepareOrder(p)
    <2>1. ~Over(mem, p)
      BY <1>1, <1>2 DEF Over, Inv, Recorded, Known, Terminal, PrepareOrder
    <2>2. mem' \in Put(mem, p, "Prepared")
      BY <1>2 DEF PrepareOrder, Update
    <2> QED
      BY <1>1, <2>1, <2>2, PutEnds
  <1>3. CASE CancelOrder(p) \/ OrderUnclear(p) \/ CheckPaid(p) \/ FinishRecovery(p)
    <2>1. MayUpdate /\ \E stage \in Stages : Try(p, p, stage)
      BY <1>1, <1>3 DEF CancelOrder, OrderUnclear, CheckPaid, FinishRecovery
    <2> QED
      BY <1>1, <2>1, TryEnds
  <1>4. CASE LeavePayment(p)
    <2>1. CASE UNCHANGED mem
      BY <2>1 DEF Ended
    <2>2. CASE \E stage \in AfterContextClosed(mem[p]) : Try(p, p, stage)
      <3>1. AfterContextClosed(mem[p]) \subseteq Stages
        BY DEF AfterContextClosed, Stages, Recoverable, Terminal
      <3>2. MayUpdate
        BY <1>4 DEF LeavePayment
      <3> QED
        BY <1>1, <2>2, <3>1, <3>2, TryEnds
    <2> QED
      BY <1>4, <2>1, <2>2 DEF LeavePayment
  <1>5. CASE OrderAnswered(p)
    <2>1. ~Over(mem, p)
      BY <1>5 DEF Over, Inv, Placed, Fresh, Terminal, OrderAnswered
    <2>2. mem' \in Put(mem, p, "HandedOff") \/ mem' = mem
      BY <1>5 DEF OrderAnswered, Update
    <2> QED
      BY <1>1, <2>1, <2>2, PutEnds DEF Ended
  <1>6. CASE UNCHANGED mem
    BY <1>6 DEF Ended
  <1> QED
    BY <1>2, <1>3, <1>4, <1>5, <1>6
       DEF Order, OrderNoted, OrderUnavailable, ConfirmOrder, OrderRejected,
           ProviderCreatesOrder, HandedOver, Pay, Checked, ArrivalSeen,
           ForgetPayment, journalVars

LEMMA TransferEnds ==
    ASSUME Inv, NEW f \in Flows, Transfer(f)
    PROVE  Ended(mem, mem')
  <1>1. /\ f \in Writers /\ Transfers \subseteq Ids
        /\ pc[f] \in {"offered", "sent"} => cur[f] \in Transfers
        /\ {"Prepared", "PaymentConfirmed", "TransferSubmitted", "Cancelled",
            "Completed", "Unknown"} \subseteq Stages
    BY FlowKinds
       DEF Stages, Recoverable, Terminal, Inv, TypeSchool, Placed, Owned,
           Talking, Live
  <1>2. ASSUME NEW t \in Transfers, PrepareTransfer(f, t) PROVE Ended(mem, mem')
    <2>1. PICK confirmed \in SourceConfirmed(f) : mem' \in Put(confirmed, t, "Prepared")
      BY <1>2 DEF PrepareTransfer, Update
    <2>2. ~Over(mem, t)
      BY <1>1, <1>2 DEF Over, PrepareTransfer, Inv, Recorded, Known, Terminal
    <2>3. /\ confirmed \in Journals
          /\ \A id \in Ids : Kept(mem, confirmed, id) \/ (id = f /\ ~Over(mem, id))
      <3>1. CASE f = Card
        BY <3>1 DEF SourceConfirmed, Inv, TypeJournal, Kept
      <3>2. CASE f # Card
        <4>1. f \in Ids /\ mem[f] \in Recoverable /\ confirmed \in Put(mem, f, "PaymentConfirmed")
          BY <3>2, FlowKinds DEF SourceConfirmed, Flows
        <4> QED
          BY <1>1, <4>1, PutMoves DEF Over, Inv, TypeJournal, Recoverable, Terminal
      <3> QED
        BY <3>1, <3>2
    <2>4. \A other \in Ids \ {t} : Kept(confirmed, mem', other)
      BY <1>1, <2>1, <2>3, PutMoves
    <2> QED
      BY <2>2, <2>3, <2>4 DEF Ended, Kept, Over, Terminal
  <1>3. CASE CancelTransfer(f)
    BY <1>1, <1>3, TryEnds DEF CancelTransfer, Ended
  <1>4. CASE ConfirmTransfer(f)
    <2>1. /\ cur[f] \in Transfers
          /\ PairMovable(mem, cur[f], parent[cur[f]], "TransferSubmitted")
          /\ mem' \in WithParent(mem, cur[f], parent[cur[f]], "TransferSubmitted")
      BY <1>1, <1>4 DEF ConfirmTransfer, MayConfirm, Update
    <2> QED
      BY <1>1, <2>1, WithParentEnds
  <1>5. CASE SubmissionRefused(f)
    <2>1. /\ cur[f] \in Transfers
          /\ \/ mem' = mem
             \/ /\ Movable(mem, cur[f], "TransferSubmitted")
                /\ mem' \in Put(mem, cur[f], "TransferSubmitted")
      BY <1>1, <1>5 DEF SubmissionRefused, MayConfirm
    <2> QED
      BY <1>1, <2>1, PutEnds DEF Ended
  <1>6. CASE TransferAnswered(f) \/ TransferTurnedDown(f) \/ TransferUnclear(f)
    <2>1. cur[f] \in Transfers /\ \E stage \in Stages : Record(f, stage)
      BY <1>1, <1>6 DEF TransferAnswered, TransferTurnedDown, TransferUnclear
    <2> QED
      BY <2>1, RecordEnds
  <1>7. CASE UNCHANGED mem
    BY <1>7 DEF Ended
  <1> QED
    BY <1>2, <1>3, <1>4, <1>5, <1>6, <1>7
       DEF Transfer, SourceRefused, TransferUnavailable, TransferNoted,
           ConfirmRejected, ConfirmExpired, TransferRecorded, Settled, Closed,
           journalVars

LEMMA RunningEnds ==
    ASSUME Inv, [Next]_vars, ~Restart
    PROVE  Ended(mem, mem')
  <1>1. ASSUME NEW p \in Payments, Order(p) PROVE Ended(mem, mem')
    BY <1>1, OrderEnds
  <1>2. ASSUME NEW f \in Flows, Transfer(f) PROVE Ended(mem, mem')
    BY <1>2, TransferEnds
  <1>3. CASE SettingsSaved
    BY <1>3, FlowKinds DEF SettingsSaved, Inv, Recorded, OneCopy, Ended
  <1>4. CASE UNCHANGED mem
    BY <1>4 DEF Ended
  <1> QED
    BY <1>1, <1>2, <1>3, <1>4
       DEF Next, SchoolExecutes, SettingsRead, SettingsNotSaved, ReviewStored,
           vars, journalVars

\* While the app runs, no record that has ended comes back to life.
THEOREM EndingIsFinal == ~Overlap /\ Spec => EndedStaysEnded
  <1>1. ASSUME Inv, [Next]_vars, restarts' = restarts PROVE Ended(mem, mem')
    <2>1. ~Restart
      BY <1>1 DEF Restart, Inv, TypeRestarts
    <2> QED
      BY <1>1, <2>1, RunningEnds
  <1>2. Inv /\ [Next]_vars =>
          [restarts' = restarts =>
             \A id \in Ids : mem[id] \in Terminal => mem'[id] \in {mem[id], "Absent"}]_vars
    BY <1>1 DEF Ended, Over
  <1> QED
    BY <1>2, Invariance, PTL DEF Spec, EndedStaysEnded

-----------------------------------------------------------------------------
(***************************************************************************)
(* The recharge keeps the ledger. Storage is never ahead of memory about   *)
(* what has ended, which a restart does not change.                        *)
(***************************************************************************)
Final == \A id \in Ids : disk[id] \in Terminal => mem[id] \in {disk[id], "Absent"}

\* A step leaves storage alone or writes what memory holds and goes on holding.
LEMMA DiskMoves ==
    ASSUME Inv, [Next]_vars
    PROVE  disk' = disk \/ (disk' \in {disk, mem} /\ mem' = mem)
  <1>1. ASSUME NEW w \in Writers, StoredOrNot(w) PROVE disk' \in {disk, mem}
    BY <1>1, StoredMoves
  <1>2. ASSUME NEW p \in Payments, Order(p)
        PROVE  disk' = disk \/ (StoredOrNot(p) /\ mem' = mem)
    BY <1>2
       DEF Order, PrepareOrder, OrderNoted, OrderUnavailable, ConfirmOrder,
           OrderRejected, CancelOrder, ProviderCreatesOrder, OrderAnswered,
           OrderUnclear, HandedOver, Pay, CheckPaid, Checked, ArrivalSeen,
           FinishRecovery, LeavePayment, ForgetPayment, StoredOrNot, journalVars
  <1>3. ASSUME NEW f \in Flows, Transfer(f)
        PROVE  disk' = disk \/ (StoredOrNot(f) /\ mem' = mem)
    BY <1>3
       DEF Transfer, PrepareTransfer, SourceRefused, TransferUnavailable,
           TransferNoted, CancelTransfer, ConfirmRejected, ConfirmExpired,
           ConfirmTransfer, SubmissionRefused, TransferRecorded,
           TransferAnswered, TransferTurnedDown, TransferUnclear, Record,
           Settled, Closed, StoredOrNot, journalVars
  <1>4. CASE SettingsSaved
    BY <1>4, FlowKinds DEF SettingsSaved, Inv, Recorded, OneCopy
  <1>5. CASE SettingsNotSaved
    BY <1>5, <1>1, FlowKinds DEF SettingsNotSaved, StoredOrNot
  <1>6. CASE ReviewStored
    BY <1>6, <1>1, FlowKinds DEF ReviewStored
  <1>7. CASE disk' = disk
    BY <1>7
  <1> QED
    BY <1>1, <1>2, <1>3, <1>4, <1>5, <1>6, <1>7, FlowKinds
       DEF Next, SchoolExecutes, SettingsRead, Restart, vars, journalVars

LEMMA FinalKeeps == Inv /\ Final /\ [Next]_vars => Final'
  <1> SUFFICES ASSUME Inv, Final, [Next]_vars PROVE Final'
    OBVIOUS
  <1>1. CASE Restart
    <2>1. mem' \in Reviewed(disk, parent) /\ disk' = disk
      BY <1>1 DEF Restart
    <2>2. \A id \in Ids : disk[id] \in Terminal => Kept(disk, mem', id)
      BY <2>1, ReviewedMoves DEF Inv, TypeJournal, Terminal, Recoverable
    <2> QED
      BY <2>1, <2>2 DEF Final, Kept
  <1>2. CASE ~Restart /\ disk' = disk
    <2>1. \A id \in Ids : disk[id] \in Terminal => id \in used
      BY DEF Inv, Recorded, Known, Terminal
    <2>2. Ended(mem, mem')
      BY <1>2, RunningEnds
    <2> QED
      BY <1>2, <2>1, <2>2 DEF Final, Ended, Over
  <1>3. CASE disk' \in {disk, mem} /\ mem' = mem
    BY <1>3 DEF Final
  <1> QED
    BY <1>1, <1>2, <1>3, DiskMoves

\* What the steps do to the transfers and to the school.
LEMMA SchoolMoves ==
    ASSUME Inv, [Next]_vars
    PROVE  \/ /\ UNCHANGED <<parent, sent, executed, refused>>
              /\ used' \cap Transfers = used \cap Transfers
           \/ \E f \in Flows, t \in Transfers : PrepareTransfer(f, t)
           \/ \E f \in Flows : TransferRecorded(f) /\ sent' # sent
           \/ \E t \in Transfers : SchoolExecutes(t)
           \/ \E f \in Flows : TransferTurnedDown(f)
  <1>1. ASSUME NEW p \in Payments, Order(p)
        PROVE  /\ UNCHANGED <<parent, sent, executed, refused>>
               /\ used' \cap Transfers = used \cap Transfers
    <2>1. /\ UNCHANGED <<parent, sent, executed, refused>>
          /\ used' = used \/ used' = used \cup {p}
      BY <1>1
         DEF Order, PrepareOrder, OrderNoted, OrderUnavailable, ConfirmOrder,
             OrderRejected, CancelOrder, ProviderCreatesOrder, OrderAnswered,
             OrderUnclear, HandedOver, Pay, CheckPaid, Checked, ArrivalSeen,
             FinishRecovery, LeavePayment, ForgetPayment, journalVars, schoolVars
    <2> QED
      BY <2>1, JournalAssumption
  <1>2. ASSUME NEW f \in Flows, Transfer(f),
               ~\E t \in Transfers : PrepareTransfer(f, t),
               ~TransferTurnedDown(f), sent' = sent \/ ~TransferRecorded(f)
        PROVE  UNCHANGED <<parent, sent, executed, refused, used>>
    BY <1>2
       DEF Transfer, SourceRefused, TransferUnavailable, TransferNoted,
           CancelTransfer, ConfirmRejected, ConfirmExpired, ConfirmTransfer,
           SubmissionRefused, TransferRecorded, TransferAnswered,
           TransferUnclear, Record, Settled, Closed, journalVars, schoolVars
  <1>3. CASE \/ SettingsRead \/ SettingsSaved \/ SettingsNotSaved
             \/ Restart \/ ReviewStored \/ UNCHANGED vars
    BY <1>3
       DEF SettingsRead, SettingsSaved, SettingsNotSaved, Restart,
           ReviewStored, vars, schoolVars
  <1> QED
    BY <1>1, <1>2, <1>3 DEF Next

\* The stage of a transfer, read from what the school and the app know of it.
LEMMA StagesOf ==
    ASSUME Inv, NEW t \in Transfers
    PROVE  /\ MoneyStage(t) = "new" <=> t \notin used
           /\ MoneyStage(t) = "held" <=> t \in used \ sent
           /\ MoneyStage(t) = "submitted" <=> t \in sent \ (executed \cup refused)
           /\ MoneyStage(t) = "moved" <=> t \in executed
           /\ MoneyStage(t) = "refused" <=> t \in refused
  <1>1. executed \subseteq sent /\ refused \subseteq sent /\ sent \subseteq used
        /\ executed \cap refused = {}
    BY DEF Inv, TypeSchool, Recorded, Known, Settledness
  <1> QED
    BY <1>1 DEF MoneyStage

\* A transfer counts as long as the school may carry it out.
LEMMA UnspentMeans ==
    ASSUME Inv, NEW p \in Payments \cup {NoPayment}
    PROVE  Money!Unspent(p) <=>
             (p # NoPayment => \A t \in Live : parent[t] # p)
  <1>1. \A t \in Transfers : MoneyStage(t) \in {"submitted", "moved"} <=> t \in Live
    BY StagesOf DEF Inv, TypeSchool, Settledness, Live
  <1>2. Live \subseteq Transfers
    BY DEF Inv, TypeSchool, Live
  <1> QED
    BY <1>1, <1>2 DEF Money!Unspent

LEMMA FundedMeans ==
    ASSUME Inv, NEW p \in Payments
    PROVE  Money!Funded(p) <=> \E t \in executed : parent[t] \in {p, NoPayment}
  <1>1. executed \subseteq Transfers
    BY DEF Inv, TypeSchool
  <1> QED
    BY <1>1, StagesOf DEF Money!Funded

\* Whatever the step is, storage and the closed payments follow the books.
LEMMA BooksKept ==
    ASSUME Inv, Final, [Next]_vars
    PROVE  Money!Books
  <1>1. Inv'
    BY NextInv
  <1>2. Transfers \subseteq Ids /\ Payments \subseteq Ids
    BY FlowKinds
  <1>3. \A t \in Transfers : EntryOf(disk'[t]) \in Money!Entries
    BY DEF EntryOf, Money!Entries, Money!EndedEntries
  <1>4. ASSUME NEW t \in Transfers PROVE Money!EntryMoves(t)
    <2>1. disk'[t] \in {disk[t], mem[t]}
      BY DiskMoves
    <2>2. disk[t] \in Terminal => disk'[t] \in {disk[t], "Absent"}
      BY <1>2, <2>1 DEF Final
    <2>3. EntryOf(disk[t]) \in Money!EndedEntries =>
            EntryOf(disk'[t]) \in {EntryOf(disk[t]), "none"}
      BY <2>2 DEF EntryOf, Money!EndedEntries, Terminal
    <2>4. MoneyStage(t)' \in {"submitted", "moved", "refused"} =>
            EntryOf(disk'[t]) \notin {"waiting", "cancelled"}
      <3>1. MoneyStage(t)' \in {"submitted", "moved", "refused"} => t \in sent'
        BY <1>1 DEF MoneyStage, Inv, TypeSchool
      <3>2. t \in sent' => disk'[t] \in Submitted \cup {"Completed"}
        BY <1>1 DEF Inv, Recorded, OnRecord
      <3> QED
        BY <3>1, <3>2 DEF EntryOf, Submitted
    <2>5. EntryOf(disk'[t]) = "completed" => MoneyStage(t) = "moved"
      <3>1. EntryOf(disk'[t]) = "completed" => disk'[t] = "Completed"
        BY DEF EntryOf
      <3>2. disk'[t] = "Completed" => t \in executed
        BY <2>1 DEF Inv, Recorded, Carried
      <3> QED
        BY <3>1, <3>2, StagesOf
    <2> QED
      BY <2>3, <2>4, <2>5 DEF Money!EntryMoves
  <1>5. ASSUME NEW p \in Payments, mem'[p] = "Completed"
        PROVE  mem[p] = "Completed" \/ Money!Funded(p)
    <2>1. CASE \E t \in Transfers : SchoolExecutes(t)
      BY <1>5, <2>1 DEF SchoolExecutes, journalVars
    <2>2. CASE ~\E t \in Transfers : SchoolExecutes(t)
      <3>1. PICK t \in executed' : parent'[t] \in {p, NoPayment}
        BY <1>1, <1>5 DEF Inv, Recorded, Moved
      <3>2. executed' = executed
        BY <2>2, SchoolMoves
           DEF PrepareTransfer, TransferRecorded, TransferTurnedDown, Record,
               schoolVars
      <3>3. parent'[t] = parent[t]
        <4>1. t \in Transfers \cap used
          BY <3>1, <3>2 DEF Inv, TypeSchool, Recorded, Known
        <4>2. ASSUME NEW f \in Flows, NEW u \in Transfers, PrepareTransfer(f, u)
              PROVE  parent'[t] = parent[t]
          BY <4>1, <4>2 DEF Inv, TypeJournal, PrepareTransfer
        <4>3. ASSUME NEW f \in Flows, TransferRecorded(f) \/ TransferTurnedDown(f)
              PROVE  parent' = parent
          BY <4>3 DEF TransferRecorded, TransferTurnedDown, Record
        <4> QED
          BY <2>2, <4>2, <4>3, SchoolMoves
      <3> QED
        BY <3>1, <3>2, <3>3, FundedMeans
    <2> QED
      BY <2>1, <2>2
  <1> QED
    BY <1>3, <1>4, <1>5 DEF Money!Books

LEMMA DrawStep ==
    ASSUME Inv, Final, [Next]_vars,
           NEW f \in Flows, NEW t \in Transfers, PrepareTransfer(f, t)
    PROVE  Money!Draw(t, Owner(f))
  <1>1. /\ AskedFor(f) /\ t \notin used
        /\ SourceConfirmed(f) # {}
        /\ used' = used \cup {t}
        /\ parent' = [parent EXCEPT ![t] = Owner(f)]
        /\ UNCHANGED <<sent, executed, refused>>
    BY DEF PrepareTransfer, Owner, schoolVars
  <1>2. Owner(f) \in Payments \cup {NoPayment}
    BY FlowKinds
  <1>3. Money!Unspent(Owner(f))
    <2>1. ASSUME f \in Payments, NEW u \in Live, parent[u] = f PROVE FALSE
      <3>1. pc[f] = "checked"
        BY <1>1, <2>1, RechargeAssumption DEF AskedFor
      <3>2. pc[f] \in After \cup {"idle"}
        BY <2>1, JournalAssumption DEF Inv, Placed, NotOffered
      <3> QED
        BY <3>1, <3>2 DEF After
    <2> QED
      BY <1>2, <2>1, UnspentMeans, FlowKinds
  <1>4. Owner(f) \notin {p \in Payments : mem[p] = "Completed"}
    BY <1>1, FlowKinds, RechargeAssumption, JournalAssumption
       DEF SourceConfirmed, Recoverable, Owner
  <1>5. Money!Advance(t, "new", "held")
    <2>1. MoneyStage(t) = "new" /\ MoneyStage(t)' = "held"
      BY <1>1 DEF MoneyStage, Inv, TypeSchool, Recorded, Known
    <2>2. \A u \in Transfers \ {t} : MoneyStage(u)' = MoneyStage(u)
      BY <1>1 DEF MoneyStage
    <2> QED
      BY <2>1, <2>2 DEF Money!Advance
  <1> QED
    BY <1>1, <1>3, <1>4, <1>5 DEF Money!Draw

LEMMA HandInStep ==
    ASSUME Inv, Final, [Next]_vars,
           NEW f \in Flows, TransferRecorded(f), sent' # sent
    PROVE  \E t \in Transfers : Money!HandIn(t)
  <1>1. /\ pc[f] = "submitting" /\ Stored(f)
        /\ sent' = sent \cup {cur[f]}
        /\ UNCHANGED <<mem, parent, used, executed, refused>>
    BY DEF TransferRecorded, Submits
  <1>2. PICK t \in Transfers : t = cur[f]
    BY <1>1 DEF Inv, Placed, Owned, Talking
  <1>3. t \in used \ sent /\ parent[t] = Owner(f)
    BY <1>1, <1>2 DEF Inv, Placed, Owned, Talking
  <1>4. Money!Unspent(parent[t])
    <2>1. ASSUME f \in Payments, NEW u \in Live, parent[u] = f PROVE FALSE
      <3>1. pc[f] \in After \cup {"idle"}
        BY <2>1, JournalAssumption DEF Inv, Placed, NotOffered
      <3> QED
        BY <1>1, <3>1 DEF After
    <2> QED
      BY <1>3, <2>1, UnspentMeans, FlowKinds
  <1>5. Money!Advance(t, "held", "submitted")
    <2>1. /\ sent' = sent \cup {t}
          /\ t \notin executed \cup refused
      BY <1>1, <1>2, <1>3 DEF Inv, TypeSchool
    <2>2. MoneyStage(t) = "held" /\ MoneyStage(t)' = "submitted"
      BY <1>1, <1>3, <2>1 DEF MoneyStage
    <2>3. \A u \in Transfers \ {t} : MoneyStage(u)' = MoneyStage(u)
      BY <1>1, <2>1 DEF MoneyStage
    <2> QED
      BY <2>2, <2>3 DEF Money!Advance
  <1>6. EntryOf(disk'[t]) = "submitted"
    <2>1. disk'[t] = "TransferSubmitted"
      BY <1>1, <1>2, FlowKinds DEF Stored, Inv, Recorded, OneCopy, Placed, Noted
    <2> QED
      BY <2>1 DEF EntryOf
  <1> QED
    BY <1>1, <1>4, <1>5, <1>6 DEF Money!HandIn

LEMMA MoveStep ==
    ASSUME Inv, NEW t \in Transfers, SchoolExecutes(t)
    PROVE  Money!Move(t)
  <1>1. /\ t \in sent \ (executed \cup refused)
        /\ executed' = executed \cup {t}
        /\ UNCHANGED <<parent, used, sent, refused>>
    BY DEF SchoolExecutes, journalVars
  <1>2. t \in used
    BY <1>1 DEF Inv, Recorded, Known
  <1>3. MoneyStage(t) = "submitted" /\ MoneyStage(t)' = "moved"
    BY <1>1, <1>2 DEF MoneyStage
  <1>4. \A u \in Transfers \ {t} : MoneyStage(u)' = MoneyStage(u)
    BY <1>1 DEF MoneyStage
  <1> QED
    BY <1>1, <1>3, <1>4 DEF Money!Move, Money!Advance

LEMMA TurnDownStep ==
    ASSUME Inv, NEW f \in Flows, TransferTurnedDown(f)
    PROVE  \E t \in Transfers : Money!TurnDown(t)
  <1>1. /\ pc[f] = "sent" /\ cur[f] \notin executed
        /\ refused' = refused \cup {cur[f]}
        /\ UNCHANGED <<parent, used, sent, executed>>
    BY DEF TransferTurnedDown, Record
  <1>2. PICK t \in Transfers : t = cur[f]
    BY <1>1 DEF Inv, TypeSchool, Placed, Owned, Live
  <1>3. t \in used /\ t \in sent \ (executed \cup refused) /\ refused' = refused \cup {t}
    BY <1>1, <1>2 DEF Inv, Placed, Owned, Live, Recorded, Known
  <1>4. MoneyStage(t) = "submitted" /\ MoneyStage(t)' = "refused"
    BY <1>1, <1>3 DEF MoneyStage
  <1>5. \A u \in Transfers \ {t} : MoneyStage(u)' = MoneyStage(u)
    BY <1>1, <1>3 DEF MoneyStage
  <1> QED
    BY <1>1, <1>4, <1>5 DEF Money!TurnDown, Money!Advance

LEMMA LedgerStep ==
    ASSUME Inv, Final, [Next]_vars
    PROVE  Money!Next
  <1>1. Money!Books
    BY BooksKept
  <1>2. CASE /\ UNCHANGED <<parent, sent, executed, refused>>
             /\ used' \cap Transfers = used \cap Transfers
    <2>1. \A t \in Transfers : MoneyStage(t)' = MoneyStage(t)
      BY <1>2 DEF MoneyStage
    <2> QED
      BY <1>1, <1>2, <2>1 DEF Money!Next
  <1>3. ASSUME NEW f \in Flows, NEW t \in Transfers, PrepareTransfer(f, t)
        PROVE  Money!Next
    BY <1>1, <1>3, DrawStep, FlowKinds DEF Money!Next
  <1>4. ASSUME NEW f \in Flows, TransferRecorded(f), sent' # sent
        PROVE  Money!Next
    BY <1>1, <1>4, HandInStep DEF Money!Next
  <1>5. ASSUME NEW t \in Transfers, SchoolExecutes(t) PROVE Money!Next
    BY <1>1, <1>5, MoveStep DEF Money!Next
  <1>6. ASSUME NEW f \in Flows, TransferTurnedDown(f) PROVE Money!Next
    BY <1>1, <1>6, TurnDownStep DEF Money!Next
  <1> QED
    BY <1>2, <1>3, <1>4, <1>5, <1>6, SchoolMoves

\* The recharge implements the ledger of the money: every step is one of the
\* ledger's, for any number of payments, transfers and restarts.
THEOREM RechargeKeepsLedger == ~Overlap /\ Spec => KeepsLedger
  <1>1. Init => Money!Init /\ Final
    <2> SUFFICES ASSUME Init PROVE Money!Init /\ Final
      OBVIOUS
    <2>1. \A t \in Transfers : MoneyStage(t) = "new" /\ EntryOf(disk[t]) = "none"
      BY FlowKinds DEF Init, MoneyStage, EntryOf
    <2>2. {p \in Payments : mem[p] = "Completed"} = {}
      BY FlowKinds DEF Init
    <2>3. Final
      BY DEF Init, Final, Terminal
    <2> QED
      BY <2>1, <2>2, <2>3 DEF Money!Init, Init
  <1>2. Inv /\ Final /\ [Next]_vars => Final'
    BY FinalKeeps
  <1>3. Inv /\ Final /\ [Next]_vars => [Money!Next]_Money!vars
    BY LedgerStep
  <1> QED
    BY <1>1, <1>2, <1>3, Invariance, PTL DEF Spec, KeepsLedger, Money!Spec

-----------------------------------------------------------------------------
(***************************************************************************)
(* What the ledger says, whoever keeps it.                                 *)
(***************************************************************************)
LEMMA LedgerMoves ==
    ASSUME Money!TypeOK, Money!OneCounts, Money!ClosedIsFunded,
           [Money!Next]_Money!vars
    PROVE  Money!TypeOK' /\ Money!OneCounts' /\ Money!ClosedIsFunded'
  <1>1. CASE UNCHANGED Money!vars
    <2>1. /\ \A t \in Transfers : MoneyStage(t)' = MoneyStage(t)
          /\ \A t \in Transfers : EntryOf(disk[t])' = EntryOf(disk[t])
          /\ parent' = parent
          /\ {p \in Payments : mem[p] = "Completed"}' = {p \in Payments : mem[p] = "Completed"}
      BY <1>1 DEF Money!vars
    <2> QED
      BY <2>1 DEF Money!TypeOK, Money!OneCounts, Money!ClosedIsFunded, Money!Funded
  <1>2. CASE Money!Next
    <2>1. /\ \A t \in Transfers : EntryOf(disk[t])' \in Money!Entries
          /\ \A p \in Payments : mem'[p] = "Completed" =>
                mem[p] = "Completed" \/ Money!Funded(p)
      BY <1>2 DEF Money!Next, Money!Books
    <2>2. /\ parent \in [Transfers -> Payments \cup {NoPayment}]
          /\ \A t \in Transfers :
               MoneyStage(t) \in {"new", "held", "submitted", "moved", "refused"}
      BY DEF Money!TypeOK
    <2>3. \/ UNCHANGED parent /\ \A t \in Transfers : MoneyStage(t)' = MoneyStage(t)
          \/ \E t \in Transfers, p \in Payments \cup {NoPayment} :
               /\ parent' = [parent EXCEPT ![t] = p]
               /\ MoneyStage(t) = "new" /\ MoneyStage(t)' = "held"
               /\ \A u \in Transfers \ {t} : MoneyStage(u)' = MoneyStage(u)
          \/ \E t \in Transfers :
               /\ UNCHANGED parent
               /\ \/ MoneyStage(t) = "held" /\ MoneyStage(t)' = "submitted"
                     /\ Money!Unspent(parent[t])
                  \/ MoneyStage(t) = "submitted" /\ MoneyStage(t)' \in {"moved", "refused"}
               /\ \A u \in Transfers \ {t} : MoneyStage(u)' = MoneyStage(u)
      BY <1>2, <2>2
         DEF Money!Next, Money!Draw, Money!HandIn, Money!Move, Money!TurnDown,
             Money!Advance
    <2>4. \A t \in Transfers : MoneyStage(t) = "moved" =>
            MoneyStage(t)' = "moved" /\ parent'[t] = parent[t]
      BY <2>2, <2>3
    <2>5. Money!TypeOK'
      BY <2>1, <2>2, <2>3 DEF Money!TypeOK
    <2>6. Money!OneCounts'
      BY <2>2, <2>3 DEF Money!OneCounts, Money!Unspent
    <2>7. Money!ClosedIsFunded'
      BY <2>1, <2>4 DEF Money!ClosedIsFunded, Money!Funded
    <2> QED
      BY <2>5, <2>6, <2>7
  <1> QED
    BY <1>1, <1>2

\* In every behaviour of the ledger no payment has two transfers that count, and
\* a closed payment is one that money has moved for: what TransferredOnce and
\* CompletedIsMoved say of the recharge.
THEOREM LedgerPromises ==
    Money!Spec => [](Money!TypeOK /\ Money!OneCounts /\ Money!ClosedIsFunded)
  <1>1. Money!Init => Money!TypeOK /\ Money!OneCounts /\ Money!ClosedIsFunded
    BY DEF Money!Init, Money!TypeOK, Money!OneCounts, Money!ClosedIsFunded,
           Money!Entries
  <1> QED
    BY <1>1, LedgerMoves, PTL DEF Money!Spec
=============================================================================
