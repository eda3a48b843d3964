--------------------------- MODULE BillingRecords ---------------------------
(***************************************************************************)
(* Queries of the records of the billing system (billing.rs, records.rs).  *)
(* The server gives pages of a table, newest record first, and for tables  *)
(* with dates only windows of two months; the app asks for the page of the *)
(* whole period the user sees, or for everything, while records are added. *)
(***************************************************************************)
EXTENDS Integers, Sequences

CONSTANTS
    Days,           \* the longest period asked for, of days 1 .. query.days, the last being today
    WindowDays,     \* 60
    PageRows,       \* 100, rows of a page of a window
    Wanted,         \* rows of a page of the user
    MaxRows,        \* MAX_FULL_EXPORT_ROWS
    MaxRecords,     \* bound: records of the server
    MaxAdded        \* bound: records added during the query

VARIABLES
    table,      \* the server's records, newest first: [day, id]
    query,      \* what is asked for
    begun,      \* the table when the query began
    heads,      \* totals of the windows read so far
    rows,       \* rows collected
    position,   \* window and offset that are read next
    remaining, stage, added

queryVars == <<query, begun, heads, rows, position, remaining, stage>>
vars == <<table, queryVars, added>>

Record == [day : 1 .. Days, id : 1 .. MaxRecords + MaxAdded]
Stages == {"heads", "slices", "pages", "done", "changed", "tooMany"}

TypeOK ==
    /\ table \in Seq(Record) /\ begun \in Seq(Record) /\ rows \in Seq(Record) /\ added \in 0 .. MaxAdded
    /\ query \in [days : {WindowDays, Days}, dated : BOOLEAN, all : BOOLEAN, page : 1 .. MaxRecords]
    /\ stage \in Stages /\ remaining \in 0 .. MaxRecords + MaxAdded + Wanted
    /\ heads \in Seq(0 .. MaxRecords + MaxAdded) /\ position \in [window : Nat \ {0}, offset : Nat]

-----------------------------------------------------------------------------
(* The server *)

\* Pages of a listing; past its end there is nothing.
PageOf(listing, page, size) ==
    SubSeq(listing, (page - 1) * size + 1, IF page * size < Len(listing) THEN page * size ELSE Len(listing))

\* The rows of a table whose day is in the window, in their order.
Listing(t, window) ==
    LET listed[i \in 0 .. Len(t)] ==
            IF i = 0 THEN <<>>
            ELSE IF t[i].day \in window THEN Append(listed[i - 1], t[i]) ELSE listed[i - 1]
    IN  listed[Len(t)]

\* Records are made today, and are the newest.
Add ==
    /\ stage \in {"heads", "slices", "pages"} /\ added < MaxAdded /\ added' = added + 1
    /\ table' = <<[day |-> query.days, id |-> Len(table) + 1]>> \o table
    /\ UNCHANGED queryVars

-----------------------------------------------------------------------------
(* The query *)

WindowsOverlapping ==       \* variant: the day a window begins with is the last of the next
    LET count == (query.days + WindowDays - 2) \div (WindowDays - 1) IN
    [w \in 1 .. count |->
        LET last == query.days - (w - 1) * (WindowDays - 1) IN
        {d \in 1 .. query.days : d <= last /\ d > last - WindowDays}]

\* Disjoint windows, the newest first; the oldest may be shorter.
Windows ==
    LET count == (query.days + WindowDays - 1) \div WindowDays IN
    [w \in 1 .. count |->
        LET last == query.days - (w - 1) * WindowDays IN {d \in 1 .. query.days : d <= last /\ d > last - WindowDays}]

Total(totals) ==
    LET sum[i \in 0 .. Len(totals)] == IF i = 0 THEN 0 ELSE sum[i - 1] + totals[i] IN sum[Len(totals)]

Init ==
    /\ query \in [days : {WindowDays, Days}, dated : BOOLEAN, all : BOOLEAN, page : 1 .. (MaxRecords + Wanted - 1) \div Wanted]
    /\ (query.all => query.page = 1)
    /\ \E n \in 0 .. MaxRecords : \E ds \in [1 .. n -> 1 .. query.days] :
          /\ \A i \in 2 .. n : ds[i] <= ds[i - 1]
          /\ table = [i \in 1 .. n |-> [day |-> ds[i], id |-> n + 1 - i]]
    /\ begun = table /\ heads = <<>> /\ rows = <<>> /\ position = [window |-> 1, offset |-> 0]
    /\ remaining = 0 /\ added = 0
    /\ stage = IF query.dated THEN "heads" ELSE "pages"

\* check_page: the total is still the same and the page as full as it must be.
PageChecked(listing, page, size, total) ==
    LET left == IF total > (page - 1) * size THEN total - (page - 1) * size ELSE 0 IN
    Len(listing) = total /\ Len(PageOf(listing, page, size)) = (IF left < size THEN left ELSE size)

Changed == stage' = "changed" /\ UNCHANGED <<table, query, begun, heads, rows, position, remaining, added>>

\* One window and one page of it: the server's page is the user's.
OnePage ==
    LET listing == Listing(table, Windows[1]) IN
    /\ stage = "heads" /\ Len(Windows) = 1 /\ ~query.all
    /\ rows' = PageOf(listing, query.page, Wanted) /\ stage' = "done"
    /\ UNCHANGED <<table, query, begun, heads, position, remaining, added>>

\* The heads of all windows are read before any of their rows, to know their totals.
ReadHead ==
    /\ stage = "heads" /\ (Len(Windows) > 1 \/ query.all) /\ Len(heads) < Len(Windows)
    /\ heads' = Append(heads, Len(Listing(table, Windows[Len(heads) + 1])))
    /\ stage' = IF query.all /\ Total(heads') > MaxRows THEN "tooMany" ELSE stage
    /\ UNCHANGED <<table, query, begun, rows, position, remaining, added>>

Headed ==
    /\ stage = "heads" /\ Len(heads) = Len(Windows) /\ stage' = "slices"
    /\ position' = [window |-> 1, offset |-> IF query.all THEN 0 ELSE (query.page - 1) * Wanted]
    /\ remaining' = IF query.all THEN Total(heads) ELSE Wanted
    /\ UNCHANGED <<table, query, begun, heads, rows, added>>

\* Windows before the rows that are wanted are passed over; the next one is read from its beginning.
Pass ==
    /\ stage = "slices" /\ position.window <= Len(heads) /\ remaining > 0
    /\ position.offset >= heads[position.window]
    /\ position' = [window |-> position.window + 1, offset |-> position.offset - heads[position.window]]
    /\ UNCHANGED <<table, query, begun, heads, rows, remaining, stage, added>>

\* A page of the window; of it the rows from the offset on that are still wanted.
Slice ==
    LET listing == Listing(table, Windows[position.window])
        total == heads[position.window]
        page == position.offset \div PageRows + 1
        within == position.offset % PageRows
        end == IF total < position.offset + remaining THEN total ELSE position.offset + remaining
        got == PageOf(listing, page, PageRows)
        count == IF end - position.offset < Len(got) - within THEN end - position.offset ELSE Len(got) - within IN
    /\ stage = "slices" /\ position.window <= Len(heads) /\ remaining > 0 /\ position.offset < total
    /\ IF ~PageChecked(listing, page, PageRows, total) THEN Changed
       ELSE /\ rows' = rows \o SubSeq(got, within + 1, within + count)
            /\ remaining' = remaining - count
            /\ position' = IF position.offset + count = end
                           THEN [window |-> position.window + 1, offset |-> 0]
                           ELSE [position EXCEPT !.offset = @ + count]
            /\ UNCHANGED <<table, query, begun, heads, stage, added>>

Collected ==
    /\ stage = "slices" /\ (remaining = 0 \/ position.window > Len(heads)) /\ stage' = "done"
    /\ UNCHANGED <<table, query, begun, heads, rows, position, remaining, added>>

\* Tables without dates: the first page tells the total, which is not looked at again.
Pages ==
    LET page == position.offset + 1
        got == PageOf(table, page, PageRows)
        total == IF page = 1 THEN Len(table) ELSE remaining
        all == rows \o got
        last == page * PageRows >= total \/ Len(all) >= total IN
    /\ stage = "pages" /\ query.all
    /\ heads' = heads /\ remaining' = total /\ position' = [position EXCEPT !.offset = page]
    /\ stage' = IF page = 1 /\ total > MaxRows THEN "tooMany"
                ELSE IF got = <<>> /\ Len(rows) < total THEN "changed" ELSE IF last THEN "done" ELSE stage
    /\ rows' = IF Len(all) > total THEN SubSeq(all, 1, total) ELSE all
    /\ UNCHANGED <<table, query, begun, added>>

\* One page of such a table.
PlainPage ==
    /\ stage = "pages" /\ ~query.all
    /\ rows' = PageOf(table, query.page, Wanted) /\ stage' = "done"
    /\ UNCHANGED <<table, query, begun, heads, position, remaining, added>>

Next == Add \/ OnePage \/ ReadHead \/ Headed \/ Pass \/ Slice \/ Collected \/ Pages \/ PlainPage

Spec == Init /\ [][Next]_vars

-----------------------------------------------------------------------------
(* Properties *)

\* What the user would see of a table that does not change: the page of the whole period, or all of it.
Expected(t) ==
    IF query.all THEN t ELSE PageOf(t, query.page, Wanted)

\* What is answered for the records of a period is the page, of all of them, that the table had at one moment
\* of the query, although it was put together from windows and pages of other sizes while records were added;
\* nothing is missing or shown twice where two of them meet.  The tables without dates are read without such
\* care: their answer is right when nothing was added meanwhile.
AnswerIsThePage ==
    stage = "done" /\ (query.dated \/ added = 0) =>
        \E n \in 0 .. added : rows = Expected(SubSeq(table, n + 1, Len(table)))
=============================================================================
