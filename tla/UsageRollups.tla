---------------------------- MODULE UsageRollups ----------------------------
(***************************************************************************)
(* The rows of the traffic history by minute, hour and day, and the sum of *)
(* the month that the chart shows (usage_history.rs, device-usage-model.ts)*)
(* Every sample of usage is entered in a row of each kind; the chart asks  *)
(* for the rows of one kind in a range, and for what it needs to know what *)
(* the month had before.  A sample is one unit of usage.                   *)
(***************************************************************************)
EXTENDS Integers, FiniteSets

CONSTANTS
    Minute, Hour, Day, Month,    \* the lengths of the rows, each a multiple of the one before
    Horizon,                     \* bound: the times of samples and of ranges
    MaxSamples                   \* bound: samples in the history

VARIABLES
    samples,                     \* the times at which usage was recorded
    query                        \* the range the chart shows, and its kind of row

rollupVars == <<samples, query>>

Times == 0 .. Horizon - 1
Kinds == {Minute, Hour, Day}
Queries == [start : Times, end : Times, resolution : Kinds]

RollupTypeOK == samples \subseteq Times /\ query \in Queries

RollupInit == samples = {} /\ query \in {q \in Queries : q.start <= q.end}

Bucket(at, kind) == (at \div kind) * kind

\* observe_with_retention: a sample is in the row of each kind that begins before it.
Rows == {[at |-> Bucket(s, k), resolution |-> k] : s \in samples, k \in Kinds}

Sampled == Cardinality(samples) < MaxSamples /\ \E s \in Times : (\A r \in samples : r < s) /\ samples' = samples \cup {s}

RollupNext == Sampled /\ UNCHANGED query

RollupSpec == RollupInit /\ [][RollupNext]_rollupVars

-----------------------------------------------------------------------------

InRange(row) ==
    row.resolution = query.resolution /\ row.at >= Bucket(query.start, query.resolution) /\ row.at <= query.end

PrefixOverlapping(row, stop) ==     \* variant: the day that holds the time is counted as a whole
    /\ row.at < stop /\ row.at >= Bucket(stop, Month)
    /\ \/ row.resolution = Day /\ row.at <= Bucket(stop, Day)
       \/ row.resolution = Hour /\ row.at >= Bucket(stop, Day) /\ row.at < Bucket(stop, Hour)
       \/ row.resolution = Minute /\ row.at >= Bucket(stop, Hour)

\* Rows that make up the month up to a time: its days, then the hours of the day, then the minutes.
Prefix(row, stop) ==
    /\ row.at < stop /\ row.at >= Bucket(stop, Month)
    /\ \/ row.resolution = Day /\ row.at < Bucket(stop, Day)
       \/ row.resolution = Hour /\ row.at >= Bucket(stop, Day) /\ row.at < Bucket(stop, Hour)
       \/ row.resolution = Minute /\ row.at >= Bucket(stop, Hour)

\* Query::accepts: what the chart is given.
Accepted == {row \in Rows : InRange(row) \/ Prefix(row, query.start)}

-----------------------------------------------------------------------------
(* The chart *)

\* The usage of the rows together: each row counts, also where rows overlap.
Weight(rows) ==
    LET OfKind(k) == Cardinality({s \in samples : [at |-> Bucket(s, k), resolution |-> k] \in rows})
    IN  OfKind(Minute) + OfKind(Hour) + OfKind(Day)

\* The points are the rows of the asked kind from the bucket of the start on.
Points == {row \in Accepted : row.resolution = query.resolution /\ row.at >= Bucket(query.start, query.resolution)}
FirstPoint == CHOOSE at \in {p.at : p \in Points} : \A p \in Points : at <= p.at

\* The month's usage at the last point, when all points are of one month: what the rows say that the
\* month had before the first point, and the points.
ShownForMonth == Weight({row \in Accepted : Prefix(row, FirstPoint)}) + Weight(Points)
UsedInMonth == Cardinality({s \in samples : s >= Bucket(FirstPoint, Month) /\ Bucket(s, query.resolution) <= query.end})

OneMonth == \A p \in Points : Bucket(p.at, Month) = Bucket(FirstPoint, Month)

\* When the chart's first point is at the start of its range the month's usage is what was used: no
\* sample is counted twice and none is left out, whatever kinds of rows it is made up of.
MonthIsWhole ==
    Points # {} /\ OneMonth /\ FirstPoint = Bucket(query.start, query.resolution) => ShownForMonth = UsedInMonth

\* The same wherever the first point is.
MonthIsAlwaysWhole == Points # {} /\ OneMonth => ShownForMonth = UsedInMonth
=============================================================================
