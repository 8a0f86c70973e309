------------------------------ MODULE Reports ------------------------------
(***************************************************************************)
(* What a compiled metric is worth: the queries that the generator makes   *)
(* of its components, the result that reports show for each variant and    *)
(* guardrails read for all of them, and the counts of the insights. The    *)
(* tables hold the rows of one experiment in the window, and do not change *)
(* between two queries of one result; a component is a record of its       *)
(* source, aggregation, event type, attribution and filter, the set of the *)
(* values that pass it.                                                    *)
(***************************************************************************)
EXTENDS Integers, FiniteSetsExt

CONSTANTS
    Rows,         \* records of table, variant, type, whether it is accepted, and the value of
                  \* the attribute that components aggregate and filter by
    Quantile(_),  \* of some rows, as ClickHouse interpolates it
    NaN           \* the quantile of no rows

ASSUME RowsAssumption == IsFiniteSet(Rows) /\ NaN # 0

Missing == [num |-> 0, den |-> 0]        \* Python's None: a division by zero
Whole(n) == [num |-> n, den |-> 1]

\* discarded_events has neither a status nor a variant.
HasStatus(source) == source # "discarded"

\* _gen_component_where: the event type, the attribution, the filter.
Selected(c, row) ==
    /\ row.table = c.source
    /\ c.type \in {"*", row.type}
    /\ c.attribution = "attributed" => row.accepted
    /\ c.attribution = "unattributed" => ~row.accepted
    /\ row.value \in c.filter

\* The function that the query calls on these rows. Of no rows each is zero but a quantile.
Aggregate(c, rows) ==
    LET values == {row.value : row \in rows}
    IN  CASE c.aggregation = "count" -> Cardinality(rows)
          [] c.aggregation = "sum" -> MapThenSumSet(LAMBDA row : row.value, rows)
          [] c.aggregation = "min" -> IF rows = {} THEN 0 ELSE Min(values)
          [] c.aggregation = "max" -> IF rows = {} THEN 0 ELSE Max(values)
          [] OTHER -> IF rows = {} THEN NaN ELSE Quantile(rows)

\* A query raises if the connection is lost, or if it names a column that is not there.
QueryFails(c, lost) == lost \/ (c.attribution # "all" /\ ~HasStatus(c.source))

\* _fetch_aggregated_data: the values of the variants that rows name, and the overall one.
\* A row may name none, or "!default", which no experiment has. A failure leaves an overall
\* zero.
Fetched(c, rows, lost) ==
    LET mine == {row \in rows : Selected(c, row)}
        variants == IF c.source = "discarded" THEN {} ELSE {row.variant : row \in mine} \ {""}
    IN  IF QueryFails(c, lost) THEN [overall |-> 0, variants |-> <<>>]
        ELSE [overall |-> Aggregate(c, mine),
              variants |-> [v \in variants |-> Aggregate(c, {row \in mine : row.variant = v})]]

\* _fetch_only_overall_data
FetchedOverall(c, rows, lost) ==
    IF QueryFails(c, lost) THEN 0 ELSE Aggregate(c, {row \in rows : Selected(c, row)})

\* Mutant of SafeDiv: a part over nothing is the part.
DivOrWhole(n, d) == IF d = 0 THEN Whole(n) ELSE [num |-> n, den |-> d]

\* _safe_div
SafeDiv(n, d) == IF d = 0 THEN Missing ELSE [num |-> n, den |-> d]

VariantOf(fetched, v) == IF v \in DOMAIN fetched.variants THEN fetched.variants[v] ELSE 0

\* _calculate_result, of a metric with one component or with two. The variants are those
\* the experiment has now.
ReportResult(metric, rows, variants, lost) ==
    LET num == Fetched(metric[1], rows, lost[1])
        den == Fetched(metric[2], rows, lost[2])
    IN  IF DOMAIN metric = {1}
        THEN [overall |-> Whole(num.overall),
              variants |-> [v \in variants |-> Whole(VariantOf(num, v))]]
        ELSE [overall |-> SafeDiv(num.overall, den.overall),
              variants |-> [v \in variants |-> SafeDiv(VariantOf(num, v), VariantOf(den, v))]]

\* evaluate_only_overall_for_experiment, of the guardrails
GuardResult(metric, rows, lost) ==
    LET num == FetchedOverall(metric[1], rows, lost[1])
        den == FetchedOverall(metric[2], rows, lost[2])
    IN  IF DOMAIN metric = {1} THEN Whole(num)
        ELSE IF den = 0 THEN Missing ELSE [num |-> num, den |-> den]

\* GetReportResult: a point for each key the experiment names, in its order; one whose
\* metric is not stored has no values.
ReportPoints(keys, metrics, rows, variants, lost) ==
    [k \in DOMAIN keys |->
        IF keys[k] \in DOMAIN metrics
        THEN ReportResult(metrics[keys[k]], rows, variants, lost)
        ELSE [overall |-> Missing, variants |-> <<>>]]

-----------------------------------------------------------------------------

\* The status under which the insights count a row: that of the event, or its table.
InsightStatus(row) ==
    IF row.table \in {"duplicate", "discarded"} THEN row.table
    ELSE IF row.accepted THEN "accepted"
    ELSE "received"

Counted(rows, statuses) == Cardinality({row \in rows : InsightStatus(row) \in statuses})

\* The statuses that count as attributable.
Attributable == {"accepted", "received"}

\* query_insights: the share of the attributable events that are attributed. It guards
\* against a table without rows, and divides by the attributable ones.
Fullness(rows) ==
    LET attributable == Counted(rows, Attributable) IN
    IF rows = {} THEN Whole(0)
    ELSE IF attributable = 0 THEN [num |-> -1, den |-> 0]      \* ZeroDivisionError
    ELSE [num |-> Counted(rows, {"accepted"}), den |-> attributable]
=============================================================================
