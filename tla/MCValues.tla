------------------------------ MODULE MCValues ------------------------------
(***************************************************************************)
(* The comparisons of targeting rules and the figures of reports. A        *)
(* behaviour grows a sample of up to three values, or takes a set of rows. *)
(* The properties compare what the code computes with definitions that do  *)
(* not follow its control flow.                                            *)
(***************************************************************************)
EXTENDS TargetValues, Reports, MCSampling, Functions

CONSTANTS
    Values,    \* literals and attributes, see ValuesAreTyped
    Variants,  \* the variants of the experiment that is reported
    Metrics,   \* compiled metrics, sequences of one or two components
    MaxRows    \* the most rows reported

\* A literal date is a moment.
ValueType ==
    {None} \union [type : {"bool", "number"}, rank : Int, moment : Int]
      \union [type : {"moment", "plain", "date_text", "iso_text"}, rank : Int]
      \union [type : {"version_text"}, rank : Int, parts : [1..3 -> Nat]]

\* No two texts share a rank. That of a text in the ISO format is its place among texts, and
\* its moment. A number's timestamp follows its rank.
ASSUME ValuesAreTyped ==
    /\ Values \subseteq ValueType
    /\ \A a, b \in Values :
          /\ IsText(a) /\ IsText(b) /\ a.rank = b.rank => a = b
          /\ IsNumber(a) /\ IsNumber(b) /\ a.rank <= b.rank => a.moment <= b.moment

ASSUME ReportsAreTyped ==
    /\ IsFiniteSet(Variants)
    /\ "" \notin Variants
    /\ \A row \in Rows : /\ row.table \in {"events", "discarded", "duplicate"}
                         /\ row.value \in Int
                         /\ row.accepted \in BOOLEAN
    /\ \A metric \in Metrics :
          /\ Len(metric) \in 1..2 /\ DOMAIN metric = 1..Len(metric)
          /\ \A k \in DOMAIN metric :
                metric[k].aggregation \in {"count", "sum", "min", "max", "quantile"}

AddValue ==
    /\ topic = "values" /\ Len(sample) < 3
    /\ \E v \in Values : Grows(v)

ReportRows ==
    /\ topic = "rows" /\ sample = <<>>
    /\ \E rows \in {rows \in SUBSET Rows : Cardinality(rows) <= MaxRows} : Grows(rows)

ValuesNext == AddValue \/ ReportRows

-----------------------------------------------------------------------------
(* Comparisons *)

IsVersion(v) == v.type = "version_text"
\* A literal date on the left of a text changes places with it.
Swapped(a, b) == a.type = "moment" /\ IsText(b)
\* A text like 2026-01-31 becomes a date, which Python does not order with a moment.
Raises(a, b) == {a.type, b.type} = {"date_text", "moment"}

Versions(a, b) == IsVersion(a) /\ IsVersion(b)

\* The pairs that have an order, by the rules of target-dsl.md.
Ordered(a, b) ==
    LET types == {a.type, b.type} IN
    \/ types \subseteq {"bool", "number"}
    \/ types \subseteq Texts /\ ~Versions(a, b)
    \/ "moment" \in types /\ types \subseteq {"moment", "iso_text", "bool", "number"}

\* Different numbers that are equal by the tolerance.
Near(a, b) ==
    a.type = "number" /\ b.type = "number" /\ a.rank # b.rank /\ IsClose(a.rank, b.rank)

Verdicts(a, b) == {op \in {"gt", "lt", "eq"} : \/ op = "gt" /\ CmpGt(a, b)
                                               \/ op = "lt" /\ CmpLt(a, b)
                                               \/ op = "eq" /\ CmpEq(a, b)}

\* The operators of rules but <= agree on one order: of two values that can be compared
\* just one is greater or they are equal, but that near numbers are equal and one of them is
\* greater; what cannot be compared satisfies none, undefined not even !=; the order is
\* transitive, and a number between near ones is near both; IN is equality with an item,
\* but without the tolerance. Versions, which == and > compare part by part, and pairs that
\* raise are left out.
OrderIsConsistent ==
    topic = "values" /\ Len(sample) = 3 =>
      LET a == sample[1]
          b == sample[2]
          c == sample[3]
          list == ListOf(<<b, c>>)
      IN  /\ Ordered(a, b) =>
               /\ Verdicts(a, b) \in IF Near(a, b) THEN {{"gt", "eq"}, {"lt", "eq"}}
                                                   ELSE {{"gt"}, {"lt"}, {"eq"}}
               /\ CmpGe(a, b) <=> ~CmpLt(a, b)
               /\ CmpNeq(a, b) <=> ~CmpEq(a, b)
               /\ ~Swapped(a, b) /\ ~Swapped(b, a) =>
                     (CmpGt(a, b) <=> CmpLt(b, a)) /\ (CmpEq(a, b) <=> CmpEq(b, a))
          /\ ~Ordered(a, b) /\ ~Raises(a, b) /\ ~Versions(a, b) =>
               /\ Verdicts(a, b) = {}
               /\ CmpNeq(a, b) <=> None \notin {a, b}
          /\ (\A p \in {<<a, b>>, <<b, c>>, <<a, c>>} :
                 Ordered(p[1], p[2]) /\ ~Swapped(p[1], p[2]))
               => (CmpGt(a, b) /\ CmpGt(b, c) =>
                     /\ CmpGt(a, c)
                     /\ Near(a, c) /\ b.type = "number" => CmpEq(a, b) /\ CmpEq(b, c))
          /\ /\ "moment" \notin {a.type, b.type, c.type}
             /\ \A other \in {b, c} : ~Versions(a, other) /\ ~Near(a, other)
             => (IsIn(a, list) <=> CmpEq(a, b) \/ CmpEq(a, c))
          /\ IsNotIn(a, list) <=> a # None /\ ~IsIn(a, list)
          /\ Or(None, a) = a /\ And(None, a) = None

\* target-dsl.md lists <= among the comparisons: of two numbers, or texts, one is at most the
\* other if it is less or equal (_cmp_le).
LessOrEqualIsOrEqual ==
    topic = "values" /\ Len(sample) = 2 =>
      LET a == sample[1]
          b == sample[2]
      IN  a.type = b.type /\ a.type \in {"number", "plain"} =>
            (CmpLe(a, b) <=> CmpLt(a, b) \/ CmpEq(a, b))

-----------------------------------------------------------------------------
(* Reports *)

\* The parts of a metric whose query loses its connection.
Losses == [1..2 -> BOOLEAN]

\* The rows of a component, and those of no variant: a subject outside of the audience has
\* the variant "!default" (make_decision).
RowsOf(c, rows) == {row \in rows : Selected(c, row)}
OfNone(rows) == {row \in rows : row.variant \notin Variants}

\* The figures of the variants these rows name, and the values of the others.
Parts(figures, rows) ==
    {figures[v] : v \in Variants \intersect {row.variant : row \in rows}}
      \union {row.value : row \in OfNone(rows)}

\* The overall figure is made of those of the variants and of the rows that are of none of
\* them. Counts and sums add up, and the least and the greatest value are those of the parts.
MadeOfParts(c, rows, point) ==
    LET mine == RowsOf(c, rows)
        figures == [v \in Variants |-> point.variants[v].num]
        parts == Parts(figures, mine)
        overall == point.overall.num
    IN  CASE c.aggregation = "count" ->
               overall = SumFunction(figures) + Cardinality(OfNone(mine))
          [] c.aggregation = "sum" ->
               overall = SumFunction(figures)
                           + SumFunction([row \in OfNone(mine) |-> row.value])
          [] c.aggregation = "min" ->
               mine # {} => overall \in parts /\ \A part \in parts : overall <= part
          [] c.aggregation = "max" ->
               mine # {} => overall \in parts /\ \A part \in parts : overall >= part
          [] OTHER -> TRUE

\* A report and a guardrail, which have an evaluator's method each, see one overall value,
\* and it is made of those of the variants unless the query fails or is of the discarded
\* events, which have none. A metric that is a share is worth nothing for what has no rows,
\* and the insights fail where there are rows but none to attribute (query_insights).
FiguresAgree ==
    topic = "rows" /\ sample # <<>> =>
      LET rows == sample[1]
          fullness == Fullness(rows)
      IN  /\ \A metric \in Metrics, lost \in Losses :
               LET point == ReportPoints(<<"m", "n">>, [k \in {"m"} |-> metric], rows,
                                         Variants, lost)[1]
               IN  /\ GuardResult(metric, rows, lost) = point.overall
                   /\ Len(metric) = 1 /\ metric[1].source # "discarded"
                      /\ ~QueryFails(metric[1], lost[1])
                        => MadeOfParts(metric[1], rows, point)
          /\ fullness.den = 0 <=> rows # {} /\ \A row \in rows : row.table # "events"
          /\ fullness.den # 0 => fullness.num \in 0..fullness.den
=============================================================================
