---------------------------- MODULE MCAlgorithms ----------------------------
(***************************************************************************)
(* The pure algorithms over bounded inputs: the distribution of variants   *)
(* (MCDistribution), the comparisons of targeting rules and the figures of *)
(* reports (MCValues), the scanners of the two languages (MCScanners), the *)
(* parsers of metrics (MCExpressions) and of targeting rules (MCRules). A  *)
(* behaviour has one topic and grows one sample of it: a source, a list of *)
(* tokens, of values, or a set of rows. The properties compare what the    *)
(* code computes with definitions that do not follow its control flow.     *)
(***************************************************************************)
EXTENDS MCDistribution, MCValues, MCScanners, MCExpressions, MCRules

\* The topics are "axis", and those of MCValues, MCScanners, MCExpressions and MCRules.

\* Rows of an experiment in the window, to report.
MCRows ==
    [table : {"events"}, variant : {"a"}, type : {"t"}, accepted : BOOLEAN, value : {1, 2}]
      \union [table : {"events"}, variant : {"b", "!default"}, type : {"t"}, accepted : {TRUE},
              value : {1, 2}]
      \union [table : {"discarded"}, variant : {"a"}, type : {"t"}, accepted : {FALSE}, value : {1}]
      \union [table : {"duplicate"}, variant : {"a"}, type : {"u"}, accepted : {FALSE}, value : {1}]

\* Literals and attributes; the moments are those of the texts in the ISO format, and of
\* the numbers; neighbours are within the tolerance, and 0 and 1 within one microsecond.
Measured(type, rank) == [type |-> type, rank |-> rank, moment |-> rank \div 2]
Version(parts, rank) == [type |-> "version_text", rank |-> rank, parts |-> parts]
MCValueSet ==
    {None} \union [type : {"iso_text", "moment"}, rank : {0, 1}]
      \union {Measured("bool", rank) : rank \in {0, One}}
      \union {Measured("number", rank) : rank \in {0, 1, 2, 4}}
      \union [type : {"plain"}, rank : {2, 5}]
      \union [type : {"date_text"}, rank : {6}]
      \union {Version(<<1, 1, 5>>, 3), Version(<<1, 2, 0>>, 4)}

MCVariants == {"a", "b"}
AllFunctions == {"count", "sum", "min", "max", "quantile"}
Components ==
    [source : {"events", "discarded"}, aggregation : AllFunctions, type : {"*"},
     attribution : {"all"}, filter : {{1, 2}}]
      \union [source : {"events", "duplicate"}, aggregation : {"sum"}, type : {"t"},
              attribution : {"attributed", "unattributed"}, filter : {{1}, {1, 2}}]
\* The lower one of the two in the middle.
MCQuantile(rows) ==
    Min({n \in {row.value : row \in rows} :
            2 * Cardinality({row \in rows : row.value <= n}) >= Cardinality(rows)})
MCMetrics == {<<c>> : c \in Components} \union {<<c, d>> : c \in Components, d \in Components}

AlgorithmsInit ==
    /\ InputInit
    /\ topic \in {"axis", "target", "metric", "rule", "expression", "values", "rows"}
    /\ topic # "axis" => audience = 0
    /\ sample = <<>>

Distribute ==
    /\ topic = "axis"
    /\ InputNext
    /\ UNCHANGED sampled

Sample == (ValuesNext \/ AddChar \/ AddToken \/ AddMetricToken) /\ UNCHANGED input

AlgorithmsNext == Distribute \/ Sample

AlgorithmsSpec == AlgorithmsInit /\ [][AlgorithmsNext]_<<sampled, input>>

-----------------------------------------------------------------------------
(* Languages *)

\* The parsers of both languages read what their grammars say, to the end of the longest phrase,
\* with the tree or the filters it has, and fail only where there is none (TargetDSLParser,
\* MetricDSLParser).
ParsersFollowGrammars == RulesParseByGrammar /\ MetricsParseByGrammar

=============================================================================
