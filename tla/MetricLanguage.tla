--------------------------- MODULE MetricLanguage ---------------------------
(***************************************************************************)
(* Metrics: the parser of their language, which reads one expression and   *)
(* ignores what follows it, and what the generated queries ask of the      *)
(* three tables of events. Tokens are types; a path of one name and one    *)
(* literal stand for all of them.                                          *)
(***************************************************************************)
EXTENDS Integers, Sequences, FiniteSets

\* "agg" is an aggregation of a value, "eq" either equality, "lit" a literal.
Aggregations == {"count", "agg"}
Sources == {"discarded", "duplicate"}
Attributions == {"attributed", "unattributed"}
MetricTokens == Aggregations \union Sources \union Attributions
                  \union {"name", "*", ".", ":latency", "where", "and", "or", "eq", "lit", "/"}

MetricTok(tokens, i) == IF i \in DOMAIN tokens THEN tokens[i] ELSE "EOF"

\* What a method of the parser gives: it has raised at a token, or has come to one, with the
\* node it has made.
ParseError(i) == [ok |-> FALSE, next |-> i]
Past(i) == [ok |-> TRUE, next |-> i]
Made(node, i) == [ok |-> TRUE, node |-> node, next |-> i]

\* match: past the token if it is one of these.
Optional(tokens, i, types) == IF MetricTok(tokens, i) \in types THEN i + 1 ELSE i
OneOf(tokens, i, types, default) ==
    IF MetricTok(tokens, i) \in types THEN MetricTok(tokens, i) ELSE default

-----------------------------------------------------------------------------

PathFrom(tokens) ==
    LET path[i \in 1..Len(tokens) + 1] ==
            IF MetricTok(tokens, i) # "name" THEN ParseError(i)
            ELSE IF MetricTok(tokens, i + 1) = "." THEN path[i + 2]
            ELSE Past(i + 1)
    IN  path

ParsePath(tokens, i) == PathFrom(tokens)[i]

\* _parse_filter_primary
ParseTest(tokens, i) ==
    LET path == ParsePath(tokens, i) IN
    IF ~path.ok THEN path
    ELSE IF MetricTok(tokens, path.next) # "eq" THEN ParseError(path.next)
    ELSE IF MetricTok(tokens, path.next + 1) # "lit" THEN ParseError(path.next + 1)
    ELSE Past(path.next + 2)

\* One step of a loop: the list has begun with an item, of this node, and goes on after the
\* separator with what list makes of the rest.
Listed(tokens, list, separator, item, node) ==
    LET rest == list[item.next + 1] IN
    IF ~item.ok THEN item
    ELSE IF MetricTok(tokens, item.next) # separator THEN Made({node}, item.next)
    ELSE IF ~rest.ok THEN rest
    ELSE Made({node} \union rest.node, rest.next)

\* A test is known by its first token.
ConjunctionFrom(tokens) ==
    LET conj[i \in 1..Len(tokens) + 1] == Listed(tokens, conj, "and", ParseTest(tokens, i), i)
    IN  conj

\* _parse_filter_and
ParseConjunction(tokens, i) == ConjunctionFrom(tokens)[i]

DisjunctionFrom(tokens) ==
    LET disj[i \in 1..Len(tokens) + 1] ==
            LET first == ParseConjunction(tokens, i)
            IN  Listed(tokens, disj, "or", first, first.node)
    IN  disj

\* _parse_filter_or
ParseDisjunction(tokens, i) == DisjunctionFrom(tokens)[i]

\* A count has no value.
ParseValue(tokens, i, counts) ==
    IF counts THEN Past(i)
    ELSE IF MetricTok(tokens, i) = ":latency" THEN Past(i + 1)
    ELSE ParsePath(tokens, i)

\* The rest of a component.
ParseFilters(tokens, i) ==
    IF MetricTok(tokens, i) = "where" THEN ParseDisjunction(tokens, i + 1) ELSE Made({}, i)

\* _parse_component
ParseComponent(tokens, i) ==
    LET j == Optional(tokens, i + 1, Sources)
        k == Optional(tokens, j, Attributions)
        value == ParseValue(tokens, k + 1, MetricTok(tokens, i) = "count")
        filters == ParseFilters(tokens, value.next)
    IN  IF MetricTok(tokens, i) \notin Aggregations THEN ParseError(i)
        ELSE IF MetricTok(tokens, k) \notin {"name", "*"} THEN ParseError(k)
        ELSE IF ~value.ok THEN value
        ELSE IF ~filters.ok THEN filters
        ELSE Made([aggregation |-> MetricTok(tokens, i),
                   source |-> OneOf(tokens, i + 1, Sources, "events"),
                   attribution |-> OneOf(tokens, j, Attributions, "all"),
                   filters |-> filters.node],
                  filters.next)

\* What follows the first component, and the second one.
AfterNumerator(tokens, numerator, denominator) ==
    IF ~numerator.ok THEN numerator
    ELSE IF MetricTok(tokens, numerator.next) # "/"
    THEN Made(<<numerator.node>>, numerator.next)
    ELSE IF ~denominator.ok THEN denominator
    ELSE Made(<<numerator.node, denominator.node>>, denominator.next)

\* MetricDSLParser.parse
ParseMetric(tokens) ==
    LET numerator == ParseComponent(tokens, 1)
    IN  AfterNumerator(tokens, numerator, ParseComponent(tokens, numerator.next + 1))

\* ClickHouseDSLCompiler.compile_dsl: the parts of the metric that become fragments of SQL,
\* one or two; none of what it refuses with InvalidMetricDSLExpression.
Fragments(tokens) ==
    LET parsed == ParseMetric(tokens) IN IF parsed.ok THEN parsed.node ELSE <<>>
=============================================================================
