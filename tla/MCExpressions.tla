---------------------------- MODULE MCExpressions ----------------------------
(***************************************************************************)
(* The parser of metrics. A behaviour grows the tokens of one. The property*)
(* compares what the parser makes of them with the grammar of the language *)
(* and with the meaning of its sentences.                                  *)
(***************************************************************************)
EXTENDS MetricLanguage, MCSampling

CONSTANTS
    MaxMetric,   \* the longest list of a metric's tokens
    MaxFilter    \* and the longest one where a filter comes first

AddMetricToken ==
    /\ topic = "expression"
    /\ Len(sample) < IF MetricTok(sample, 3) = "where" THEN MaxFilter ELSE MaxMetric
    /\ WantsMore(sample, ParseMetric(sample).next)
    /\ \E type \in MetricTokens : Grows(type)

-----------------------------------------------------------------------------
(* The grammar of metric-dsl.md: what is a phrase w[i..j]. *)

IsPath(w, i, j) ==
    /\ i <= j /\ (j - i) % 2 = 0
    /\ \A k \in i..j : w[k] = IF (k - i) % 2 = 0 THEN "name" ELSE "."

IsTest(w, i, j) == IsPath(w, i, j - 2) /\ w[j - 1] = "eq" /\ w[j] = "lit"

\* Between two neighbouring cuts there is a test.
Cuts(w, i, j) == {i - 1, j + 1} \union {k \in i..j : w[k] \in {"and", "or"}}
IsFilters(w, i, j) ==
    \A a \in Cuts(w, i, j), b \in Cuts(w, i, j) :
        a < b /\ (\A c \in Cuts(w, i, j) : ~(a < c /\ c < b)) => IsTest(w, a + 1, b - 1)

\* The type of events is at p.
IsHead(w, i, p) ==
    /\ w[i] \in Aggregations
    /\ w[p] \in {"name", "*"}
    /\ \/ p = i + 1
       \/ p = i + 2 /\ w[i + 1] \in Sources \union Attributions
       \/ p = i + 3 /\ w[i + 1] \in Sources /\ w[i + 2] \in Attributions

\* The value ends at q.
IsValue(w, i, p, q) ==
    IF w[i] = "count" THEN q = p
    ELSE p < q /\ (IsPath(w, p + 1, q) \/ (q = p + 1 /\ w[q] = ":latency"))

IsComponent(w, i, j) ==
    \E p \in i + 1..j, q \in i + 1..j :
        /\ IsHead(w, i, p) /\ IsValue(w, i, p, q)
        /\ q = j \/ (w[q + 1] = "where" /\ IsFilters(w, q + 2, j))

IsMetric(w, n) ==
    \/ n > 0 /\ IsComponent(w, 1, n)
    \/ \E k \in 2..n - 1 : w[k] = "/" /\ IsComponent(w, 1, k - 1) /\ IsComponent(w, k + 1, n)

(* Its meaning: AND binds tighter than OR, and each keyword counts for its component. *)

Tests(w, i, j) == {k \in i..j : w[k - 1] \in {"where", "and", "or"}}
SameConjunction(w, i, j, k, m) == \A c \in i..j : w[c] = "or" => (c < k <=> c < m)
Conjunctions(w, i, j) ==
    {{m \in Tests(w, i, j) : SameConjunction(w, i, j, k, m)} : k \in Tests(w, i, j)}

Occurs(w, i, j, type) == \E k \in i..j : w[k] = type

Chosen(w, i, j, one, other, default) ==
    IF Occurs(w, i, j, one) THEN one ELSE IF Occurs(w, i, j, other) THEN other ELSE default

Meaning(w, i, j) ==
    [aggregation |-> w[i],
     source |-> Chosen(w, i, j, "discarded", "duplicate", "events"),
     attribution |-> Chosen(w, i, j, "attributed", "unattributed", "all"),
     filters |-> Conjunctions(w, i + 1, j)]

IsMeaning(w, n, parts) ==
    IF Occurs(w, 1, n, "/")
    THEN \E k \in 1..n : w[k] = "/" /\ parts = <<Meaning(w, 1, k - 1), Meaning(w, k + 1, n)>>
    ELSE parts = <<Meaning(w, 1, n)>>

\* MetricDSLParser reads the longest sentence that its tokens start with, and makes of it the
\* one or two components that it means; it fails only where the tokens are no sentence.
MetricsParseByGrammar ==
    topic = "expression" =>
      LET n == Len(sample)
          parsed == ParseMetric(sample)
      IN  IF ~parsed.ok THEN ~IsMetric(sample, n)
          ELSE /\ IsMetric(sample, parsed.next - 1)
               /\ \A j \in parsed.next..n : ~IsMetric(sample, j)
               /\ IsMeaning(sample, parsed.next - 1, Fragments(sample))
=============================================================================
