------------------------------- MODULE MCRules -------------------------------
(***************************************************************************)
(* The parser of targeting rules. A behaviour grows the tokens of one. The *)
(* property compares what the parser makes of them with the language, which*)
(* is told by the neighbours of each token and by the depth of brackets,   *)
(* and with how tight the operators bind.                                  *)
(***************************************************************************)
EXTENDS TargetLanguage, MCSampling

CONSTANT MaxRule   \* the longest list of a rule's tokens

AddToken ==
    /\ topic = "rule"
    /\ Len(sample) < MaxRule /\ WantsMore(sample, Parse(sample).next)
    /\ \E type \in TokenTypes : Grows(type)

-----------------------------------------------------------------------------
(* The language of target-dsl.md, but that no collection begins with a comma. *)

Binary == {"OR", "AND", "cmp"}
Openers == {"name", "value", "[", "(", "NOT"}

\* What may come after the token at k: a token, or the end of the rule.
Followers(w, k) ==
    IF w[k] \in Binary \union {"NOT", "("} THEN Openers
    ELSE IF w[k] = "[" THEN {"value", "]"}
    ELSE IF w[k] = "comma" THEN {"value"}
    ELSE IF w[k] = "value" /\ k > 1 /\ w[k - 1] \in {"[", "comma"} THEN {"comma", "]"}
    ELSE Binary \union {")", "end"}

\* The depth of brackets after each token.
Depth(w) ==
    LET depth[k \in 0..Len(w)] ==
            IF k = 0 THEN 0
            ELSE IF w[k] = "(" THEN depth[k - 1] + 1
            ELSE IF w[k] = ")" THEN depth[k - 1] - 1
            ELSE depth[k - 1]
    IN  depth

Balanced(depth, i, j) == depth[j] = depth[i - 1] /\ \A k \in i..j : depth[k] >= depth[i - 1]

IsRule(w, i, j) ==
    /\ i <= j /\ w[i] \in Openers
    /\ \A k \in i..j - 1 : w[k + 1] \in Followers(w, k)
    /\ "end" \in Followers(w, j)
    /\ Balanced(Depth(w), i, j)

\* The first one binds tighter than the second.
Tighter == {<<"AND", "OR">>, <<"cmp", "OR">>, <<"cmp", "AND">>}

\* The right operand of the operator at k goes on through what binds tighter, and ends there.
TakesTo(w, k, e) ==
    /\ IsRule(w, k + 1, e)
    /\ \A x \in k + 1..e : w[x] \in Binary /\ Depth(w)[x] = Depth(w)[k] => <<w[x], w[k]>> \in Tighter
    /\ <<Tok(w, e + 1), w[k]>> \notin Tighter

Tree(w, j) ==
    {p \in (1..j) \X (1..j) : w[p[1]] \in Binary \union {"NOT"} /\ TakesTo(w, p[1], p[2])}

\* TargetDSLParser reads the longest rule that its tokens start with, and makes its one tree of
\* it; it fails only where the tokens are no rule.
RulesParseByGrammar ==
    topic = "rule" =>
      LET n == Len(sample)
          parsed == Parse(sample)
      IN  IF ~parsed.ok THEN ~IsRule(sample, 1, n)
          ELSE /\ IsRule(sample, 1, parsed.next - 1)
               /\ \A j \in parsed.next..n : ~IsRule(sample, 1, j)
               /\ parsed.tree = Tree(sample, parsed.next - 1)

\* target-dsl.md and task.md list NOT among the operators: a rule that parses has code
\* (translate_dsl).
RulesCompile == topic = "rule" /\ Parse(sample).ok => Translated(sample) = "code"
=============================================================================
