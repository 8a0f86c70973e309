--------------------------- MODULE TargetLanguage ---------------------------
(***************************************************************************)
(* Targeting rules: the parser, which reads one expression and ignores what*)
(* follows it, and the generator of Python code. Tokens are classes. A tree*)
(* is the set of its operators, each with what it takes on its right: the  *)
(* operator at k, whose right operand ends at e, is <<k, e>>. On its left  *)
(* an operator takes all that its method has read.                         *)
(***************************************************************************)
EXTENDS Integers, Sequences

\* Token types: "value" is a literal, "name" an attribute, "cmp" one of the comparisons.
TokenTypes == {"value", "name", "cmp", "NOT", "AND", "OR", "(", ")", "[", "]", "comma"}

Tok(tokens, i) == IF i \in DOMAIN tokens THEN tokens[i] ELSE "EOF"

\* A method of the parser has come to a token, or has failed there with a ParserError.
Parsed(tree, i) == [ok |-> TRUE, tree |-> tree, next |-> i]
Failed(i) == [ok |-> FALSE, next |-> i]

\* The rest of a collection that does not end here.
ValuesFrom(tokens) ==
    LET values[i \in 1..Len(tokens) + 1] ==
            IF Tok(tokens, i) # "value" THEN Failed(i)
            ELSE IF Tok(tokens, i + 1) = "comma" THEN values[i + 2]
            ELSE IF Tok(tokens, i + 1) = "]" THEN Parsed({}, i + 2)
            ELSE Failed(i + 1)
    IN  values

ParseValues(tokens, i) == ValuesFrom(tokens)[i]

\* Levels 1 to 3 are _parse_disj, _parse_conj and _parse_cmp, 4 is _parse_unary.
\* Mutant of OperatorOf: OR binds tighter than AND.
OperatorOfSwapped == <<"AND", "OR", "cmp">>
OperatorOf == <<"OR", "AND", "cmp">>

\* The rest of a level after its first operand: past an operator its loop reads what the level
\* reads from there on, which is given.
Operators(tokens, parse, level, operand) ==
    LET after == parse[operand.next + 1] IN
    IF ~operand.ok \/ Tok(tokens, operand.next) # OperatorOf[level] THEN operand
    ELSE IF ~after[level].ok THEN after[level]
    ELSE Parsed(operand.tree \union {<<operand.next, after[level + 1].next - 1>>}
                  \union after[level].tree,
                after[level].next)

\* _parse_unary and _parse_primary
Unary(tokens, parse, i) ==
    LET after == parse[i + 1]
        arg == after[4]
        inner == after[1]
    IN  IF Tok(tokens, i) = "NOT" THEN
            IF arg.ok THEN Parsed({<<i, arg.next - 1>>} \union arg.tree, arg.next) ELSE arg
        ELSE IF Tok(tokens, i) = "(" THEN
            IF ~inner.ok THEN inner
            ELSE IF Tok(tokens, inner.next) = ")" THEN Parsed(inner.tree, inner.next + 1)
            ELSE Failed(inner.next)
        ELSE IF Tok(tokens, i) = "[" THEN
            IF Tok(tokens, i + 1) = "]" THEN Parsed({}, i + 2) ELSE ParseValues(tokens, i + 1)
        ELSE IF Tok(tokens, i) \in {"name", "value"} THEN Parsed({}, i + 1)
        ELSE Failed(i)

\* What each level reads.
ParseFrom(tokens) ==
    LET parse[i \in 1..Len(tokens) + 1] ==
            LET unary == Unary(tokens, parse, i)
                cmp == Operators(tokens, parse, 3, unary)
                conj == Operators(tokens, parse, 2, cmp)
            IN  <<Operators(tokens, parse, 1, conj), conj, cmp, unary>>
    IN  parse

\* parse() does not ask for the end of the tokens.
Parse(tokens) == ParseFrom(tokens)[1][1]

\* CodeGenerator: _gen_UnaryNotNode generates its own node again, without end.
Generates(tokens, tree) == \A operator \in tree : tokens[operator[1]] # "NOT"

\* translate_dsl: the code of a rule, or what the request that brings it ends with.
Translated(tokens) ==
    LET parsed == Parse(tokens) IN
    IF ~parsed.ok THEN "InvalidTargetDSLExpression"
    ELSE IF Generates(tokens, parsed.tree) THEN "code" ELSE "RecursionError"
=============================================================================
