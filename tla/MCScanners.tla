----------------------------- MODULE MCScanners -----------------------------
(***************************************************************************)
(* The scanners of the two languages. A behaviour grows the source of one. *)
(* The property compares the tokens with the lexemes of the grammars,      *)
(* which do not follow the scanners' control flow.                         *)
(***************************************************************************)
EXTENDS DslLexers, MCSampling

CONSTANT MaxSource   \* the longest source scanned, but for those that begin like a date

Chars == Letters \union Numeric \union Brackets \union Marks
           \union {"-", "_", "quote", "back", "newline", "tab", "space", "=", "!", "<"}

\* A date, in which any digit may stand for a 5.
DateSource == <<"5", "5", "5", "5", "-", "5", "5", "-", "5", "5">>
AsInDate(src, i, k) == src[i + k - 1] \in IF DateSource[k] = "-" THEN {"-"} ELSE Digits

Languages == {"target", "metric"}

AddChar ==
    /\ topic \in Languages
    /\ \/ Len(sample) < MaxSource
       \/ Len(sample) < Len(DateSource) /\ \A k \in DOMAIN sample : AsInDate(sample, 1, k)
    /\ \E ch \in Chars : Grows(ch)

-----------------------------------------------------------------------------

Within(src, i, j, chars) == \A k \in i..j : src[k] \in chars

\* [0-9]+(\.[0-9]+)? with a sign. Of a number without a whole part, the docs know nothing and
\* float() does.
IsNumeral(src, i, j) ==
    LET first == IF src[i] = "-" THEN i + 1 ELSE i IN
    \/ first <= j /\ Within(src, first, j, Digits)
    \/ \E dot \in first..j - 1 :
         /\ src[dot] = "."
         /\ Within(src, first, dot - 1, Digits)
         /\ Within(src, dot + 1, j, Digits)

\* YYYY-MM-DD of a month and a day that there are, after the year 0.
IsDate(src, i, j) ==
    /\ j = i + Len(DateSource) - 1
    /\ \A k \in DOMAIN DateSource : AsInDate(src, i, k)
    /\ ~Within(src, i, i + 3, {"0"})
    /\ <<src[i + 5], src[i + 6]>> = <<"0", "5">>
    /\ <<src[i + 8], src[i + 9]>> = <<"0", "5">>

DigitsOf(lang) == IF lang = "metric" THEN Numeric ELSE {}

IsIdentifier(lang, src, i, j) ==
    /\ src[i] \in Letters \union {"_"}
    /\ Within(src, i + 1, j, Letters \union {"_", "-"} \union DigitsOf(lang))

\* An odd number of backslashes is just before k, in a string that starts at i.
IsEscaped(src, i, k) ==
    \E m \in i..k - 1 :
        /\ src[m] # "back" /\ \A n \in m + 1..k - 1 : src[n] = "back"
        /\ (k - m) % 2 = 0

\* A string ends with its first bare quote, has no line break, and escapes what may be escaped.
IsQuoted(src, i, j) ==
    /\ src[i] = "quote"
    /\ src[j] = "quote" /\ ~IsEscaped(src, i, j)
    /\ \A k \in i + 1..j - 1 :
          /\ src[k] # "newline"
          /\ src[k] = "quote" => IsEscaped(src, i, k)
          /\ IsEscaped(src, i, k) => src[k] \in Escapes

IsSign(lang, src, i, j) ==
    \/ i = j /\ src[i] \in IF lang = "target" THEN Brackets \union {"<"} ELSE Marks
    \/ /\ j = i + 1 /\ src[j] = "="
       /\ src[i] \in {"=", "!"} \union IF lang = "target" THEN {"<"} ELSE {}

IsLexeme(lang, src, kind, i, j) ==
    /\ kind = "number" => IsNumeral(src, i, j)
    /\ kind = "date" => lang = "target" /\ IsDate(src, i, j)
    /\ kind = "name" => IsIdentifier(lang, src, i, j)
    /\ kind = "not_in" => /\ lang = "target" /\ j = i + 2
                          /\ src[i] = "NOT" /\ src[i + 1] = "space" /\ src[i + 2] = "IN"
    /\ kind = "string" => i < j /\ IsQuoted(src, i, j)
    /\ kind = "sign" => IsSign(lang, src, i, j)
    /\ kind = "blank" => i = j /\ src[i] \in {"space", "tab", "newline"}

\* What a longer lexeme from the same place might be.
Longer(kind) == IF kind = "name" THEN {"name", "not_in"} ELSE {kind}

\* What a scanner accepts is cut without gaps into lexemes of the documented kinds, of which
\* no number, name or sign could have been longer, nor a name NOT been a NOT IN. The names of
\* targeting rules have no digits, which target-dsl.md allows them; a fraction needs no whole
\* part; and NOT IN does not end at a word's end: of "x NOT INy" it leaves the name "y".
LexemesAreOfTheGrammar ==
    topic \in Languages =>
      LET tokens == Scan(topic, sample) IN
      Accepted(tokens) =>
        /\ sample # <<>> => tokens # <<>>
        /\ \A k \in DOMAIN tokens :
            LET token == tokens[k] IN
            /\ token.first = IF k = 1 THEN 1 ELSE tokens[k - 1].last + 1
            /\ token.first <= token.last /\ token.last <= Len(sample)
            /\ k = Len(tokens) => token.last = Len(sample)
            /\ IsLexeme(topic, sample, token.kind, token.first, token.last)
            /\ token.kind \in {"number", "name", "sign"} =>
                 \A j \in token.last + 1..Len(sample), kind \in Longer(token.kind) :
                    ~IsLexeme(topic, sample, kind, token.first, j)
=============================================================================
