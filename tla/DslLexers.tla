----------------------------- MODULE DslLexers -----------------------------
(***************************************************************************)
(* The scanners of the two languages: targeting rules and metrics. They    *)
(* share scan_number, but for dates, and scan_string, and differ in names  *)
(* and operators. A source is a sequence of classes of characters, a token *)
(* is its kind and the characters it stands for.                           *)
(***************************************************************************)
EXTENDS Integers, Sequences, FiniteSetsExt

\* The classes: a letter that may be escaped, the letters of NOT and of IN, two digits, a
\* numeric character that is no digit, comparison signs, brackets and the like; ":" is
\* ":delivery_latency".
Letters == {"n", "NOT", "IN"}
Digits == {"0", "5"}
Numeric == Digits \union {"half"}
Escapes == {"n", "back", "quote"}
Brackets == {"("}                 \* ( ) [ ] ,
Marks == {"/", ".", "*", ":"}     \* of the metrics

CharAt(src, i) == IF i \in DOMAIN src THEN src[i] ELSE "end"

\* consume_while: where a run of these characters ends.
SkipRun(src, i, chars) ==
    Min({j \in i..Len(src) + 1 : CharAt(src, j) \notin chars})

\* What scanning at i gives: the kind of the token, or "error" for a LexerError, or "crash"
\* for any other exception; and where the scanner goes on.
Token(kind, next) == [kind |-> kind, next |-> next]

-----------------------------------------------------------------------------

\* The rest of a date, from the first dash.
IsDateTail(src, i) ==
    \A k \in 0..5 : CharAt(src, i + k) \in IF k \in {0, 3} THEN {"-"} ELSE Digits

\* strptime knows the date whose first dash is at i: there is no year 0, and with these
\* digits only a 05 is a month or a day.
IsPossible(src, i) ==
    /\ \E k \in i - 4..i - 1 : CharAt(src, k) # "0"
    /\ \A k \in {i + 1, i + 4} : CharAt(src, k) = "0" /\ CharAt(src, k + 1) = "5"

\* Mutant of AfterFraction: the dot is not given back.
AfterFractionKept(src, i) ==
    IF CharAt(src, i) # "." THEN i ELSE SkipRun(src, i + 1, Digits)

\* The fraction, if any: the dot is given back when nothing numeric follows it, and eaten
\* when that is no digit.
AfterFraction(src, i) ==
    IF CharAt(src, i) = "." /\ CharAt(src, i + 1) \in Numeric THEN SkipRun(src, i + 1, Digits)
    ELSE i

\* float() refuses a text without digits.
scan_number(lang, src, i) ==
    LET whole == IF src[i] = "-" THEN i + 1 ELSE i
        stop == SkipRun(src, whole, Digits)
        next == AfterFraction(src, stop)
    IN  IF lang = "target" /\ whole = i /\ stop - whole = 4 /\ CharAt(src, stop) = "-"
        THEN IF IsDateTail(src, stop) /\ IsPossible(src, stop) THEN Token("date", stop + 6)
             ELSE Token("error", stop)
        ELSE IF \E j \in whole..next - 1 : src[j] \in Digits THEN Token("number", next)
        ELSE Token("crash", next)

\* The characters after the quote, from each position on.
StringFrom(src) ==
    LET scan[i \in 1..Len(src) + 1] ==
            LET ch == CharAt(src, i) IN
            IF ch = "quote" THEN Token("string", i + 1)
            ELSE IF ch \in {"end", "newline"} THEN Token("error", i)
            ELSE IF ch # "back" THEN scan[i + 1]
            ELSE IF CharAt(src, i + 1) \in Escapes THEN scan[i + 2]
            ELSE Token("error", i + 1)
    IN  scan

scan_string(src, i) == StringFrom(src)[i + 1]

\* Names have digits in one of the languages.
NameChars(lang) ==
    Letters \union {"-", "_"} \union IF lang = "metric" THEN Numeric ELSE {}

\* Keywords are names here, but for NOT IN, which ends with its IN whatever follows.
scan_name_or_keyword(lang, src, i) ==
    LET next == SkipRun(src, i + 1, NameChars(lang)) IN
    IF /\ lang = "target" /\ src[i] = "NOT" /\ next = i + 1
       /\ CharAt(src, i + 1) = "space" /\ CharAt(src, i + 2) = "IN"
    THEN Token("not_in", i + 3)
    ELSE Token("name", next)

\* A character that must be followed by "=", or may be.
WithEqual(src, i, alone) ==
    IF CharAt(src, i + 1) = "=" THEN Token("sign", i + 2) ELSE Token(alone, i + 1)

scan_char(lang, src, i) ==
    LET ch == src[i] IN
    IF ch = "quote" THEN scan_string(src, i)
    ELSE IF ch \in Numeric \union {"-"} THEN scan_number(lang, src, i)
    ELSE IF ch \in Letters \union {"_"} THEN scan_name_or_keyword(lang, src, i)
    ELSE IF ch \in {"space", "tab", "newline"} THEN Token("blank", i + 1)
    ELSE IF ch \in {"=", "!"} THEN WithEqual(src, i, "error")
    ELSE IF ch = "<" /\ lang = "target" THEN WithEqual(src, i, "sign")
    ELSE IF ch \in IF lang = "target" THEN Brackets ELSE Marks THEN Token("sign", i + 1)
    ELSE Token("error", i + 1)

Raised(kind) == kind \in {"error", "crash"}
LexemeAt(lang, src, i) ==
    LET token == scan_char(lang, src, i) IN
    [kind |-> token.kind, first |-> i, last |-> token.next - 1]

\* The tokens of a source from each position on, up to the first exception.
ScanFrom(lang, src) ==
    LET from[i \in 1..Len(src) + 1] ==
            IF i > Len(src) THEN <<>>
            ELSE LET lexeme == LexemeAt(lang, src, i) IN
                 IF Raised(lexeme.kind) THEN <<lexeme>> ELSE <<lexeme>> \o from[lexeme.last + 1]
    IN  from

Scan(lang, src) == ScanFrom(lang, src)[1]
Accepted(tokens) == \A k \in DOMAIN tokens : ~Raised(tokens[k].kind)
=============================================================================
