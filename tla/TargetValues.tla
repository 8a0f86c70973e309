---------------------------- MODULE TargetValues ----------------------------
(***************************************************************************)
(* The operators that the code of a targeting rule is run with             *)
(* (dsl/runtime.py). A value is None, a bool, a number, a date, a moment, a*)
(* version or a text, each with a rank or, for versions, three. A text is  *)
(* of one of three shapes: a date, a moment in the ISO format, or neither; *)
(* three numbers with dots make it a version. Numbers, which are floats,   *)
(* and bools also have the moment they are the timestamp of, in whole      *)
(* microseconds. IN has a list on its right.                               *)
(***************************************************************************)
EXTENDS Integers

CONSTANTS
    One,        \* the rank of the number 1
    Precision   \* 1e9, by which numbers may differ and be equal

ASSUME NumbersAreMeasured == One \in Nat \ {0} /\ Precision \in Nat \ {0}

None == [type |-> "none"]
Dates == {"date", "moment"}
Texts == {"plain", "date_text", "iso_text", "version_text"}
IsText(v) == v.type \in Texts
IsNumber(v) == v.type \in {"number", "bool"}     \* bool is an int

Read(v, type) == [type |-> type, rank |-> v.rank]
\* datetime.fromtimestamp
Timestamp(v) == [type |-> "moment", rank |-> v.moment]
ParsedText(v) ==
    IF v.type = "date_text" THEN Read(v, "date")
    ELSE IF v.type = "iso_text" THEN Read(v, "moment")
    ELSE v

ParsedVersion(v) == [type |-> "version", parts |-> v.parts]

\* _coerce. A literal date is a moment. A text on the right is put on the left.
Coerced(a, b) ==
    IF b.type \in Dates /\ IsText(a) THEN <<ParsedText(a), b>>
    ELSE IF a.type \in Dates /\ IsText(b) THEN <<ParsedText(b), a>>
    ELSE IF b.type \in Dates /\ IsNumber(a) THEN <<Timestamp(a), b>>
    ELSE IF a.type \in Dates /\ IsNumber(b) THEN <<a, Timestamp(b)>>
    ELSE IF a.type = "version_text" /\ b.type = "version_text"
    THEN <<ParsedVersion(a), ParsedVersion(b)>>
    ELSE <<a, b>>

\* _is_comparable
Comparable(a, b) ==
    \/ IsNumber(a) /\ IsNumber(b)
    \/ IsText(a) /\ IsText(b)
    \/ a.type \in Dates /\ b.type \in Dates
    \/ a.type = "version" /\ b.type = "version"

\* SemVer compares its three numbers one by one: one of them is enough.
SomePartEquals(a, b) == \E k \in 1..3 : a.parts[k] = b.parts[k]
SomePartAbove(a, b) == \E k \in 1..3 : a.parts[k] > b.parts[k]

\* Python's == and >. An outcome is TRUE, FALSE or an exception.
EqualOutcome(a, b) ==
    IF a.type = "version" /\ b.type = "version" THEN SomePartEquals(a, b)
    ELSE IF IsNumber(a) /\ IsNumber(b) THEN a.rank = b.rank
    ELSE a = b
GreaterOutcome(a, b) ==
    IF a.type = "version" THEN SomePartAbove(a, b)
    ELSE IF a.type \in Dates /\ a.type # b.type THEN "TypeError"
    ELSE a.rank > b.rank
\* __lt__ of a version calls itself.
LessOutcome(a, b) ==
    IF a.type = "version" THEN "RecursionError" ELSE GreaterOutcome(b, a)

\* Mutant of NotLess: equal values are less.
NotLessStrict(a, b) == GreaterOutcome(a, b)

NotLess(a, b) ==
    IF a.type = "version" THEN SomePartAbove(a, b) \/ SomePartEquals(a, b)
    ELSE IF a.type \in Dates /\ a.type # b.type THEN "TypeError"
    ELSE a.rank >= b.rank

\* _cmp_gt, _cmp_ge, _cmp_lt: what has no order with the other satisfies nothing.
AsCompared(a, op, b) ==
    LET p == Coerced(a, b) IN
    IF ~Comparable(p[1], p[2]) THEN FALSE
    ELSE IF op = ">" THEN GreaterOutcome(p[1], p[2])
    ELSE IF op = ">=" THEN NotLess(p[1], p[2])
    ELSE LessOutcome(p[1], p[2])

CmpGt(a, b) == AsCompared(a, ">", b)
CmpGe(a, b) == AsCompared(a, ">=", b)
CmpLt(a, b) == AsCompared(a, "<", b)
\* _cmp_le, too, returns a > b.
CmpLe(a, b) == AsCompared(a, ">", b)

Apart(x, y) == IF x > y THEN x - y ELSE y - x

\* math.isclose with abs_tol=1e-09, and the rel_tol it has by default.
IsClose(x, y) ==
    \E m \in {One, Apart(x, 0), Apart(y, 0)} : Precision * Apart(x, y) <= m

\* _cmp_eq; _cmp_neq is its negation, but for None.
Equals(a, b) ==
    IF a.type = "number" /\ b.type = "number" THEN IsClose(a.rank, b.rank) ELSE EqualOutcome(a, b)
CmpEq(a, b) == LET p == Coerced(a, b) IN None \notin {p[1], p[2]} /\ Equals(p[1], p[2])
CmpNeq(a, b) == LET p == Coerced(a, b) IN None \notin {p[1], p[2]} /\ ~Equals(p[1], p[2])

ListOf(items) == [type |-> "list", items |-> items]
\* Python's in: ==, without a coercion and without a tolerance.
Contains(list, a) == \E k \in DOMAIN list.items : EqualOutcome(a, list.items[k])

\* _is_in, _is_not_in: what is no list gives False to both.
IsIn(a, b) == a # None /\ b.type = "list" /\ Contains(b, a)
IsNotIn(a, b) == a # None /\ b.type = "list" /\ ~Contains(b, a)

\* Python's truth of a value; _and and _or give one of their operands, both evaluated.
Truthy(v) == v # None /\ (IsNumber(v) => v.rank # 0)
And(a, b) == IF Truthy(a) THEN b ELSE a
Or(a, b) == IF Truthy(a) THEN a ELSE b
=============================================================================
