------------------------- MODULE VariantDistribution -------------------------
(***************************************************************************)
(* How an experiment divides the subjects: the axis of a hundred buckets   *)
(* over which its variants are laid out, and the bucket a subject's hash   *)
(* falls into. Both are pure functions (decisions/domain.py); a variant is *)
(* its position in the experiment's list of variants.                      *)
(***************************************************************************)
EXTENDS Integers, Sequences, FiniteSets, Functions

CONSTANTS
    HashSize,  \* the number of values of mmh3.hash, 2^32 in the code
    Outside    \* a bucket outside the experiment: None on the axis, "!default"

ASSUME HashSizeIsPositive == HashSize \in Nat \ {0}
ASSUME OutsideIsNoVariant == Outside \notin Nat

TotalBuckets == 100
Percentage == 0..100
Buckets == 0..TotalBuckets - 1

\* What _validate_audience_and_variants lets through, of the weights.
ValidWeights(weights) ==
    /\ weights \in Seq(Percentage)
    /\ SumFunction(weights) = 100

-----------------------------------------------------------------------------

\* Mutant of CountRounded: shares are rounded up.
CountRoundedUp(audience, weights, k, start) ==
    IF k = Len(weights) THEN audience - start
                        ELSE (audience * weights[k] + 99) \div 100

\* The buckets of the variant at position k, which begin at start: its share of
\* the audience rounded down; the last variant takes the rest.
CountRounded(audience, weights, k, start) ==
    IF k = Len(weights) THEN audience - start
                        ELSE (audience * weights[k]) \div 100

\* Where the loop's i stands when it comes to each variant, and after the last.
Starts(audience, weights) ==
    LET at[k \in 1..Len(weights) + 1] ==
            IF k = 1 THEN 0
            ELSE at[k - 1] + CountRounded(audience, weights, k - 1, at[k - 1])
    IN  at

distribute_variants(audience, weights) ==
    LET at == Starts(audience, weights) IN
    [b \in Buckets |->
        IF \E k \in DOMAIN weights : at[k] <= b /\ b < at[k + 1]
        THEN CHOOSE k \in DOMAIN weights : at[k] <= b /\ b < at[k + 1]
        ELSE Outside]

-----------------------------------------------------------------------------

\* Python's round(): to the nearest integer, and to the even one of two.
RoundHalfEven(n, d) ==
    LET q == n \div d
        r == n % d
    IN  IF 2 * r > d \/ (2 * r = d /\ q % 2 = 1) THEN q + 1 ELSE q

\* The bucket of a hash value, as make_decision computes it.
Bucket(hash) ==
    LET b == RoundHalfEven(TotalBuckets * hash, HashSize) IN
    IF b >= TotalBuckets THEN TotalBuckets - 1 ELSE b

\* The variant make_decision chooses.
make_decision(audience, weights, hash) ==
    distribute_variants(audience, weights)[Bucket(hash)]
=============================================================================
