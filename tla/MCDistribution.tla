--------------------------- MODULE MCDistribution ---------------------------
(***************************************************************************)
(* VariantDistribution over bounded inputs: a state is an experiment's     *)
(* audience, the weights of its variants and their axis; a step adds a     *)
(* variant until the weights sum to 100. The properties compare what the   *)
(* code computes with the shares the author asked for.                     *)
(***************************************************************************)
EXTENDS VariantDistribution

CONSTANTS
    Audiences,  \* the audiences tried
    Weights,    \* the weights tried
    MaxVariants \* the longest list of variants

ASSUME InputsArePercentages == Audiences \subseteq Percentage /\ Weights \subseteq Percentage

VARIABLES
    audience,  \* of the experiment
    weights,   \* of its variants
    axis       \* CachedExperiment.distribution, once the weights are valid

input == <<audience, weights, axis>>

InputInit ==
    /\ audience \in Audiences
    /\ weights = <<>>
    /\ axis = Outside

AddVariant(w) ==
    /\ SumFunction(weights) + w <= 100
    /\ Len(weights) < MaxVariants
    /\ weights' = Append(weights, w)
    /\ axis' = IF ValidWeights(weights')
               THEN distribute_variants(audience, weights')
               ELSE Outside
    /\ UNCHANGED audience

InputNext == \E w \in Weights : AddVariant(w)

Valid == axis # Outside

-----------------------------------------------------------------------------

Hashes == 0..HashSize - 1
BucketsOf(k) == {b \in Buckets : axis[b] = k}
HashesOf(k) == {h \in Hashes : axis[Bucket(h)] = k}
Distance(a, b) == IF a > b THEN a - b ELSE b - a

\* The audience is kept exactly and is a prefix of the axis, so raising it takes
\* nobody out of the experiment (distribute_variants: min(i + count, ...)).
AudienceIsExactPrefix ==
    Valid => \A b \in Buckets : (axis[b] # Outside) <=> b < audience

\* Rounding down costs a variant less than one bucket, and what all of them lose
\* goes to the last one (distribute_variants: the last count is the rest).
SharesAreRoundedDown ==
    Valid =>
        \A k \in DOMAIN weights :
            LET got == 100 * Cardinality(BucketsOf(k))
                due == audience * weights[k]
            IN  IF k < Len(weights)
                THEN got <= due /\ due < got + 100
                ELSE due <= got /\ got <= due + 100 * (Len(weights) - 1)

\* Rounding a hash to the nearest bucket halves the first bucket and widens the
\* last: no variant's share of the hashes is off by more than half a bucket,
\* and the two ties of a bucket, from its share of the axis (make_decision).
HashesFollowBuckets ==
    Valid =>
        \A k \in DOMAIN weights \union {Outside} :
            Distance(200 * Cardinality(HashesOf(k)),
                     2 * HashSize * Cardinality(BucketsOf(k)))
              <= HashSize + 200 * 2

\* The audience is a prefix of the axis, so raising it takes nobody out, and each variant's
\* share is that of its weight, rounded down; the last one gets what that costs the others
\* (distribute_variants). The hashes of subjects follow the buckets but for half a bucket
\* (make_decision).
SharesAreAsked == AudienceIsExactPrefix /\ SharesAreRoundedDown /\ HashesFollowBuckets
=============================================================================
