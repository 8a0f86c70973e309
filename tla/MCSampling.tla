----------------------------- MODULE MCSampling -----------------------------
(***************************************************************************)
(* What the modules over bounded inputs share: a behaviour has one topic   *)
(* and grows one sample of it.                                             *)
(***************************************************************************)
EXTENDS Integers, Sequences

VARIABLES
    topic,   \* what the sample is of
    sample   \* the input so far

sampled == <<topic, sample>>

\* A parser that failed before the end of its tokens, or ended there, needs no more of them.
WantsMore(tokens, next) == next > Len(tokens)

Grows(x) == sample' = Append(sample, x) /\ UNCHANGED topic
=============================================================================
