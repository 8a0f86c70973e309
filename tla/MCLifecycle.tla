----------------------------- MODULE MCLifecycle -----------------------------
(* ExperimentLifecycle for TLC: one author, sessions that are alike. *)
EXTENDS ExperimentLifecycle, TLC

CONSTANT author

MCExperimenters == {author}
MCAuthorOf == [e \in Experiments |-> author]
MCCheckOf == [s \in Sessions |-> "check"]
SessionSymmetry == Permutations(Sessions)
RunningSymmetry == Permutations(Sessions) \union Permutations(Experiments)
=============================================================================
