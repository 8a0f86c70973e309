-------------------------- MODULE ExperimentDomain --------------------------
(***************************************************************************)
(* The experiment aggregate: its states and the transitions its state      *)
(* setter and archive() accept (experiments/domain/experiment.py).         *)
(***************************************************************************)

\* ExperimentState; "absent" marks an id that no CreateExperiment has used.
States == {"draft", "in_review", "accepted", "rejected", "started", "paused",
           "security_halted", "finished", "archived"}

\* _VALID_TRANSITIONS, as a set of edges.
ValidTransitions ==
    {<<"draft", "in_review">>,
     <<"in_review", "accepted">>,
     <<"in_review", "rejected">>,
     <<"in_review", "draft">>,
     <<"rejected", "draft">>,
     <<"accepted", "started">>,
     <<"started", "paused">>,
     <<"started", "finished">>,
     <<"started", "security_halted">>,
     <<"paused", "started">>,
     <<"paused", "finished">>,
     <<"security_halted", "finished">>,
     <<"finished", "archived">>}

\* The state setter: a listed edge, and never ARCHIVED, which needs archive().
CanSetState(from, to) == <<from, to>> \in ValidTransitions /\ to # "archived"

\* States an experiment can only be in once a review has accepted it.
PostReview == {"accepted", "started", "paused", "security_halted",
               "finished", "archived"}
=============================================================================
