------------------------------ MODULE MCReview ------------------------------
(***************************************************************************)
(* ExperimentLifecycle for TLC, in one of two scenes. In the first one     *)
(* experiment is reviewed on either of the flags, while its reviewers'     *)
(* group changes; in the second all experiments run on one flag, without a *)
(* group and with one approval of a reviewer at most.                      *)
(***************************************************************************)
EXTENDS MCLifecycle

VARIABLE scene    \* "review" or "running"

scene_vars == <<scene, vars>>

SceneInit == scene \in {"review", "running"} /\ Init

OneExperiment == Cardinality({e \in Experiments : row'[e] # NoRow}) <= 1

OneFlag == CHOOSE f \in Flags : TRUE
OnOneFlag ==
    /\ group' = group
    /\ \A e \in Experiments : row'[e].flag \in {None, OneFlag}
    /\ \A e \in Experiments : \A v \in approvals'[e] : v.n = 1
    /\ \A s \in Sessions : sess'[s].op \notin {"reject", "restore"}
    /\ \A s \in Sessions : sess'[s].arg \notin (Flags \ {OneFlag}) \union (Approvers \ Admins)

\* All experiments have ended: not a deadlock.
Ended ==
    /\ scene = "running"
    /\ \A e \in Experiments : row[e].state \in {"archived", "security_halted"}
    /\ \A s \in Sessions : ~Open(s)
    /\ UNCHANGED scene_vars

SceneNext ==
    \/ /\ Next
       /\ scene = "review" => OneExperiment
       /\ scene = "running" => OnOneFlag
       /\ UNCHANGED scene
    \/ Ended

SceneSpec == SceneInit /\ [][SceneNext]_scene_vars
=============================================================================
