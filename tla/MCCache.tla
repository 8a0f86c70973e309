------------------------------ MODULE MCCache ------------------------------
(***************************************************************************)
(* DecisionCache for TLC: one author, and one of two scenes. In the first  *)
(* the requests of the server compete, without edits; in the second one of *)
(* them at a time edits experiments and approver groups too. The guardrail *)
(* worker runs in both.                                                    *)
(***************************************************************************)
EXTENDS DecisionCache, TLC

CONSTANT author

MCExperimenters == {author}
MCAuthorOf == [e \in Experiments |-> author]
MCCheckOf == [s \in Sessions |-> "check"]

ServerSessions == Sessions \ WorkerSessions
OneRequest == CHOOSE s \in ServerSessions : TRUE
FirstExperiment == CHOOSE e \in Experiments : TRUE

VARIABLE scene    \* "competition" or "edits"

scene_vars == <<scene, all_vars>>

SceneInit == scene \in {"competition", "edits"} /\ CacheInit

\* No edits; the experiments are reviewed by one request at a time, as reviews that overlap
\* are no matter of the cache, and created in one order.
Competition ==
    /\ group' = group
    /\ \A s \in Sessions : sess'[s].op # "update"
    /\ \A s \in Sessions \ {OneRequest} : sess'[s].op \notin {"send_to_review", "approve"}
    /\ row'[FirstExperiment] = NoRow => \A e \in Experiments : row'[e] = NoRow

OneAtATime ==
    \A s \in ServerSessions \ {OneRequest} : sess'[s] = Idle /\ owed'[s] = None

SceneNext ==
    /\ CacheNext
    /\ scene = "competition" => Competition
    /\ scene = "edits" => OneAtATime
    /\ UNCHANGED scene

\* CacheSpec, with its fairness.
SceneSpec ==
    /\ SceneInit /\ [][SceneNext]_scene_vars
    /\ \A s \in Sessions : WF_scene_vars(Notify(s) /\ UNCHANGED scene)
=============================================================================
