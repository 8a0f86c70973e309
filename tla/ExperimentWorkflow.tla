------------------------- MODULE ExperimentWorkflow -------------------------
(***************************************************************************)
(* What the experiments component promises: each experiment walks the      *)
(* state machine one edge at a time, at most one is STARTED on a flag, and *)
(* an experiment keeps its flag once it has left the draft. No requests,   *)
(* transactions or copies here: ExperimentLifecycle implements this when   *)
(* no session saves a stale copy.                                          *)
(***************************************************************************)
EXTENDS ExperimentDomain

CONSTANTS Experiments, Flags, None

VARIABLES
    state,  \* the state of each experiment, "absent" before it is created
    flag    \* the flag of each experiment

wvars == <<state, flag>>

WInit ==
    /\ state = [e \in Experiments |-> "absent"]
    /\ flag = [e \in Experiments |-> None]

NewDraft(e) ==
    /\ state[e] = "absent"
    /\ \E f \in Flags : flag' = [flag EXCEPT ![e] = f]
    /\ state' = [state EXCEPT ![e] = "draft"]

Retarget(e) ==
    /\ state[e] = "draft"
    /\ \E f \in Flags : flag' = [flag EXCEPT ![e] = f]
    /\ UNCHANGED state

FreeOf(e) ==
    \A d \in Experiments : ~(state[d] = "started" /\ flag[d] = flag[e])

Move(e) ==
    /\ \E to \in States :
           /\ <<state[e], to>> \in ValidTransitions
           /\ to = "started" => FreeOf(e)
           /\ state' = [state EXCEPT ![e] = to]
    /\ UNCHANGED flag

WNext == \E e \in Experiments : NewDraft(e) \/ Retarget(e) \/ Move(e)

WSpec == WInit /\ [][WNext]_wvars
=============================================================================
