----------------------------- MODULE Guardrails -----------------------------
(***************************************************************************)
(* The guardrail worker: at each interval it evaluates the rules of the    *)
(* running experiments, all at once, and acts where a threshold is         *)
(* exceeded. All the actions of a check go through one database session,   *)
(* so the COMMIT or ROLLBACK of one takes the open writes of the others    *)
(* with it, and a check that fails leaves its other actions running.       *)
(* Requests of the server change the experiments and the rules meanwhile.  *)
(***************************************************************************)
EXTENDS Integers, FiniteSetsExt, Functions, ExperimentDomain

CONSTANTS
    Guarded,         \* experiments
    GuardIds,        \* ids of guard rules
    CheckSessions,   \* database sessions: one for each check, used again when it has ended
    MaxEdits,        \* bound of the model: requests that change an experiment or a rule
    MaxCheckFailures \* bound of the model: statements of the worker that fail

ASSUME GuardrailsAssumption == MaxEdits \in Nat /\ MaxCheckFailures \in Nat

VARIABLES
    exps,        \* experiments_latest: the state, and the number of the last request's edit
    guards,      \* guard_rules: a function of the ids that have a row
    over,        \* the rules whose metric is above their threshold
    check,       \* the check under way
    ses,         \* of each session, its locks and what it has written but not committed
    tasks,       \* of each session, the rules being revised: _revise_rule, _take_action
    halved,      \* of each session's check, the rules that have committed one of the audit
                 \* record and the new state without the other
    checkFailures, \* statements that have failed
    edits,       \* requests of the server that have changed an experiment or a rule
    aux_shared   \* history: the sessions in which two actions overlapped, a refused one
                 \* included, or one survived its check

guardrails_rows == <<exps, guards, over, edits>>
guardrails_vars == <<guardrails_rows, halved, check, ses, tasks, checkFailures,
                     aux_shared>>

-----------------------------------------------------------------------------

GuardedRow == [state : States, edit : 0..MaxEdits]
GuardActions == {"pause", "force_control"}
GuardRule == [experiment : Guarded, action : GuardActions, archived : BOOLEAN]

\* The state that an action sets.
Target(action) == IF action = "pause" THEN "paused" ELSE "security_halted"

NoCheck == [at |-> "resting", of |-> "none"]
CleanSession == [locks |-> {}, rows |-> <<>>, records |-> {}, savers |-> {}]
NoTasks == <<>>

Put(f, key, value) == [k \in DOMAIN f \union {key} |-> IF k = key THEN value ELSE f[k]]
Without(f, key) == Restrict(f, DOMAIN f \ {key})

GuardrailsInit ==
    /\ exps = [e \in Guarded |-> [state |-> "started", edit |-> 0]]
    /\ guards = <<>> /\ over = {} /\ edits = 0 /\ checkFailures = 0
    /\ check = NoCheck
    /\ ses = [s \in CheckSessions |-> CleanSession]
    /\ tasks = [s \in CheckSessions |-> NoTasks]
    /\ halved = [s \in CheckSessions |-> {}]
    /\ aux_shared = {}

-----------------------------------------------------------------------------
(* Requests.                                                               *)

CreateRule(g, e, action) ==
    /\ g \notin DOMAIN guards
    /\ guards' = Put(guards, g, [experiment |-> e, action |-> action, archived |-> FALSE])
    /\ UNCHANGED <<exps, over, edits, halved, check, ses, tasks, checkFailures,
                   aux_shared>>

\* UpdateRule saves every column but the experiment and the metric. It does not ask whether
\* the rule is archived, and a copy read before ArchiveRule brings the rule back.
UpdateRule(g, action) ==
    /\ g \in DOMAIN guards /\ edits < MaxEdits
    /\ \E archived \in {guards[g].archived, FALSE} :
          guards' = [guards EXCEPT ![g].action = action, ![g].archived = archived]
    /\ edits' = edits + 1
    /\ UNCHANGED <<exps, over, halved, check, ses, tasks, checkFailures, aux_shared>>

ArchiveRule(g) ==
    /\ g \in DOMAIN guards /\ edits < MaxEdits
    /\ guards' = [guards EXCEPT ![g].archived = TRUE]
    /\ edits' = edits + 1
    /\ UNCHANGED <<exps, over, halved, check, ses, tasks, checkFailures, aux_shared>>

LockedElsewhere(s, e) == \E t \in CheckSessions \ {s} : e \in ses[t].locks

\* A request of the server edits an experiment or changes its state; it waits for the row.
OtherRequest(e, state) ==
    /\ edits < MaxEdits
    /\ state = exps[e].state \/ <<exps[e].state, state>> \in ValidTransitions
    /\ \A s \in CheckSessions : e \notin ses[s].locks
    /\ exps' = [exps EXCEPT ![e] = [state |-> state, edit |-> edits + 1]]
    /\ edits' = edits + 1
    /\ UNCHANGED <<guards, over, halved, check, ses, tasks, checkFailures, aux_shared>>

MetricMoves(g) ==
    /\ over' = IF g \in over THEN over \ {g} ELSE over \union {g}
    /\ UNCHANGED <<exps, guards, edits, halved, check, ses, tasks, checkFailures,
                   aux_shared>>

-----------------------------------------------------------------------------
(* A check.                                                                *)

\* What all_running and for_experiments find.
Watched ==
    {g \in DOMAIN guards : ~guards[g].archived /\ exps[guards[g].experiment].state = "started"}

StartCheck(s) ==
    /\ check = NoCheck /\ DOMAIN tasks[s] = {} /\ Watched # {}
    /\ check' = [at |-> "checking", of |-> s]
    /\ tasks' = [tasks EXCEPT ![s] =
                   [g \in Watched |-> [at |-> "revising", experiment |-> guards[g].experiment,
                                       action |-> guards[g].action, copy |-> <<>>]]]
    /\ halved' = [halved EXCEPT ![s] = {}]
    /\ aux_shared' = aux_shared \ {s}
    /\ UNCHANGED <<guardrails_rows, ses, checkFailures>>

Task(s, g) == tasks[s][g]
IsAt(s, g, at) == g \in DOMAIN tasks[s] /\ Task(s, g).at = at
Acting(s) == {g \in DOMAIN tasks[s] : Task(s, g).at # "revising"}
\* An action of g begins, or ends, while another is under way on the session.
Overlaps(s, g) ==
    aux_shared' = IF Acting(s) \subseteq {g} THEN aux_shared ELSE aux_shared \union {s}

\* The row as the session sees it.
Seen(s, e) == IF e \in DOMAIN ses[s].rows THEN ses[s].rows[e] ELSE exps[e]

\* The evaluator gives None, or a value that is not above the threshold; a query that
\* fails counts as zero.
Spared(s, g) ==
    /\ IsAt(s, g, "revising")
    /\ \/ g \notin over /\ UNCHANGED checkFailures
       \/ checkFailures < MaxCheckFailures /\ checkFailures' = checkFailures + 1
    /\ tasks' = [tasks EXCEPT ![s] = Without(@, g)]
    /\ UNCHANGED <<guardrails_rows, halved, check, ses, aux_shared>>

\* SELECT ... FOR UPDATE waits for other sessions, never for its own.
MayTake(s, e) == ~LockedElsewhere(s, e)

\* Mutant of Taken: get_latest_by_id is not asked for a lock.
TakenUnlocked(s, e) == ses[s].locks

Taken(s, e) == ses[s].locks \union {e}

\* The state setter raises CannotTransition.
Refuses(from, to) == ~CanSetState(from, to)

\* The excess is found, the row is read again and locked, and the new state is set.
LockExperiment(s, g) ==
    LET e == Task(s, g).experiment
        to == Target(Task(s, g).action)
    IN /\ IsAt(s, g, "revising") /\ g \in over /\ MayTake(s, e)
       /\ ~Refuses(Seen(s, e).state, to)
       /\ ses' = [ses EXCEPT ![s].locks = Taken(s, e)]
       /\ tasks' = [tasks EXCEPT ![s][g].at = "locked",
                                 ![s][g].copy = [Seen(s, e) EXCEPT !.state = to]]
       /\ Overlaps(s, g)
       /\ UNCHANGED <<guardrails_rows, halved, check, checkFailures>>

\* audit_log.write. The notification that follows is published in a session of its own, and
\* leaves this one as it is.
WriteRecord(s, g) ==
    /\ IsAt(s, g, "locked") /\ ~LockedElsewhere(s, Task(s, g).experiment)
    /\ ses' = [ses EXCEPT ![s].records = @ \union {g}]
    /\ tasks' = [tasks EXCEPT ![s][g].at = "recorded"]
    /\ UNCHANGED <<guardrails_rows, halved, check, checkFailures, aux_shared>>

\* experiments.save writes the whole row.
SaveExperiment(s, g) ==
    LET e == Task(s, g).experiment IN
    /\ IsAt(s, g, "recorded") /\ ~LockedElsewhere(s, e)
    /\ ses' = [ses EXCEPT ![s].locks = @ \union {e}, ![s].rows = Put(@, e, Task(s, g).copy),
                          ![s].savers = @ \union {g}]
    /\ tasks' = [tasks EXCEPT ![s][g].at = "saved"]
    /\ UNCHANGED <<guardrails_rows, halved, check, checkFailures, aux_shared>>

\* Mutants of Committed: the record is written by a session of its own; the transaction
\* ends without COMMIT.
CommittedSaves(session) == [session EXCEPT !.records = {}]
CommittedNothing(session) == CleanSession

\* What a COMMIT of the session makes of its writes: all of them, whoever has written them.
Committed(session) == session

\* The end of _take_action.
CommitAction(s, g) ==
    /\ IsAt(s, g, "saved")
    /\ LET done == Committed(ses[s]) IN
         /\ exps' = [e \in Guarded |-> IF e \in DOMAIN done.rows THEN done.rows[e] ELSE exps[e]]
         /\ halved' = [halved EXCEPT ![s] =
                         SymDiff(@, SymDiff(done.records, done.savers))]
    /\ ses' = [ses EXCEPT ![s] = CleanSession]
    /\ tasks' = [tasks EXCEPT ![s] = Without(@, g)]
    /\ UNCHANGED <<guards, over, edits, check, checkFailures, aux_shared>>

\* An exception leaves the action: ROLLBACK, also of what others have written; the gathers
\* raise, but for a check that has failed already.
Leave(s, g) ==
    /\ ses' = [ses EXCEPT ![s] = CleanSession]
    /\ tasks' = [tasks EXCEPT ![s] = Without(@, g)]
    /\ check' = IF check.of = s THEN [check EXCEPT !.at = "failing"] ELSE check
    /\ Overlaps(s, g)
    /\ UNCHANGED <<guardrails_rows, halved>>

\* The experiment was stopped or acted upon since all_running.
Refused(s, g) ==
    LET e == Task(s, g).experiment IN
    /\ IsAt(s, g, "revising") /\ g \in over /\ MayTake(s, e)
    /\ Refuses(Seen(s, e).state, Target(Task(s, g).action))
    /\ Leave(s, g)
    /\ UNCHANGED checkFailures

\* A statement raises, the SELECT of the row or a later one: lost connection, deadlock,
\* two coroutines at once on a session.
StatementFails(s, g) ==
    /\ g \in Acting(s) \/ (IsAt(s, g, "revising") /\ g \in over)
    /\ checkFailures < MaxCheckFailures
    /\ Leave(s, g)
    /\ checkFailures' = checkFailures + 1

\* The check ends when all its tasks have, or fails: the request's container closes the
\* session, which rolls back, and the remaining tasks go on.
EndCheck ==
    /\ \/ check.at = "checking" /\ DOMAIN tasks[check.of] = {}
       \/ check.at = "failing"
    /\ ses' = [ses EXCEPT ![check.of] = CleanSession]
    /\ aux_shared' = IF DOMAIN tasks[check.of] = {} THEN aux_shared
                     ELSE aux_shared \union {check.of}
    /\ check' = NoCheck
    /\ UNCHANGED <<guardrails_rows, halved, tasks, checkFailures>>

\* The process dies, and starts again.
WorkerDies ==
    /\ check # NoCheck \/ \E s \in CheckSessions : DOMAIN tasks[s] # {}
    /\ checkFailures < MaxCheckFailures
    /\ check' = NoCheck
    /\ ses' = [s \in CheckSessions |-> CleanSession]
    /\ tasks' = [s \in CheckSessions |-> NoTasks]
    /\ checkFailures' = checkFailures + 1
    /\ UNCHANGED <<guardrails_rows, halved, aux_shared>>

-----------------------------------------------------------------------------

RuleRequest(g) ==
    \/ \E e \in Guarded, action \in GuardActions : CreateRule(g, e, action)
    \/ \E action \in GuardActions : UpdateRule(g, action)
    \/ ArchiveRule(g)

\* A step of _revise_rule that does not depend on a failure.
Revise(s, g) ==
    \/ LockExperiment(s, g) \/ Refused(s, g) \/ WriteRecord(s, g)
    \/ SaveExperiment(s, g) \/ CommitAction(s, g)

GuardrailsNext ==
    \/ \E g \in GuardIds : RuleRequest(g) \/ MetricMoves(g)
    \/ \E e \in Guarded, state \in States : OtherRequest(e, state)
    \/ \E s \in CheckSessions : StartCheck(s)
    \/ \E s \in CheckSessions, g \in GuardIds :
          Spared(s, g) \/ Revise(s, g) \/ StatementFails(s, g)
    \/ EndCheck
    \/ WorkerDies

GuardrailsSpec == GuardrailsInit /\ [][GuardrailsNext]_guardrails_vars

\* GuardrailWorker.start catches every exception, sleeps, and checks again; the event loop
\* does not stop while one of its tasks can go on.
FairChecks ==
    /\ WF_guardrails_vars(EndCheck)
    /\ WF_guardrails_vars(\E s \in CheckSessions : StartCheck(s))
    /\ WF_guardrails_vars(\E s \in CheckSessions, g \in GuardIds : Revise(s, g) \/ Spared(s, g))

-----------------------------------------------------------------------------

\* The types; locks are held by sessions that have something under way.
GuardrailsTypeOK ==
    /\ exps \in [Guarded -> GuardedRow]
    /\ DOMAIN guards \subseteq GuardIds /\ guards \in [DOMAIN guards -> GuardRule]
    /\ over \subseteq GuardIds
    /\ check \in {NoCheck} \union [at : {"checking", "failing"}, of : CheckSessions]
    /\ \A s \in CheckSessions :
          /\ ses[s].locks \subseteq Guarded /\ DOMAIN ses[s].rows \subseteq ses[s].locks
          /\ ses[s].records \subseteq GuardIds /\ ses[s].savers \subseteq GuardIds
          /\ DOMAIN tasks[s] \subseteq GuardIds
          /\ halved[s] \subseteq GuardIds
    /\ aux_shared \subseteq CheckSessions

\* Each action that was committed has its record, and each record its action, through
\* failures at any statement, but where two actions shared a session at once or one
\* survived its check (_take_action on the transaction of the whole RegularCheck).
ActionsAreRecorded ==
    \A s \in CheckSessions \ aux_shared : halved[s] = {}

\* The guard never takes back what a request has committed, and moves experiments along the
\* transition table (get_latest_by_id with lock=True, then a save of the whole row three
\* awaits later); but for rows that are written on a session where two actions met, or that
\* outlived its check: one's ROLLBACK releases the lock under which the other has read.
GuardWritesFresh ==
    [][\A e \in Guarded :
          \/ \E s \in aux_shared : e \in DOMAIN ses[s].rows
          \/ exps'[e].edit >= exps[e].edit
             /\ (exps'[e].state # exps[e].state =>
                    <<exps[e].state, exps'[e].state>> \in ValidTransitions)]_guardrails_vars

\* The rule would stop the experiment if it were evaluated now.
Harmed(g, e) ==
    /\ g \in over /\ g \in DOMAIN guards
    /\ ~guards[g].archived /\ guards[g].experiment = e
    /\ exps[e].state = "started"

\* An experiment does not stay started above the threshold of its rule, although checks
\* fail and actions outlive them (GuardrailWorker.start); but where another rule fires at
\* the same time, whose refusal can roll this one's action back in every check.
HarmIsStopped ==
    \A g \in GuardIds, e \in Guarded : Harmed(g, e) ~> ~Harmed(g, e) \/ over # {g}
=============================================================================
