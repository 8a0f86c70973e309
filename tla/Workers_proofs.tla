---------------------------- MODULE Workers_proofs ----------------------------
(***************************************************************************)
(* What the readers of the attribution worker, of the guardrail worker and *)
(* of the notification worker may rely on, for every set of events, rules, *)
(* sessions, publishers and channels and for every bound of the models.    *)
(***************************************************************************)
EXTENDS Attribution, Guardrails, Notifications, TLAPS

\* AttributionTypeOK, and that worker is a record.
TypeInv ==
    /\ events \in [Events -> Statuses]
    /\ worker \in [at : {"resting", "attributing", "attributed", "expiring"}, rows : SUBSET Events]
    /\ \A e \in worker.rows : events[e] # "absent"
    /\ copies \in [Events -> 0..MaxCopies]
    /\ aux_accepted \subseteq Events /\ aux_due \subseteq Events

\* What is accepted, or is going to be, has a parent; a due event is read by the first
\* statement, then accepted, then not read by the second.
ParentInv ==
    /\ NoPhantomConversion
    /\ AcceptedNow \subseteq aux_accepted
    /\ worker.at = "attributing" =>
           \A e \in worker.rows : \E p \in aux_accepted : IsParent(p, e)

DueInv ==
    /\ worker.at = "attributing" => aux_due \subseteq worker.rows
    /\ worker.at = "attributed" => \A e \in aux_due : events[e] = "accepted"
    /\ AttributedBeforeExpired

LEMMA TypeFollows == TypeInv => AttributionTypeOK
  BY DEF TypeInv, AttributionTypeOK

\* A status that the server writes is waiting or accepted, the latter only for a type
\* that wants no other (_to_event).
LEMMA FirstStatusFacts ==
    ASSUME NEW e \in Events
    PROVE  /\ FirstStatus(e) \in {"waiting", "accepted"}
           /\ FirstStatus(e) = "accepted" => Wants[e.type] = None
  BY DEF FirstStatus

LEMMA TypeInit == AttributionInit => TypeInv
  BY CopiesAreBounded
  DEF AttributionInit, TableInit, TypeInv, Statuses, Resting

LEMMA TypeStep == TypeInv /\ [AttributionNext]_attribution_vars => TypeInv'
<1> SUFFICES ASSUME TypeInv, [AttributionNext]_attribution_vars PROVE TypeInv'
  OBVIOUS
<1> USE DEF TypeInv
<1>1. ASSUME NEW rows \in SUBSET Events, Flush(rows) PROVE TypeInv'
  <2>1. \A e \in Events : copies[e] \in 0..MaxCopies
    OBVIOUS
  <2>2. copies' \in [Events -> 0..MaxCopies]
    BY <1>1, <2>1, CopiesAreBounded DEF Flush
  <2>3. events' \in [Events -> Statuses] /\ \A e \in Events : events[e] # "absent" => events'[e] # "absent"
    BY <1>1, FirstStatusFacts DEF Flush, InsertRows, Statuses
  <2>4. aux_accepted' \subseteq Events /\ aux_due' \subseteq Events
    BY <1>1 DEF Flush, AcceptedNow
  <2> QED
    BY <1>1, <2>2, <2>3, <2>4 DEF Flush
<1>2. ASSUME NEW e \in Events, SevenDaysPass(e) PROVE TypeInv'
  BY <1>2 DEF SevenDaysPass, Statuses, worker_vars
<1>3. CASE StartAttribution
  BY <1>3 DEF StartAttribution, Attributable, Waiting
<1>4. CASE StartExpiration
  BY <1>4 DEF StartExpiration, Expirable
<1>5. ASSUME NEW status \in {"accepted", "despair"}, Rewrite(status)
      PROVE  /\ events' \in [Events -> Statuses]
             /\ \A e \in Events : events[e] # "absent" => events'[e] # "absent"
             /\ copies' = copies /\ aux_accepted' \subseteq Events
  BY <1>5 DEF Rewrite, Statuses, AcceptedNow
<1>6. CASE FinishAttribution
  BY <1>5, <1>6 DEF FinishAttribution
<1>7. CASE FinishExpiration
  BY <1>5, <1>7 DEF FinishExpiration, Resting
<1>8. CASE CycleFails
  <2>1. \/ Rewrite("accepted") \/ Rewrite("despair")
        \/ UNCHANGED <<events, copies, aux_accepted>>
    BY <1>8 DEF CycleFails, HalfDone
  <2> QED
    BY <1>5, <1>8, <2>1 DEF CycleFails, HalfDone, Resting
<1>9. CASE UNCHANGED attribution_vars
  BY <1>9 DEF attribution_vars, worker_vars
<1> QED
  BY <1>1, <1>2, <1>3, <1>4, <1>6, <1>7, <1>8, <1>9 DEF AttributionNext, Cycle

\* The worker and the table have the states the model names, and a statement under way
\* has read rows that were received (AttributionTypeOK).
THEOREM AttributionTypeCorrect == AttributionSpec => []AttributionTypeOK
<1>1. AttributionSpec => []TypeInv
  BY TypeInit, TypeStep, PTL DEF AttributionSpec
<1> QED
  BY <1>1, TypeFollows, PTL

-----------------------------------------------------------------------------

LEMMA ParentStep ==
    TypeInv /\ ParentInv /\ [AttributionNext]_attribution_vars => ParentInv'
<1> SUFFICES ASSUME TypeInv, ParentInv, [AttributionNext]_attribution_vars PROVE ParentInv'
  OBVIOUS
<1> USE DEF TypeInv, ParentInv, NoPhantomConversion, IsParent
<1>0. \A e \in AcceptedNow : Wants[e.type] # None => \E p \in aux_accepted : IsParent(p, e)
  OBVIOUS
<1>1. ASSUME NEW rows \in SUBSET Events, Flush(rows) PROVE ParentInv'
  <2>1. \A e \in AcceptedNow' : e \in AcceptedNow \/ Wants[e.type] = None
    BY <1>1, FirstStatusFacts DEF Flush, InsertRows, AcceptedNow
  <2>2. aux_accepted' = aux_accepted \union AcceptedNow' /\ worker' = worker
    BY <1>1 DEF Flush
  <2> QED
    BY <1>0, <2>1, <2>2
<1>2. ASSUME NEW e \in Events, SevenDaysPass(e) PROVE ParentInv'
  <2>1. AcceptedNow' \subseteq AcceptedNow
    BY <1>2 DEF SevenDaysPass, AcceptedNow
  <2> QED
    BY <1>2, <2>1 DEF SevenDaysPass, worker_vars
<1>3. CASE StartAttribution
  <2>1. \A e \in Attributable : \E p \in aux_accepted : IsParent(p, e)
    BY DEF Attributable
  <2>2. AcceptedNow' = AcceptedNow /\ aux_accepted' = aux_accepted
    BY <1>3 DEF StartAttribution, AcceptedNow
  <2> QED
    BY <1>3, <2>1, <2>2 DEF StartAttribution
<1>4. CASE StartExpiration
  BY <1>4 DEF StartExpiration, AcceptedNow
<1>5. ASSUME Rewrite("accepted"), worker.at = "attributing"
      PROVE  /\ NoPhantomConversion' /\ (AcceptedNow \subseteq aux_accepted)'
  <2>1. AcceptedNow' \subseteq AcceptedNow \union worker.rows
    BY <1>5 DEF Rewrite, AcceptedNow
  <2>2. \A e \in worker.rows : \E p \in aux_accepted : IsParent(p, e)
    BY <1>5
  <2> QED
    BY <1>0, <1>5, <2>1, <2>2 DEF Rewrite
<1>6. ASSUME Rewrite("despair")
      PROVE  /\ NoPhantomConversion' /\ (AcceptedNow \subseteq aux_accepted)'
  <2>1. AcceptedNow' \subseteq AcceptedNow
    BY <1>6 DEF Rewrite, AcceptedNow
  <2> QED
    BY <1>0, <1>6, <2>1 DEF Rewrite
<1>7. CASE FinishAttribution
  BY <1>5, <1>7 DEF FinishAttribution
<1>8. CASE FinishExpiration
  BY <1>6, <1>8 DEF FinishExpiration, Resting
<1>9. CASE CycleFails
  <2>1. worker'.at = "resting"
    BY <1>9 DEF CycleFails, Resting
  <2>2. CASE Rewrite("accepted") /\ worker.at = "attributing"
    BY <1>5, <2>1, <2>2
  <2>3. CASE Rewrite("despair")
    BY <1>6, <2>1, <2>3
  <2>4. CASE UNCHANGED <<events, copies, aux_accepted>>
    BY <2>1, <2>4 DEF AcceptedNow
  <2> QED
    BY <1>9, <2>2, <2>3, <2>4 DEF CycleFails, HalfDone
<1>10. CASE UNCHANGED attribution_vars
  BY <1>10 DEF attribution_vars, worker_vars, AcceptedNow
<1> QED
  BY <1>1, <1>2, <1>3, <1>4, <1>7, <1>8, <1>9, <1>10 DEF AttributionNext, Cycle

\* No event that wants another is accepted without one that was: of the wanted type, of
\* the same decision (attribution_query).
THEOREM NoPhantoms == AttributionSpec => []NoPhantomConversion
<1>1. AttributionInit => ParentInv
  BY DEF AttributionInit, TableInit, ParentInv, NoPhantomConversion, AcceptedNow, Resting
<1>2. AttributionSpec => []TypeInv
  BY TypeInit, TypeStep, PTL DEF AttributionSpec
<1>3. AttributionSpec => []ParentInv
  BY <1>1, <1>2, ParentStep, PTL DEF AttributionSpec
<1>4. ParentInv => NoPhantomConversion
  BY DEF ParentInv
<1> QED
  BY <1>3, <1>4, PTL

-----------------------------------------------------------------------------

LEMMA DueStep == TypeInv /\ DueInv /\ [AttributionNext]_attribution_vars => DueInv'
<1> SUFFICES ASSUME TypeInv, DueInv, [AttributionNext]_attribution_vars PROVE DueInv'
  OBVIOUS
<1> USE DEF TypeInv, DueInv, AttributedBeforeExpired
<1>1. ASSUME NEW rows \in SUBSET Events, Flush(rows) PROVE DueInv'
  <2>1. aux_due' = aux_due \ rows /\ worker' = worker
    BY <1>1 DEF Flush
  <2>2. \A e \in aux_due' : events'[e] = events[e]
    BY <1>1, <2>1 DEF Flush, InsertRows
  <2> QED
    BY <2>1, <2>2
<1>2. ASSUME NEW e \in Events, SevenDaysPass(e) PROVE DueInv'
  BY <1>2 DEF SevenDaysPass, worker_vars
<1>3. CASE StartAttribution
  BY <1>3 DEF StartAttribution
<1>4. CASE StartExpiration
  BY <1>4 DEF StartExpiration, Expirable
<1>5. CASE FinishAttribution
  BY <1>5 DEF FinishAttribution, Rewrite
<1>6. CASE FinishExpiration
  BY <1>6 DEF FinishExpiration, Resting
<1>7. CASE CycleFails
  BY <1>7 DEF CycleFails, HalfDone, Resting
<1>8. CASE UNCHANGED attribution_vars
  BY <1>8 DEF attribution_vars, worker_vars
<1> QED
  BY <1>1, <1>2, <1>3, <1>4, <1>5, <1>6, <1>7, <1>8 DEF AttributionNext, Cycle

\* An event whose parent was there when a cycle began is not given up in that cycle
\* (_run_attribution_cycle).
THEOREM DueEventsAreNotGivenUp == AttributionSpec => []AttributedBeforeExpired
<1>1. AttributionInit => DueInv
  BY DEF AttributionInit, DueInv, AttributedBeforeExpired, Resting
<1>2. AttributionSpec => []TypeInv
  BY TypeInit, TypeStep, PTL DEF AttributionSpec
<1>3. AttributionSpec => []DueInv
  BY <1>1, <1>2, DueStep, PTL DEF AttributionSpec
<1>4. DueInv => AttributedBeforeExpired
  BY DEF DueInv
<1> QED
  BY <1>3, <1>4, PTL

-----------------------------------------------------------------------------
(* The guardrail worker.                                                   *)

Stages == {"revising", "locked", "recorded", "saved"}
StagesOfAction == Stages \ {"revising"}

TaskRecord == [at : Stages, experiment : Guarded, action : GuardActions,
               copy : GuardedRow \union {<<>>}]
SomeRows == UNION {[d -> GuardedRow] : d \in SUBSET Guarded}
SessionRecord == [locks : SUBSET Guarded, rows : SomeRows,
                  records : SUBSET GuardIds, savers : SUBSET GuardIds]

\* GuardrailsTypeOK, what sessions and tasks are, and the copy of each action under way.
GuardTypeInv ==
    /\ GuardrailsTypeOK
    /\ edits \in 0..MaxEdits /\ checkFailures \in 0..MaxCheckFailures
    /\ ses \in [CheckSessions -> SessionRecord]
    /\ DOMAIN tasks = CheckSessions /\ DOMAIN halved = CheckSessions
    /\ \A s \in CheckSessions : \A g \in DOMAIN tasks[s] :
          tasks[s][g] \in TaskRecord /\ (g \in Acting(s) => tasks[s][g].copy \in GuardedRow)

IsClean(s) ==
    /\ ses[s].locks = {} /\ DOMAIN ses[s].rows = {}
    /\ ses[s].records = {} /\ ses[s].savers = {}

\* The experiment is locked and as it was when g read it; the session holds what g has
\* written so far, and nothing else.
HoldsItsWrites(s, g) ==
    LET task == tasks[s][g]
        e == task.experiment
    IN /\ ses[s].locks = {e}
       /\ task.copy.edit = exps[e].edit
       /\ CanSetState(exps[e].state, task.copy.state)
       /\ ses[s].records = (IF task.at = "locked" THEN {} ELSE {g})
       /\ ses[s].savers = (IF task.at = "saved" THEN {g} ELSE {})
       /\ DOMAIN ses[s].rows = (IF task.at = "saved" THEN {e} ELSE {})
       /\ task.at = "saved" => ses[s].rows[e] = task.copy

\* A session without an action under way is clean; where actions have not overlapped, it has
\* one at most, whose writes it holds.
SessionOK(s) ==
    /\ Acting(s) = {} => IsClean(s)
    /\ s \notin aux_shared => /\ halved[s] = {}
                              /\ \A g \in Acting(s) : Acting(s) = {g} /\ HoldsItsWrites(s, g)

\* A row is locked by one session.
SessionInv ==
    /\ \A s, t \in CheckSessions : s # t => ses[s].locks \intersect ses[t].locks = {}
    /\ \A s \in CheckSessions : SessionOK(s)

LEMMA SomeRowsFacts ==
    /\ \A f \in SomeRows : DOMAIN f \subseteq Guarded /\ \A e \in DOMAIN f : f[e] \in GuardedRow
    /\ <<>> \in SomeRows /\ DOMAIN <<>> = {}
<1>1. DOMAIN <<>> = {} /\ <<>> \in [{} -> GuardedRow]
  OBVIOUS
<1>2. <<>> \in SomeRows
  BY <1>1 DEF SomeRows
<1>3. ASSUME NEW f \in SomeRows
      PROVE  DOMAIN f \subseteq Guarded /\ \A e \in DOMAIN f : f[e] \in GuardedRow
  BY <1>3 DEF SomeRows
<1> QED BY <1>1, <1>2, <1>3

LEMMA PutRow ==
    ASSUME NEW f \in SomeRows, NEW e \in Guarded, NEW value \in GuardedRow
    PROVE  Put(f, e, value) \in SomeRows
<1> DEFINE d == DOMAIN f \union {e}
<1>1. Put(f, e, value) \in [d -> GuardedRow] /\ d \in SUBSET Guarded
  BY SomeRowsFacts DEF Put
<1> QED BY <1>1 DEF SomeRows

LEMMA CleanFacts ==
    /\ CleanSession \in SessionRecord
    /\ CleanSession.locks = {} /\ DOMAIN CleanSession.rows = {}
    /\ CleanSession.records = {} /\ CleanSession.savers = {}
  BY SomeRowsFacts DEF CleanSession, SessionRecord

\* The task of g becomes this; or it ends.
TaskBecomes(s, g, task) ==
    /\ DOMAIN tasks' = CheckSessions /\ DOMAIN tasks'[s] = DOMAIN tasks[s]
    /\ tasks'[s][g] = task
    /\ \A h \in DOMAIN tasks[s] \ {g} : tasks'[s][h] = tasks[s][h]
    /\ \A t \in CheckSessions \ {s} : tasks'[t] = tasks[t]

TaskEnds(s, g) ==
    /\ DOMAIN tasks' = CheckSessions /\ DOMAIN tasks'[s] = DOMAIN tasks[s] \ {g}
    /\ \A h \in DOMAIN tasks'[s] : tasks'[s][h] = tasks[s][h]
    /\ \A t \in CheckSessions \ {s} : tasks'[t] = tasks[t]

LEMMA WithoutEnds ==
    ASSUME DOMAIN tasks = CheckSessions, NEW s \in CheckSessions, NEW g,
           tasks' = [tasks EXCEPT ![s] = Without(@, g)]
    PROVE  TaskEnds(s, g)
<1>1. /\ DOMAIN tasks' = CheckSessions /\ tasks'[s] = Without(tasks[s], g)
      /\ \A t \in CheckSessions \ {s} : tasks'[t] = tasks[t]
  OBVIOUS
<1>2. /\ DOMAIN tasks'[s] = DOMAIN tasks[s] \ {g}
      /\ \A h \in DOMAIN tasks[s] \ {g} : tasks'[s][h] = tasks[s][h]
  BY <1>1 DEF Without, Restrict
<1> QED BY <1>1, <1>2 DEF TaskEnds

\* What the steps of an action do to the tasks and to the session, with its types.
LEMMA LockFacts ==
    ASSUME GuardTypeInv, NEW s \in CheckSessions, NEW g \in GuardIds, LockExperiment(s, g)
    PROVE  LET e == tasks[s][g].experiment
               copy == [Seen(s, e) EXCEPT !.state = Target(tasks[s][g].action)]
           IN /\ g \in DOMAIN tasks[s] /\ g \notin Acting(s) /\ e \in Guarded
              /\ copy \in GuardedRow /\ copy.edit = Seen(s, e).edit
              /\ CanSetState(Seen(s, e).state, copy.state)
              /\ TaskBecomes(s, g, [tasks[s][g] EXCEPT !.at = "locked", !.copy = copy])
              /\ \A t \in CheckSessions \ {s} : e \notin ses[t].locks
              /\ ses' = [ses EXCEPT ![s] = [ses[s] EXCEPT !.locks = @ \union {e}]]
              /\ ses' \in [CheckSessions -> SessionRecord]
<1> DEFINE e == tasks[s][g].experiment
           to == Target(tasks[s][g].action)
           copy == [Seen(s, e) EXCEPT !.state = to]
<1>1. /\ g \in DOMAIN tasks[s] /\ tasks[s][g] \in TaskRecord /\ e \in Guarded
      /\ tasks[s][g].at = "revising"
  BY DEF LockExperiment, IsAt, Task, GuardTypeInv, TaskRecord
<1>2. to \in States
  BY <1>1 DEF TaskRecord, Target, States
<1>3. Seen(s, e) \in GuardedRow
  BY <1>1, SomeRowsFacts DEF Seen, GuardTypeInv, GuardrailsTypeOK, SessionRecord
<1>4. copy \in GuardedRow /\ copy.edit = Seen(s, e).edit /\ copy.state = to
  BY <1>2, <1>3 DEF GuardedRow
<1>5. CanSetState(Seen(s, e).state, copy.state)
  BY <1>4 DEF LockExperiment, Refuses, Task
<1>6. TaskBecomes(s, g, [tasks[s][g] EXCEPT !.at = "locked", !.copy = copy])
  BY <1>1 DEF LockExperiment, TaskBecomes, GuardTypeInv, Task
<1>7. /\ ses' = [ses EXCEPT ![s] = [ses[s] EXCEPT !.locks = @ \union {e}]]
      /\ \A t \in CheckSessions \ {s} : e \notin ses[t].locks
  BY DEF LockExperiment, Taken, Task, MayTake, LockedElsewhere
<1>8. ses' \in [CheckSessions -> SessionRecord]
  BY <1>1, <1>7 DEF GuardTypeInv, SessionRecord
<1> QED BY <1>1, <1>4, <1>5, <1>6, <1>7, <1>8 DEF Acting, Task

LEMMA RecordFacts ==
    ASSUME GuardTypeInv, NEW s \in CheckSessions, NEW g \in GuardIds, WriteRecord(s, g)
    PROVE  /\ g \in Acting(s) /\ tasks[s][g].at = "locked"
           /\ TaskBecomes(s, g, [tasks[s][g] EXCEPT !.at = "recorded"])
           /\ ses' = [ses EXCEPT ![s] = [ses[s] EXCEPT !.records = @ \union {g}]]
           /\ ses' \in [CheckSessions -> SessionRecord]
<1>1. g \in DOMAIN tasks[s] /\ tasks[s][g] \in TaskRecord /\ tasks[s][g].at = "locked"
  BY DEF WriteRecord, IsAt, Task, GuardTypeInv
<1>2. TaskBecomes(s, g, [tasks[s][g] EXCEPT !.at = "recorded"])
  BY <1>1 DEF WriteRecord, TaskBecomes, GuardTypeInv, Task
<1>3. ses' = [ses EXCEPT ![s] = [ses[s] EXCEPT !.records = @ \union {g}]]
  BY DEF WriteRecord
<1>4. ses' \in [CheckSessions -> SessionRecord]
  BY <1>3 DEF GuardTypeInv, SessionRecord
<1> QED BY <1>1, <1>2, <1>3, <1>4 DEF Acting, Task

LEMMA SaveFacts ==
    ASSUME GuardTypeInv, NEW s \in CheckSessions, NEW g \in GuardIds, SaveExperiment(s, g)
    PROVE  LET task == tasks[s][g]  e == task.experiment IN
           /\ g \in Acting(s) /\ task.at = "recorded" /\ e \in Guarded
           /\ TaskBecomes(s, g, [task EXCEPT !.at = "saved"])
           /\ \A t \in CheckSessions \ {s} : e \notin ses[t].locks
           /\ ses' = [ses EXCEPT ![s] =
                         [ses[s] EXCEPT !.locks = @ \union {e}, !.rows = Put(@, e, task.copy),
                                        !.savers = @ \union {g}]]
           /\ ses' \in [CheckSessions -> SessionRecord]
           /\ DOMAIN Put(ses[s].rows, e, task.copy) = DOMAIN ses[s].rows \union {e}
           /\ Put(ses[s].rows, e, task.copy)[e] = task.copy
<1> DEFINE task == tasks[s][g]
           e == task.experiment
           rows == Put(ses[s].rows, e, task.copy)
<1>1. g \in DOMAIN tasks[s] /\ task \in TaskRecord /\ task.at = "recorded" /\ e \in Guarded
  BY DEF SaveExperiment, IsAt, Task, GuardTypeInv, TaskRecord
<1>2. g \in Acting(s) /\ task.copy \in GuardedRow
  BY <1>1 DEF Acting, Task, GuardTypeInv
<1>3. TaskBecomes(s, g, [task EXCEPT !.at = "saved"])
  BY <1>1 DEF SaveExperiment, TaskBecomes, GuardTypeInv, Task
<1>4. ses[s] \in SessionRecord /\ DOMAIN ses = CheckSessions
  BY DEF GuardTypeInv
<1>5. rows \in SomeRows /\ DOMAIN rows = DOMAIN ses[s].rows \union {e} /\ rows[e] = task.copy
  <2>1. ses[s].rows \in SomeRows
    BY <1>4 DEF SessionRecord
  <2>2. rows \in SomeRows
    BY <1>1, <1>2, <2>1, PutRow
  <2>3. DOMAIN rows = DOMAIN ses[s].rows \union {e} /\ rows[e] = task.copy
    BY DEF Put
  <2> QED BY <2>2, <2>3
<1>6. ses' = [ses EXCEPT ![s] = [ses[s] EXCEPT !.locks = @ \union {e}, !.rows = rows,
                                              !.savers = @ \union {g}]]
  BY DEF SaveExperiment, Task
<1>7. ses' \in [CheckSessions -> SessionRecord]
  BY <1>1, <1>4, <1>5, <1>6 DEF GuardTypeInv, SessionRecord
<1>8. \A t \in CheckSessions \ {s} : e \notin ses[t].locks
  BY DEF SaveExperiment, Task, LockedElsewhere
<1> QED BY <1>1, <1>2, <1>3, <1>5, <1>6, <1>7, <1>8

LEMMA CommitFacts ==
    ASSUME GuardTypeInv, NEW s \in CheckSessions, NEW g \in GuardIds, CommitAction(s, g)
    PROVE  /\ g \in Acting(s) /\ tasks[s][g].at = "saved" /\ TaskEnds(s, g)
           /\ ses' = [ses EXCEPT ![s] = CleanSession]
           /\ exps' \in [Guarded -> GuardedRow]
           /\ \A e \in Guarded : exps'[e] = IF e \in DOMAIN ses[s].rows THEN ses[s].rows[e]
                                                                       ELSE exps[e]
           /\ halved'[s] = SymDiff(halved[s], SymDiff(ses[s].records, ses[s].savers))
           /\ DOMAIN halved' = CheckSessions
           /\ \A t \in CheckSessions \ {s} : halved'[t] = halved[t]
<1>1. g \in DOMAIN tasks[s] /\ tasks[s][g].at = "saved" /\ TaskEnds(s, g)
  BY WithoutEnds DEF CommitAction, IsAt, Task, GuardTypeInv
<1>2. \A e \in Guarded : exps'[e] = IF e \in DOMAIN ses[s].rows THEN ses[s].rows[e] ELSE exps[e]
  BY DEF CommitAction, Committed
<1>3. exps' \in [Guarded -> GuardedRow]
  BY SomeRowsFacts DEF CommitAction, Committed, GuardTypeInv, GuardrailsTypeOK, SessionRecord
<1>4. /\ ses' = [ses EXCEPT ![s] = CleanSession]
      /\ halved' = [halved EXCEPT ![s] = SymDiff(@, SymDiff(ses[s].records, ses[s].savers))]
  BY DEF CommitAction, Committed
<1> QED BY <1>1, <1>2, <1>3, <1>4 DEF Acting, Task, GuardTypeInv

LEMMA LeaveFacts ==
    ASSUME GuardTypeInv, NEW s \in CheckSessions, NEW g \in GuardIds, Leave(s, g)
    PROVE  /\ TaskEnds(s, g) /\ ses' = [ses EXCEPT ![s] = CleanSession]
           /\ check' \in {NoCheck} \union [at : {"checking", "failing"}, of : CheckSessions]
           /\ aux_shared \subseteq aux_shared' /\ aux_shared' \subseteq aux_shared \union {s}
           /\ s \notin aux_shared' => Acting(s) \subseteq {g}
<1>1. check \in {NoCheck} \union [at : {"checking", "failing"}, of : CheckSessions]
  BY DEF GuardTypeInv, GuardrailsTypeOK
<1>2. check' \in {NoCheck} \union [at : {"checking", "failing"}, of : CheckSessions]
  BY <1>1 DEF Leave, NoCheck
<1> QED BY <1>2, WithoutEnds DEF Leave, Overlaps, GuardTypeInv

\* The part of GuardTypeInv about tasks.
TasksOK ==
    /\ DOMAIN tasks = CheckSessions
    /\ \A s \in CheckSessions :
          /\ DOMAIN tasks[s] \subseteq GuardIds
          /\ \A g \in DOMAIN tasks[s] :
                tasks[s][g] \in TaskRecord /\ (g \in Acting(s) => tasks[s][g].copy \in GuardedRow)

LEMMA BecomesKeepsTasks ==
    ASSUME TasksOK, NEW s \in CheckSessions, NEW g \in DOMAIN tasks[s], NEW task \in TaskRecord,
           task.copy \in GuardedRow, TaskBecomes(s, g, task)
    PROVE  TasksOK'
<1> SUFFICES ASSUME NEW t \in CheckSessions
             PROVE  /\ DOMAIN tasks'[t] \subseteq GuardIds
                    /\ \A h \in DOMAIN tasks'[t] :
                          /\ tasks'[t][h] \in TaskRecord
                          /\ tasks'[t][h].at # "revising" => tasks'[t][h].copy \in GuardedRow
  BY DEF TasksOK, TaskBecomes, Acting, Task
<1>1. CASE t = s
  BY <1>1 DEF TasksOK, TaskBecomes, Acting, Task
<1>2. CASE t # s
  BY <1>2 DEF TasksOK, TaskBecomes, Acting, Task
<1> QED BY <1>1, <1>2

LEMMA EndsKeepsTasks ==
    ASSUME TasksOK, NEW s \in CheckSessions, NEW g, TaskEnds(s, g)
    PROVE  TasksOK'
<1> SUFFICES ASSUME NEW t \in CheckSessions
             PROVE  /\ DOMAIN tasks'[t] \subseteq GuardIds
                    /\ \A h \in DOMAIN tasks'[t] :
                          /\ tasks'[t][h] \in TaskRecord
                          /\ tasks'[t][h].at # "revising" => tasks'[t][h].copy \in GuardedRow
  BY DEF TasksOK, TaskEnds, Acting, Task
<1>1. CASE t = s
  BY <1>1 DEF TasksOK, TaskEnds, Acting, Task
<1>2. CASE t # s
  BY <1>2 DEF TasksOK, TaskEnds, Acting, Task
<1> QED BY <1>1, <1>2

LEMMA GuardTypeStep ==
    GuardTypeInv /\ [GuardrailsNext]_guardrails_vars => GuardTypeInv'
<1> SUFFICES ASSUME GuardTypeInv, [GuardrailsNext]_guardrails_vars
             PROVE  GuardTypeInv'
  OBVIOUS
<1> DEFINE Rows == /\ exps \in [Guarded -> GuardedRow]
                   /\ DOMAIN guards \subseteq GuardIds /\ guards \in [DOMAIN guards -> GuardRule]
                   /\ over \subseteq GuardIds
                   /\ edits \in 0..MaxEdits
           Rest == /\ check \in {NoCheck} \union [at : {"checking", "failing"}, of : CheckSessions]
                   /\ checkFailures \in 0..MaxCheckFailures
                   /\ ses \in [CheckSessions -> SessionRecord]
                   /\ \A s \in CheckSessions : DOMAIN ses[s].rows \subseteq ses[s].locks
                   /\ DOMAIN halved = CheckSessions
                   /\ \A s \in CheckSessions : halved[s] \subseteq GuardIds
                   /\ aux_shared \subseteq CheckSessions
<1>1. Rows /\ Rest /\ TasksOK
  BY DEF GuardTypeInv, GuardrailsTypeOK, TasksOK
<1>2. SUFFICES Rows' /\ Rest' /\ TasksOK'
  BY DEF GuardTypeInv, GuardrailsTypeOK, TasksOK, SessionRecord
<1>3. ASSUME UNCHANGED guardrails_rows PROVE Rows'
  BY <1>1, <1>3 DEF guardrails_rows
<1>4. ASSUME UNCHANGED <<halved, check, ses, tasks, checkFailures, aux_shared>>
      PROVE  Rest' /\ TasksOK'
  BY <1>1, <1>4 DEF TasksOK, Acting, Task
<1>5. ASSUME NEW g \in GuardIds, RuleRequest(g) \/ MetricMoves(g)
      PROVE  Rows' /\ Rest' /\ TasksOK'
  <2>1. ASSUME NEW e \in Guarded, NEW action \in GuardActions, CreateRule(g, e, action)
        PROVE  Rows'
    BY <1>1, <1>5, <2>1 DEF CreateRule, Put, GuardRule
  <2>2. ASSUME NEW action \in GuardActions, UpdateRule(g, action)
        PROVE  Rows'
    <3>1. PICK archived \in {guards[g].archived, FALSE} :
             guards' = [guards EXCEPT ![g].action = action, ![g].archived = archived]
      BY <2>2 DEF UpdateRule
    <3>2. archived \in BOOLEAN /\ guards[g] \in GuardRule
      BY <1>1, <2>2 DEF UpdateRule, GuardRule
    <3>3. DOMAIN guards' = DOMAIN guards /\ guards' \in [DOMAIN guards -> GuardRule]
      BY <1>1, <3>1, <3>2 DEF GuardRule
    <3>4. edits' \in 0..MaxEdits
      BY <1>1, <2>2, GuardrailsAssumption DEF UpdateRule
    <3> QED BY <1>1, <2>2, <3>3, <3>4 DEF UpdateRule
  <2>3. ASSUME ArchiveRule(g) PROVE Rows'
    <3>1. DOMAIN guards' = DOMAIN guards /\ guards' \in [DOMAIN guards -> GuardRule]
      BY <1>1, <2>3 DEF ArchiveRule, GuardRule
    <3>2. edits' \in 0..MaxEdits
      BY <1>1, <2>3, GuardrailsAssumption DEF ArchiveRule
    <3> QED BY <1>1, <2>3, <3>1, <3>2 DEF ArchiveRule
  <2>4. ASSUME MetricMoves(g) PROVE Rows'
    BY <1>1, <1>5, <2>4 DEF MetricMoves
  <2>5. UNCHANGED <<halved, check, ses, tasks, checkFailures, aux_shared>>
    BY <1>5 DEF RuleRequest, CreateRule, UpdateRule, ArchiveRule, MetricMoves
  <2> QED BY <1>4, <1>5, <2>1, <2>2, <2>3, <2>4, <2>5 DEF RuleRequest
<1>6. ASSUME NEW e \in Guarded, NEW state \in States, OtherRequest(e, state)
      PROVE  Rows' /\ Rest' /\ TasksOK'
  <2>1. /\ edits' = edits + 1 /\ edits < MaxEdits
        /\ exps' = [exps EXCEPT ![e] = [state |-> state, edit |-> edits + 1]]
        /\ UNCHANGED <<guards, over, halved, check, ses, tasks, checkFailures, aux_shared>>
    BY <1>6 DEF OtherRequest
  <2>2. edits \in Nat /\ edits' \in 0..MaxEdits
    BY <1>1, <2>1, GuardrailsAssumption
  <2>3. exps' \in [Guarded -> GuardedRow]
    BY <1>1, <2>1, <2>2 DEF GuardedRow
  <2> QED BY <1>1, <1>4, <2>1, <2>2, <2>3
<1>7. ASSUME NEW s \in CheckSessions, StartCheck(s)
      PROVE  Rows' /\ Rest' /\ TasksOK'
  <2>1. \A g \in Watched : g \in GuardIds /\ guards[g] \in GuardRule
    BY <1>1 DEF Watched
  <2>2. \A g \in Watched :
           [at |-> "revising", experiment |-> guards[g].experiment,
            action |-> guards[g].action, copy |-> <<>>] \in TaskRecord
    BY <2>1 DEF TaskRecord, GuardRule, Stages
  <2>3. /\ tasks' = [tasks EXCEPT ![s] =
                       [g \in Watched |-> [at |-> "revising", experiment |-> guards[g].experiment,
                                           action |-> guards[g].action, copy |-> <<>>]]]
        /\ check' = [at |-> "checking", of |-> s]
        /\ halved' = [halved EXCEPT ![s] = {}] /\ aux_shared' = aux_shared \ {s}
        /\ UNCHANGED <<guardrails_rows, ses, checkFailures>>
    BY <1>7 DEF StartCheck
  <2>4. TasksOK'
    BY <1>1, <2>1, <2>2, <2>3 DEF TasksOK, Acting, Task
  <2>5. Rest'
    BY <1>1, <2>3
  <2> QED BY <1>3, <2>3, <2>4, <2>5
<1>8. ASSUME NEW s \in CheckSessions, NEW g \in GuardIds, Spared(s, g)
      PROVE  Rows' /\ Rest' /\ TasksOK'
  <2>1. TaskEnds(s, g)
    BY <1>1, <1>8, WithoutEnds DEF Spared, TasksOK
  <2>2. checkFailures' \in 0..MaxCheckFailures
    BY <1>1, <1>8, GuardrailsAssumption DEF Spared
  <2>3. UNCHANGED <<guardrails_rows, halved, check, ses, aux_shared>>
    BY <1>8 DEF Spared
  <2> QED BY <1>1, <1>3, <2>1, <2>2, <2>3, EndsKeepsTasks
<1>9. ASSUME NEW s \in CheckSessions, NEW g \in GuardIds, LockExperiment(s, g)
      PROVE  Rows' /\ Rest' /\ TasksOK'
  <2> DEFINE e == tasks[s][g].experiment
             copy == [Seen(s, e) EXCEPT !.state = Target(tasks[s][g].action)]
             task == [tasks[s][g] EXCEPT !.at = "locked", !.copy = copy]
  <2>1. /\ g \in DOMAIN tasks[s] /\ copy \in GuardedRow /\ TaskBecomes(s, g, task)
        /\ ses' = [ses EXCEPT ![s] = [ses[s] EXCEPT !.locks = @ \union {e}]]
        /\ ses' \in [CheckSessions -> SessionRecord]
    BY <1>9, LockFacts
  <2>2. task \in TaskRecord /\ task.copy \in GuardedRow
    <3>1. tasks[s][g] \in TaskRecord
      BY <1>1, <2>1 DEF TasksOK
    <3> HIDE DEF copy
    <3> QED BY <2>1, <3>1 DEF TaskRecord, Stages
  <2>3. TasksOK'
    <3> HIDE DEF task
    <3> QED BY <1>1, <2>1, <2>2, BecomesKeepsTasks
  <2>4. \A t \in CheckSessions : DOMAIN ses'[t].rows \subseteq ses'[t].locks
    BY <1>1, <2>1 DEF SessionRecord
  <2>5. aux_shared' \subseteq CheckSessions
    BY <1>1, <1>9 DEF LockExperiment, Overlaps
  <2>6. UNCHANGED <<guardrails_rows, halved, check, checkFailures>>
    BY <1>9 DEF LockExperiment
  <2> QED BY <1>1, <1>3, <2>1, <2>3, <2>4, <2>5, <2>6
<1>10. ASSUME NEW s \in CheckSessions, NEW g \in GuardIds, WriteRecord(s, g)
       PROVE  Rows' /\ Rest' /\ TasksOK'
  <2> DEFINE task == [tasks[s][g] EXCEPT !.at = "recorded"]
  <2>1. /\ g \in Acting(s) /\ TaskBecomes(s, g, task)
        /\ ses' = [ses EXCEPT ![s] = [ses[s] EXCEPT !.records = @ \union {g}]]
        /\ ses' \in [CheckSessions -> SessionRecord]
    BY <1>10, RecordFacts
  <2>2. /\ g \in DOMAIN tasks[s] /\ tasks[s][g] \in TaskRecord
        /\ tasks[s][g].copy \in GuardedRow
    BY <1>1, <2>1 DEF TasksOK, Acting
  <2>3. task \in TaskRecord /\ task.copy \in GuardedRow
    BY <2>2 DEF TaskRecord, Stages
  <2>4. TasksOK'
    <3> HIDE DEF task
    <3> QED BY <1>1, <2>1, <2>2, <2>3, BecomesKeepsTasks
  <2>5. \A t \in CheckSessions : DOMAIN ses'[t].rows \subseteq ses'[t].locks
    BY <1>1, <2>1 DEF SessionRecord
  <2>6. UNCHANGED <<guardrails_rows, halved, check, checkFailures, aux_shared>>
    BY <1>10 DEF WriteRecord
  <2> QED BY <1>1, <1>3, <2>1, <2>4, <2>5, <2>6
<1>11. ASSUME NEW s \in CheckSessions, NEW g \in GuardIds, SaveExperiment(s, g)
       PROVE  Rows' /\ Rest' /\ TasksOK'
  <2> DEFINE old == tasks[s][g]
             task == [old EXCEPT !.at = "saved"]
             rows == Put(ses[s].rows, old.experiment, old.copy)
  <2>1. /\ g \in Acting(s) /\ TaskBecomes(s, g, task)
        /\ ses' = [ses EXCEPT ![s] = [ses[s] EXCEPT !.locks = @ \union {old.experiment},
                                                    !.rows = rows, !.savers = @ \union {g}]]
        /\ ses' \in [CheckSessions -> SessionRecord]
        /\ DOMAIN rows = DOMAIN ses[s].rows \union {old.experiment}
    BY <1>11, SaveFacts
  <2>2. g \in DOMAIN tasks[s] /\ old \in TaskRecord /\ old.copy \in GuardedRow
    BY <1>1, <2>1 DEF TasksOK, Acting
  <2>3. task \in TaskRecord /\ task.copy \in GuardedRow
    BY <2>2 DEF TaskRecord, Stages
  <2>4. TasksOK'
    <3> HIDE DEF task
    <3> QED BY <1>1, <2>1, <2>2, <2>3, BecomesKeepsTasks
  <2>5. \A t \in CheckSessions : DOMAIN ses'[t].rows \subseteq ses'[t].locks
    <3> HIDE DEF rows
    <3> QED BY <1>1, <2>1 DEF SessionRecord
  <2>6. UNCHANGED <<guardrails_rows, halved, check, checkFailures, aux_shared>>
    BY <1>11 DEF SaveExperiment
  <2> QED BY <1>1, <1>3, <2>1, <2>4, <2>5, <2>6
<1>12. ASSUME NEW s \in CheckSessions, ses' = [ses EXCEPT ![s] = CleanSession]
       PROVE  /\ ses' \in [CheckSessions -> SessionRecord]
              /\ \A t \in CheckSessions : DOMAIN ses'[t].rows \subseteq ses'[t].locks
  BY <1>1, <1>12, CleanFacts
<1>13. ASSUME NEW s \in CheckSessions, NEW g \in GuardIds, CommitAction(s, g)
       PROVE  Rows' /\ Rest' /\ TasksOK'
  <2>1. /\ TaskEnds(s, g) /\ ses' = [ses EXCEPT ![s] = CleanSession]
        /\ exps' \in [Guarded -> GuardedRow] /\ DOMAIN halved' = CheckSessions
        /\ halved'[s] = SymDiff(halved[s], SymDiff(ses[s].records, ses[s].savers))
        /\ \A t \in CheckSessions \ {s} : halved'[t] = halved[t]
    BY <1>13, CommitFacts
  <2>2. \A t \in CheckSessions : halved'[t] \subseteq GuardIds
    BY <1>1, <2>1 DEF SymDiff, SessionRecord
  <2>3. UNCHANGED <<guards, over, edits, check, checkFailures, aux_shared>>
    BY <1>13 DEF CommitAction
  <2> QED BY <1>1, <1>12, <2>1, <2>2, <2>3, EndsKeepsTasks
<1>14. ASSUME NEW s \in CheckSessions, NEW g \in GuardIds, Leave(s, g),
              checkFailures' \in 0..MaxCheckFailures
       PROVE  Rows' /\ Rest' /\ TasksOK'
  <2>1. /\ TaskEnds(s, g) /\ ses' = [ses EXCEPT ![s] = CleanSession]
        /\ check' \in {NoCheck} \union [at : {"checking", "failing"}, of : CheckSessions]
        /\ aux_shared' \subseteq aux_shared \union {s}
    BY <1>14, LeaveFacts
  <2>2. UNCHANGED <<guardrails_rows, halved>>
    BY <1>14 DEF Leave
  <2> QED BY <1>1, <1>3, <1>12, <1>14, <2>1, <2>2, EndsKeepsTasks
<1>15. ASSUME NEW s \in CheckSessions, NEW g \in GuardIds, Refused(s, g) \/ StatementFails(s, g)
       PROVE  Leave(s, g) /\ checkFailures' \in 0..MaxCheckFailures
  BY <1>1, <1>15, GuardrailsAssumption DEF Refused, StatementFails
<1>16. CASE EndCheck
  <2>1. check.of \in CheckSessions
    BY <1>1, <1>16 DEF EndCheck, NoCheck
  <2>2. /\ ses' = [ses EXCEPT ![check.of] = CleanSession] /\ check' = NoCheck
        /\ aux_shared' \subseteq aux_shared \union {check.of}
        /\ UNCHANGED <<guardrails_rows, halved, tasks, checkFailures>>
    BY <1>16 DEF EndCheck
  <2>3. TasksOK'
    BY <1>1, <2>2 DEF TasksOK, Acting, Task
  <2> QED BY <1>1, <1>3, <1>12, <2>1, <2>2, <2>3
<1>17. CASE WorkerDies
  <2>1. /\ check' = NoCheck /\ ses' = [s \in CheckSessions |-> CleanSession]
        /\ tasks' = [s \in CheckSessions |-> NoTasks]
        /\ UNCHANGED <<guardrails_rows, halved, aux_shared>>
    BY <1>17 DEF WorkerDies
  <2>2. checkFailures' \in 0..MaxCheckFailures
    BY <1>1, <1>17, GuardrailsAssumption DEF WorkerDies
  <2>3. TasksOK'
    BY <2>1, SomeRowsFacts DEF TasksOK, NoTasks
  <2>4. Rest'
    BY <1>1, <2>1, <2>2, CleanFacts
  <2> QED BY <1>3, <2>1, <2>3, <2>4
<1>18. CASE UNCHANGED guardrails_vars
  BY <1>3, <1>4, <1>18 DEF guardrails_vars
<1> QED
  BY <1>5, <1>6, <1>7, <1>8, <1>9, <1>10, <1>11, <1>13, <1>14, <1>15, <1>16, <1>17, <1>18
     DEF GuardrailsNext, Revise

LEMMA GuardTypeInit == GuardrailsInit => GuardTypeInv
  BY GuardrailsAssumption, CleanFacts, SomeRowsFacts
     DEF GuardrailsInit, GuardTypeInv, GuardrailsTypeOK, GuardedRow, States, GuardRule,
         NoCheck, NoTasks, Acting

\* No row, committed or not, has a number that no request has given yet.
EditsInv ==
    /\ \A e \in Guarded : exps[e].edit <= edits
    /\ \A s \in CheckSessions : /\ \A e \in DOMAIN ses[s].rows : ses[s].rows[e].edit <= edits
                                /\ \A g \in Acting(s) : tasks[s][g].copy.edit <= edits

LEMMA EditsStep ==
    GuardTypeInv /\ EditsInv /\ [GuardrailsNext]_guardrails_vars => EditsInv'
<1> SUFFICES ASSUME GuardTypeInv, EditsInv, [GuardrailsNext]_guardrails_vars PROVE EditsInv'
  OBVIOUS
<1> DEFINE Copies(s) == \A g \in DOMAIN tasks[s] :
                            tasks[s][g].at # "revising" => tasks[s][g].copy.edit <= edits
           Rows(s) == \A e \in DOMAIN ses[s].rows : ses[s].rows[e].edit <= edits
<1>1. /\ \A e \in Guarded : exps[e].edit <= edits
      /\ \A s \in CheckSessions : Rows(s) /\ Copies(s)
  BY DEF EditsInv, Acting, Task
<1>2. SUFFICES /\ \A e \in Guarded : exps'[e].edit <= edits'
               /\ \A s \in CheckSessions : Rows(s)' /\ Copies(s)'
  BY DEF EditsInv, Acting, Task
<1>3. /\ exps \in [Guarded -> GuardedRow] /\ edits \in 0..MaxEdits
      /\ ses \in [CheckSessions -> SessionRecord] /\ DOMAIN tasks = CheckSessions
  BY DEF GuardTypeInv, GuardrailsTypeOK
<1>4. /\ \A e \in Guarded : exps[e].edit \in Nat
      /\ \A s \in CheckSessions : \A e \in DOMAIN ses[s].rows : ses[s].rows[e].edit \in Nat
      /\ \A s \in CheckSessions : \A g \in DOMAIN tasks[s] :
            tasks[s][g].at # "revising" => tasks[s][g].copy.edit \in Nat
      /\ edits \in Nat
  <2>1. \A row \in GuardedRow : row.edit \in Nat
    BY GuardrailsAssumption DEF GuardedRow
  <2> QED BY <1>3, <2>1, SomeRowsFacts, GuardrailsAssumption
          DEF SessionRecord, GuardTypeInv, Acting, Task
<1>5. ASSUME NEW s \in CheckSessions, NEW g \in GuardIds, TaskEnds(s, g),
             ses' = [ses EXCEPT ![s] = CleanSession], edits' = edits
      PROVE  \A t \in CheckSessions : Rows(t)' /\ Copies(t)'
  <2> SUFFICES ASSUME NEW t \in CheckSessions PROVE Rows(t)' /\ Copies(t)'
    OBVIOUS
  <2>1. CASE t = s
    BY <1>1, <1>3, <1>5, <2>1, CleanFacts DEF TaskEnds
  <2>2. CASE t # s
    BY <1>1, <1>3, <1>5, <2>2 DEF TaskEnds
  <2> QED BY <2>1, <2>2
<1>6. ASSUME NEW s \in CheckSessions, NEW g \in GuardIds, NEW task, TaskBecomes(s, g, task),
             NEW session, ses' = [ses EXCEPT ![s] = session], edits' = edits,
             task.copy.edit <= edits,
             \A e \in DOMAIN session.rows : session.rows[e].edit <= edits
      PROVE  \A t \in CheckSessions : Rows(t)' /\ Copies(t)'
  <2> SUFFICES ASSUME NEW t \in CheckSessions PROVE Rows(t)' /\ Copies(t)'
    OBVIOUS
  <2>1. CASE t = s
    BY <1>1, <1>3, <1>6, <2>1 DEF TaskBecomes
  <2>2. CASE t # s
    BY <1>1, <1>3, <1>6, <2>2 DEF TaskBecomes
  <2> QED BY <2>1, <2>2
<1>7. ASSUME NEW g \in GuardIds, RuleRequest(g) \/ MetricMoves(g)
      PROVE  /\ \A e \in Guarded : exps'[e].edit <= edits'
             /\ \A s \in CheckSessions : Rows(s)' /\ Copies(s)'
  <2>1. exps' = exps /\ ses' = ses /\ tasks' = tasks /\ edits' \in {edits, edits + 1}
    BY <1>7 DEF RuleRequest, CreateRule, UpdateRule, ArchiveRule, MetricMoves
  <2> QED BY <1>1, <1>4, <2>1
<1>8. ASSUME NEW e \in Guarded, NEW state \in States, OtherRequest(e, state)
      PROVE  /\ \A d \in Guarded : exps'[d].edit <= edits'
             /\ \A s \in CheckSessions : Rows(s)' /\ Copies(s)'
  BY <1>1, <1>3, <1>4, <1>8 DEF OtherRequest
<1>9. ASSUME NEW s \in CheckSessions, StartCheck(s)
      PROVE  /\ \A e \in Guarded : exps'[e].edit <= edits'
             /\ \A t \in CheckSessions : Rows(t)' /\ Copies(t)'
  <2>1. \A g \in DOMAIN tasks'[s] : tasks'[s][g].at = "revising"
    BY <1>3, <1>9 DEF StartCheck
  <2>2. \A t \in CheckSessions \ {s} : tasks'[t] = tasks[t]
    BY <1>3, <1>9 DEF StartCheck
  <2> QED BY <1>1, <1>9, <2>1, <2>2 DEF StartCheck, guardrails_rows
<1>10. ASSUME NEW s \in CheckSessions, NEW g \in GuardIds, Spared(s, g)
       PROVE  /\ \A e \in Guarded : exps'[e].edit <= edits'
              /\ \A t \in CheckSessions : Rows(t)' /\ Copies(t)'
  <2>1. TaskEnds(s, g)
    BY <1>3, <1>10, WithoutEnds DEF Spared
  <2>2. UNCHANGED <<guardrails_rows, ses>>
    BY <1>10 DEF Spared
  <2>3. \A t \in CheckSessions : Copies(t)'
    BY <1>1, <2>1, <2>2 DEF TaskEnds, guardrails_rows
  <2> QED BY <1>1, <2>2, <2>3 DEF guardrails_rows
<1>11. ASSUME NEW s \in CheckSessions, NEW g \in GuardIds, LockExperiment(s, g)
       PROVE  /\ \A e \in Guarded : exps'[e].edit <= edits'
              /\ \A t \in CheckSessions : Rows(t)' /\ Copies(t)'
  <2> DEFINE e == tasks[s][g].experiment
             copy == [Seen(s, e) EXCEPT !.state = Target(tasks[s][g].action)]
             task == [tasks[s][g] EXCEPT !.at = "locked", !.copy = copy]
             session == [ses[s] EXCEPT !.locks = @ \union {e}]
  <2>1. /\ g \in DOMAIN tasks[s] /\ e \in Guarded /\ TaskBecomes(s, g, task)
        /\ copy.edit = Seen(s, e).edit /\ ses' = [ses EXCEPT ![s] = session]
    BY <1>11, LockFacts
  <2>2. task.copy = copy /\ session.rows = ses[s].rows
    <3>1. tasks[s][g] \in TaskRecord /\ ses[s] \in SessionRecord
      BY <1>3, <2>1 DEF GuardTypeInv
    <3> HIDE DEF copy
    <3> QED BY <3>1 DEF TaskRecord, SessionRecord
  <2>3. Seen(s, e).edit <= edits
    BY <1>1, <2>1 DEF Seen
  <2>4. UNCHANGED guardrails_rows
    BY <1>11 DEF LockExperiment
  <2>5. \A t \in CheckSessions : Rows(t)' /\ Copies(t)'
    <3> HIDE DEF task, session, copy
    <3>1. edits' = edits /\ task.copy.edit <= edits
          /\ \A d \in DOMAIN session.rows : session.rows[d].edit <= edits
      BY <1>1, <2>1, <2>2, <2>3, <2>4 DEF guardrails_rows
    <3> QED BY <1>6, <2>1, <3>1
  <2> QED BY <1>1, <2>4, <2>5 DEF guardrails_rows
<1>12. ASSUME NEW s \in CheckSessions, NEW g \in GuardIds, WriteRecord(s, g)
       PROVE  /\ \A e \in Guarded : exps'[e].edit <= edits'
              /\ \A t \in CheckSessions : Rows(t)' /\ Copies(t)'
  <2> DEFINE task == [tasks[s][g] EXCEPT !.at = "recorded"]
             session == [ses[s] EXCEPT !.records = @ \union {g}]
  <2>1. /\ g \in Acting(s) /\ TaskBecomes(s, g, task) /\ ses' = [ses EXCEPT ![s] = session]
    BY <1>12, RecordFacts
  <2>2. tasks[s][g] \in TaskRecord /\ ses[s] \in SessionRecord
    BY <1>3, <2>1 DEF GuardTypeInv, Acting
  <2>3. task.copy = tasks[s][g].copy /\ session.rows = ses[s].rows
    BY <2>2 DEF TaskRecord, SessionRecord
  <2>4. tasks[s][g].copy.edit <= edits
    BY <2>1 DEF EditsInv
  <2>5. UNCHANGED guardrails_rows
    BY <1>12 DEF WriteRecord
  <2>6. \A t \in CheckSessions : Rows(t)' /\ Copies(t)'
    <3> HIDE DEF task, session
    <3>1. edits' = edits /\ task.copy.edit <= edits
          /\ \A d \in DOMAIN session.rows : session.rows[d].edit <= edits
      BY <1>1, <2>3, <2>4, <2>5 DEF guardrails_rows
    <3> QED BY <1>6, <2>1, <3>1
  <2> QED BY <1>1, <2>5, <2>6 DEF guardrails_rows
<1>13. ASSUME NEW s \in CheckSessions, NEW g \in GuardIds, SaveExperiment(s, g)
       PROVE  /\ \A e \in Guarded : exps'[e].edit <= edits'
              /\ \A t \in CheckSessions : Rows(t)' /\ Copies(t)'
  <2> DEFINE old == tasks[s][g]
             task == [old EXCEPT !.at = "saved"]
             rows == Put(ses[s].rows, old.experiment, old.copy)
             session == [ses[s] EXCEPT !.locks = @ \union {old.experiment},
                                       !.rows = rows, !.savers = @ \union {g}]
  <2>1. g \in Acting(s) /\ TaskBecomes(s, g, task) /\ ses' = [ses EXCEPT ![s] = session]
    BY <1>13, SaveFacts
  <2>2. old \in TaskRecord /\ ses[s] \in SessionRecord
    BY <1>3, <2>1 DEF GuardTypeInv, Acting
  <2>3. task.copy = old.copy
    BY <2>2 DEF TaskRecord
  <2>4. session.rows = rows
    <3> HIDE DEF rows
    <3> QED BY <2>2 DEF SessionRecord
  <2>5. old.copy.edit <= edits
    BY <2>1 DEF EditsInv
  <2>6. \A e \in DOMAIN rows : rows[e].edit <= edits
    BY <1>1, <2>5 DEF Put
  <2>7. UNCHANGED guardrails_rows
    BY <1>13 DEF SaveExperiment
  <2>8. \A t \in CheckSessions : Rows(t)' /\ Copies(t)'
    <3> HIDE DEF task, session, rows
    <3>1. edits' = edits /\ task.copy.edit <= edits
          /\ \A d \in DOMAIN session.rows : session.rows[d].edit <= edits
      BY <2>3, <2>4, <2>5, <2>6, <2>7 DEF guardrails_rows
    <3> QED BY <1>6, <2>1, <3>1
  <2> QED BY <1>1, <2>7, <2>8 DEF guardrails_rows
<1>14. ASSUME NEW s \in CheckSessions, NEW g \in GuardIds, CommitAction(s, g)
       PROVE  /\ \A e \in Guarded : exps'[e].edit <= edits'
              /\ \A t \in CheckSessions : Rows(t)' /\ Copies(t)'
  <2>1. /\ TaskEnds(s, g) /\ ses' = [ses EXCEPT ![s] = CleanSession]
        /\ \A e \in Guarded : exps'[e] = IF e \in DOMAIN ses[s].rows THEN ses[s].rows[e]
                                                                    ELSE exps[e]
    BY <1>14, CommitFacts
  <2>2. edits' = edits
    BY <1>14 DEF CommitAction
  <2> QED BY <1>1, <1>5, <2>1, <2>2
<1>15. ASSUME NEW s \in CheckSessions, NEW g \in GuardIds, Refused(s, g) \/ StatementFails(s, g)
       PROVE  /\ \A e \in Guarded : exps'[e].edit <= edits'
              /\ \A t \in CheckSessions : Rows(t)' /\ Copies(t)'
  <2>1. Leave(s, g)
    BY <1>15 DEF Refused, StatementFails
  <2>2. TaskEnds(s, g) /\ ses' = [ses EXCEPT ![s] = CleanSession]
    BY <2>1, LeaveFacts
  <2>3. UNCHANGED guardrails_rows
    BY <2>1 DEF Leave
  <2> QED BY <1>1, <1>5, <2>2, <2>3 DEF guardrails_rows
<1>16. CASE EndCheck
  <2>1. /\ UNCHANGED <<guardrails_rows, tasks>>
        /\ ses' = [ses EXCEPT ![check.of] = CleanSession]
    BY <1>16 DEF EndCheck
  <2> QED BY <1>1, <1>3, <2>1, CleanFacts DEF guardrails_rows
<1>17. CASE WorkerDies
  <2>1. /\ ses' = [s \in CheckSessions |-> CleanSession]
        /\ tasks' = [s \in CheckSessions |-> NoTasks]
        /\ UNCHANGED guardrails_rows
    BY <1>17 DEF WorkerDies
  <2> QED BY <1>1, <2>1, CleanFacts, SomeRowsFacts DEF guardrails_rows, NoTasks
<1>18. CASE UNCHANGED guardrails_vars
  BY <1>1, <1>18 DEF guardrails_vars, guardrails_rows
<1> QED
  BY <1>7, <1>8, <1>9, <1>10, <1>11, <1>12, <1>13, <1>14, <1>15, <1>16, <1>17, <1>18
     DEF GuardrailsNext, Revise

-----------------------------------------------------------------------------

\* A session that a step leaves alone, with the rows it has locked, stays in order.
LEMMA OthersKeep ==
    ASSUME NEW t \in CheckSessions, SessionOK(t), ses'[t] = ses[t], tasks'[t] = tasks[t],
           halved'[t] = halved[t], t \notin aux_shared' => t \notin aux_shared,
           \A e \in ses[t].locks : exps'[e] = exps[e]
    PROVE  SessionOK(t)'
<1>1. Acting(t)' = Acting(t) /\ (IsClean(t)' <=> IsClean(t))
  BY DEF Acting, Task, IsClean
<1>2. ASSUME NEW g \in Acting(t), HoldsItsWrites(t, g) PROVE HoldsItsWrites(t, g)'
  BY <1>2 DEF HoldsItsWrites
<1> QED BY <1>1, <1>2 DEF SessionOK

\* A session that is clean and has nothing under way is in order.
LEMMA CleanKeeps ==
    ASSUME NEW s \in CheckSessions, DOMAIN ses' = CheckSessions, ses'[s] = CleanSession,
           s \notin aux_shared' => Acting(s)' = {} /\ halved'[s] = {}
    PROVE  SessionOK(s)'
<1>1. IsClean(s)'
  BY CleanFacts DEF IsClean
<1> QED BY <1>1 DEF SessionOK

LEMMA BecomesActing ==
    ASSUME NEW s \in CheckSessions, NEW g \in DOMAIN tasks[s], NEW task,
           TaskBecomes(s, g, task), task.at # "revising"
    PROVE  Acting(s)' = Acting(s) \union {g}
  BY DEF TaskBecomes, Acting, Task

LEMMA EndsActing ==
    ASSUME NEW s \in CheckSessions, NEW g, TaskEnds(s, g)
    PROVE  Acting(s)' = Acting(s) \ {g}
  BY DEF TaskEnds, Acting, Task

\* The steps of an action, on its own session.
LEMMA LockInOrder ==
    ASSUME GuardTypeInv, NEW s \in CheckSessions, NEW g \in GuardIds, SessionOK(s),
           LockExperiment(s, g)
    PROVE  SessionOK(s)'
<1> DEFINE e == tasks[s][g].experiment
           copy == [Seen(s, e) EXCEPT !.state = Target(tasks[s][g].action)]
           task == [tasks[s][g] EXCEPT !.at = "locked", !.copy = copy]
<1>1. /\ g \in DOMAIN tasks[s] /\ g \notin Acting(s)
      /\ copy.edit = Seen(s, e).edit /\ CanSetState(Seen(s, e).state, copy.state)
      /\ TaskBecomes(s, g, task)
      /\ ses' = [ses EXCEPT ![s] = [ses[s] EXCEPT !.locks = @ \union {e}]]
      /\ tasks[s][g] \in TaskRecord /\ ses[s] \in SessionRecord /\ s \in DOMAIN ses
  BY LockFacts DEF GuardTypeInv
<1>2. task.at = "locked" /\ task.copy = copy /\ task.experiment = e
  <2> HIDE DEF copy
  <2> QED BY <1>1 DEF TaskRecord
<1>3. Acting(s)' = Acting(s) \union {g}
  <2> HIDE DEF task
  <2> QED BY <1>1, <1>2, BecomesActing
<1>4. UNCHANGED <<exps, halved>>
  BY DEF LockExperiment, guardrails_rows
<1>5. ASSUME s \notin aux_shared'
      PROVE  halved'[s] = {} /\ Acting(s)' = {g} /\ HoldsItsWrites(s, g)'
  <2>1. Acting(s) = {} /\ s \notin aux_shared
    BY <1>1, <1>5 DEF LockExperiment, Overlaps
  <2>2. IsClean(s) /\ halved[s] = {}
    BY <2>1 DEF SessionOK
  <2>3. Seen(s, e) = exps[e]
    BY <2>2 DEF IsClean, Seen
  <2>4. tasks'[s][g] = task
    BY <1>1 DEF TaskBecomes
  <2>5. /\ ses'[s].locks = {e} /\ DOMAIN ses'[s].rows = {}
        /\ ses'[s].records = {} /\ ses'[s].savers = {}
    BY <1>1, <2>2 DEF IsClean, SessionRecord
  <2>6. HoldsItsWrites(s, g)'
    <3> HIDE DEF task, copy
    <3> QED BY <1>1, <1>2, <1>4, <2>3, <2>4, <2>5 DEF HoldsItsWrites
  <2> QED BY <1>3, <1>4, <2>1, <2>2, <2>6
<1> QED BY <1>3, <1>5 DEF SessionOK

LEMMA RecordInOrder ==
    ASSUME GuardTypeInv, NEW s \in CheckSessions, NEW g \in GuardIds, SessionOK(s),
           WriteRecord(s, g)
    PROVE  SessionOK(s)'
<1> DEFINE task == [tasks[s][g] EXCEPT !.at = "recorded"]
<1>1. /\ g \in Acting(s) /\ tasks[s][g].at = "locked" /\ TaskBecomes(s, g, task)
      /\ ses' = [ses EXCEPT ![s] = [ses[s] EXCEPT !.records = @ \union {g}]]
      /\ g \in DOMAIN tasks[s] /\ tasks[s][g] \in TaskRecord
      /\ ses[s] \in SessionRecord /\ s \in DOMAIN ses
  BY RecordFacts DEF GuardTypeInv, Acting
<1>2. /\ task.at = "recorded" /\ task.copy = tasks[s][g].copy
      /\ task.experiment = tasks[s][g].experiment
  BY <1>1 DEF TaskRecord
<1>3. Acting(s)' = Acting(s)
  <2> HIDE DEF task
  <2> QED BY <1>1, <1>2, BecomesActing
<1>4. UNCHANGED <<exps, halved, aux_shared>>
  BY DEF WriteRecord, guardrails_rows
<1>5. ASSUME s \notin aux_shared PROVE HoldsItsWrites(s, g)'
  <2>1. HoldsItsWrites(s, g)
    BY <1>1, <1>5 DEF SessionOK
  <2>2. /\ ses'[s].locks = ses[s].locks /\ ses'[s].rows = ses[s].rows
        /\ ses'[s].records = ses[s].records \union {g} /\ ses'[s].savers = ses[s].savers
    BY <1>1 DEF SessionRecord
  <2>3. tasks'[s][g] = task
    BY <1>1 DEF TaskBecomes
  <2> HIDE DEF task
  <2> QED BY <1>1, <1>2, <1>4, <2>1, <2>2, <2>3 DEF HoldsItsWrites
<1> QED BY <1>1, <1>3, <1>4, <1>5 DEF SessionOK

LEMMA SaveInOrder ==
    ASSUME GuardTypeInv, NEW s \in CheckSessions, NEW g \in GuardIds, SessionOK(s),
           SaveExperiment(s, g)
    PROVE  SessionOK(s)'
<1> DEFINE old == tasks[s][g]
           task == [old EXCEPT !.at = "saved"]
           rows == Put(ses[s].rows, old.experiment, old.copy)
<1>1. /\ g \in Acting(s) /\ old.at = "recorded" /\ TaskBecomes(s, g, task)
      /\ ses' = [ses EXCEPT ![s] = [ses[s] EXCEPT !.locks = @ \union {old.experiment},
                                                  !.rows = rows, !.savers = @ \union {g}]]
      /\ DOMAIN rows = DOMAIN ses[s].rows \union {old.experiment}
      /\ rows[old.experiment] = old.copy
      /\ g \in DOMAIN tasks[s] /\ old \in TaskRecord
      /\ ses[s] \in SessionRecord /\ s \in DOMAIN ses
  BY SaveFacts DEF GuardTypeInv, Acting
<1>2. task.at = "saved" /\ task.copy = old.copy /\ task.experiment = old.experiment
  BY <1>1 DEF TaskRecord
<1>3. Acting(s)' = Acting(s)
  <2> HIDE DEF task
  <2> QED BY <1>1, <1>2, BecomesActing
<1>4. UNCHANGED <<exps, halved, aux_shared>>
  BY DEF SaveExperiment, guardrails_rows
<1>5. ASSUME s \notin aux_shared PROVE HoldsItsWrites(s, g)'
  <2>1. HoldsItsWrites(s, g)
    BY <1>1, <1>5 DEF SessionOK
  <2>2. /\ ses'[s].locks = ses[s].locks \union {old.experiment} /\ ses'[s].rows = rows
        /\ ses'[s].records = ses[s].records /\ ses'[s].savers = ses[s].savers \union {g}
    <3> HIDE DEF rows
    <3> QED BY <1>1 DEF SessionRecord
  <2>3. tasks'[s][g] = task
    BY <1>1 DEF TaskBecomes
  <2> HIDE DEF task, rows
  <2> QED BY <1>1, <1>2, <1>4, <2>1, <2>2, <2>3 DEF HoldsItsWrites
<1> QED BY <1>1, <1>3, <1>4, <1>5 DEF SessionOK

LEMMA CommitInOrder ==
    ASSUME GuardTypeInv, NEW s \in CheckSessions, NEW g \in GuardIds, SessionOK(s),
           CommitAction(s, g)
    PROVE  SessionOK(s)'
<1>1. /\ g \in Acting(s) /\ tasks[s][g].at = "saved" /\ TaskEnds(s, g)
      /\ ses' = [ses EXCEPT ![s] = CleanSession]
      /\ halved'[s] = SymDiff(halved[s], SymDiff(ses[s].records, ses[s].savers))
      /\ aux_shared' = aux_shared /\ DOMAIN ses = CheckSessions
  BY CommitFacts DEF CommitAction, GuardTypeInv
<1>2. ASSUME s \notin aux_shared PROVE Acting(s)' = {} /\ halved'[s] = {}
  <2>1. Acting(s) = {g} /\ halved[s] = {} /\ HoldsItsWrites(s, g)
    BY <1>1, <1>2 DEF SessionOK
  <2>2. ses[s].records = {g} /\ ses[s].savers = {g}
    BY <1>1, <2>1 DEF HoldsItsWrites
  <2> QED BY <1>1, <2>1, <2>2, EndsActing DEF SymDiff
<1> QED BY <1>1, <1>2, CleanKeeps

LEMMA LeaveInOrder ==
    ASSUME GuardTypeInv, NEW s \in CheckSessions, NEW g \in GuardIds, SessionOK(s), Leave(s, g)
    PROVE  SessionOK(s)'
<1>1. /\ TaskEnds(s, g) /\ ses' = [ses EXCEPT ![s] = CleanSession]
      /\ s \notin aux_shared' => Acting(s) \subseteq {g} /\ s \notin aux_shared
      /\ halved' = halved /\ DOMAIN ses = CheckSessions
  BY LeaveFacts DEF Leave, GuardTypeInv
<1>2. s \notin aux_shared' => Acting(s)' = {} /\ halved'[s] = {}
  BY <1>1, EndsActing DEF SessionOK
<1> QED BY <1>1, <1>2, CleanKeeps

LEMMA SparedInOrder ==
    ASSUME GuardTypeInv, NEW s \in CheckSessions, NEW g \in GuardIds, SessionOK(s), Spared(s, g)
    PROVE  SessionOK(s)'
<1>1. /\ TaskEnds(s, g) /\ g \notin Acting(s)
      /\ UNCHANGED <<exps, ses, halved, aux_shared>>
  BY WithoutEnds DEF Spared, GuardTypeInv, Acting, IsAt, guardrails_rows
<1>2. Acting(s)' = Acting(s)
  BY <1>1, EndsActing
<1>3. ASSUME NEW h \in Acting(s), HoldsItsWrites(s, h) PROVE HoldsItsWrites(s, h)'
  <2>1. tasks'[s][h] = tasks[s][h]
    BY <1>1, <1>3 DEF TaskEnds, Acting
  <2> QED BY <1>1, <1>3, <2>1 DEF HoldsItsWrites
<1> QED BY <1>1, <1>2, <1>3 DEF SessionOK, IsClean

LEMMA SessionStep ==
    GuardTypeInv /\ SessionInv /\ [GuardrailsNext]_guardrails_vars => SessionInv'
<1> SUFFICES ASSUME GuardTypeInv, SessionInv, [GuardrailsNext]_guardrails_vars
             PROVE  SessionInv'
  OBVIOUS
<1>1. /\ \A s, t \in CheckSessions : s # t => ses[s].locks \intersect ses[t].locks = {}
      /\ \A s \in CheckSessions : SessionOK(s)
      /\ ses \in [CheckSessions -> SessionRecord]
      /\ DOMAIN tasks = CheckSessions /\ DOMAIN halved = CheckSessions
      /\ \A s \in CheckSessions : DOMAIN ses[s].rows \subseteq ses[s].locks
  BY DEF SessionInv, GuardTypeInv, GuardrailsTypeOK
\* What is locked is locked once, if a step locks at most a row that no other session has.
<1>2. ASSUME NEW s \in CheckSessions, NEW e, \A t \in CheckSessions \ {s} : ses'[t] = ses[t],
             ses'[s].locks \subseteq ses[s].locks \union {e},
             e \in ses'[s].locks => \A t \in CheckSessions \ {s} : e \notin ses[t].locks
      PROVE  \A t, u \in CheckSessions : t # u => ses'[t].locks \intersect ses'[u].locks = {}
  BY <1>1, <1>2
<1>3. ASSUME NEW s \in CheckSessions, SessionOK(s)',
             \A t \in CheckSessions \ {s} : ses'[t] = ses[t] /\ tasks'[t] = tasks[t],
             \A t \in CheckSessions \ {s} : halved'[t] = halved[t],
             aux_shared \ {s} = aux_shared' \ {s},
             \A t \in CheckSessions \ {s} : \A e \in ses[t].locks : exps'[e] = exps[e]
      PROVE  \A t \in CheckSessions : SessionOK(t)'
  BY <1>1, <1>3, OthersKeep
<1>4. ASSUME UNCHANGED <<ses, tasks, halved, aux_shared>>,
             \A t \in CheckSessions : \A e \in ses[t].locks : exps'[e] = exps[e]
      PROVE  SessionInv'
  BY <1>1, <1>4, OthersKeep DEF SessionInv
<1>5. ASSUME NEW g \in GuardIds, RuleRequest(g) \/ MetricMoves(g) PROVE SessionInv'
  BY <1>4, <1>5 DEF RuleRequest, CreateRule, UpdateRule, ArchiveRule, MetricMoves
<1>6. ASSUME NEW e \in Guarded, NEW state \in States, OtherRequest(e, state) PROVE SessionInv'
  <2>1. \A d : d # e => exps'[d] = exps[d]
    BY <1>6 DEF OtherRequest
  <2> QED BY <1>4, <1>6, <2>1 DEF OtherRequest
<1>7. ASSUME NEW s \in CheckSessions, StartCheck(s) PROVE SessionInv'
  <2>1. /\ DOMAIN tasks[s] = {} /\ UNCHANGED <<exps, ses>> /\ halved'[s] = {}
        /\ \A t \in CheckSessions \ {s} : tasks'[t] = tasks[t] /\ halved'[t] = halved[t]
        /\ aux_shared' = aux_shared \ {s}
    BY <1>1, <1>7 DEF StartCheck, guardrails_rows
  <2>2. Acting(s) = {} /\ Acting(s)' = {}
    BY <1>1, <1>7, <2>1 DEF StartCheck, Acting, Task
  <2>3. SessionOK(s)'
    BY <1>1, <2>1, <2>2 DEF SessionOK, IsClean
  <2> QED BY <1>1, <1>3, <2>1, <2>3 DEF SessionInv
<1>8. ASSUME NEW s \in CheckSessions, NEW g \in GuardIds, Spared(s, g) PROVE SessionInv'
  <2>1. \A t \in CheckSessions \ {s} : tasks'[t] = tasks[t]
    BY <1>1, <1>8 DEF Spared
  <2>2. UNCHANGED <<exps, ses, halved, aux_shared>>
    BY <1>8 DEF Spared, guardrails_rows
  <2> QED BY <1>1, <1>3, <1>8, <2>1, <2>2, SparedInOrder DEF SessionInv
<1>9. ASSUME NEW s \in CheckSessions, NEW g \in GuardIds, LockExperiment(s, g)
      PROVE  SessionInv'
  <2> DEFINE e == tasks[s][g].experiment
  <2>1. /\ \A t \in CheckSessions \ {s} : e \notin ses[t].locks
        /\ ses' = [ses EXCEPT ![s] = [ses[s] EXCEPT !.locks = @ \union {e}]]
        /\ \E task : TaskBecomes(s, g, task)
    BY <1>9, LockFacts
  <2>2. UNCHANGED <<exps, halved>> /\ aux_shared \ {s} = aux_shared' \ {s}
    BY <1>9 DEF LockExperiment, guardrails_rows, Overlaps
  <2>3. /\ \A t \in CheckSessions \ {s} : ses'[t] = ses[t]
        /\ ses'[s].locks = ses[s].locks \union {e}
    BY <1>1, <2>1 DEF SessionRecord
  <2>4. \A t, u \in CheckSessions : t # u => ses'[t].locks \intersect ses'[u].locks = {}
    BY <1>2, <2>1, <2>3
  <2>5. \A t \in CheckSessions \ {s} : tasks'[t] = tasks[t]
    BY <2>1 DEF TaskBecomes
  <2>6. SessionOK(s)'
    BY <1>1, <1>9, LockInOrder
  <2> QED BY <1>3, <2>2, <2>3, <2>4, <2>5, <2>6 DEF SessionInv
<1>10. ASSUME NEW s \in CheckSessions, NEW g \in GuardIds, WriteRecord(s, g)
       PROVE  SessionInv'
  <2>1. /\ ses' = [ses EXCEPT ![s] = [ses[s] EXCEPT !.records = @ \union {g}]]
        /\ \A t \in CheckSessions \ {s} : tasks'[t] = tasks[t]
    BY <1>10, RecordFacts DEF TaskBecomes
  <2>2. UNCHANGED <<exps, halved, aux_shared>>
    BY <1>10 DEF WriteRecord, guardrails_rows
  <2>3. /\ \A t \in CheckSessions \ {s} : ses'[t] = ses[t]
        /\ ses'[s].locks = ses[s].locks
    BY <1>1, <2>1 DEF SessionRecord
  <2> QED BY <1>1, <1>3, <1>10, <2>1, <2>2, <2>3, RecordInOrder DEF SessionInv
<1>11. ASSUME NEW s \in CheckSessions, NEW g \in GuardIds, SaveExperiment(s, g)
       PROVE  SessionInv'
  <2> DEFINE e == tasks[s][g].experiment
             rows == Put(ses[s].rows, e, tasks[s][g].copy)
  <2>1. /\ \A t \in CheckSessions \ {s} : e \notin ses[t].locks
        /\ ses' = [ses EXCEPT ![s] = [ses[s] EXCEPT !.locks = @ \union {e}, !.rows = rows,
                                                    !.savers = @ \union {g}]]
        /\ \A t \in CheckSessions \ {s} : tasks'[t] = tasks[t]
    BY <1>11, SaveFacts DEF TaskBecomes
  <2>2. UNCHANGED <<exps, halved, aux_shared>>
    BY <1>11 DEF SaveExperiment, guardrails_rows
  <2>3. /\ \A t \in CheckSessions \ {s} : ses'[t] = ses[t]
        /\ ses'[s].locks = ses[s].locks \union {e}
    <3> HIDE DEF rows
    <3> QED BY <1>1, <2>1 DEF SessionRecord
  <2>4. \A t, u \in CheckSessions : t # u => ses'[t].locks \intersect ses'[u].locks = {}
    BY <1>2, <2>1, <2>3
  <2> QED BY <1>1, <1>3, <1>11, <2>1, <2>2, <2>3, <2>4, SaveInOrder DEF SessionInv
<1>12. ASSUME NEW s \in CheckSessions, ses' = [ses EXCEPT ![s] = CleanSession],
              \A t \in CheckSessions \ {s} : tasks'[t] = tasks[t] /\ halved'[t] = halved[t],
              SessionOK(s)', aux_shared \ {s} = aux_shared' \ {s},
              \A t \in CheckSessions \ {s} : \A e \in ses[t].locks : exps'[e] = exps[e]
       PROVE  SessionInv'
  <2>1. /\ \A t \in CheckSessions \ {s} : ses'[t] = ses[t]
        /\ ses'[s].locks = {}
    BY <1>1, <1>12, CleanFacts
  <2> QED BY <1>1, <1>3, <1>12, <2>1 DEF SessionInv
<1>13. ASSUME NEW s \in CheckSessions, NEW g \in GuardIds, CommitAction(s, g)
       PROVE  SessionInv'
  <2>1. /\ ses' = [ses EXCEPT ![s] = CleanSession] /\ aux_shared' = aux_shared
        /\ \A t \in CheckSessions \ {s} : tasks'[t] = tasks[t] /\ halved'[t] = halved[t]
        /\ \A e \in Guarded \ DOMAIN ses[s].rows : exps'[e] = exps[e]
    BY <1>13, CommitFacts DEF TaskEnds, CommitAction
  <2>2. \A t \in CheckSessions \ {s} : \A e \in ses[t].locks : exps'[e] = exps[e]
    BY <1>1, <2>1 DEF SessionRecord
  <2>3. SessionOK(s)'
    BY <1>1, <1>13, CommitInOrder
  <2> QED BY <1>12, <2>1, <2>2, <2>3
<1>14. ASSUME NEW s \in CheckSessions, NEW g \in GuardIds, Refused(s, g) \/ StatementFails(s, g)
       PROVE  SessionInv'
  <2>1. Leave(s, g)
    BY <1>14 DEF Refused, StatementFails
  <2>2. /\ ses' = [ses EXCEPT ![s] = CleanSession]
        /\ \A t \in CheckSessions \ {s} : tasks'[t] = tasks[t]
        /\ aux_shared \ {s} = aux_shared' \ {s}
    BY <2>1, LeaveFacts DEF TaskEnds, Leave, Overlaps
  <2>3. UNCHANGED <<exps, halved>>
    BY <2>1 DEF Leave, guardrails_rows
  <2>4. SessionOK(s)'
    BY <1>1, <2>1, LeaveInOrder
  <2> QED BY <1>12, <2>2, <2>3, <2>4
<1>15. CASE EndCheck
  <2>1. PICK s \in CheckSessions : s = check.of
    BY <1>15 DEF EndCheck, NoCheck, GuardTypeInv, GuardrailsTypeOK
  <2>2. /\ ses' = [ses EXCEPT ![s] = CleanSession]
        /\ UNCHANGED <<exps, halved, tasks>>
        /\ aux_shared \ {s} = aux_shared' \ {s} /\ aux_shared \subseteq aux_shared'
        /\ s \notin aux_shared' => DOMAIN tasks[s] = {}
    BY <1>15, <2>1 DEF EndCheck, guardrails_rows
  <2>3. SessionOK(s)'
    <3>1. s \notin aux_shared' => Acting(s)' = {} /\ halved'[s] = {}
      BY <1>1, <2>1, <2>2 DEF SessionOK, Acting
    <3> QED BY <1>1, <2>1, <2>2, <3>1, CleanKeeps
  <2> QED BY <1>12, <2>1, <2>2, <2>3
<1>16. CASE WorkerDies
  <2>1. /\ ses' = [s \in CheckSessions |-> CleanSession]
        /\ tasks' = [s \in CheckSessions |-> NoTasks]
        /\ UNCHANGED <<halved, aux_shared>>
    BY <1>16 DEF WorkerDies
  <2>2. \A s \in CheckSessions : Acting(s)' = {}
    BY <2>1, SomeRowsFacts DEF Acting, NoTasks
  <2>3. \A s \in CheckSessions : SessionOK(s)'
    BY <1>1, <2>1, <2>2, CleanKeeps DEF SessionOK
  <2>4. \A s \in CheckSessions : ses'[s].locks = {}
    BY <2>1, CleanFacts
  <2> QED BY <2>3, <2>4 DEF SessionInv
<1>17. CASE UNCHANGED guardrails_vars
  BY <1>4, <1>17 DEF guardrails_vars, guardrails_rows
<1> QED
  BY <1>5, <1>6, <1>7, <1>8, <1>9, <1>10, <1>11, <1>13, <1>14, <1>15, <1>16, <1>17
     DEF GuardrailsNext, Revise

LEMMA GuardAlways == GuardrailsSpec => [](GuardTypeInv /\ EditsInv /\ SessionInv)
<1>1. GuardrailsInit => EditsInv /\ SessionInv
  BY CleanFacts, SomeRowsFacts
     DEF GuardrailsInit, EditsInv, SessionInv, SessionOK, IsClean, Acting, NoTasks
<1> QED BY <1>1, GuardTypeInit, GuardTypeStep, EditsStep, SessionStep, PTL DEF GuardrailsSpec

\* The guardrail worker's variables keep their types; a session writes rows that it has
\* locked (GuardrailWorker, its request container's session).
THEOREM GuardrailsTypeCorrect == GuardrailsSpec => []GuardrailsTypeOK
<1>1. GuardTypeInv => GuardrailsTypeOK
  BY DEF GuardTypeInv
<1> QED BY <1>1, GuardAlways, PTL

\* Whatever fails and whoever else acts: a session in which no two actions overlapped has
\* committed each new state with its audit record, and no record without the state
\* (_take_action).
THEOREM ActionsAndRecordsTogether == GuardrailsSpec => []ActionsAreRecorded
<1>1. SessionInv => ActionsAreRecorded
  BY DEF SessionInv, SessionOK, ActionsAreRecorded
<1> QED BY <1>1, GuardAlways, PTL

\* The guard saves the whole row it read three awaits before, yet never takes back a
\* request's edit nor leaves the transition table: the row is locked from the read on
\* (get_latest_by_id with lock=True). Of what a session writes on which two actions met,
\* whose COMMIT or ROLLBACK releases the locks of both, nothing is said.
THEOREM GuardSavesWhatItLocked == GuardrailsSpec => GuardWritesFresh
<1> DEFINE Fresh == \A e \in Guarded :
               \/ \E s \in aux_shared : e \in DOMAIN ses[s].rows
               \/ exps'[e].edit >= exps[e].edit
                  /\ (exps'[e].state # exps[e].state =>
                         <<exps[e].state, exps'[e].state>> \in ValidTransitions)
<1>1. ASSUME GuardTypeInv, EditsInv, SessionInv, [GuardrailsNext]_guardrails_vars,
             NEW e \in Guarded, \A s \in aux_shared : e \notin DOMAIN ses[s].rows
      PROVE  exps'[e].edit >= exps[e].edit
             /\ (exps'[e].state # exps[e].state =>
                    <<exps[e].state, exps'[e].state>> \in ValidTransitions)
  <2>1. exps \in [Guarded -> GuardedRow] /\ exps[e].edit \in Nat /\ edits \in Nat
    BY <1>1, GuardrailsAssumption DEF GuardTypeInv, GuardrailsTypeOK, GuardedRow
  <2>2. ASSUME exps' = exps
        PROVE  exps'[e].edit >= exps[e].edit /\ exps'[e].state = exps[e].state
    BY <2>1, <2>2
  <2>3. ASSUME NEW d \in Guarded, NEW state \in States, OtherRequest(d, state)
        PROVE  exps'[e].edit >= exps[e].edit
               /\ (exps'[e].state # exps[e].state =>
                      <<exps[e].state, exps'[e].state>> \in ValidTransitions)
    BY <1>1, <2>1, <2>3 DEF OtherRequest, EditsInv
  <2>4. ASSUME NEW s \in CheckSessions, NEW g \in GuardIds, CommitAction(s, g)
        PROVE  exps'[e].edit >= exps[e].edit
               /\ (exps'[e].state # exps[e].state =>
                      <<exps[e].state, exps'[e].state>> \in ValidTransitions)
    <3>1. /\ g \in Acting(s) /\ tasks[s][g].at = "saved"
          /\ exps'[e] = IF e \in DOMAIN ses[s].rows THEN ses[s].rows[e] ELSE exps[e]
      BY <1>1, <2>4, CommitFacts
    <3>3. CASE e \in DOMAIN ses[s].rows
      <4>2. HoldsItsWrites(s, g)
        BY <1>1, <3>1, <3>3 DEF SessionInv, SessionOK
      <4>1. /\ exps'[e].edit = exps[e].edit
            /\ CanSetState(exps[e].state, exps'[e].state)
        BY <3>1, <4>2, <3>3 DEF HoldsItsWrites
      <4> QED BY <2>1, <4>1 DEF CanSetState
    <3>4. CASE e \notin DOMAIN ses[s].rows
      BY <2>1, <3>1, <3>4
    <3> QED BY <3>3, <3>4
  <2>5. \/ exps' = exps
        \/ \E d \in Guarded, state \in States : OtherRequest(d, state)
        \/ \E s \in CheckSessions, g \in GuardIds : CommitAction(s, g)
    <3>1. ASSUME NEW g \in GuardIds, RuleRequest(g) \/ MetricMoves(g) PROVE exps' = exps
      BY <3>1 DEF RuleRequest, CreateRule, UpdateRule, ArchiveRule, MetricMoves
    <3>2. ASSUME NEW s \in CheckSessions, NEW g \in GuardIds,
                 \/ Spared(s, g) \/ LockExperiment(s, g) \/ WriteRecord(s, g)
                 \/ SaveExperiment(s, g) \/ Refused(s, g) \/ StatementFails(s, g)
          PROVE  exps' = exps
      BY <3>2 DEF Spared, LockExperiment, WriteRecord, SaveExperiment, Refused, StatementFails,
                  Leave, guardrails_rows
    <3>3. ASSUME \/ \E s \in CheckSessions : StartCheck(s)
                 \/ EndCheck \/ WorkerDies \/ UNCHANGED guardrails_vars
          PROVE  exps' = exps
      BY <3>3 DEF StartCheck, EndCheck, WorkerDies, guardrails_rows, guardrails_vars
    <3> QED BY <1>1, <3>1, <3>2, <3>3 DEF GuardrailsNext, Revise
  <2> QED BY <2>2, <2>3, <2>4, <2>5
<1>2. GuardTypeInv /\ EditsInv /\ SessionInv /\ [GuardrailsNext]_guardrails_vars
        => [Fresh]_guardrails_vars
  BY <1>1
<1> QED BY <1>2, GuardAlways, PTL DEF GuardrailsSpec, GuardWritesFresh

-----------------------------------------------------------------------------
\* What the outbox of the notifications promises, however often a cycle fails.

\* What is published, and what a cycle holds.
CycleShape ==
    /\ mailer = [at |-> mailer.at, batch |-> mailer.batch, selected |-> mailer.selected,
                 todo |-> mailer.todo, sent |-> mailer.sent]
    /\ \A p \in DOMAIN calls : calls[p].to \subseteq Fingerprints /\ calls[p].what \in Happenings

\* No row, and no copy that a cycle has read, is of the future.
Dated ==
    /\ \A fp \in DOMAIN outbox : outbox[fp].issued_at <= clock
    /\ \A fp \in DOMAIN mailer.batch :
          mailer.batch[fp].issued_at \in Nat /\ mailer.batch[fp].issued_at <= clock

\* Whom the cycle has told is told, while the row is the one it read.
SentIsTold ==
    \A fp \in mailer.sent \intersect DOMAIN outbox :
        /\ outbox[fp].issued_at = mailer.batch[fp].issued_at
        /\ mailer.selected[RuleOf(fp)] \in Configured
        => fp \notin aux_untold

\* What is settled is in no table and in no cycle.
SettledIsAway == (DOMAIN outbox \union DOMAIN mailer.batch) \intersect aux_settled = {}

NotificationsInv ==
    NotificationsTypeOK /\ CycleShape /\ Dated /\ SentIsTold /\ SettledIsAway /\ PendingUntilTold

-----------------------------------------------------------------------------

LEMMA FingerprintOfRule ==
    ASSUME NEW r \in RuleIds, NEW h \in Happenings
    PROVE  Fingerprint(r, h) \in Fingerprints /\ RuleOf(Fingerprint(r, h)) = r
  BY DEF Fingerprints, Fingerprint, RuleOf

LEMMA RestrictFacts ==
    ASSUME NEW f, NEW S
    PROVE  DOMAIN Restrict(f, S) = S /\ \A x \in S : Restrict(f, S)[x] = f[x]
  BY DEF Restrict

\* A message leaves no more untold than before.
LEMMA DueAfterFacts ==
    ASSUME NEW connection, NEW batch, NEW r
    PROVE  /\ DueAfter(connection, batch, r) \subseteq aux_untold
           /\ connection \in Configured /\ Fits(Group(batch, r)) =>
                 \A fp \in Group(batch, r) \intersect DOMAIN outbox :
                     outbox[fp].issued_at = batch[fp].issued_at =>
                         fp \notin DueAfter(connection, batch, r)
  BY DEF DueAfter

\* When only fewer fingerprints are untold, and the cycle is the same or has ended.
LEMMA FewerUntold ==
    ASSUME NotificationsInv, aux_untold' \subseteq aux_untold,
           mailer' = mailer \/ mailer' = Sleeping, failures' \in 0..MaxFailures,
           UNCHANGED <<rule_vars, published_vars, cooling, aux_settled, aux_gone>>
    PROVE  NotificationsInv'
<1> USE DEF NotificationsInv
<1>1. UNCHANGED <<rules, issuedIds, calls, outbox, clock, cooling, aux_settled, aux_gone>>
  BY DEF rule_vars, published_vars
<1>2. NotificationsTypeOK'
  <2>1. CASE mailer' = mailer
    BY <1>1, <2>1 DEF NotificationsTypeOK, Row
  <2>2. CASE mailer' = Sleeping
    BY <1>1, <2>2 DEF NotificationsTypeOK, Row, Sleeping
  <2> QED
    BY <2>1, <2>2
<1>3. CycleShape'
  BY <1>1 DEF CycleShape, Sleeping
<1>4. Dated'
  BY <1>1 DEF Dated, Sleeping
<1>5. SentIsTold'
  BY <1>1 DEF SentIsTold, Sleeping
<1>6. SettledIsAway'
  BY <1>1 DEF SettledIsAway, Sleeping
<1>7. PendingUntilTold'
  BY <1>1 DEF PendingUntilTold
<1> QED
  BY <1>2, <1>3, <1>4, <1>5, <1>6, <1>7

-----------------------------------------------------------------------------

LEMMA NotificationsInitially == NotificationsInit => NotificationsInv
<1> SUFFICES ASSUME NotificationsInit PROVE NotificationsInv
  OBVIOUS
<1>1. mailer = Sleeping /\ DOMAIN rules = {} /\ DOMAIN calls = {} /\ DOMAIN outbox = {}
  BY DEF NotificationsInit
<1>2. NotificationsTypeOK
  BY <1>1, NotificationsAssumption DEF NotificationsInit, NotificationsTypeOK, Sleeping, Row
<1> QED
  BY <1>1, <1>2 DEF NotificationsInit, NotificationsInv, CycleShape, Dated, SentIsTold,
      SettledIsAway, PendingUntilTold, Sleeping

LEMMA RuleSteps ==
    ASSUME NotificationsInv, NEW r \in RuleIds, RuleStep(r)
    PROVE  NotificationsInv'
<1> USE DEF NotificationsInv
<1>1. UNCHANGED <<calls, outbox, clock, cooling, mailer, strays, failures,
                  aux_untold, aux_settled, aux_gone>>
  BY DEF RuleStep, CreateNotificationRule, UpdateNotificationRule, DeleteNotificationRule,
      published_vars, cycle_vars, told_vars
<1>2. /\ issuedIds' \subseteq RuleIds /\ DOMAIN rules' \subseteq issuedIds'
      /\ rules' \in [DOMAIN rules' -> Rules]
  <2> USE DEF NotificationsTypeOK
  <2>1. ASSUME NEW rule \in Rules, CreateNotificationRule(r, rule)
        PROVE  <1>2
    BY <2>1 DEF CreateNotificationRule, With
  <2>2. ASSUME NEW rule \in Rules, UpdateNotificationRule(r, rule)
        PROVE  <1>2
    BY <2>2 DEF UpdateNotificationRule
  <2>3. CASE DeleteNotificationRule(r)
    BY <2>3 DEF DeleteNotificationRule, Restrict
  <2> QED
    BY <2>1, <2>2, <2>3 DEF RuleStep
<1>3. NotificationsTypeOK'
  BY <1>1, <1>2 DEF NotificationsTypeOK, Row
<1>4. CycleShape' /\ Dated' /\ SentIsTold' /\ SettledIsAway' /\ PendingUntilTold'
  BY <1>1 DEF CycleShape, Dated, SentIsTold, SettledIsAway, PendingUntilTold
<1> QED
  BY <1>3, <1>4

\* Calls open and close.
LEMMA CallSteps ==
    ASSUME NotificationsInv, NEW p \in Publishers,
           PublishFails(p) \/ \E h \in Happenings : SelectRules(p, h)
    PROVE  NotificationsInv'
<1> USE DEF NotificationsInv
<1>1. UNCHANGED <<rules, issuedIds, outbox, clock, cooling, mailer, strays, failures,
                  aux_untold, aux_settled, aux_gone>>
  BY DEF PublishFails, SelectRules, rule_vars, cycle_vars, told_vars
<1>2. /\ DOMAIN calls' \subseteq Publishers
      /\ \A q \in DOMAIN calls' : calls'[q].to \subseteq Fingerprints /\ calls'[q].what \in Happenings
  <2>1. CASE PublishFails(p)
    BY <2>1 DEF PublishFails, Restrict, NotificationsTypeOK, CycleShape
  <2>2. ASSUME NEW h \in Happenings, SelectRules(p, h)
        PROVE  <1>2
    <3> DEFINE selected == {r \in DOMAIN rules : Matches(rules[r].trigger, h)}
               call == [what |-> h, to |-> {Fingerprint(r, h) : r \in selected}]
    <3>1. calls' = With(calls, p, call)
      BY <2>2 DEF SelectRules
    <3>2. call.to \subseteq Fingerprints /\ call.what \in Happenings
      BY FingerprintOfRule DEF NotificationsTypeOK
    <3> HIDE DEF call
    <3> QED
      <4>1. /\ DOMAIN calls' = DOMAIN calls \union {p}
            /\ \A q \in DOMAIN calls' : calls'[q] = IF q = p THEN call ELSE calls[q]
        BY <3>1 DEF With
      <4>2. DOMAIN calls' \subseteq Publishers
        BY <4>1 DEF NotificationsTypeOK
      <4> QED
        BY <3>2, <4>1, <4>2 DEF CycleShape
  <2> QED
    BY <2>1, <2>2
<1>3. NotificationsTypeOK'
  BY <1>1, <1>2 DEF NotificationsTypeOK, Row
<1>4. CycleShape'
  BY <1>1, <1>2 DEF CycleShape
<1>5. Dated' /\ SentIsTold' /\ SettledIsAway' /\ PendingUntilTold'
  BY <1>1 DEF Dated, SentIsTold, SettledIsAway, PendingUntilTold
<1> QED
  BY <1>3, <1>4, <1>5

\* A renewed row is younger than the copy of any cycle.
LEMMA PushStep ==
    ASSUME NotificationsInv, NEW p \in Publishers, Push(p)
    PROVE  NotificationsInv'
<1> USE DEF NotificationsInv
<1> DEFINE to == calls[p].to
<1>1. /\ p \in DOMAIN calls /\ clock < MaxPublished /\ clock' = clock + 1
      /\ outbox' = Upserted(calls[p].what, clock + 1, to)
      /\ calls' = Restrict(calls, DOMAIN calls \ {p})
      /\ aux_untold' = aux_untold \union to
      /\ aux_settled' = aux_settled \ to
      /\ aux_gone' = aux_gone \ to
      /\ UNCHANGED <<rules, issuedIds, cooling, mailer, strays, failures>>
  BY DEF Push, rule_vars, cycle_vars
<1>2. to \subseteq Fingerprints /\ calls[p].what \in Happenings
  BY <1>1 DEF CycleShape
<1>3. clock \in Nat /\ clock + 1 \in 1..MaxPublished /\ MaxPublished \in Nat
  BY <1>1, NotificationsAssumption DEF NotificationsTypeOK
<1> HIDE DEF to
<1>4. /\ DOMAIN outbox' = to \union DOMAIN outbox
      /\ outbox' = [fp \in to \union DOMAIN outbox |-> outbox'[fp]]
      /\ \A fp \in to : /\ outbox'[fp].issued_at = clock + 1
                        /\ outbox'[fp] = [meta |-> IF fp \in DOMAIN outbox THEN outbox[fp].meta
                                                   ELSE calls[p].what,
                                          issued_at |-> clock + 1]
      /\ \A fp \in DOMAIN outbox \ to : outbox'[fp] = outbox[fp]
  BY <1>1 DEF Upserted
<1>5. NotificationsTypeOK'
  <2>1. \A fp \in DOMAIN outbox : outbox[fp] \in Row
    BY DEF NotificationsTypeOK
  <2>2. \A fp \in DOMAIN outbox' : outbox'[fp] \in Row
    BY <1>2, <1>3, <1>4, <2>1 DEF Row
  <2>3. outbox' \in [DOMAIN outbox' -> Row] /\ DOMAIN outbox' \subseteq Fingerprints
    BY <1>2, <1>4, <2>2 DEF NotificationsTypeOK
  <2>4. DOMAIN calls' \subseteq Publishers
    BY <1>1, RestrictFacts DEF NotificationsTypeOK
  <2>5. aux_untold' \union aux_settled' \union aux_gone' \subseteq Fingerprints
    BY <1>1, <1>2 DEF NotificationsTypeOK
  <2>6. clock' \in 0..MaxPublished
    BY <1>1, <1>3
  <2> QED
    BY <1>1, <2>3, <2>4, <2>5, <2>6 DEF NotificationsTypeOK, Row
<1>6. CycleShape'
  BY <1>1, RestrictFacts DEF CycleShape
<1>7. Dated'
  <2>1. \A fp \in DOMAIN outbox : outbox[fp].issued_at \in Nat
    BY DEF NotificationsTypeOK, Row
  <2> QED
    <3>1. ASSUME NEW fp \in DOMAIN outbox'
          PROVE  outbox'[fp].issued_at <= clock'
      <4>1. CASE fp \in to
        <5>1. outbox'[fp].issued_at = clock + 1
          BY <1>4, <4>1
        <5> QED
          BY <1>1, <1>3, <5>1
      <4>2. CASE fp \notin to
        <5>1. fp \in DOMAIN outbox /\ outbox[fp].issued_at <= clock
          BY <1>4, <4>2 DEF Dated
        <5> QED
          BY <1>1, <1>3, <1>4, <2>1, <4>2, <5>1
      <4> QED
        BY <4>1, <4>2
    <3>2. ASSUME NEW fp \in DOMAIN mailer'.batch
          PROVE  mailer'.batch[fp].issued_at \in Nat /\ mailer'.batch[fp].issued_at <= clock'
      <4>1. mailer.batch[fp].issued_at \in Nat /\ mailer.batch[fp].issued_at <= clock
        BY <1>1 DEF Dated
      <4> QED
        BY <1>1, <1>3, <4>1
    <3> QED
      BY <3>1, <3>2 DEF Dated
<1>8. SentIsTold'
  <2> SUFFICES ASSUME NEW fp \in mailer.sent \intersect DOMAIN outbox',
                      outbox'[fp].issued_at = mailer.batch[fp].issued_at,
                      mailer.selected[RuleOf(fp)] \in Configured
               PROVE  fp \notin aux_untold'
    BY <1>1 DEF SentIsTold
  <2>1. fp \notin to
    <3>1. mailer.batch[fp].issued_at \in Nat /\ mailer.batch[fp].issued_at <= clock
      BY DEF NotificationsTypeOK, Dated
    <3> QED
      BY <1>3, <1>4, <3>1
  <2> QED
    BY <1>1, <1>4, <2>1 DEF SentIsTold
<1>9. SettledIsAway'
  BY <1>1, <1>4 DEF SettledIsAway
<1>10. PendingUntilTold'
  BY <1>1, <1>4 DEF PendingUntilTold
<1> QED
  BY <1>5, <1>6, <1>7, <1>8, <1>9, <1>10

-----------------------------------------------------------------------------

LEMMA CollectStep ==
    ASSUME NotificationsInv, Collect
    PROVE  NotificationsInv'
<1> USE DEF NotificationsInv
<1> DEFINE due == {fp \in DOMAIN outbox : Due(fp)}
           batch == Restrict(outbox, due)
           found == {r \in DOMAIN rules : Group(batch, r) # {}}
<1>1. /\ mailer' = [at |-> "sending", batch |-> batch,
                    selected |-> [r \in found |-> rules[r].connection],
                    todo |-> found, sent |-> {}]
      /\ UNCHANGED <<rules, issuedIds, calls, outbox, clock, cooling, strays, failures,
                     aux_untold, aux_settled, aux_gone>>
  BY DEF Collect, rule_vars, published_vars, told_vars
<1>2. DOMAIN batch = due /\ \A fp \in due : batch[fp] = outbox[fp]
  BY RestrictFacts
<1>3. due \subseteq DOMAIN outbox /\ found \subseteq DOMAIN rules
  OBVIOUS
<1> HIDE DEF due, batch, found
<1>4. /\ mailer'.at = "sending" /\ mailer'.batch = batch /\ mailer'.todo = found
      /\ mailer'.sent = {} /\ DOMAIN mailer'.selected = found
  BY <1>1
<1>5. NotificationsTypeOK'
  BY <1>1, <1>2, <1>3, <1>4 DEF NotificationsTypeOK, Row
<1>6. CycleShape'
  BY <1>1 DEF CycleShape
<1>7. Dated'
  BY <1>1, <1>2, <1>3, <1>4 DEF Dated, NotificationsTypeOK, Row
<1>8. SentIsTold' /\ SettledIsAway' /\ PendingUntilTold'
  BY <1>1, <1>2, <1>3, <1>4 DEF SentIsTold, SettledIsAway, PendingUntilTold
<1> QED
  BY <1>5, <1>6, <1>7, <1>8

LEMMA SendGroupStep ==
    ASSUME NotificationsInv, NEW r \in RuleIds, SendGroup(r)
    PROVE  NotificationsInv'
<1> USE DEF NotificationsInv
<1> DEFINE group == Group(mailer.batch, r)
           connection == mailer.selected[r]
<1>1. /\ r \in mailer.todo
      /\ connection \in Configured => Fits(group)
      /\ aux_untold' = DueAfter(connection, mailer.batch, r)
      /\ mailer' = [mailer EXCEPT !.todo = @ \ {r}, !.sent = @ \union group]
      /\ UNCHANGED <<rules, issuedIds, calls, outbox, clock, cooling, strays, failures,
                     aux_settled, aux_gone>>
  BY DEF SendGroup, rule_vars, published_vars
<1>2. /\ aux_untold' \subseteq aux_untold
      /\ connection \in Configured =>
            \A fp \in group \intersect DOMAIN outbox :
                outbox[fp].issued_at = mailer.batch[fp].issued_at => fp \notin aux_untold'
  BY <1>1, DueAfterFacts
<1>3. group \subseteq DOMAIN mailer.batch /\ \A fp \in group : RuleOf(fp) = r
  BY DEF Group
<1> HIDE DEF group
<1>4. /\ mailer' = [at |-> mailer.at, batch |-> mailer.batch, selected |-> mailer.selected,
                    todo |-> mailer.todo \ {r}, sent |-> mailer.sent \union group]
  BY <1>1 DEF CycleShape
<1>5. /\ mailer'.at = mailer.at /\ mailer'.batch = mailer.batch
      /\ mailer'.selected = mailer.selected /\ mailer'.todo = mailer.todo \ {r}
      /\ mailer'.sent = mailer.sent \union group
  BY <1>4
<1>6. NotificationsTypeOK'
  BY <1>1, <1>2, <1>3, <1>5 DEF NotificationsTypeOK, Row
<1>7. CycleShape'
  BY <1>1, <1>4, <1>5 DEF CycleShape
<1>8. Dated'
  BY <1>1, <1>5 DEF Dated
<1>9. SentIsTold'
  BY <1>1, <1>2, <1>3, <1>5 DEF SentIsTold
<1>10. SettledIsAway' /\ PendingUntilTold'
  BY <1>1, <1>2, <1>5 DEF SettledIsAway, PendingUntilTold
<1> QED
  BY <1>6, <1>7, <1>8, <1>9, <1>10

LEMMA PopAndCoolStep ==
    ASSUME NotificationsInv, PopAndCool
    PROVE  NotificationsInv'
<1> USE DEF NotificationsInv
<1>1. /\ cooling' = cooling \union DOMAIN mailer.selected
      /\ mailer' = [mailer EXCEPT !.at = "popped"]
      /\ UNCHANGED <<rules, issuedIds, calls, outbox, clock, strays, failures,
                     aux_untold, aux_settled, aux_gone>>
  BY DEF PopAndCool, rule_vars, published_vars, told_vars
<1>2. mailer' = [at |-> "popped", batch |-> mailer.batch, selected |-> mailer.selected,
                 todo |-> mailer.todo, sent |-> mailer.sent]
  BY <1>1 DEF CycleShape
<1>3. /\ mailer'.batch = mailer.batch /\ mailer'.selected = mailer.selected
      /\ mailer'.todo = mailer.todo /\ mailer'.sent = mailer.sent /\ mailer'.at = "popped"
  BY <1>2
<1>4. NotificationsTypeOK'
  BY <1>1, <1>3 DEF NotificationsTypeOK, Row
<1>5. CycleShape'
  BY <1>1, <1>2, <1>3 DEF CycleShape
<1>6. Dated' /\ SentIsTold' /\ SettledIsAway' /\ PendingUntilTold'
  BY <1>1, <1>3 DEF Dated, SentIsTold, SettledIsAway, PendingUntilTold
<1> QED
  BY <1>4, <1>5, <1>6

\* What is removed has been told, or is counted as gone.
LEMMA CommitStep ==
    ASSUME NotificationsInv, CommitCycle
    PROVE  NotificationsInv'
<1> USE DEF NotificationsInv
<1> DEFINE popped == mailer.sent \intersect DOMAIN outbox
           lost == {fp \in popped \intersect mailer.sent :
                       \/ outbox[fp].issued_at # mailer.batch[fp].issued_at
                       \/ mailer.selected[RuleOf(fp)] \notin Configured}
<1>1. /\ outbox' = Restrict(outbox, DOMAIN outbox \ popped)
      /\ aux_gone' = aux_gone \union lost
      /\ aux_settled' = aux_settled \union mailer.sent
      /\ mailer' = Sleeping
      /\ UNCHANGED <<rules, issuedIds, calls, clock, cooling, strays, failures, aux_untold>>
  BY DEF CommitCycle, Popped, rule_vars
<1>2. /\ DOMAIN outbox' = DOMAIN outbox \ popped
      /\ \A fp \in DOMAIN outbox' : outbox'[fp] = outbox[fp]
      /\ outbox' = [fp \in DOMAIN outbox \ popped |-> outbox[fp]]
  BY <1>1 DEF Restrict
<1>3. lost \subseteq Fingerprints
  BY DEF NotificationsTypeOK
<1>4. \A fp \in aux_untold \intersect popped : fp \in lost
  BY DEF SentIsTold
<1>5. mailer.sent \subseteq Fingerprints
  BY DEF NotificationsTypeOK
<1>6. /\ mailer'.sent = {} /\ mailer'.todo = {}
      /\ DOMAIN mailer'.batch = {} /\ DOMAIN mailer'.selected = {}
  BY <1>1 DEF Sleeping
<1>7. popped \subseteq mailer.sent /\ \A fp \in DOMAIN outbox' : fp \notin mailer.sent
  BY <1>2
<1> HIDE DEF lost, popped
<1>8. NotificationsTypeOK'
  <2>1. outbox' \in [DOMAIN outbox' -> Row] /\ DOMAIN outbox' \subseteq Fingerprints
    BY <1>2 DEF NotificationsTypeOK
  <2>2. aux_untold' \union aux_settled' \union aux_gone' \subseteq Fingerprints
    BY <1>1, <1>3, <1>5 DEF NotificationsTypeOK
  <2> QED
    BY <1>1, <1>6, <2>1, <2>2 DEF NotificationsTypeOK, Row
<1>9. CycleShape'
  BY <1>1 DEF CycleShape, Sleeping
<1>10. Dated'
  BY <1>1, <1>2, <1>6 DEF Dated
<1>11. SentIsTold' /\ SettledIsAway'
  BY <1>1, <1>2, <1>6, <1>7 DEF SentIsTold, SettledIsAway
<1>12. PendingUntilTold'
  BY <1>1, <1>2, <1>4 DEF PendingUntilTold
<1> QED
  BY <1>8, <1>9, <1>10, <1>11, <1>12

\* The steps that give up a cycle or a send, or let a rule send again.
LEMMA FailingSteps ==
    ASSUME NotificationsInv,
           \/ \E r \in RuleIds : SendTooLong(r) \/ SendRaises(r)
           \/ \E s \in strays : StrayEnds(s)
           \/ CycleRaises
    PROVE  NotificationsInv'
<1>1. failures \in 0..MaxFailures /\ MaxFailures \in Nat
  BY NotificationsAssumption DEF NotificationsInv, NotificationsTypeOK
<1>2. /\ aux_untold' \subseteq aux_untold /\ (mailer' = mailer \/ mailer' = Sleeping)
      /\ failures' \in 0..MaxFailures
      /\ UNCHANGED <<rule_vars, published_vars, cooling, aux_settled, aux_gone>>
  BY <1>1, DueAfterFacts DEF SendTooLong, SendRaises, StrayEnds, CycleRaises, Abandon, told_vars
<1> QED
  BY <1>2, FewerUntold

LEMMA CooldownStep ==
    ASSUME NotificationsInv, NEW r \in RuleIds, CooldownOver(r)
    PROVE  NotificationsInv'
<1>1. /\ cooling' = cooling \ {r}
      /\ UNCHANGED <<rules, issuedIds, calls, outbox, clock, mailer, strays, failures,
                     aux_untold, aux_settled, aux_gone>>
  BY DEF CooldownOver, rule_vars, published_vars, told_vars
<1> QED
  BY <1>1 DEF NotificationsInv, NotificationsTypeOK, Row, CycleShape, Dated, SentIsTold,
      SettledIsAway, PendingUntilTold

LEMMA NotificationsStep ==
    ASSUME NotificationsInv, [NotificationsNext]_notification_vars
    PROVE  NotificationsInv'
<1>1. CASE UNCHANGED notification_vars
  <2>1. UNCHANGED <<rules, issuedIds, calls, outbox, clock, cooling, mailer, strays, failures,
                    aux_untold, aux_settled, aux_gone>>
    BY <1>1 DEF notification_vars, rule_vars, published_vars, cycle_vars, told_vars
  <2> QED
    BY <2>1 DEF NotificationsInv, NotificationsTypeOK, Row, CycleShape, Dated, SentIsTold,
        SettledIsAway, PendingUntilTold
<1>2. CASE NotificationsNext
  <2>1. CASE \E r \in RuleIds : RuleStep(r) \/ SendRaises(r) \/ CooldownOver(r)
    BY <2>1, RuleSteps, FailingSteps, CooldownStep
  <2>2. CASE \E p \in Publishers : PublisherStep(p)
    BY <2>2, CallSteps, PushStep DEF PublisherStep
  <2>3. CASE SelectAndSend
    BY <2>3, CollectStep, SendGroupStep, FailingSteps, PopAndCoolStep, CommitStep DEF SelectAndSend
  <2>4. CASE (\E s \in strays : StrayEnds(s)) \/ CycleRaises
    BY <2>4, FailingSteps
  <2> QED
    BY <1>2, <2>1, <2>2, <2>3, <2>4 DEF NotificationsNext
<1> QED
  BY <1>1, <1>2

LEMMA NotificationsInvariant == NotificationsSpec => []NotificationsInv
  BY NotificationsInitially, NotificationsStep, PTL DEF NotificationsSpec

-----------------------------------------------------------------------------

\* The tables and the cycle keep their types (PreparedNotificationRepository, SelectAndSend).
THEOREM NotificationsTypeCorrect == NotificationsSpec => []NotificationsTypeOK
<1>1. NotificationsInv => NotificationsTypeOK
  BY DEF NotificationsInv
<1> QED
  BY <1>1, NotificationsInvariant, PTL

\* No publication is lost between the outbox and the messages, but by a renewal that the
\* worker did not see and by the fallback channel (SelectAndSend, pop_all).
THEOREM PendingStaysUntilTold == NotificationsSpec => []PendingUntilTold
<1>1. NotificationsInv => PendingUntilTold
  BY DEF NotificationsInv
<1> QED
  BY <1>1, NotificationsInvariant, PTL

\* A cycle sends only what no committed cycle has told since it was published (SelectAndSend).
THEOREM CommittedIsNotRetold == NotificationsSpec => ToldOnceCommitted
<1>1. NotificationsInv /\ [NotificationsNext]_notification_vars
      => [SentNow \intersect aux_settled = {}]_notification_vars
  <2> SUFFICES ASSUME NotificationsInv, NotificationsNext
               PROVE  SentNow \intersect aux_settled = {} \/ UNCHANGED notification_vars
    OBVIOUS
  <2>1. mailer'.sent \subseteq mailer.sent \union DOMAIN mailer.batch
    <3>1. CASE mailer' = mailer
      BY <3>1
    <3>2. CASE mailer'.sent = {}
      BY <3>2
    <3>3. ASSUME NEW r \in RuleIds, SendGroup(r)
          PROVE  <2>1
      <4>1. mailer' = [at |-> mailer.at, batch |-> mailer.batch, selected |-> mailer.selected,
                       todo |-> mailer.todo \ {r}, sent |-> mailer.sent \union Group(mailer.batch, r)]
        BY <3>3 DEF SendGroup, NotificationsInv, CycleShape
      <4> QED
        BY <4>1 DEF Group
    <3>4. CASE PopAndCool
      <4>1. mailer' = [at |-> "popped", batch |-> mailer.batch, selected |-> mailer.selected,
                       todo |-> mailer.todo, sent |-> mailer.sent]
        BY <3>4 DEF PopAndCool, NotificationsInv, CycleShape
      <4> QED
        BY <4>1
    <3>5. \/ mailer' = mailer \/ mailer'.sent = {} \/ PopAndCool
          \/ \E r \in RuleIds : SendGroup(r)
      <4>1. CASE \E r \in RuleIds : RuleStep(r) \/ SendRaises(r) \/ CooldownOver(r)
        BY <4>1 DEF RuleStep, CreateNotificationRule, UpdateNotificationRule,
            DeleteNotificationRule, SendRaises, CooldownOver, Abandon, Sleeping, cycle_vars
      <4>2. CASE \E p \in Publishers : PublisherStep(p)
        BY <4>2 DEF PublisherStep, SelectRules, Push, PublishFails, cycle_vars
      <4>3. CASE SelectAndSend
        BY <4>3 DEF SelectAndSend, Collect, SendTooLong, CommitCycle, Abandon, Sleeping
      <4>4. CASE (\E s \in strays : StrayEnds(s)) \/ CycleRaises
        BY <4>4 DEF StrayEnds, CycleRaises, Sleeping
      <4> QED
        BY <4>1, <4>2, <4>3, <4>4 DEF NotificationsNext
    <3> QED
      BY <3>1, <3>2, <3>3, <3>4, <3>5
  <2>2. DOMAIN mailer.batch \intersect aux_settled = {}
    BY DEF NotificationsInv, SettledIsAway
  <2> QED
    BY <2>1, <2>2 DEF SentNow
<1> QED
  BY <1>1, NotificationsInvariant, PTL DEF NotificationsSpec, ToldOnceCommitted
=============================================================================
