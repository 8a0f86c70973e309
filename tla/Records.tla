------------------------------ MODULE Records ------------------------------
(***************************************************************************)
(* What the server records of its decisions for the insights: assignments  *)
(* and the resolutions of conflicts. Each kind is collected in a buffer in *)
(* memory, which a request that fills it, or a periodic routine, inserts   *)
(* into ClickHouse under the lock of the buffer. An insert may fail, with  *)
(* or without effect; the server may die.                                  *)
(***************************************************************************)
EXTENDS Integers, FiniteSets

CONSTANTS
    Visits,    \* requests for decisions: each one assigns, and resolves conflicts
    BatchSize, \* assignment_buffer.size, conflict_buffer.size, in visits
    MaxRows    \* bound of the model: how often a failed insert has taken effect, and one more

ASSUME RecordsAssumption == BatchSize \in Nat \ {0} /\ MaxRows \in Nat \ {0}

VARIABLES
    visits,    \* where each request is
    bufs,      \* _buf of each kind: the visits whose records are in it
    inserting, \* _write_lock of each kind: who holds it and awaits an insert
    inflight,  \* the visits whose records the awaited insert of each kind was given
    recorded,  \* the tables: how often the records of each visit are in them
    aux_given, \* history: the visits whose records were put into the buffer since the start
    aux_torn   \* history: the kinds of which an insert took effect and raised

insert_vars == <<inserting, inflight>>
records_vars == <<visits, bufs, insert_vars, recorded, aux_given, aux_torn>>

-----------------------------------------------------------------------------

RecordKinds == {"assignments", "resolutions"}
Nobody == "nobody"
Routine == "routine"

ASSUME WhoAssumption == {Nobody, Routine} \intersect Visits = {}

\* The order of the calls of a request: save_assignments, save_resolutions, the answer.
Stages == {"deciding", "assigned", "answered", "failed"}
StageOf(k) == IF k = "assignments" THEN "deciding" ELSE "assigned"
After(k) == IF k = "assignments" THEN "assigned" ELSE "answered"

RecordsInit ==
    /\ visits = [v \in Visits |-> "deciding"]
    /\ bufs = [k \in RecordKinds |-> {}]
    /\ inserting = [k \in RecordKinds |-> Nobody]
    /\ inflight = [k \in RecordKinds |-> {}]
    /\ recorded = [k \in RecordKinds |-> [v \in Visits |-> 0]]
    /\ aux_given = [k \in RecordKinds |-> {}]
    /\ aux_torn = {}

-----------------------------------------------------------------------------

\* Mutant of MayEnter: the lock is not taken.
MayEnterUnlocked(k) == TRUE

\* The lock is held only while an insert is awaited.
MayEnter(k) == inserting[k] = Nobody

\* The list that an insert is given is built when it begins.
StartInsert(k, who) ==
    /\ inserting' = [inserting EXCEPT ![k] = who]
    /\ inflight' = [inflight EXCEPT ![k] = bufs'[k]]

\* save_assignments, save_resolutions: the records go into the buffer; one that fills it
\* goes on to the insert.
Save(v, k) ==
    LET full == Cardinality(bufs[k] \union {v}) >= BatchSize IN
    /\ visits[v] = StageOf(k) /\ v \notin bufs[k] /\ MayEnter(k)
    /\ bufs' = [bufs EXCEPT ![k] = @ \union {v}]
    /\ aux_given' = [aux_given EXCEPT ![k] = @ \union {v}]
    /\ IF full /\ inserting[k] = Nobody
       THEN StartInsert(k, v) /\ UNCHANGED visits
       ELSE visits' = [visits EXCEPT ![v] = After(k)] /\ UNCHANGED insert_vars
    /\ UNCHANGED <<recorded, aux_torn>>

\* DecideForSubject had no conflicts to resolve.
SkipResolutions(v) ==
    /\ visits[v] = "assigned" /\ inserting["resolutions"] # v
    /\ visits' = [visits EXCEPT ![v] = "answered"]
    /\ UNCHANGED <<bufs, insert_vars, recorded, aux_given, aux_torn>>

\* periodic_flush_routine
RoutineFlushes(k) ==
    /\ inserting[k] = Nobody /\ bufs[k] # {}
    /\ UNCHANGED bufs
    /\ StartInsert(k, Routine)
    /\ UNCHANGED <<visits, recorded, aux_given, aux_torn>>

Landed(k) ==
    [recorded EXCEPT ![k] = [v \in Visits |-> @[v] + IF v \in inflight[k] THEN 1 ELSE 0]]
Fits(k) == \A v \in inflight[k] : recorded[k][v] < MaxRows

\* Who awaited the insert goes on: a request with its next call, or with an exception.
GoesOn(k, stage) ==
    /\ visits' = IF inserting[k] \in Visits THEN [visits EXCEPT ![inserting[k]] = stage] ELSE visits
    /\ inserting' = [inserting EXCEPT ![k] = Nobody]
    /\ inflight' = [inflight EXCEPT ![k] = {}]

\* _buf.clear(), after the insert
Emptied(k) == [bufs EXCEPT ![k] = {}]

Inserts(k) ==
    /\ inserting[k] # Nobody /\ Fits(k)
    /\ recorded' = Landed(k)
    /\ bufs' = Emptied(k)
    /\ GoesOn(k, After(k))
    /\ UNCHANGED <<aux_given, aux_torn>>

\* The insert raises: the buffer stays as it is, for the next flush. The routine goes on,
\* a request ends in an error, before what it had still to record.
InsertRaises(k, landed) ==
    /\ inserting[k] # Nobody
    /\ IF landed THEN Fits(k) /\ recorded' = Landed(k) /\ aux_torn' = aux_torn \union {k}
       ELSE UNCHANGED <<recorded, aux_torn>>
    /\ GoesOn(k, "failed")
    /\ UNCHANGED <<bufs, aux_given>>

\* The buffers are lost, and the requests; an insert under way may have taken effect.
RecorderDies ==
    /\ \E k \in RecordKinds : aux_given[k] # {}
    /\ \E landing \in SUBSET {k \in RecordKinds : inserting[k] # Nobody /\ Fits(k)} :
          recorded' = [k \in RecordKinds |-> IF k \in landing THEN Landed(k)[k] ELSE recorded[k]]
    /\ visits' = [v \in Visits |->
                     IF visits[v] = "assigned" \/ inserting["assignments"] = v
                     THEN "failed" ELSE visits[v]]
    /\ bufs' = [k \in RecordKinds |-> {}]
    /\ inserting' = [k \in RecordKinds |-> Nobody]
    /\ inflight' = [k \in RecordKinds |-> {}]
    /\ aux_given' = [k \in RecordKinds |-> {}]
    /\ UNCHANGED aux_torn

RecordsNext ==
    \/ \E v \in Visits : SkipResolutions(v) \/ \E k \in RecordKinds : Save(v, k)
    \/ \E k \in RecordKinds :
          RoutineFlushes(k) \/ Inserts(k) \/ \E landed \in BOOLEAN : InsertRaises(k, landed)
    \/ RecorderDies

RecordsSpec == RecordsInit /\ [][RecordsNext]_records_vars

-----------------------------------------------------------------------------

\* The types of the variables.
RecordsTypeOK ==
    /\ visits \in [Visits -> Stages]
    /\ bufs \in [RecordKinds -> SUBSET Visits]
    /\ inserting \in [RecordKinds -> Visits \union {Nobody, Routine}]
    /\ inflight \in [RecordKinds -> SUBSET Visits]
    /\ recorded \in [RecordKinds -> [Visits -> 0..MaxRows]]
    /\ aux_given \in [RecordKinds -> SUBSET Visits]
    /\ aux_torn \subseteq RecordKinds

\* While the server lives, what was put into a buffer is in it or in the table, whoever
\* flushes (_flush_no_lock clears the whole buffer after an insert of what it held before);
\* and the records of a request are counted once, across restarts, but after an insert that
\* took effect and raised (count() in get_variant_distribution, count_conflicts_by_domain).
RecordsAreExact ==
    \A k \in RecordKinds : \A v \in Visits :
        /\ v \in aux_given[k] => v \in bufs[k] \/ recorded[k][v] > 0
        /\ k \notin aux_torn => recorded[k][v] <= 1 /\ (v \in bufs[k] => recorded[k][v] = 0)
=============================================================================
