-------------------------- MODULE ServerState_proofs --------------------------
(***************************************************************************)
(* What the server's answers may rely on, for every set of requests and    *)
(* every bound of the models: the records of decisions that the insights   *)
(* read, the copies of flags and event types, and the users; and that the  *)
(* components of the server beside each other are what each of them is.    *)
(***************************************************************************)
EXTENDS MCServer, EventIngestion_proofs, ExperimentVersions_proofs

\* The request has not yet gone on from the call that saves its record of the kind.
NotPast(v, k) == visits[v] = "deciding" \/ (visits[v] = "assigned" /\ k = "resolutions")

\* An insert holds what the buffer holds, since nobody can add to the buffer meanwhile.
InsertInv ==
    \A k \in RecordKinds :
        /\ inserting[k] = Nobody => inflight[k] = {}
        /\ inserting[k] # Nobody => inflight[k] = bufs[k]
        /\ inserting[k] \in Visits => visits[inserting[k]] = StageOf(k)

\* A request whose record is in the buffer while it is still at the call awaits the insert;
\* before that its record is nowhere.
StageInv ==
    \A k \in RecordKinds, v \in Visits :
        NotPast(v, k) => /\ v \in bufs[k] => inserting[k] = v
                         /\ k \notin aux_torn => recorded[k][v] = 0

RecordsInv == RecordsTypeOK /\ InsertInv /\ StageInv /\ RecordsAreExact

LEMMA StagesInOrder ==
    ASSUME NEW k \in RecordKinds
    PROVE  StageOf(k) \in {"deciding", "assigned"} /\ After(k) \in {"assigned", "answered"}
  BY DEF RecordKinds, StageOf, After

\* Counting the rows of an insert once more.
LEMMA LandedFacts ==
    ASSUME NEW k \in RecordKinds, RecordsTypeOK, Fits(k)
    PROVE  /\ Landed(k) \in [RecordKinds -> [Visits -> 0..MaxRows]]
           /\ \A l \in RecordKinds \ {k} : Landed(k)[l] = recorded[l]
           /\ \A v \in Visits :
                 Landed(k)[k][v] = IF v \in inflight[k] THEN recorded[k][v] + 1 ELSE recorded[k][v]
<1>1. recorded \in [RecordKinds -> [Visits -> 0..MaxRows]] /\ inflight[k] \subseteq Visits
  BY DEF RecordsTypeOK
<1>2. MaxRows \in Nat
  BY RecordsAssumption
<1>3. \A v \in Visits : v \in inflight[k] => recorded[k][v] < MaxRows
  BY <1>1 DEF Fits
<1> DEFINE row == [v \in Visits |-> recorded[k][v] + IF v \in inflight[k] THEN 1 ELSE 0]
<1>4. \A v \in Visits : row[v] = IF v \in inflight[k] THEN recorded[k][v] + 1 ELSE recorded[k][v]
  <2> TAKE v \in Visits
  <2>1. recorded[k][v] \in 0..MaxRows
    BY <1>1
  <2> QED
    BY <2>1, <1>2
<1>5. row \in [Visits -> 0..MaxRows]
  <2> SUFFICES ASSUME NEW v \in Visits PROVE row[v] \in 0..MaxRows
    OBVIOUS
  <2>1. recorded[k][v] \in 0..MaxRows
    BY <1>1
  <2> QED
    BY <2>1, <1>2, <1>3, <1>4
<1> HIDE DEF row
<1>6. Landed(k) = [recorded EXCEPT ![k] = row]
  BY DEF Landed, row
<1> QED
  BY <1>1, <1>4, <1>5, <1>6

LEMMA RecordsInitially == RecordsInit => RecordsInv
  BY RecordsAssumption, WhoAssumption
  DEF RecordsInit, RecordsInv, RecordsTypeOK, InsertInv, StageInv, RecordsAreExact, RecordKinds,
      Stages, Nobody, NotPast

LEMMA SaveRecordStep ==
    ASSUME RecordsInv, NEW v \in Visits, NEW k \in RecordKinds, Save(v, k)
    PROVE  RecordsInv'
<1> USE DEF RecordsInv
<1>1. /\ visits \in [Visits -> Stages] /\ bufs \in [RecordKinds -> SUBSET Visits]
      /\ inserting \in [RecordKinds -> Visits \union {Nobody, Routine}]
      /\ inflight \in [RecordKinds -> SUBSET Visits]
      /\ aux_given \in [RecordKinds -> SUBSET Visits]
  BY DEF RecordsTypeOK
<1>2. /\ visits[v] = StageOf(k) /\ v \notin bufs[k] /\ inserting[k] = Nobody
      /\ bufs' = [bufs EXCEPT ![k] = @ \union {v}]
      /\ aux_given' = [aux_given EXCEPT ![k] = @ \union {v}]
      /\ UNCHANGED <<recorded, aux_torn>>
  BY DEF Save, MayEnter
<1>3. \/ StartInsert(k, v) /\ UNCHANGED visits
      \/ visits' = [visits EXCEPT ![v] = After(k)] /\ UNCHANGED insert_vars
  BY DEF Save
<1>4. NotPast(v, k)
  BY <1>2 DEF NotPast, StageOf, RecordKinds
<1>5. CASE StartInsert(k, v) /\ UNCHANGED visits
  <2>1. /\ inserting' = [inserting EXCEPT ![k] = v]
        /\ inflight' = [inflight EXCEPT ![k] = bufs[k] \union {v}]
    BY <1>1, <1>2, <1>5 DEF StartInsert
  <2>2. RecordsTypeOK'
    BY <1>1, <1>2, <1>5, <2>1 DEF RecordsTypeOK
  <2>3. InsertInv'
    BY <1>1, <1>2, <1>5, <2>1, WhoAssumption DEF InsertInv
  <2>4. StageInv'
    BY <1>1, <1>2, <1>5, <2>1, WhoAssumption DEF StageInv, NotPast
  <2>5. RecordsAreExact'
    BY <1>1, <1>2, <1>4 DEF RecordsAreExact, StageInv
  <2> QED
    BY <2>2, <2>3, <2>4, <2>5
<1>6. CASE visits' = [visits EXCEPT ![v] = After(k)] /\ UNCHANGED insert_vars
  <2>1. inserting' = inserting /\ inflight' = inflight
    BY <1>6 DEF insert_vars
  <2>2. RecordsTypeOK'
    BY <1>1, <1>2, <1>6, <2>1, StagesInOrder DEF RecordsTypeOK, Stages
  <2>3. InsertInv'
    <3>1. \A l \in RecordKinds : inserting[l] # v
      BY <1>2, WhoAssumption DEF InsertInv, StageOf, RecordKinds
    <3> QED
      BY <1>1, <1>2, <1>6, <2>1, <3>1 DEF InsertInv
  <2>4. StageInv'
    BY <1>1, <1>2, <1>6, <2>1 DEF StageInv, NotPast, After, StageOf, RecordKinds
  <2>5. RecordsAreExact'
    BY <1>1, <1>2, <1>4 DEF RecordsAreExact, StageInv
  <2> QED
    BY <2>2, <2>3, <2>4, <2>5
<1> QED
  BY <1>3, <1>5, <1>6

LEMMA SkipStep ==
    ASSUME RecordsInv, NEW v \in Visits, SkipResolutions(v)
    PROVE  RecordsInv'
<1> USE DEF RecordsInv
<1>1. /\ visits[v] = "assigned" /\ inserting["resolutions"] # v
      /\ visits' = [visits EXCEPT ![v] = "answered"]
      /\ UNCHANGED <<bufs, inserting, inflight, recorded, aux_given, aux_torn>>
  BY DEF SkipResolutions, insert_vars
<1>2. visits \in [Visits -> Stages]
  BY DEF RecordsTypeOK
<1>3. RecordsTypeOK'
  BY <1>1, <1>2 DEF RecordsTypeOK, Stages
<1>4. \A l \in RecordKinds : inserting[l] # v
  BY <1>1 DEF InsertInv, StageOf, RecordKinds
<1>5. InsertInv'
  BY <1>1, <1>2, <1>4 DEF InsertInv
<1>6. StageInv'
  BY <1>1, <1>2 DEF StageInv, NotPast
<1>7. RecordsAreExact'
  BY <1>1 DEF RecordsAreExact
<1> QED
  BY <1>3, <1>5, <1>6, <1>7

LEMMA RoutineStep ==
    ASSUME RecordsInv, NEW k \in RecordKinds, RoutineFlushes(k)
    PROVE  RecordsInv'
<1> USE DEF RecordsInv
<1>1. /\ inserting \in [RecordKinds -> Visits \union {Nobody, Routine}]
      /\ inflight \in [RecordKinds -> SUBSET Visits] /\ bufs \in [RecordKinds -> SUBSET Visits]
  BY DEF RecordsTypeOK
<1>2. /\ inserting[k] = Nobody
      /\ inserting' = [inserting EXCEPT ![k] = Routine]
      /\ inflight' = [inflight EXCEPT ![k] = bufs[k]]
      /\ UNCHANGED <<bufs, visits, recorded, aux_given, aux_torn>>
  BY DEF RoutineFlushes, StartInsert
<1>3. RecordsTypeOK'
  BY <1>1, <1>2 DEF RecordsTypeOK
<1>4. InsertInv'
  BY <1>1, <1>2, WhoAssumption DEF InsertInv, Nobody, Routine
<1>5. StageInv'
  BY <1>1, <1>2, WhoAssumption DEF StageInv, NotPast
<1>6. RecordsAreExact'
  BY <1>2 DEF RecordsAreExact
<1> QED
  BY <1>3, <1>4, <1>5, <1>6

\* Who awaited an insert goes on: nobody else's place changes.
LEMMA GoesOnFacts ==
    ASSUME RecordsInv, NEW k \in RecordKinds, NEW stage \in Stages, GoesOn(k, stage),
           inserting[k] # Nobody, stage \in {After(k), "failed"},
           \A l \in RecordKinds \ {k} : bufs'[l] = bufs[l]
    PROVE  /\ visits' \in [Visits -> Stages]
           /\ inserting' = [inserting EXCEPT ![k] = Nobody]
           /\ inflight' = [inflight EXCEPT ![k] = {}]
           /\ InsertInv'
           /\ \A v \in Visits, l \in RecordKinds : NotPast(v, l)' => NotPast(v, l)
           /\ \A v \in Visits : NotPast(v, k)' => inserting[k] # v
<1> USE DEF RecordsInv
<1>1. /\ visits \in [Visits -> Stages]
      /\ inserting \in [RecordKinds -> Visits \union {Nobody, Routine}]
      /\ inflight \in [RecordKinds -> SUBSET Visits]
      /\ bufs \in [RecordKinds -> SUBSET Visits]
  BY DEF RecordsTypeOK
<1>2. /\ inserting' = [inserting EXCEPT ![k] = Nobody]
      /\ inflight' = [inflight EXCEPT ![k] = {}]
      /\ visits' = IF inserting[k] \in Visits THEN [visits EXCEPT ![inserting[k]] = stage]
                   ELSE visits
  BY DEF GoesOn
<1>3. inserting[k] \in Visits => visits[inserting[k]] = StageOf(k)
  BY DEF InsertInv
<1>4. \A l \in RecordKinds \ {k} : inserting[k] \in Visits => inserting[l] # inserting[k]
  BY <1>3 DEF InsertInv, StageOf, RecordKinds
<1>5. InsertInv'
  BY <1>1, <1>2, <1>4, WhoAssumption DEF InsertInv
<1>6. \A v \in Visits, l \in RecordKinds : NotPast(v, l)' => NotPast(v, l)
  BY <1>1, <1>2, <1>3 DEF NotPast, StageOf, After, RecordKinds, Stages
<1>7. \A v \in Visits : NotPast(v, k)' => inserting[k] # v
  BY <1>1, <1>2, <1>3 DEF NotPast, StageOf, After, RecordKinds, Stages
<1> QED
  BY <1>1, <1>2, <1>5, <1>6, <1>7

LEMMA InsertsStep ==
    ASSUME RecordsInv, NEW k \in RecordKinds, Inserts(k)
    PROVE  RecordsInv'
<1> USE DEF RecordsInv
<1>1. /\ bufs \in [RecordKinds -> SUBSET Visits] /\ inflight \in [RecordKinds -> SUBSET Visits]
      /\ inserting \in [RecordKinds -> Visits \union {Nobody, Routine}]
      /\ recorded \in [RecordKinds -> [Visits -> 0..MaxRows]]
      /\ aux_given \in [RecordKinds -> SUBSET Visits]
  BY DEF RecordsTypeOK
<1>2. /\ inserting[k] # Nobody /\ recorded' = Landed(k) /\ bufs' = [bufs EXCEPT ![k] = {}]
      /\ GoesOn(k, After(k)) /\ UNCHANGED <<aux_given, aux_torn>> /\ Fits(k)
      /\ inflight[k] = bufs[k]
  BY DEF Inserts, Emptied, InsertInv
<1>3. After(k) \in Stages
  BY StagesInOrder DEF Stages
<1>4. /\ visits' \in [Visits -> Stages]
      /\ inserting' = [inserting EXCEPT ![k] = Nobody]
      /\ inflight' = [inflight EXCEPT ![k] = {}]
      /\ InsertInv'
      /\ \A v \in Visits, l \in RecordKinds : NotPast(v, l)' => NotPast(v, l)
      /\ \A v \in Visits : NotPast(v, k)' => inserting[k] # v
  BY <1>1, <1>2, <1>3, GoesOnFacts
<1>5. /\ recorded' \in [RecordKinds -> [Visits -> 0..MaxRows]]
      /\ \A l \in RecordKinds \ {k} : recorded'[l] = recorded[l]
      /\ \A v \in Visits :
            recorded'[k][v] = IF v \in bufs[k] THEN recorded[k][v] + 1 ELSE recorded[k][v]
  BY <1>2, LandedFacts
<1>6. RecordsTypeOK'
  BY <1>1, <1>2, <1>4, <1>5 DEF RecordsTypeOK
<1>7. StageInv'
  BY <1>1, <1>2, <1>4, <1>5 DEF StageInv
<1>8. RecordsAreExact'
  <2> SUFFICES ASSUME NEW l \in RecordKinds, NEW v \in Visits
      PROVE /\ v \in aux_given[l] => v \in bufs'[l] \/ recorded'[l][v] > 0
            /\ l \notin aux_torn =>
                  recorded'[l][v] <= 1 /\ (v \in bufs'[l] => recorded'[l][v] = 0)
    BY <1>2 DEF RecordsAreExact
  <2>1. /\ v \in aux_given[l] => v \in bufs[l] \/ recorded[l][v] > 0
        /\ l \notin aux_torn => recorded[l][v] <= 1 /\ (v \in bufs[l] => recorded[l][v] = 0)
    BY DEF RecordsAreExact
  <2>2. recorded[l][v] \in Nat
    BY <1>1
  <2>3. CASE l = k
    BY <1>1, <1>2, <1>5, <2>1, <2>2, <2>3
  <2>4. CASE l # k
    BY <1>1, <1>2, <1>5, <2>1, <2>4
  <2> QED
    BY <2>3, <2>4
<1> QED
  BY <1>4, <1>6, <1>7, <1>8

LEMMA InsertRaisesStep ==
    ASSUME RecordsInv, NEW k \in RecordKinds, NEW landed \in BOOLEAN, InsertRaises(k, landed)
    PROVE  RecordsInv'
<1> USE DEF RecordsInv
<1>1. /\ bufs \in [RecordKinds -> SUBSET Visits] /\ inflight \in [RecordKinds -> SUBSET Visits]
      /\ inserting \in [RecordKinds -> Visits \union {Nobody, Routine}]
      /\ recorded \in [RecordKinds -> [Visits -> 0..MaxRows]]
      /\ aux_given \in [RecordKinds -> SUBSET Visits] /\ aux_torn \subseteq RecordKinds
  BY DEF RecordsTypeOK
<1>2. /\ inserting[k] # Nobody /\ GoesOn(k, "failed") /\ UNCHANGED <<bufs, aux_given>>
      /\ inflight[k] = bufs[k]
  BY DEF InsertRaises, InsertInv
<1>3. /\ visits' \in [Visits -> Stages]
      /\ inserting' = [inserting EXCEPT ![k] = Nobody]
      /\ inflight' = [inflight EXCEPT ![k] = {}]
      /\ InsertInv'
      /\ \A v \in Visits, l \in RecordKinds : NotPast(v, l)' => NotPast(v, l)
      /\ \A v \in Visits : NotPast(v, k)' => inserting[k] # v
  BY <1>1, <1>2, GoesOnFacts DEF Stages
<1>4. CASE landed
  <2>1. Fits(k) /\ recorded' = Landed(k) /\ aux_torn' = aux_torn \union {k}
    BY <1>4 DEF InsertRaises
  <2>2. /\ recorded' \in [RecordKinds -> [Visits -> 0..MaxRows]]
        /\ \A l \in RecordKinds \ {k} : recorded'[l] = recorded[l]
        /\ \A v \in Visits :
              recorded'[k][v] = IF v \in bufs[k] THEN recorded[k][v] + 1 ELSE recorded[k][v]
    BY <1>2, <2>1, LandedFacts
  <2>3. RecordsTypeOK'
    BY <1>1, <1>2, <1>3, <2>1, <2>2 DEF RecordsTypeOK
  <2>4. StageInv'
    BY <1>1, <1>2, <1>3, <2>1, <2>2 DEF StageInv
  <2>5. RecordsAreExact'
    BY <1>1, <1>2, <2>1, <2>2 DEF RecordsAreExact
  <2> QED
    BY <1>3, <2>3, <2>4, <2>5
<1>5. CASE ~landed
  <2>1. UNCHANGED <<recorded, aux_torn>>
    BY <1>5 DEF InsertRaises
  <2>2. RecordsTypeOK'
    BY <1>1, <1>2, <1>3, <2>1 DEF RecordsTypeOK
  <2>3. StageInv'
    BY <1>1, <1>2, <1>3, <2>1 DEF StageInv
  <2>4. RecordsAreExact'
    BY <1>2, <2>1 DEF RecordsAreExact
  <2> QED
    BY <1>3, <2>2, <2>3, <2>4
<1> QED
  BY <1>4, <1>5

LEMMA DiesStep ==
    ASSUME RecordsInv, RecorderDies
    PROVE  RecordsInv'
<1> USE DEF RecordsInv
<1>1. /\ visits \in [Visits -> Stages] /\ bufs \in [RecordKinds -> SUBSET Visits]
      /\ inserting \in [RecordKinds -> Visits \union {Nobody, Routine}]
      /\ inflight \in [RecordKinds -> SUBSET Visits]
      /\ recorded \in [RecordKinds -> [Visits -> 0..MaxRows]]
  BY DEF RecordsTypeOK
<1>2. PICK landing \in SUBSET {k \in RecordKinds : inserting[k] # Nobody /\ Fits(k)} :
        recorded' = [k \in RecordKinds |-> IF k \in landing THEN Landed(k)[k] ELSE recorded[k]]
  BY DEF RecorderDies
<1>3. /\ visits' = [v \in Visits |->
                      IF visits[v] = "assigned" \/ inserting["assignments"] = v
                      THEN "failed" ELSE visits[v]]
      /\ bufs' = [k \in RecordKinds |-> {}]
      /\ inserting' = [k \in RecordKinds |-> Nobody]
      /\ inflight' = [k \in RecordKinds |-> {}]
      /\ aux_given' = [k \in RecordKinds |-> {}] /\ aux_torn' = aux_torn
  BY DEF RecorderDies
<1>4. \A k \in RecordKinds :
        \/ recorded'[k] = recorded[k]
        \/ /\ recorded'[k] \in [Visits -> 0..MaxRows] /\ inflight[k] = bufs[k]
           /\ \A v \in Visits :
                 recorded'[k][v] = IF v \in bufs[k] THEN recorded[k][v] + 1 ELSE recorded[k][v]
  <2> TAKE k \in RecordKinds
  <2>1. CASE k \in landing
    <3>1. Fits(k) /\ inflight[k] = bufs[k]
      BY <2>1 DEF InsertInv
    <3>2. recorded'[k] = Landed(k)[k]
      BY <1>2, <2>1
    <3> QED
      BY <3>1, <3>2, LandedFacts
  <2>2. CASE k \notin landing
    BY <1>2, <2>2
  <2> QED
    BY <2>1, <2>2
<1>5. recorded' \in [RecordKinds -> [Visits -> 0..MaxRows]]
  BY <1>1, <1>2, <1>4
<1>6. RecordsTypeOK'
  BY <1>1, <1>3, <1>5 DEF RecordsTypeOK, Stages
<1>7. InsertInv'
  BY <1>3, WhoAssumption DEF InsertInv
<1>8. StageInv'
  <2> SUFFICES ASSUME NEW k \in RecordKinds, NEW v \in Visits, NotPast(v, k)'
      PROVE /\ v \in bufs'[k] => inserting'[k] = v
            /\ k \notin aux_torn' => recorded'[k][v] = 0
    BY DEF StageInv
  <2>1. visits[v] = "deciding" /\ inserting["assignments"] # v
    BY <1>1, <1>3 DEF NotPast
  <2>2. NotPast(v, k)
    BY <2>1 DEF NotPast
  <2>3. v \notin bufs[k]
    <3> SUFFICES ASSUME inserting[k] = v PROVE FALSE
      BY <2>2 DEF StageInv
    <3> QED
      BY <2>1 DEF InsertInv, StageOf, RecordKinds
  <2> QED
    BY <1>3, <1>4, <2>2, <2>3 DEF StageInv
<1>9. RecordsAreExact'
  <2> SUFFICES ASSUME NEW k \in RecordKinds, NEW v \in Visits, k \notin aux_torn
      PROVE recorded'[k][v] <= 1
    BY <1>3 DEF RecordsAreExact
  <2>1. recorded[k][v] \in Nat /\ recorded[k][v] <= 1 /\ (v \in bufs[k] => recorded[k][v] = 0)
    BY <1>1 DEF RecordsAreExact
  <2> QED
    BY <1>4, <2>1
<1> QED
  BY <1>6, <1>7, <1>8, <1>9

LEMMA RecordsStep == RecordsInv /\ [RecordsNext]_records_vars => RecordsInv'
<1> SUFFICES ASSUME RecordsInv, [RecordsNext]_records_vars PROVE RecordsInv'
  OBVIOUS
<1>1. CASE RecordsNext
  BY <1>1, SaveRecordStep, SkipStep, RoutineStep, InsertsStep, InsertRaisesStep, DiesStep
  DEF RecordsNext
<1>2. CASE UNCHANGED records_vars
  BY <1>2 DEF records_vars, insert_vars, RecordsInv, RecordsTypeOK, InsertInv, StageInv,
              RecordsAreExact, NotPast
<1> QED
  BY <1>1, <1>2

\* Type correctness (the buffers of assign_store.py and resolutions_repo.py).
THEOREM RecordsTypeCorrect == RecordsSpec => []RecordsTypeOK
<1>1. RecordsInv => RecordsTypeOK
  BY DEF RecordsInv
<1> QED
  BY <1>1, RecordsInitially, RecordsStep, PTL DEF RecordsSpec

\* The records of decisions are neither lost while the server lives nor counted twice, but
\* after an insert that took effect and raised (save_assignments, _flush_no_lock).
THEOREM RecordsStayExact == RecordsSpec => []RecordsAreExact
<1>1. RecordsInv => RecordsAreExact
  BY DEF RecordsInv
<1> QED
  BY <1>1, RecordsInitially, RecordsStep, PTL DEF RecordsSpec

-----------------------------------------------------------------------------
(* Flags and event types.                                                  *)

Request == [at : {"read", "saved", "committed"}, key : FlagKeys \union TypeIds,
            row : Defaults \union TypeRow, seen : Defaults \union TypeRow \union {Absent},
            tells : BOOLEAN]

\* CatalogTypeOK, and what an open request is.
CatalogTypeInv ==
    /\ CatalogTypeOK
    /\ writers \in [Writers -> Request \union {NoRequest}]
    /\ \A w \in Writers : writers[w] # NoRequest =>
          /\ writers[w].key \in FlagKeys => writers[w].row \in Defaults /\ writers[w].tells
          /\ writers[w].key \in TypeIds => writers[w].row \in TypeRow
          /\ writers[w].at = "committed" => writers[w].tells

\* Nobody is served before the copies are warmed up, the flags first.
ServingInv ==
    serving # "up" =>
        /\ \A w \in Writers : writers[w] = NoRequest
        /\ aux_crossed = {}
        /\ \A t \in TypeIds : typeCache[t] = Absent
        /\ serving = "flags" => defaults = flagRows

Is(w, key, at) == writers[w].at = at /\ writers[w].key = key
Committed(key) == \E w \in Writers : Is(w, key, "committed")

\* Where requests have not crossed, one at most is open on the flag; after its COMMIT it
\* has the row to tell, and otherwise the copy is the row.
FlagInv(f) ==
    f \notin aux_crossed =>
        /\ \A v, w \in Writers : WritesOn(v, f) /\ WritesOn(w, f) => v = w
        /\ \A w \in Writers : Is(w, f, "committed") => writers[w].row = flagRows[f]
        /\ serving = "up" /\ ~Committed(f) => defaults[f] = flagRows[f]

\* A creator's row is not there until its COMMIT, and then has the schema it tells. The others
\* keep the schema of the row, and do not take it out of the archive; what one has saved
\* without being stale was made from the row.
WriterInv(w, t) ==
    LET request == writers[w]  row == request.row  seen == request.seen IN
    \/ /\ request.tells /\ request.at = "saved" /\ typeRows[t] = Absent
    \/ /\ request.tells /\ request.at = "committed"
       /\ typeRows[t] # Absent /\ row.schema = typeRows[t].schema
    \/ /\ ~request.tells /\ typeRows[t] # Absent /\ row.schema = typeRows[t].schema
       /\ seen \in TypeRow /\ (seen.archived => row.archived)
       /\ request.at = "saved" /\ t \notin aux_stale => seen = typeRows[t]

TypeIdInv(t) ==
    /\ \A v, w \in Writers : Is(v, t, "saved") /\ Is(w, t, "saved") => v = w
    /\ \A w \in Writers : WritesOn(w, t) => WriterInv(w, t)
    /\ typeCache[t] # Absent =>
          typeRows[t] # Absent /\ typeCache[t].schema = typeRows[t].schema
    /\ serving = "up" /\ typeRows[t] # Absent /\ ~Committed(t) => typeCache[t] # Absent

CatalogInv ==
    /\ CatalogTypeInv /\ ServingInv
    /\ \A f \in FlagKeys : FlagInv(f)
    /\ \A t \in TypeIds : TypeIdInv(t)

\* A request opens on a key: it has inserted a row where there was none, or it has read one.
OpensRequest(w, request) ==
    /\ request \in Request /\ Opens(w, request)
    /\ \/ /\ request.key \in FlagKeys /\ request.row \in Defaults /\ request.tells
          /\ request.at \in {"read", "saved"}
       \/ /\ request.key \in TypeIds /\ request.row \in TypeRow /\ request.tells
          /\ request.at = "saved"
          /\ typeRows[request.key] = Absent /\ RowIsFree(request.key)
       \/ /\ request.key \in TypeIds /\ request.row \in TypeRow /\ ~request.tells
          /\ request.at = "read"
          /\ typeRows[request.key] # Absent /\ request.seen = typeRows[request.key]
          /\ request.row.schema = typeRows[request.key].schema
          /\ request.seen.archived => request.row.archived

LEMMA RequestedOpens ==
    ASSUME CatalogTypeInv, NEW w \in Writers, Requested(w)
    PROVE  \E request \in Request : OpensRequest(w, request)
<1>1. /\ flagRows \in [FlagKeys -> Defaults \union {Absent}]
      /\ typeRows \in [TypeIds -> TypeRow \union {Absent}]
  BY DEF CatalogTypeInv, CatalogTypeOK
<1>2. ASSUME NEW f \in FlagKeys, NEW value \in Defaults, Create(w, f, value)
      PROVE  \E request \in Request : OpensRequest(w, request)
  <2> DEFINE request == [at |-> "saved", key |-> f, row |-> value, seen |-> Absent, tells |-> TRUE]
  <2>1. request \in Request /\ OpensRequest(w, request)
    BY <1>2 DEF Create, OpensRequest, Request
  <2> QED
    BY <2>1
<1>3. ASSUME NEW f \in FlagKeys, NEW value \in Defaults, Change(w, f, value, TRUE)
      PROVE  \E request \in Request : OpensRequest(w, request)
  <2> DEFINE request == [at |-> "read", key |-> f, row |-> value, seen |-> Row(f), tells |-> TRUE]
  <2>1. Row(f) \in Defaults
    BY <1>1, <1>3 DEF Change, Row
  <2>2. request \in Request /\ OpensRequest(w, request)
    BY <1>3, <2>1 DEF Change, OpensRequest, Request
  <2> QED
    BY <2>2
<1>4. ASSUME NEW t \in TypeIds, NEW schema \in Schemas, Create(w, t, NewType(schema))
      PROVE  \E request \in Request : OpensRequest(w, request)
  <2> DEFINE request == [at |-> "saved", key |-> t, row |-> NewType(schema), seen |-> Absent,
                         tells |-> TRUE]
  <2>1. NewType(schema) \in TypeRow /\ Row(t) = typeRows[t]
    BY CatalogAssumption DEF NewType, TypeRow, Row
  <2>2. request \in Request /\ OpensRequest(w, request)
    BY <1>4, <2>1 DEF Create, OpensRequest, Request
  <2> QED
    BY <2>2
<1>5. ASSUME NEW t \in TypeIds, NEW row \in TypeRow, typeRows[t] # Absent, Change(w, t, row, FALSE),
             row.schema = typeRows[t].schema, typeRows[t].archived => row.archived
      PROVE  \E request \in Request : OpensRequest(w, request)
  <2> DEFINE request == [at |-> "read", key |-> t, row |-> row, seen |-> Row(t), tells |-> FALSE]
  <2>1. Row(t) = typeRows[t] /\ typeRows[t] \in TypeRow
    BY <1>1, <1>5, CatalogAssumption DEF Row
  <2>2. request \in Request /\ OpensRequest(w, request)
    BY <1>5, <2>1 DEF Change, OpensRequest, Request
  <2> QED
    BY <2>2
<1>6. ASSUME NEW t \in TypeIds, typeRows[t] # Absent
      PROVE  /\ Renamed(typeRows[t]) \in TypeRow
             /\ Renamed(typeRows[t]).schema = typeRows[t].schema
             /\ Renamed(typeRows[t]).archived = typeRows[t].archived
  BY <1>1, <1>6 DEF Renamed, TypeRow
<1>7. ASSUME NEW t \in TypeIds, typeRows[t] # Absent
      PROVE  /\ [typeRows[t] EXCEPT !.archived = TRUE] \in TypeRow
             /\ [typeRows[t] EXCEPT !.archived = TRUE].schema = typeRows[t].schema
             /\ [typeRows[t] EXCEPT !.archived = TRUE].archived
  BY <1>1, <1>7 DEF TypeRow
<1>8. CASE \E f \in FlagKeys, value \in Defaults : Create(w, f, value) \/ Change(w, f, value, TRUE)
  BY <1>2, <1>3, <1>8
<1>9. CASE \E t \in TypeIds, schema \in Schemas : Create(w, t, NewType(schema))
  BY <1>4, <1>9
<1>10. CASE \E t \in TypeIds :
              /\ typeRows[t] # Absent
              /\ \/ Change(w, t, Renamed(typeRows[t]), FALSE)
                 \/ /\ ~typeRows[t].archived
                    /\ Change(w, t, [typeRows[t] EXCEPT !.archived = TRUE], FALSE)
  <2>1. PICK t \in TypeIds :
              /\ typeRows[t] # Absent
              /\ \/ Change(w, t, Renamed(typeRows[t]), FALSE)
                 \/ Change(w, t, [typeRows[t] EXCEPT !.archived = TRUE], FALSE)
    BY <1>10
  <2>2. CASE Change(w, t, Renamed(typeRows[t]), FALSE)
    BY <1>5, <1>6, <2>1, <2>2
  <2>3. CASE Change(w, t, [typeRows[t] EXCEPT !.archived = TRUE], FALSE)
    BY <1>5, <1>7, <2>1, <2>3
  <2> QED
    BY <2>1, <2>2, <2>3
<1> QED
  BY <1>8, <1>9, <1>10 DEF Requested

\* An open request is at one of its three places.
LEMMA OpenRequests ==
    ASSUME CatalogTypeInv, NEW w \in Writers
    PROVE  /\ writers[w].at # "closed" => writers[w] \in Request
           /\ writers[w] \in Request => /\ writers[w] # NoRequest /\ writers[w].at # "closed"
                                        /\ writers[w].key \in FlagKeys \union TypeIds
                                        /\ WritesOn(w, writers[w].key)
  BY DEF CatalogTypeInv, Request, NoRequest, WritesOn

LEMMA OpensStep ==
    ASSUME CatalogInv, NEW w \in Writers, NEW request \in Request, OpensRequest(w, request)
    PROVE  CatalogInv'
<1> USE DEF CatalogInv
<1>1. /\ serving = "up" /\ writers[w] = NoRequest /\ writers' = [writers EXCEPT ![w] = request]
      /\ UNCHANGED <<flagRows, typeRows, serving, defaults, typeCache, aux_stale>>
      /\ aux_crossed' = IF request.key \in FlagKeys /\ Others(w, request.key) # {}
                        THEN aux_crossed \union {request.key} ELSE aux_crossed
  BY DEF OpensRequest, Opens, Step, catalog_rows, catalog_copies
<1>2. /\ writers'[w] = request /\ \A v \in Writers \ {w} : writers'[v] = writers[v]
      /\ writers \in [Writers -> Request \union {NoRequest}]
  BY <1>1 DEF CatalogTypeInv
<1>3. CatalogTypeInv'
  <2>1. /\ request.at \in {"read", "saved"}
        /\ \/ request.key \in FlagKeys /\ request.row \in Defaults /\ request.tells
           \/ request.key \in TypeIds /\ request.row \in TypeRow
    BY DEF OpensRequest
  <2>2. CatalogTypeOK'
    BY <1>1, <1>2, <2>1 DEF CatalogTypeInv, CatalogTypeOK
  <2>3. writers' \in [Writers -> Request \union {NoRequest}]
    BY <1>1, <1>2
  <2> QED
    BY <1>2, <2>1, <2>2, <2>3, CatalogAssumption DEF CatalogTypeInv
<1>4. ServingInv'
  BY <1>1 DEF ServingInv
<1> USE DEF WritesOn, Is, Committed
<1>5. ASSUME NEW f \in FlagKeys PROVE FlagInv(f)'
  <2> SUFFICES ASSUME f \notin aux_crossed'
               PROVE  /\ \A u, v \in Writers : WritesOn(u, f)' /\ WritesOn(v, f)' => u = v
                      /\ \A v \in Writers : Is(v, f, "committed")' => writers'[v].row = flagRows'[f]
                      /\ serving' = "up" /\ ~Committed(f)' => defaults'[f] = flagRows'[f]
    BY DEF FlagInv
  <2>1. f \notin aux_crossed /\ (request.key = f => \A v \in Writers \ {w} : ~WritesOn(v, f))
    BY <1>1 DEF Others
  <2>2. request.at # "committed"
    BY DEF OpensRequest
  <2> QED
    BY <1>1, <1>2, <2>1, <2>2 DEF FlagInv, NoRequest
<1>6. ASSUME NEW t \in TypeIds PROVE TypeIdInv(t)'
  <2>1. TypeIdInv(t)
    OBVIOUS
  <2>2. CASE request.key # t
    BY <1>1, <1>2, <2>1, <2>2 DEF TypeIdInv, WriterInv, NoRequest
  <2>3. CASE request.key = t
    <3>1. request.at # "committed"
      BY DEF OpensRequest
    <3>2. \A u, v \in Writers : Is(u, t, "saved")' /\ Is(v, t, "saved")' => u = v
      BY <1>1, <1>2, <2>1, <2>3, CatalogAssumption DEF TypeIdInv, OpensRequest, RowIsFree
    <3>3. WriterInv(w, t)'
      <4>1. typeRows[t] \in TypeRow \union {Absent}
        BY DEF CatalogTypeInv, CatalogTypeOK
      <4> QED
        BY <1>1, <1>2, <2>3, <4>1, CatalogAssumption DEF OpensRequest, WriterInv
    <3>4. \A v \in Writers : WritesOn(v, t)' => WriterInv(v, t)'
      BY <1>1, <1>2, <2>1, <3>3 DEF TypeIdInv, WriterInv
    <3> QED
      BY <1>1, <1>2, <2>1, <3>1, <3>2, <3>4 DEF TypeIdInv, NoRequest
  <2> QED
    BY <2>2, <2>3
<1> QED
  BY <1>3, <1>4, <1>5, <1>6

\* A step of a request with the rows and copies left alone: it saves, or it fails.
LEMMA SaveRowStep ==
    ASSUME CatalogInv, NEW w \in Writers, SaveRow(w)
    PROVE  CatalogInv'
<1> USE DEF CatalogInv
<1>1. /\ writers[w].at = "read" /\ RowIsFree(writers[w].key)
      /\ writers' = [writers EXCEPT ![w] = [writers[w] EXCEPT !.at = "saved"]]
      /\ UNCHANGED <<flagRows, typeRows, serving, defaults, typeCache, aux_crossed>>
      /\ aux_stale' = IF writers[w].key \in TypeIds /\ writers[w].seen # Row(writers[w].key)
                      THEN aux_stale \union {writers[w].key} ELSE aux_stale
  BY DEF SaveRow, Step, catalog_rows, catalog_copies
<1>2. /\ writers \in [Writers -> Request \union {NoRequest}] /\ writers[w] \in Request
      /\ aux_stale \subseteq TypeIds
  BY <1>1, OpenRequests DEF CatalogTypeInv, CatalogTypeOK
<1>3. /\ writers'[w] \in Request /\ writers'[w].at = "saved" /\ writers'[w].key = writers[w].key
      /\ writers'[w].row = writers[w].row /\ writers'[w].seen = writers[w].seen
      /\ writers'[w].tells = writers[w].tells
      /\ \A v \in Writers \ {w} : writers'[v] = writers[v]
  BY <1>1, <1>2 DEF Request
<1>4. CatalogTypeInv'
  <2>1. CatalogTypeOK'
    BY <1>1, <1>2, <1>3, OpenRequests DEF CatalogTypeInv, CatalogTypeOK
  <2>2. writers' \in [Writers -> Request \union {NoRequest}]
    BY <1>1, <1>2, <1>3
  <2> QED
    BY <1>2, <1>3, <2>1, <2>2, OpenRequests DEF CatalogTypeInv
<1>5. ServingInv'
  BY <1>1, <1>2, OpenRequests DEF ServingInv, CatalogTypeInv
<1> USE DEF WritesOn, Is, Committed
<1>6. ASSUME NEW f \in FlagKeys PROVE FlagInv(f)'
  BY <1>1, <1>2, <1>3 DEF FlagInv
<1>7. ASSUME NEW t \in TypeIds PROVE TypeIdInv(t)'
  <2>1. TypeIdInv(t)
    OBVIOUS
  <2>2. CASE writers[w].key # t
    <3>1. t \in aux_stale' <=> t \in aux_stale
      BY <1>1, <2>2
    <3> QED
      BY <1>1, <1>3, <2>1, <2>2, <3>1 DEF TypeIdInv, WriterInv
  <2>3. CASE writers[w].key = t
    <3>1. \A u, v \in Writers : Is(u, t, "saved")' /\ Is(v, t, "saved")' => u = v
      BY <1>1, <1>3, <2>3 DEF RowIsFree
    <3>2. WriterInv(w, t)
      BY <1>1, <2>1, <2>3 DEF TypeIdInv
    <3>3. t \notin aux_stale' => writers[w].seen = typeRows[t]
      BY <1>1, <2>3, CatalogAssumption DEF Row
    <3>4. WriterInv(w, t)'
      BY <1>1, <1>3, <3>2, <3>3 DEF WriterInv
    <3>5. ASSUME NEW v \in Writers, WritesOn(v, t)' PROVE WriterInv(v, t)'
      <4>1. CASE v # w
        BY <1>1, <1>3, <2>1, <3>5, <4>1 DEF TypeIdInv, WriterInv
      <4> QED
        BY <3>4, <4>1
    <3> QED
      BY <1>1, <1>3, <2>1, <3>1, <3>5 DEF TypeIdInv
  <2> QED
    BY <2>2, <2>3
<1> QED
  BY <1>4, <1>5, <1>6, <1>7

LEMMA RequestFailsStep ==
    ASSUME CatalogInv, NEW w \in Writers, RequestFails(w)
    PROVE  CatalogInv'
<1> USE DEF CatalogInv
<1>1. /\ writers[w].at \in {"read", "saved"}
      /\ writers' = [writers EXCEPT ![w] = NoRequest]
      /\ UNCHANGED <<flagRows, typeRows, serving, defaults, typeCache, aux_crossed, aux_stale>>
  BY DEF RequestFails, Step, catalog_rows, catalog_copies
<1>2. /\ writers \in [Writers -> Request \union {NoRequest}]
      /\ writers'[w] = NoRequest /\ \A v \in Writers \ {w} : writers'[v] = writers[v]
  BY <1>1 DEF CatalogTypeInv
<1>3. CatalogTypeInv'
  <2>1. CatalogTypeOK'
    BY <1>1, <1>2 DEF CatalogTypeInv, CatalogTypeOK
  <2> QED
    BY <1>1, <1>2, <2>1 DEF CatalogTypeInv
<1>4. ServingInv'
  BY <1>1, <1>2 DEF ServingInv
<1> USE DEF WritesOn, Is, Committed
<1>5. ASSUME NEW f \in FlagKeys PROVE FlagInv(f)'
  BY <1>1, <1>2 DEF FlagInv, NoRequest
<1>6. ASSUME NEW t \in TypeIds PROVE TypeIdInv(t)'
  BY <1>1, <1>2 DEF TypeIdInv, WriterInv, NoRequest
<1> QED
  BY <1>3, <1>4, <1>5, <1>6

LEMMA CommitRowStep ==
    ASSUME CatalogInv, NEW w \in Writers, CommitRow(w)
    PROVE  CatalogInv'
<1> USE DEF CatalogInv
<1>1. PICK key \in FlagKeys \union TypeIds : writers[w] \in Request /\ writers[w].key = key
  BY OpenRequests DEF CommitRow
<1>2. /\ writers[w].at = "saved"
      /\ IF key \in FlagKeys
         THEN flagRows' = [flagRows EXCEPT ![key] = writers[w].row] /\ UNCHANGED typeRows
         ELSE typeRows' = [typeRows EXCEPT ![key] = writers[w].row] /\ UNCHANGED flagRows
      /\ writers' = [writers EXCEPT ![w] = IF writers[w].tells
                                           THEN [writers[w] EXCEPT !.at = "committed"]
                                           ELSE NoRequest]
      /\ UNCHANGED <<serving, defaults, typeCache, aux_crossed, aux_stale>>
  BY <1>1 DEF CommitRow, Step, catalog_copies
<1>3. /\ flagRows \in [FlagKeys -> Defaults \union {Absent}]
      /\ typeRows \in [TypeIds -> TypeRow \union {Absent}]
      /\ writers \in [Writers -> Request \union {NoRequest}]
      /\ serving = "up"
  BY <1>1, OpenRequests DEF CatalogTypeInv, CatalogTypeOK, ServingInv
<1>4. /\ key \in FlagKeys => writers[w].row \in Defaults /\ writers[w].tells
      /\ key \in TypeIds => writers[w].row \in TypeRow
  BY <1>1, OpenRequests DEF CatalogTypeInv
<1>5. /\ \A v \in Writers \ {w} : writers'[v] = writers[v]
      /\ IF writers[w].tells
         THEN /\ writers'[w] \in Request /\ writers'[w].at = "committed"
              /\ writers'[w].key = key /\ writers'[w].row = writers[w].row
              /\ writers'[w].tells
         ELSE writers'[w] = NoRequest
  BY <1>1, <1>2, <1>3 DEF Request
<1>6. /\ flagRows' \in [FlagKeys -> Defaults \union {Absent}]
      /\ typeRows' \in [TypeIds -> TypeRow \union {Absent}]
      /\ \A f \in FlagKeys : flagRows'[f] = IF f = key THEN writers[w].row ELSE flagRows[f]
      /\ \A t \in TypeIds : typeRows'[t] = IF t = key THEN writers[w].row ELSE typeRows[t]
  BY <1>1, <1>2, <1>3, <1>4, CatalogAssumption
<1>7. CatalogTypeInv'
  <2>1. writers' \in [Writers -> Request \union {NoRequest}]
    BY <1>2, <1>3, <1>5
  <2>2. CatalogTypeOK'
    BY <1>1, <1>2, <1>4, <1>5, <1>6 DEF CatalogTypeInv, CatalogTypeOK
  <2> QED
    BY <1>4, <1>5, <2>1, <2>2 DEF CatalogTypeInv
<1>8. ServingInv'
  BY <1>2, <1>3 DEF ServingInv
<1> USE DEF WritesOn, Is, Committed
<1>9. ASSUME NEW f \in FlagKeys PROVE FlagInv(f)'
  <2>1. FlagInv(f)
    OBVIOUS
  <2>2. CASE f = key
    BY <1>1, <1>2, <1>4, <1>5, <1>6, <2>1, <2>2 DEF FlagInv
  <2>3. CASE f # key
    BY <1>1, <1>2, <1>5, <1>6, <2>1, <2>3 DEF FlagInv, NoRequest
  <2> QED
    BY <2>2, <2>3
<1>10. ASSUME NEW t \in TypeIds PROVE TypeIdInv(t)'
  <2>1. TypeIdInv(t)
    OBVIOUS
  <2>2. CASE t # key
    BY <1>1, <1>2, <1>5, <1>6, <2>1, <2>2 DEF TypeIdInv, WriterInv, NoRequest
  <2>3. CASE t = key
    <3>1. /\ WriterInv(w, t) /\ typeRows'[t] = writers[w].row /\ typeRows'[t] # Absent
          /\ \A v \in Writers \ {w} : ~Is(v, t, "saved")
      BY <1>1, <1>2, <1>4, <1>6, <2>1, <2>3, CatalogAssumption DEF TypeIdInv
    <3>2. CASE writers[w].tells
      <4>1. typeRows[t] = Absent
        BY <1>2, <3>1, <3>2 DEF WriterInv
      <4>2. /\ typeCache[t] = Absent
            /\ \A v \in Writers \ {w} : ~WritesOn(v, t)
        BY <2>1, <3>1, <4>1 DEF TypeIdInv, WriterInv
      <4>3. WriterInv(w, t)'
        BY <1>5, <3>1, <3>2 DEF WriterInv
      <4> QED
        BY <1>2, <1>5, <2>3, <3>1, <3>2, <4>2, <4>3 DEF TypeIdInv
    <3>3. CASE ~writers[w].tells
      <4>1. typeRows[t] # Absent /\ typeRows'[t].schema = typeRows[t].schema
        BY <3>1, <3>3 DEF WriterInv
      <4>2. ASSUME NEW v \in Writers, WritesOn(v, t)' PROVE WriterInv(v, t)'
        <5>1. v # w /\ writers'[v] = writers[v] /\ writers[v].at # "saved"
          BY <1>5, <3>1, <3>3, <4>2 DEF NoRequest
        <5> QED
          BY <1>2, <2>1, <3>1, <4>1, <4>2, <5>1 DEF TypeIdInv, WriterInv
      <4> QED
        BY <1>2, <1>5, <2>1, <3>1, <3>3, <4>1, <4>2 DEF TypeIdInv, NoRequest
    <3> QED
      BY <3>2, <3>3
  <2> QED
    BY <2>2, <2>3
<1> QED
  BY <1>7, <1>8, <1>9, <1>10

LEMMA TellStep ==
    ASSUME CatalogInv, NEW w \in Writers, Tell(w)
    PROVE  CatalogInv'
<1> USE DEF CatalogInv
<1>1. PICK key \in FlagKeys \union TypeIds : writers[w] \in Request /\ writers[w].key = key
  BY OpenRequests DEF Tell, TellsAt
<1>2. /\ writers[w].at = "committed" /\ writers[w].tells
      /\ IF key \in FlagKeys
         THEN defaults' = [defaults EXCEPT ![key] = writers[w].row] /\ UNCHANGED typeCache
         ELSE typeCache' = [typeCache EXCEPT ![key] = writers[w].row] /\ UNCHANGED defaults
      /\ writers' = [writers EXCEPT ![w] = NoRequest]
      /\ UNCHANGED <<flagRows, typeRows, serving, aux_crossed, aux_stale>>
  BY <1>1 DEF Tell, TellsAt, Step, catalog_rows
<1>3. /\ defaults \in [FlagKeys -> Defaults \union {Absent}]
      /\ typeCache \in [TypeIds -> TypeRow \union {Absent}]
      /\ writers \in [Writers -> Request \union {NoRequest}]
      /\ serving = "up"
  BY <1>1, OpenRequests DEF CatalogTypeInv, CatalogTypeOK, ServingInv
<1>4. /\ key \in FlagKeys => writers[w].row \in Defaults
      /\ key \in TypeIds => writers[w].row \in TypeRow
  BY <1>1, OpenRequests DEF CatalogTypeInv
<1>5. /\ writers'[w] = NoRequest /\ \A v \in Writers \ {w} : writers'[v] = writers[v]
      /\ writers' \in [Writers -> Request \union {NoRequest}]
  BY <1>2, <1>3
<1>6. /\ defaults' \in [FlagKeys -> Defaults \union {Absent}]
      /\ typeCache' \in [TypeIds -> TypeRow \union {Absent}]
      /\ \A f \in FlagKeys : defaults'[f] = IF f = key THEN writers[w].row ELSE defaults[f]
      /\ \A t \in TypeIds : typeCache'[t] = IF t = key THEN writers[w].row ELSE typeCache[t]
  BY <1>1, <1>2, <1>3, <1>4, CatalogAssumption
<1>7. CatalogTypeInv'
  <2>1. CatalogTypeOK'
    BY <1>2, <1>5, <1>6 DEF CatalogTypeInv, CatalogTypeOK
  <2> QED
    BY <1>5, <2>1 DEF CatalogTypeInv
<1>8. ServingInv'
  BY <1>2, <1>3 DEF ServingInv
<1> USE DEF WritesOn, Is, Committed
<1>9. ASSUME NEW f \in FlagKeys PROVE FlagInv(f)'
  <2>1. FlagInv(f)
    OBVIOUS
  <2>2. CASE f = key
    BY <1>1, <1>2, <1>5, <1>6, <2>1, <2>2 DEF FlagInv, NoRequest
  <2>3. CASE f # key
    BY <1>1, <1>2, <1>5, <1>6, <2>1, <2>3 DEF FlagInv, NoRequest
  <2> QED
    BY <2>2, <2>3
<1>10. ASSUME NEW t \in TypeIds PROVE TypeIdInv(t)'
  <2>1. TypeIdInv(t)
    OBVIOUS
  <2>2. CASE t # key
    BY <1>1, <1>2, <1>5, <1>6, <2>1, <2>2 DEF TypeIdInv, WriterInv, NoRequest
  <2>3. CASE t = key
    <3>1. /\ typeRows[t] # Absent /\ writers[w].row.schema = typeRows[t].schema
          /\ typeCache'[t] = writers[w].row /\ typeCache'[t] # Absent
      BY <1>1, <1>2, <1>4, <1>6, <2>1, <2>3, CatalogAssumption DEF TypeIdInv, WriterInv
    <3> QED
      BY <1>2, <1>5, <2>1, <3>1 DEF TypeIdInv, WriterInv, NoRequest
  <2> QED
    BY <2>2, <2>3
<1> QED
  BY <1>7, <1>8, <1>9, <1>10

LEMMA ServerStep ==
    ASSUME CatalogInv, ServerDies \/ WarmUp
    PROVE  CatalogInv'
<1> USE DEF CatalogInv
<1>1. \A w \in Writers : writers'[w] = NoRequest
  BY DEF ServerDies, WarmUp, ServingInv
<1>2. CatalogTypeInv'
  <2>1. CatalogTypeOK'
    BY <1>1 DEF ServerDies, WarmUp, WarmedTypes, CatalogTypeInv, CatalogTypeOK, catalog_rows
  <2> QED
    BY <1>1, <2>1 DEF ServerDies, WarmUp, CatalogTypeInv
<1>3. ServingInv'
  BY <1>1 DEF ServerDies, WarmUp, ServingInv, catalog_rows
<1> USE DEF WritesOn, Is, Committed
<1>4. ASSUME NEW f \in FlagKeys PROVE FlagInv(f)'
  BY <1>1 DEF ServerDies, WarmUp, FlagInv, ServingInv, NoRequest, catalog_rows
<1>5. ASSUME NEW t \in TypeIds PROVE TypeIdInv(t)'
  BY <1>1 DEF ServerDies, WarmUp, WarmedTypes, TypeIdInv, ServingInv, NoRequest, catalog_rows,
              CatalogTypeInv, CatalogTypeOK
<1> QED
  BY <1>2, <1>3, <1>4, <1>5

LEMMA CatalogInitially == CatalogInit => CatalogInv
  BY DEF CatalogInit, CatalogInv, CatalogTypeInv, CatalogTypeOK, ServingInv, FlagInv, TypeIdInv,
         Is, WritesOn, NoRequest

LEMMA CatalogStep == CatalogInv /\ [CatalogNext]_catalog_vars => CatalogInv'
<1> SUFFICES ASSUME CatalogInv, [CatalogNext]_catalog_vars PROVE CatalogInv'
  OBVIOUS
<1>1. CatalogTypeInv
  BY DEF CatalogInv
<1>2. ASSUME NEW w \in Writers, Requested(w) PROVE CatalogInv'
  BY <1>1, <1>2, RequestedOpens, OpensStep
<1>3. CASE CatalogNext
  BY <1>2, <1>3, SaveRowStep, CommitRowStep, TellStep, RequestFailsStep, ServerStep DEF CatalogNext
<1>4. CASE UNCHANGED catalog_vars
  BY <1>4
  DEF catalog_vars, catalog_rows, catalog_copies, CatalogInv, CatalogTypeInv, CatalogTypeOK,
      ServingInv, FlagInv, TypeIdInv, WriterInv, Committed, Is, WritesOn
<1> QED
  BY <1>3, <1>4

LEMMA CatalogAlways == CatalogSpec => []CatalogInv
  BY CatalogInitially, CatalogStep, PTL DEF CatalogSpec

\* Type correctness (flags, event types and their copies).
THEOREM CatalogTypeCorrect == CatalogSpec => []CatalogTypeOK
<1>1. CatalogInv => CatalogTypeOK
  BY DEF CatalogInv, CatalogTypeInv
<1> QED
  BY <1>1, CatalogAlways, PTL

\* Decisions and events are answered from what is stored, but between a COMMIT and its
\* notification, and where two updates of a flag have crossed (UpdateFlag, CreateEventType,
\* WarmUpEventTypes).
THEOREM CopiesStayCurrent == CatalogSpec => []CopiesAreCurrent
<1>1. ASSUME CatalogInv PROVE DefaultIsCurrent
  BY <1>1 DEF CatalogInv, FlagInv, DefaultIsCurrent, Committed, Is, WritesOn
<1>2. ASSUME CatalogInv PROVE TypesAreKnown
  BY <1>2 DEF CatalogInv, TypeIdInv, TypesAreKnown, Committed, Is, WritesOn
<1>3. CatalogInv => CopiesAreCurrent
  BY <1>1, <1>2 DEF CopiesAreCurrent
<1> QED
  BY <1>3, CatalogAlways, PTL

\* An event type leaves the archive only when it was once saved from a copy that was no longer
\* its row (UpdateEventType, ArchiveEventType).
THEOREM TypesStayArchived == CatalogSpec => ArchivedStays
<1> DEFINE StaysArchived ==
      \A t \in TypeIds :
          typeRows[t] # Absent /\ typeRows[t].archived =>
              typeRows'[t].archived \/ t \in aux_stale
<1>1. ASSUME CatalogInv, [CatalogNext]_catalog_vars PROVE StaysArchived
  <2> SUFFICES ASSUME NEW t \in TypeIds, typeRows[t] # Absent, typeRows[t].archived,
                      t \notin aux_stale
               PROVE  typeRows'[t].archived
    OBVIOUS
  <2>1. CatalogTypeInv /\ TypeIdInv(t) /\ typeRows \in [TypeIds -> TypeRow \union {Absent}]
    BY <1>1 DEF CatalogInv, CatalogTypeInv, CatalogTypeOK
  <2>2. CASE \E w \in Writers : CommitRow(w)
    <3>1. PICK w \in Writers : CommitRow(w)
      BY <2>2
    <3>2. CASE writers[w].key = t
      <4>1. WriterInv(w, t) /\ writers[w].at = "saved"
        BY <2>1, <3>1, <3>2 DEF CommitRow, TypeIdInv, WritesOn
      <4>2. typeRows'[t] = writers[w].row
        BY <2>1, <3>1, <3>2, CatalogAssumption DEF CommitRow
      <4> QED
        BY <4>1, <4>2 DEF WriterInv
    <3>3. CASE writers[w].key # t
      BY <2>1, <3>1, <3>3 DEF CommitRow
    <3> QED
      BY <3>2, <3>3
  <2>3. CASE ~\E w \in Writers : CommitRow(w)
    <3>1. typeRows' = typeRows
      BY <1>1, <2>1, <2>3, RequestedOpens
      DEF CatalogNext, OpensRequest, Opens, SaveRow, Tell, RequestFails, ServerDies, WarmUp,
          catalog_vars, catalog_rows
    <3> QED
      BY <3>1
  <2> QED
    BY <2>2, <2>3
<1>2. ArchivedStays <=> [][StaysArchived]_catalog_vars
  BY DEF ArchivedStays
<1>3. CatalogInv /\ [CatalogNext]_catalog_vars => [StaysArchived]_catalog_vars
  BY <1>1
<1> QED
  BY <1>2, <1>3, CatalogAlways, PTL DEF CatalogSpec

-----------------------------------------------------------------------------
(* Users.                                                                  *)

Call == [at : {"read", "saved"}, user : UserIds, row : UserRow, current : BOOLEAN]
Copyless == [at : {"identified"}, person : Persons] \union {NoCall}

UserTypeInv ==
    /\ AccessTypeOK
    /\ callers \in [Callers -> Call \union Copyless]

HasSaved(c, u) == Called(c, "saved") /\ callers[c].user = u
Current(c, u) == Holds(c, u) /\ callers[c].current

\* Accounts have different emails, also with what is saved and not yet committed; one
\* request at most has saved an account.
EmailInv ==
    /\ \A u, v \in UserIds : u # v /\ userRows[u] # Nothing /\ userRows[v] # Nothing =>
          userRows[u].email # userRows[v].email
    /\ \A c \in Callers, u, v \in UserIds : HasSaved(c, u) /\ u # v /\ userRows[v] # Nothing =>
          callers[c].row.email # userRows[v].email
    /\ \A c, d \in Callers, u, v \in UserIds : HasSaved(c, u) /\ HasSaved(d, v) =>
          IF u = v THEN c = d ELSE callers[c].row.email # callers[d].row.email

\* A copy that is current has the row's identity, or one that activates the account, by the
\* email that the account still has.
CurrentInv ==
    /\ \A c \in Callers, u \in UserIds : HasSaved(c, u) /\ u \notin aux_overwrote => Current(c, u)
    /\ \A c \in Callers, u \in UserIds : Current(c, u) =>
          LET row == callers[c].row IN
          \/ userRows[u] = Nothing /\ row.iap = Nothing
          \/ userRows[u] # Nothing /\ row.iap = userRows[u].iap
          \/ /\ userRows[u] # Nothing /\ userRows[u].iap = Nothing
             /\ row.iap \in Persons /\ userRows[u].email = EmailOf[row.iap]

\* While no save was stale, identities have one account, and who activates one has no other,
\* unless it got one before the second lookup.
IdentityInv ==
    aux_overwrote = {} =>
        /\ \A u, v \in UserIds :
              u # v /\ userRows[u] # Nothing /\ userRows[v] # Nothing
                /\ userRows[u].iap # Nothing /\ userRows[u].iap \notin aux_outrun
                  => userRows[u].iap # userRows[v].iap
        /\ \A c \in Callers, u, v \in UserIds :
              Current(c, u) /\ u # v /\ userRows[v] # Nothing
                /\ callers[c].row.iap # Nothing /\ callers[c].row.iap \notin aux_outrun
                  => userRows[v].iap # callers[c].row.iap

AccessInv == UserTypeInv /\ EmailInv /\ CurrentInv /\ IdentityInv

\* A request gets to its row: a change with the copy it read, which is current, or a creation
\* that has the key and the email to itself.
OpensCall(c, call) ==
    /\ call \in Call /\ call.current
    /\ callers[c] \in Copyless
    /\ callers' = [callers EXCEPT ![c] = call]
    /\ UNCHANGED <<userRows, aux_overwrote>>
    /\ aux_outrun \subseteq aux_outrun' /\ aux_outrun' \subseteq Persons
    /\ \/ /\ call.at = "saved" /\ call.row.iap = Nothing
          /\ userRows[call.user] = Nothing
          /\ UserIsFree(call.user) /\ EmailIsFree(call.user, call.row.email)
       \/ /\ call.at = "read" /\ userRows[call.user] # Nothing
          /\ \/ call.row.iap = userRows[call.user].iap
             \/ \E person \in Persons :
                   /\ Activates(person, call.user) /\ call.row.iap = person
                   /\ person \in aux_outrun' \/ \A v \in UserIds : ~HasIdentity(v, person)

\* A request opens, without a row, or ends.
Idles(c) ==
    /\ callers' \in [Callers -> Call \union Copyless]
    /\ callers'[c] \in Copyless /\ \A d \in Callers \ {c} : callers'[d] = callers[d]
    /\ UNCHANGED <<userRows, aux_overwrote, aux_outrun>>

LEMMA AccessSteps ==
    ASSUME UserTypeInv, AccessNext
    PROVE  \E c \in Callers : \/ \E call \in Call : OpensCall(c, call)
                              \/ SaveUser(c) \/ CommitUser(c) \/ Idles(c)
<1>1. PICK c \in Callers :
         \/ \E u \in UserIds, email \in Emails : CreateUser(c, u, email) \/ UpdateUser(c, u, email)
         \/ \E person \in Persons : IdentifyPerson(c, person)
         \/ \E u \in UserIds : ActivateUser(c, u)
         \/ SaveUser(c) \/ CommitUser(c) \/ CallFails(c)
  BY DEF AccessNext
<1>5. /\ callers \in [Callers -> Call \union Copyless] /\ NoCall \in Copyless
      /\ aux_outrun \subseteq Persons
  BY DEF UserTypeInv, AccessTypeOK, Copyless
<1>2. ASSUME NEW u \in UserIds, NEW email \in Emails, CreateUser(c, u, email)
      PROVE  \E call \in Call : OpensCall(c, call)
  <2> DEFINE call == [at |-> "saved", user |-> u, row |-> [email |-> email, iap |-> Nothing],
                      current |-> TRUE]
  <2>1. call \in Call /\ OpensCall(c, call)
    BY <1>2, <1>5 DEF CreateUser, Enter, OpensCall, Call, UserRow
  <2> QED BY <2>1
<1>3. ASSUME NEW u \in UserIds, NEW email \in Emails, UpdateUser(c, u, email)
      PROVE  \E call \in Call : OpensCall(c, call)
  <2> DEFINE row == [userRows[u] EXCEPT !.email = email]
             call == [at |-> "read", user |-> u, row |-> row, current |-> TRUE]
  <2>1. row \in UserRow /\ row.iap = userRows[u].iap
    BY <1>3 DEF UpdateUser, UserTypeInv, AccessTypeOK, UserRow
  <2>2. call \in Call /\ OpensCall(c, call)
    <3> HIDE DEF row
    <3>1. Enter(c, call) /\ userRows[u] # Nothing
      BY <1>3 DEF UpdateUser, Copy, row
    <3> QED BY <1>5, <2>1, <3>1 DEF Enter, OpensCall, Call
  <2> QED BY <2>2
<1>4. ASSUME NEW u \in UserIds, ActivateUser(c, u)
      PROVE  \E call \in Call : OpensCall(c, call)
  <2>3. PICK person \in Persons : person = callers[c].person /\ callers[c] \in Copyless
    BY <1>4, <1>5 DEF ActivateUser, Called, Copyless, Call, NoCall
  <2> DEFINE row == [userRows[u] EXCEPT !.iap = person]
             call == [at |-> "read", user |-> u, row |-> row, current |-> TRUE]
  <2>1. row \in UserRow /\ row.iap = person
    BY <1>4, <2>3 DEF ActivateUser, Activates, UserTypeInv, AccessTypeOK, UserRow
  <2>2. call \in Call /\ OpensCall(c, call)
    <3> HIDE DEF row
    <3>1. /\ callers' = [callers EXCEPT ![c] = call] /\ UNCHANGED <<userRows, aux_overwrote>>
          /\ Activates(person, u)
          /\ aux_outrun' = aux_outrun
                \union {p \in {person} : \E v \in UserIds : HasIdentity(v, p)}
      BY <1>4, <2>3 DEF ActivateUser, Copy, row
    <3>2. userRows[u] # Nothing
      BY <3>1 DEF Activates
    <3>3. person \in aux_outrun' \/ \A v \in UserIds : ~HasIdentity(v, person)
      BY <3>1
    <3>4. call \in Call /\ call.current /\ call.at = "read" /\ call.user = u
          /\ call.row.iap = person
      BY <2>1 DEF Call
    <3>5. aux_outrun \subseteq aux_outrun' /\ aux_outrun' \subseteq Persons
      BY <1>5, <2>3, <3>1
    <3> HIDE DEF call
    <3> QED BY <2>3, <3>1, <3>2, <3>3, <3>4, <3>5 DEF OpensCall
  <2> QED BY <2>2
<1>6. ASSUME NEW person \in Persons, IdentifyPerson(c, person) PROVE Idles(c)
  <2>1. callers' = [callers EXCEPT ![c] = [at |-> "identified", person |-> person]]
        /\ UNCHANGED <<userRows, aux_overwrote, aux_outrun>>
    BY <1>6 DEF IdentifyPerson, Enter
  <2>2. [at |-> "identified", person |-> person] \in Copyless
    BY DEF Copyless
  <2> QED BY <1>5, <2>1, <2>2 DEF Idles
<1>7. ASSUME CallFails(c) PROVE Idles(c)
  BY <1>5, <1>7 DEF CallFails, Idles
<1> QED BY <1>1, <1>2, <1>3, <1>4, <1>6, <1>7

\* What a COMMIT does: the row is the copy, and no other copy of it is current.
LEMMA CommitUserFacts ==
    ASSUME UserTypeInv, NEW c \in Callers, CommitUser(c)
    PROVE  LET u == callers[c].user IN
           /\ u \in UserIds /\ HasSaved(c, u) /\ callers[c].row \in UserRow
           /\ userRows' = [userRows EXCEPT ![u] = callers[c].row]
           /\ callers' \in [Callers -> Call \union Copyless] /\ callers'[c] = NoCall
           /\ \A d \in Callers \ {c} :
                 IF Holds(d, u)
                 THEN /\ callers'[d].at = callers[d].at /\ callers'[d].user = u
                      /\ callers'[d].row = callers[d].row /\ ~callers'[d].current
                 ELSE callers'[d] = callers[d]
<1> DEFINE u == callers[c].user
<1>1. callers[c] \in Call /\ Called(c, "saved")
  BY DEF CommitUser, Called, UserTypeInv, Copyless, NoCall
<1>2. /\ callers' = [d \in Callers |-> CASE d = c -> NoCall
                        [] d # c /\ Holds(d, u) -> [callers[d] EXCEPT !.current = FALSE]
                        [] OTHER -> callers[d]]
      /\ userRows' = [userRows EXCEPT ![u] = callers[c].row]
  BY DEF CommitUser
<1>3. callers'[c] = NoCall
  BY <1>2
<1>4. ASSUME NEW d \in Callers \ {c}, Holds(d, u)
      PROVE  /\ callers'[d] \in Call
             /\ callers'[d].at = callers[d].at /\ callers'[d].user = u
             /\ callers'[d].row = callers[d].row /\ ~callers'[d].current
  <2>1. callers[d] \in Call /\ callers[d].user = u
    BY <1>4 DEF Holds, UserTypeInv, Copyless, NoCall
  <2>2. callers'[d] = [callers[d] EXCEPT !.current = FALSE]
    BY <1>2, <1>4
  <2> QED BY <2>1, <2>2 DEF Call
<1>5. ASSUME NEW d \in Callers \ {c}, ~Holds(d, u) PROVE callers'[d] = callers[d]
  BY <1>2, <1>5
<1>6. callers' \in [Callers -> Call \union Copyless]
  BY <1>2, <1>3, <1>4, <1>5 DEF UserTypeInv, Copyless
<1> QED BY <1>1, <1>2, <1>3, <1>4, <1>5, <1>6 DEF HasSaved, Call

LEMMA SaveUserFacts ==
    ASSUME UserTypeInv, NEW c \in Callers, SaveUser(c)
    PROVE  LET u == callers[c].user IN
           /\ u \in UserIds /\ Holds(c, u) /\ callers[c] \in Call
           /\ UserIsFree(u) /\ EmailIsFree(u, callers[c].row.email)
           /\ callers'[c] \in Call /\ callers'[c].at = "saved" /\ callers'[c].user = u
           /\ callers'[c].row = callers[c].row /\ callers'[c].current = callers[c].current
           /\ DOMAIN callers' = Callers
           /\ \A d \in Callers \ {c} : callers'[d] = callers[d]
           /\ userRows' = userRows
           /\ aux_overwrote' = IF callers[c].current THEN aux_overwrote
                               ELSE aux_overwrote \union {u}
<1>1. callers[c] \in Call
  BY DEF SaveUser, Called, UserTypeInv, Copyless, NoCall
<1>2. /\ callers' = [callers EXCEPT ![c] = [callers[c] EXCEPT !.at = "saved"]]
  BY DEF SaveUser
<1>3. [callers[c] EXCEPT !.at = "saved"] \in Call
  BY <1>1 DEF Call
<1> QED BY <1>1, <1>2, <1>3 DEF SaveUser, UserTypeInv, Call, Holds

LEMMA UserTypeStep == UserTypeInv /\ [AccessNext]_access_vars => UserTypeInv'
<1> SUFFICES ASSUME UserTypeInv, [AccessNext]_access_vars PROVE UserTypeInv'
  OBVIOUS
<1>1. /\ userRows \in [UserIds -> UserRow \union {Nothing}]
      /\ callers \in [Callers -> Call \union Copyless] /\ aux_overwrote \subseteq UserIds
      /\ aux_outrun \subseteq Persons
  BY DEF UserTypeInv, AccessTypeOK
<1>2. SUFFICES /\ userRows' \in [UserIds -> UserRow \union {Nothing}]
               /\ callers' \in [Callers -> Call \union Copyless]
               /\ aux_overwrote' \subseteq UserIds /\ aux_outrun' \subseteq Persons
  BY DEF UserTypeInv, AccessTypeOK, Call, Copyless
<1>3. ASSUME NEW c \in Callers, NEW call \in Call, OpensCall(c, call)
      PROVE  /\ userRows' = userRows /\ aux_overwrote' = aux_overwrote
             /\ aux_outrun' \subseteq Persons
             /\ callers' \in [Callers -> Call \union Copyless]
  BY <1>1, <1>3 DEF OpensCall
<1>4. ASSUME NEW c \in Callers, SaveUser(c)
      PROVE  /\ userRows' = userRows /\ aux_overwrote' \subseteq UserIds
             /\ aux_outrun' = aux_outrun
             /\ callers' \in [Callers -> Call \union Copyless]
  <2>1. callers' = [callers EXCEPT ![c] = callers'[c]] /\ callers'[c] \in Call
    BY <1>1, <1>4, SaveUserFacts DEF SaveUser
  <2> QED BY <1>1, <1>4, <2>1, SaveUserFacts DEF SaveUser
<1>5. ASSUME NEW c \in Callers, CommitUser(c)
      PROVE  /\ userRows' \in [UserIds -> UserRow \union {Nothing}]
             /\ callers' \in [Callers -> Call \union Copyless]
             /\ aux_overwrote' = aux_overwrote /\ aux_outrun' = aux_outrun
  BY <1>1, <1>5, CommitUserFacts DEF CommitUser
<1>6. ASSUME NEW c \in Callers, Idles(c)
      PROVE  /\ userRows' = userRows /\ aux_overwrote' = aux_overwrote
             /\ aux_outrun' = aux_outrun /\ callers' \in [Callers -> Call \union Copyless]
  BY <1>6 DEF Idles
<1> QED BY <1>1, <1>3, <1>4, <1>5, <1>6, AccessSteps DEF access_vars

LEMMA AccessStep == AccessInv /\ [AccessNext]_access_vars => EmailInv' /\ CurrentInv' /\ IdentityInv'
<1> SUFFICES ASSUME AccessInv, [AccessNext]_access_vars
             PROVE  EmailInv' /\ CurrentInv' /\ IdentityInv'
  OBVIOUS
<1>1. /\ UserTypeInv /\ EmailInv /\ CurrentInv /\ IdentityInv
      /\ userRows \in [UserIds -> UserRow \union {Nothing}]
      /\ callers \in [Callers -> Call \union Copyless]
  BY DEF AccessInv, UserTypeInv, AccessTypeOK
<1> USE DEF HasSaved, Called, Current, Holds
<1>2. ASSUME NEW c \in Callers, NEW call \in Call, OpensCall(c, call)
      PROVE  EmailInv' /\ CurrentInv' /\ IdentityInv'
  <2>1. /\ userRows' = userRows /\ aux_overwrote' = aux_overwrote
        /\ callers'[c] = call /\ \A d \in Callers \ {c} : callers'[d] = callers[d]
        /\ call.current /\ call.at \in {"read", "saved"} /\ call.user \in UserIds
        /\ aux_outrun \subseteq aux_outrun'
    BY <1>1, <1>2 DEF OpensCall, Call
  <2>2. CASE /\ call.at = "saved" /\ call.row.iap = Nothing /\ userRows[call.user] = Nothing
             /\ UserIsFree(call.user) /\ EmailIsFree(call.user, call.row.email)
    <3>1. EmailInv'
      BY <1>1, <2>1, <2>2 DEF EmailInv, UserIsFree, EmailIsFree
    <3>2. CurrentInv'
      BY <1>1, <2>1, <2>2 DEF CurrentInv
    <3>3. IdentityInv'
      BY <1>1, <2>1, <2>2 DEF IdentityInv
    <3> QED BY <3>1, <3>2, <3>3
  <2>3. CASE /\ call.at = "read" /\ userRows[call.user] # Nothing
             /\ \/ call.row.iap = userRows[call.user].iap
                \/ \E person \in Persons :
                      /\ Activates(person, call.user) /\ call.row.iap = person
                      /\ person \in aux_outrun' \/ \A v \in UserIds : ~HasIdentity(v, person)
    <3>1. EmailInv'
      BY <1>1, <2>1, <2>3 DEF EmailInv
    <3>2. CurrentInv'
      BY <1>1, <2>1, <2>3 DEF CurrentInv, Activates
    <3>3. IdentityInv'
      BY <1>1, <2>1, <2>3 DEF IdentityInv, HasIdentity
    <3> QED BY <3>1, <3>2, <3>3
  <2> QED BY <1>2, <2>2, <2>3 DEF OpensCall
<1>3. ASSUME NEW c \in Callers, SaveUser(c)
      PROVE  EmailInv' /\ CurrentInv' /\ IdentityInv'
  <2> DEFINE u == callers[c].user
  <2>1. /\ u \in UserIds /\ Holds(c, u) /\ callers[c] \in Call
        /\ UserIsFree(u) /\ EmailIsFree(u, callers[c].row.email)
        /\ callers'[c] \in Call /\ callers'[c].at = "saved" /\ callers'[c].user = u
        /\ callers'[c].row = callers[c].row /\ callers'[c].current = callers[c].current
        /\ \A d \in Callers \ {c} : callers'[d] = callers[d]
        /\ userRows' = userRows /\ aux_outrun' = aux_outrun
        /\ aux_overwrote' = IF callers[c].current THEN aux_overwrote ELSE aux_overwrote \union {u}
    BY <1>1, <1>3, SaveUserFacts DEF SaveUser
  <2>2. \A d \in Callers, v \in UserIds : Holds(d, v)' => Holds(d, v)
    BY <2>1
  <2>3. EmailInv'
    BY <1>1, <2>1 DEF EmailInv, UserIsFree, EmailIsFree
  <2>5. CurrentInv'
    BY <1>1, <2>1, <2>2 DEF CurrentInv
  <2>6. IdentityInv'
    BY <1>1, <2>1, <2>2 DEF IdentityInv
  <2> QED BY <2>3, <2>5, <2>6
<1>4. ASSUME NEW c \in Callers, CommitUser(c)
      PROVE  EmailInv' /\ CurrentInv' /\ IdentityInv'
  <2>1. PICK u \in UserIds : u = callers[c].user
    BY <1>1, <1>4, CommitUserFacts
  <2>2. /\ HasSaved(c, u) /\ callers[c].row \in UserRow
        /\ userRows' = [userRows EXCEPT ![u] = callers[c].row]
        /\ callers'[c] = NoCall /\ aux_overwrote' = aux_overwrote /\ aux_outrun' = aux_outrun
        /\ \A d \in Callers \ {c} :
              IF Holds(d, u)
              THEN /\ callers'[d].at = callers[d].at /\ callers'[d].user = u
                   /\ callers'[d].row = callers[d].row /\ ~callers'[d].current
              ELSE callers'[d] = callers[d]
    BY <1>1, <1>4, <2>1, CommitUserFacts DEF CommitUser
  <2>3. /\ userRows'[u] = callers[c].row
        /\ \A v \in UserIds \ {u} : userRows'[v] = userRows[v]
    BY <1>1, <2>2
  <2>4. \A d \in Callers, v \in UserIds :
           HasSaved(d, v)' => /\ HasSaved(d, v) /\ v # u /\ callers'[d].row = callers[d].row
    <3> SUFFICES ASSUME NEW d \in Callers, NEW v \in UserIds, HasSaved(d, v)'
                 PROVE  HasSaved(d, v) /\ v # u /\ callers'[d].row = callers[d].row
      OBVIOUS
    <3>1. d # c
      BY <2>2 DEF NoCall
    <3>2. HasSaved(d, v) /\ callers'[d].row = callers[d].row
      BY <2>2, <3>1
    <3> QED BY <1>1, <2>2, <3>1, <3>2 DEF EmailInv
  <2>5. \A d \in Callers, v \in UserIds :
           Current(d, v)' => Current(d, v) /\ v # u /\ callers'[d] = callers[d]
    <3> SUFFICES ASSUME NEW d \in Callers, NEW v \in UserIds, Current(d, v)'
                 PROVE  Current(d, v) /\ v # u /\ callers'[d] = callers[d]
      OBVIOUS
    <3>1. d # c
      BY <2>2 DEF NoCall
    <3>2. ~Holds(d, u)
      BY <2>2, <3>1
    <3> QED BY <2>2, <3>1, <3>2
  <2>6. EmailInv'
    <3> HIDE DEF HasSaved
    <3> QED BY <1>1, <2>2, <2>3, <2>4 DEF EmailInv
  <2>7. CurrentInv'
    <3>1. \A d \in Callers, v \in UserIds : HasSaved(d, v)' /\ v \notin aux_overwrote => Current(d, v)'
      <4> SUFFICES ASSUME NEW d \in Callers, NEW v \in UserIds, HasSaved(d, v)',
                          v \notin aux_overwrote
                   PROVE  Current(d, v)'
        OBVIOUS
      <4>1. HasSaved(d, v) /\ v # u /\ Current(d, v) /\ d # c
        BY <1>1, <2>2, <2>4 DEF CurrentInv, NoCall
      <4> QED BY <2>2, <4>1
    <3> HIDE DEF HasSaved, Current
    <3> QED BY <1>1, <2>2, <2>3, <2>5, <3>1 DEF CurrentInv
  <2>8. IdentityInv'
    <3> SUFFICES ASSUME aux_overwrote = {}
                 PROVE  /\ \A v, w \in UserIds :
                              v # w /\ userRows'[v] # Nothing /\ userRows'[w] # Nothing
                                /\ userRows'[v].iap # Nothing /\ userRows'[v].iap \notin aux_outrun
                                  => userRows'[v].iap # userRows'[w].iap
                        /\ \A d \in Callers, v, w \in UserIds :
                              Current(d, v)' /\ v # w /\ userRows'[w] # Nothing
                                /\ callers'[d].row.iap # Nothing
                                /\ callers'[d].row.iap \notin aux_outrun
                                  => userRows'[w].iap # callers'[d].row.iap
      BY <2>2 DEF IdentityInv
    <3>1. Current(c, u)
      BY <1>1, <2>2 DEF CurrentInv
    <3>2. \A w \in UserIds \ {u} :
             userRows[w] # Nothing /\ callers[c].row.iap # Nothing
               /\ callers[c].row.iap \notin aux_outrun
                 => userRows[w].iap # callers[c].row.iap
      BY <1>1, <3>1 DEF IdentityInv
    <3>3. \A v, w \in UserIds :
             v # w /\ userRows'[v] # Nothing /\ userRows'[w] # Nothing
               /\ userRows'[v].iap # Nothing /\ userRows'[v].iap \notin aux_outrun
                 => userRows'[v].iap # userRows'[w].iap
      <4> SUFFICES ASSUME NEW v \in UserIds, NEW w \in UserIds, v # w,
                          userRows'[v] # Nothing, userRows'[w] # Nothing,
                          userRows'[v].iap # Nothing, userRows'[v].iap \notin aux_outrun
                   PROVE  userRows'[v].iap # userRows'[w].iap
        OBVIOUS
      <4>1. CASE v = u
        BY <2>3, <3>2, <4>1
      <4>2. CASE w = u
        BY <2>3, <3>2, <4>2
      <4>3. CASE v # u /\ w # u
        BY <1>1, <2>3, <4>3 DEF IdentityInv
      <4> QED BY <4>1, <4>2, <4>3
    <3> HIDE DEF Current
    <3>4. \A d \in Callers, v, w \in UserIds :
             Current(d, v)' /\ v # w /\ userRows'[w] # Nothing
               /\ callers'[d].row.iap # Nothing /\ callers'[d].row.iap \notin aux_outrun
                 => userRows'[w].iap # callers'[d].row.iap
      <4> SUFFICES ASSUME NEW d \in Callers, NEW v \in UserIds, NEW w \in UserIds, Current(d, v)',
                          v # w, userRows'[w] # Nothing, callers'[d].row.iap # Nothing,
                          callers'[d].row.iap \notin aux_outrun
                   PROVE  userRows'[w].iap # callers'[d].row.iap
        OBVIOUS
      <4>1. Current(d, v) /\ v # u /\ callers'[d] = callers[d]
        BY <2>5
      <4>2. CASE w # u
        BY <1>1, <2>3, <4>1, <4>2 DEF IdentityInv
      <4>3. CASE w = u
        <5> SUFFICES ASSUME callers[c].row.iap = callers[d].row.iap PROVE FALSE
          BY <2>3, <4>1, <4>3
        <5>1. callers[c].row.iap # Nothing /\ userRows[v] # Nothing
                /\ userRows[v].iap # callers[d].row.iap
          BY <1>1, <3>2, <4>1 DEF CurrentInv
        <5>2. userRows[v].iap = Nothing /\ userRows[v].email = EmailOf[callers[d].row.iap]
          BY <1>1, <4>1, <5>1 DEF CurrentInv
        <5>3. \/ userRows[u] # Nothing /\ callers[c].row.iap = userRows[u].iap
              \/ userRows[u] # Nothing /\ userRows[u].email = EmailOf[callers[c].row.iap]
          BY <1>1, <3>1, <5>1 DEF CurrentInv
        <5>4. CASE userRows[u] # Nothing /\ callers[c].row.iap = userRows[u].iap
          BY <1>1, <4>1, <4>3, <5>1, <5>4 DEF IdentityInv
        <5>5. CASE userRows[u] # Nothing /\ userRows[u].email = EmailOf[callers[c].row.iap]
          BY <1>1, <4>1, <5>1, <5>2, <5>5 DEF EmailInv
        <5> QED BY <5>3, <5>4, <5>5
      <4> QED BY <4>2, <4>3
    <3> QED BY <3>3, <3>4
  <2> QED BY <2>6, <2>7, <2>8
<1>5. ASSUME NEW c \in Callers, Idles(c)
      PROVE  EmailInv' /\ CurrentInv' /\ IdentityInv'
  <2>1. /\ userRows' = userRows /\ aux_overwrote' = aux_overwrote /\ aux_outrun' = aux_outrun
        /\ callers'[c].at \notin {"read", "saved"}
        /\ \A d \in Callers \ {c} : callers'[d] = callers[d]
    BY <1>1, <1>5 DEF Idles, Copyless, NoCall
  <2>2. EmailInv'
    BY <1>1, <2>1 DEF EmailInv
  <2>3. CurrentInv'
    BY <1>1, <2>1 DEF CurrentInv
  <2>4. IdentityInv'
    BY <1>1, <2>1 DEF IdentityInv
  <2> QED BY <2>2, <2>3, <2>4
<1>6. CASE UNCHANGED access_vars
  BY <1>1, <1>6 DEF access_vars, EmailInv, CurrentInv, IdentityInv
<1> QED BY <1>1, <1>2, <1>3, <1>4, <1>5, <1>6, AccessSteps

LEMMA AccessInitially == AccessInit => AccessInv
  BY DEF AccessInit, AccessInv, UserTypeInv, AccessTypeOK, EmailInv, CurrentInv, IdentityInv,
         HasSaved, Called, Current, Holds, NoCall, Copyless

LEMMA AccessAlways == AccessSpec => []AccessInv
<1>1. AccessInv /\ [AccessNext]_access_vars => AccessInv'
  BY AccessStep, UserTypeStep DEF AccessInv
<1> QED
  BY <1>1, AccessInitially, PTL DEF AccessSpec

\* Type correctness (the users and the requests on them).
THEOREM AccessTypeCorrect == AccessSpec => []AccessTypeOK
<1>1. AccessInv => AccessTypeOK
  BY DEF AccessInv, UserTypeInv
<1> QED
  BY <1>1, AccessAlways, PTL

\* An email has one account at any time; an identity has one account, and keeps it, as long as
\* no request has saved a copy of a user that another one's COMMIT had made stale, and the
\* identity got no account between the two lookups of an activation (CreateUser, UpdateUser,
\* ActivateUser).
THEOREM IdentitiesAreKept == AccessSpec => IdentityIsKept
<1> DEFINE IdentityStep ==
      \A u, v \in UserIds :
          /\ userRows'[u] # Nothing /\ userRows'[v] # Nothing /\ u # v =>
                /\ userRows'[u].email # userRows'[v].email
                /\ \/ userRows'[u].iap = Nothing \/ userRows'[u].iap # userRows'[v].iap
                   \/ aux_overwrote' # {} \/ userRows'[u].iap \in aux_outrun'
          /\ userRows[u] # Nothing /\ userRows[u].iap # Nothing =>
                userRows'[u].iap = userRows[u].iap \/ u \in aux_overwrote
<1>1. ASSUME AccessInv, AccessInv', [AccessNext]_access_vars PROVE IdentityStep
  <2> SUFFICES ASSUME NEW u \in UserIds, NEW v \in UserIds
               PROVE  /\ userRows'[u] # Nothing /\ userRows'[v] # Nothing /\ u # v =>
                            /\ userRows'[u].email # userRows'[v].email
                            /\ \/ userRows'[u].iap = Nothing
                               \/ userRows'[u].iap # userRows'[v].iap
                               \/ aux_overwrote' # {} \/ userRows'[u].iap \in aux_outrun'
                      /\ userRows[u] # Nothing /\ userRows[u].iap # Nothing =>
                            userRows'[u].iap = userRows[u].iap \/ u \in aux_overwrote
    OBVIOUS
  <2>1. userRows'[u] # Nothing /\ userRows'[v] # Nothing /\ u # v =>
            /\ userRows'[u].email # userRows'[v].email
            /\ \/ userRows'[u].iap = Nothing \/ userRows'[u].iap # userRows'[v].iap
               \/ aux_overwrote' # {} \/ userRows'[u].iap \in aux_outrun'
    BY <1>1 DEF AccessInv, EmailInv, IdentityInv
  <2>2. ASSUME userRows[u] # Nothing, userRows[u].iap # Nothing, u \notin aux_overwrote
        PROVE  userRows'[u].iap = userRows[u].iap
    <3>1. CASE \E c \in Callers : CommitUser(c)
      <4>1. PICK c \in Callers : CommitUser(c)
        BY <3>1
      <4>2. PICK w \in UserIds : /\ HasSaved(c, w)
                                 /\ userRows' = [userRows EXCEPT ![w] = callers[c].row]
        BY <1>1, <4>1, CommitUserFacts DEF AccessInv
      <4>3. userRows \in [UserIds -> UserRow \union {Nothing}]
        BY <1>1 DEF AccessInv, UserTypeInv, AccessTypeOK
      <4>4. CASE w = u
        <5>1. callers[c].row.iap = userRows[u].iap
          BY <1>1, <2>2, <4>2, <4>4 DEF AccessInv, CurrentInv
        <5> QED BY <4>2, <4>3, <4>4, <5>1
      <4>5. CASE w # u
        BY <4>2, <4>3, <4>5
      <4> QED BY <4>4, <4>5
    <3>2. CASE ~\E c \in Callers : CommitUser(c)
      <4>1. userRows' = userRows
        BY <1>1, <3>2, AccessSteps
        DEF AccessInv, OpensCall, SaveUser, Idles, access_vars
      <4> QED BY <4>1
    <3> QED BY <3>1, <3>2
  <2> QED BY <2>1, <2>2
<1>2. IdentityIsKept <=> [][IdentityStep]_access_vars
  BY DEF IdentityIsKept
<1>3. AccessInv /\ AccessInv' /\ [AccessNext]_access_vars => [IdentityStep]_access_vars
  BY <1>1
<1> QED
  BY <1>2, <1>3, AccessAlways, PTL DEF AccessSpec
-----------------------------------------------------------------------------
(* The components beside each other.                                       *)

\* A step of one component is one or none of each.
LEMMA ServerSteps ==
    ASSUME [ServerNext]_server_vars
    PROVE  /\ [IngestNext]_ingest_vars
           /\ [CatalogNext]_catalog_vars
           /\ [RecordsNext]_records_vars
           /\ [AccessNext]_access_vars
           /\ [VersionsNext]_versions_vars
<1>1. CASE InEvents(IngestNext) BY <1>1 DEF InEvents
<1>2. CASE InCatalog(CatalogNext) BY <1>2 DEF InCatalog
<1>3. CASE InRecords(RecordsNext \/ RecordsDone) BY <1>3 DEF InRecords, RecordsDone
<1>4. CASE InAccess(AccessNext) BY <1>4 DEF InAccess
<1>5. CASE InVersions(VersionsNext \/ VersionsDone) BY <1>5 DEF InVersions, VersionsDone
<1>6. CASE UNCHANGED server_vars BY <1>6 DEF server_vars
<1> QED BY <1>1, <1>2, <1>3, <1>4, <1>5, <1>6 DEF ServerNext

\* The composition takes the steps of one component at a time, so that what is proved of a
\* component holds of it.
LEMMA ServerImplementsComponents ==
    ServerSpec => IngestSpec /\ CatalogSpec /\ RecordsSpec /\ AccessSpec /\ VersionsSpec
<1>1. ServerInit => IngestInit /\ CatalogInit /\ RecordsInit /\ AccessInit /\ VersionsInit
  BY DEF ServerInit
<1>2. [ServerNext]_server_vars =>
          /\ [IngestNext]_ingest_vars
          /\ [CatalogNext]_catalog_vars
          /\ [RecordsNext]_records_vars
          /\ [AccessNext]_access_vars
          /\ [VersionsNext]_versions_vars
  BY ServerSteps
<1> QED
  BY <1>1, <1>2, PTL DEF ServerSpec, IngestSpec, CatalogSpec, RecordsSpec, AccessSpec, VersionsSpec

\* Type correctness (the components beside each other, whichever moves).
THEOREM ServerTypeCorrect == ServerSpec => []ServerTypeOK
<1>1. IngestTypeOK /\ CatalogTypeOK /\ RecordsTypeOK /\ AccessTypeOK /\ VersionsTypeOK => ServerTypeOK
  BY DEF ServerTypeOK
<1> QED
  BY <1>1, ServerImplementsComponents, IngestTypeCorrect, CatalogTypeCorrect, RecordsTypeCorrect,
     AccessTypeCorrect, VersionsTypeCorrect, PTL
=============================================================================
