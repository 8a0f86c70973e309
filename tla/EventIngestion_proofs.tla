----------------------- MODULE EventIngestion_proofs -----------------------
(***************************************************************************)
(* Theorems about ReceiveEvents, for every set of events, batches and      *)
(* requests, and every size of the buffers.                                *)
(***************************************************************************)
EXTENDS EventIngestion, FiniteSetTheorems, TLAPS

\* What a request that has filled the buffers will answer is there, or stored.
OnRecord(k, e) == buf[k][e] > 0 \/ Stored(k, e)
Held(r) == \A i \in DOMAIN req[r].batch : OnRecord(req[r].verdict[i], req[r].batch[i])
Buffered(r) == req[r].at \in {"flush", "mark"}
HeldInv == NothingIsLost /\ \A r \in Requests : Buffered(r) => Held(r)

\* Requests that hold the same id have raced for it.
OnceInv ==
    /\ AcceptedOnce
    /\ aux_taken \subseteq marked
    /\ \A r, s \in Requests : r # s /\ Open(r) /\ Open(s) =>
           IdsOf(req[r].batch) \intersect IdsOf(req[s].batch) \subseteq aux_raced

-----------------------------------------------------------------------------

LEMMA BatchFacts ==
    ASSUME NEW q, RequestOK(q)
    PROVE  /\ \A i \in DOMAIN q.batch : q.batch[i] \in Events /\ q.verdict[i] \in Kinds
           /\ IsFiniteSet(DOMAIN q.batch)
           /\ IdsOf(q.batch) = {q.batch[i].id : i \in DOMAIN q.batch}
           /\ IdsOf(q.batch) \subseteq Ids
           /\ Taken(q) \subseteq IdsOf(q.batch)
<1>1. q.batch \in Seq(Events)
  BY IngestParameters DEF RequestOK
<1>2. IsFiniteSet(DOMAIN q.batch)
  <2>1. DOMAIN q.batch = 1..Len(q.batch) /\ Len(q.batch) \in Nat
    BY <1>1
  <2> QED BY <2>1, FS_Interval
<1>3. \A i \in DOMAIN q.batch : q.batch[i] \in Events
  BY <1>1
<1>4. IdsOf(q.batch) = {q.batch[i].id : i \in DOMAIN q.batch}
  BY DEF IdsOf, Range
<1>5. \A e \in Events : e.id \in Ids
  BY EventsAreEvents DEF EventType
<1>6. Taken(q) \subseteq IdsOf(q.batch)
  BY <1>4 DEF Taken
<1> QED
  BY <1>2, <1>3, <1>4, <1>5, <1>6 DEF RequestOK

LEMMA AddsFacts ==
    ASSUME NEW q, RequestOK(q), NEW k \in Kinds, NEW e \in Events
    PROVE  /\ Adds(q, k, e) \in Nat
           /\ \A i \in DOMAIN q.batch : q.batch[i] = e /\ q.verdict[i] = k => Adds(q, k, e) > 0
<1> DEFINE S == {i \in DOMAIN q.batch : q.batch[i] = e /\ q.verdict[i] = k}
<1>1. IsFiniteSet(S)
  BY BatchFacts, FS_Subset
<1>2. Cardinality(S) \in Nat /\ (Cardinality(S) = 0 <=> S = {})
  BY <1>1, FS_CardinalityType, FS_EmptySet
<1> QED
  BY <1>2 DEF Adds

LEMMA MovedIsOK ==
    ASSUME NEW q, RequestOK(q), NEW a \in {"flush", "mark"}
    PROVE  /\ RequestOK([q EXCEPT !.at = a])
           /\ [q EXCEPT !.at = a] = [at |-> a, batch |-> q.batch, verdict |-> q.verdict]
<1>1. [q EXCEPT !.at = a] = [at |-> a, batch |-> q.batch, verdict |-> q.verdict]
  BY DEF RequestOK
<1> QED
  BY <1>1 DEF RequestOK

LEMMA FlushFromFacts ==
    ASSUME NEW by, NEW b, NEW left
    PROVE  \/ FlushFrom(by, b, left) = Free
           \/ \E k \in Kinds :
                  FlushFrom(by, b, left) = [by |-> by, kind |-> k, rows |-> Rows(b, k)]
  BY DEF FlushFrom, Kinds

LEMMA NoneIsFree == \A by \in Requests \union {"routine"} : by # None
  BY IngestParameters

LEMMA FirstStatusIsPresent ==
    \A e \in Events : FirstStatus(e) \in {"waiting", "accepted"}
  BY DEF FirstStatus

\* What Store does: rows are stored, and nothing that was stored disappears.
LEMMA StoreFacts ==
    ASSUME events \in [Events -> Statuses], tables \in [Kinds \ {"ok"} -> SUBSET Events],
           NEW k \in Kinds, NEW rows \in SUBSET Events, Store(k, rows)
    PROVE  /\ events' \in [Events -> Statuses]
           /\ tables' \in [Kinds \ {"ok"} -> SUBSET Events]
           /\ \A e \in rows : Stored(k, e)'
           /\ \A j \in Kinds, e \in Events : Stored(j, e) => Stored(j, e)'
<1>1. CASE k = "ok"
  <2>1. InsertRows(rows) /\ tables' = tables
    BY <1>1 DEF Store
  <2>2. events' \in [Events -> Statuses]
    BY <2>1, FirstStatusIsPresent DEF InsertRows, Statuses
  <2>3. \A e \in Events : events'[e] = IF e \in rows THEN FirstStatus(e) ELSE events[e]
    BY <2>1 DEF InsertRows
  <2>4. \A e \in rows : events'[e] # "absent"
    BY <2>3, FirstStatusIsPresent
  <2>5. \A e \in Events : events[e] # "absent" => events'[e] # "absent"
    BY <2>3, FirstStatusIsPresent
  <2> QED
    BY <1>1, <2>1, <2>2, <2>4, <2>5 DEF Stored
<1>2. CASE k # "ok"
  <2>1. tables' = [tables EXCEPT ![k] = @ \union rows] /\ events' = events
    BY <1>2 DEF Store
  <2> QED
    BY <1>2, <2>1 DEF Stored
<1> QED
  BY <1>1, <1>2

-----------------------------------------------------------------------------

LEMMA IngestTypeInit == IngestInit => IngestTypeOK
  BY IngestParameters, NoneIsFree
  DEF IngestInit, IngestTypeOK, TableInit, Statuses, NoEvents, Free, Idle, Open, Kinds

LEMMA IngestTypeStep == IngestTypeOK /\ [IngestNext]_ingest_vars => IngestTypeOK'
<1> SUFFICES ASSUME IngestTypeOK, [IngestNext]_ingest_vars PROVE IngestTypeOK'
  OBVIOUS
<1> USE DEF IngestTypeOK
<1>1. ASSUME NEW t \in Types, LearnType(t) PROVE IngestTypeOK'
  BY <1>1 DEF LearnType, stored_vars, aux_vars, Open, FlushOK, RequestOK, Rows
<1>2. ASSUME NEW r \in Requests, NEW batch \in Batches, Receive(r, batch) PROVE IngestTypeOK'
  <2> DEFINE q == [at |-> "buffer", batch |-> batch,
                   verdict |-> [i \in DOMAIN batch |-> Verdict(batch[i])]]
  <2>1. RequestOK(q)
    BY DEF RequestOK, Verdict, Kinds
  <2>2. IdsOf(batch) \subseteq Ids
    BY <2>1, BatchFacts
  <2>3. req' = [req EXCEPT ![r] = q]
    BY <1>2 DEF Receive, Move
  <2>4. aux_raced' \subseteq Ids
    BY <1>2, <2>2 DEF Receive, Racing
  <2>5. \A s \in Requests : /\ Open(s)' => RequestOK(req'[s])
                            /\ req'[s].at = "flush" <=> flush.by = s
    BY <1>2, <2>1, <2>3 DEF Receive, Open
  <2> HIDE DEF q
  <2>6. req' = [s \in Requests |-> req'[s]]
    BY <2>3
  <2> QED
    BY <1>2, <2>4, <2>5, <2>6 DEF Receive, stored_vars, FlushOK, Rows
<1>3. ASSUME NEW r \in Requests, Buffer(r) PROVE IngestTypeOK'
  <2> DEFINE q == req[r]
             b == Extended(q)
             first == IF Accumulated(b) >= Size THEN FlushFrom(r, b, Kinds) ELSE Free
  <2>1. RequestOK(q) /\ q.at = "buffer" /\ flush.by = None
    BY <1>3 DEF Buffer, Locked, Open
  <2>2. b \in [Kinds -> [Events -> Nat]]
    BY <2>1, AddsFacts DEF Extended
  <2> HIDE DEF b
  <2>3. first = Free \/ \E k \in Kinds : first = [by |-> r, kind |-> k, rows |-> Rows(b, k)]
    BY FlushFromFacts
  <2> HIDE DEF first
  <2>4. first = Free <=> first.by = None
    BY <2>3, NoneIsFree DEF Free
  <2>5. /\ buf' = b /\ flush' = first
        /\ req' = [req EXCEPT ![r] = [q EXCEPT !.at = IF first = Free THEN "mark" ELSE "flush"]]
        /\ UNCHANGED <<types, marked, events, tables, aux_owed, aux_taken, aux_raced>>
    BY <1>3 DEF Buffer, Move, first, b, stored_vars, aux_vars
  <2>6. first # Free => first.by = r
    BY <2>3
  <2>7. (flush = Free \/ FlushOK)'
    BY <2>3, <2>5 DEF FlushOK
  <2>8. \A s \in Requests : Open(s)' => RequestOK(req'[s])
    <3> SUFFICES ASSUME NEW s \in Requests, Open(s)' PROVE RequestOK(req'[s])
      OBVIOUS
    <3>1. CASE s = r
      BY <2>1, <2>5, <3>1 DEF RequestOK
    <3>2. CASE s # r
      BY <2>5, <3>2 DEF Open
    <3> QED BY <3>1, <3>2
  <2>9. \A s \in Requests : req'[s].at = "flush" <=> flush'.by = s
    <3> SUFFICES ASSUME NEW s \in Requests PROVE req'[s].at = "flush" <=> flush'.by = s
      OBVIOUS
    <3>1. CASE s = r
      BY <2>1, <2>4, <2>5, <2>6, <3>1, NoneIsFree DEF RequestOK
    <3>2. CASE s # r
      BY <2>1, <2>4, <2>5, <2>6, <3>2, NoneIsFree
    <3> QED BY <3>1, <3>2
  <2>10. req' = [s \in Requests |-> req'[s]]
    BY <2>5
  <2> QED
    BY <2>2, <2>5, <2>7, <2>8, <2>9, <2>10
<1>4. CASE RoutineFlush
  <2>1. \/ flush' = Free
        \/ \E k \in Kinds : flush' = [by |-> "routine", kind |-> k, rows |-> Rows(buf, k)]
    BY <1>4, FlushFromFacts DEF RoutineFlush
  <2>2. flush.by = None /\ UNCHANGED <<types, marked, buf, req, events, tables, aux_owed, aux_taken, aux_raced>>
    BY <1>4 DEF RoutineFlush, Locked, stored_vars, aux_vars
  <2>3. \A s \in Requests : flush'.by # s
    BY <2>1, IngestParameters, NoneIsFree DEF Free
  <2>4. (flush = Free \/ FlushOK)'
    BY <2>1, <2>2 DEF FlushOK
  <2> QED
    BY <2>2, <2>3, <2>4, NoneIsFree DEF Open, RequestOK
<1>5. CASE Inserted
  <2> DEFINE b == Cleared(flush.kind)
             next == FlushFrom(flush.by, b, Left(flush.kind))
  <2>1. FlushOK /\ flush.rows \in SUBSET Events
    BY <1>5, NoneIsFree DEF Inserted, Locked, Free, FlushOK, Rows
  <2>2. b \in [Kinds -> [Events -> Nat]]
    BY <2>1 DEF FlushOK, Cleared, NoEvents
  <2> HIDE DEF b
  <2>3. next = Free \/ \E k \in Kinds : next = [by |-> flush.by, kind |-> k, rows |-> Rows(b, k)]
    BY FlushFromFacts
  <2> HIDE DEF next
  <2>4. /\ buf' = b /\ flush' = next /\ UNCHANGED <<types, marked, aux_taken, aux_raced>>
        /\ Store(flush.kind, flush.rows) /\ Paid
        /\ IF next = Free /\ flush.by \in Requests
           THEN req' = [req EXCEPT ![flush.by] = [@ EXCEPT !.at = "mark"]]
           ELSE UNCHANGED req
    BY <1>5 DEF Inserted, Move, next, b
  <2>5. events' \in [Events -> Statuses] /\ tables' \in [Kinds \ {"ok"} -> SUBSET Events]
    BY <2>1, <2>4, StoreFacts DEF FlushOK
  <2>6. (flush = Free \/ FlushOK)'
    BY <2>1, <2>3, <2>4 DEF FlushOK
  <2>7. aux_owed' \subseteq Kinds \X Events
    BY <2>4 DEF Paid
  <2>8. /\ req' = [s \in Requests |-> req'[s]]
        /\ \A s \in Requests : /\ Open(s)' => RequestOK(req'[s])
                               /\ req'[s].at = "flush" <=> flush'.by = s
    <3>1. CASE next = Free /\ flush.by \in Requests
      <4>1. RequestOK(req[flush.by])
        BY <3>1 DEF Open
      <4>2. RequestOK([req[flush.by] EXCEPT !.at = "mark"])
        BY <4>1, MovedIsOK
      <4>3. [req[flush.by] EXCEPT !.at = "mark"].at = "mark"
        BY <4>1, MovedIsOK
      <4>4. flush'.by = None
        BY <2>4, <3>1 DEF Free
      <4> QED
        BY <2>4, <3>1, <4>2, <4>3, <4>4, NoneIsFree DEF Open
    <3>2. CASE ~(next = Free /\ flush.by \in Requests)
      <4>1. \A s \in Requests : flush'.by = s <=> flush.by = s
        BY <2>1, <2>3, <2>4, <3>2, NoneIsFree DEF Free, FlushOK
      <4> QED
        BY <2>4, <3>2, <4>1 DEF Open
    <3> QED BY <3>1, <3>2
  <2> QED
    BY <2>2, <2>4, <2>5, <2>6, <2>7, <2>8
<1>6. ASSUME NEW done \in BOOLEAN, InsertFails(done) PROVE IngestTypeOK'
  <2>1. FlushOK /\ flush.rows \in SUBSET Events
    BY <1>6, NoneIsFree DEF InsertFails, Locked, Free, FlushOK, Rows
  <2>2. /\ events' \in [Events -> Statuses] /\ tables' \in [Kinds \ {"ok"} -> SUBSET Events]
        /\ aux_owed' \subseteq Kinds \X Events
    BY <1>6, <2>1, StoreFacts DEF InsertFails, FlushOK, Paid, stored_vars
  <2>3. /\ flush' = Free
        /\ UNCHANGED <<types, marked, buf, aux_taken, aux_raced>>
        /\ IF flush.by \in Requests THEN req' = [req EXCEPT ![flush.by] = Idle] ELSE UNCHANGED req
    BY <1>6 DEF InsertFails, Move
  <2>4. /\ req' = [s \in Requests |-> req'[s]]
        /\ \A s \in Requests : /\ Open(s)' => RequestOK(req'[s])
                               /\ req'[s].at # "flush" /\ flush'.by # s
    BY <2>3, NoneIsFree DEF Open, Free, Idle
  <2> QED
    BY <2>2, <2>3, <2>4
<1>7. ASSUME NEW r \in Requests, req[r].at = "mark", Move(r, Idle), UNCHANGED <<buf, flush>>
      PROVE  /\ req' = [s \in Requests |-> req'[s]]
             /\ \A s \in Requests : /\ Open(s)' => RequestOK(req'[s])
                                    /\ req'[s].at = "flush" <=> flush'.by = s
             /\ (flush = Free \/ FlushOK)'
  BY <1>7 DEF Move, Idle, Open, FlushOK, Rows
<1>8. ASSUME NEW r \in Requests, Mark(r) PROVE IngestTypeOK'
  <2>1. RequestOK(req[r])
    BY <1>8 DEF Mark, Open
  <2>2. Answered(req[r]) \subseteq Kinds \X Events
    BY <2>1, BatchFacts DEF Answered
  <2>3. marked' \subseteq Ids /\ aux_taken' \subseteq Ids
    BY <1>8, <2>1, BatchFacts DEF Mark
  <2>4. aux_owed' \subseteq Kinds \X Events
    BY <1>8, <2>2 DEF Mark
  <2>5. /\ UNCHANGED <<types, buf, flush, events, tables, aux_raced>>
        /\ req[r].at = "mark" /\ Move(r, Idle)
    BY <1>8 DEF Mark, stored_vars
  <2> QED
    BY <1>7, <2>3, <2>4, <2>5
<1>9. ASSUME NEW r \in Requests, NEW done \in BOOLEAN, MarkFails(r, done) PROVE IngestTypeOK'
  <2>1. RequestOK(req[r])
    BY <1>9 DEF MarkFails, Open
  <2>2. marked' \subseteq Ids
    BY <1>9, <2>1, BatchFacts DEF MarkFails
  <2>3. /\ UNCHANGED <<types, buf, flush, events, tables, aux_owed, aux_taken, aux_raced>>
        /\ req[r].at = "mark" /\ Move(r, Idle)
    BY <1>9 DEF MarkFails, stored_vars, aux_vars
  <2> QED
    BY <1>7, <2>2, <2>3
<1>10. ASSUME NEW id \in Ids, Expire(id) PROVE IngestTypeOK'
  BY <1>10 DEF Expire, stored_vars, Open, FlushOK, RequestOK, Rows
<1>11. ASSUME NEW done \in BOOLEAN, Crash(done) PROVE IngestTypeOK'
  <2>1. events' \in [Events -> Statuses] /\ tables' \in [Kinds \ {"ok"} -> SUBSET Events]
    <3>1. CASE done /\ Locked
      <4>1. FlushOK /\ flush.rows \in SUBSET Events
        BY <3>1, NoneIsFree DEF Locked, Free, FlushOK, Rows
      <4> QED
        BY <1>11, <3>1, <4>1, StoreFacts DEF Crash, FlushOK
    <3>2. CASE ~(done /\ Locked)
      BY <1>11, <3>2 DEF Crash, stored_vars
    <3> QED BY <3>1, <3>2
  <2>2. buf' \in [Kinds -> [Events -> Nat]]
    BY <1>11 DEF Crash, NoEvents
  <2> QED
    BY <1>11, <2>1, <2>2, NoneIsFree DEF Crash, Free, Idle, Open
<1>12. CASE UNCHANGED ingest_vars
  BY <1>12 DEF ingest_vars, stored_vars, aux_vars, Open, FlushOK, RequestOK, Rows
<1> QED
  BY <1>1, <1>2, <1>3, <1>4, <1>5, <1>6, <1>8, <1>9, <1>10, <1>11, <1>12 DEF IngestNext

\* The buffers, the lock and the requests have the states the model names: an insert
\* writes what its buffer holds all the time, and the lock is with who flushes
\* (IngestTypeOK).
THEOREM IngestTypeCorrect == IngestSpec => []IngestTypeOK
  BY IngestTypeInit, IngestTypeStep, PTL DEF IngestSpec

-----------------------------------------------------------------------------

\* An insert changes what is stored only by adding what its buffer holds.
LEMMA InsertFacts ==
    ASSUME IngestTypeOK, Locked, Store(flush.kind, flush.rows)
    PROVE  /\ flush.kind \in Kinds
           /\ flush.rows = Rows(buf, flush.kind)
           /\ \A k \in Kinds, e \in Events : k = flush.kind /\ buf[k][e] > 0 => Stored(k, e)'
           /\ \A j \in Kinds, e \in Events : Stored(j, e) => Stored(j, e)'
<1>1. flush.kind \in Kinds /\ flush.rows = Rows(buf, flush.kind)
  BY NoneIsFree DEF IngestTypeOK, Locked, Free, FlushOK
<1>2. flush.rows \in SUBSET Events /\ \A e \in Events : buf[flush.kind][e] > 0 => e \in flush.rows
  BY <1>1 DEF Rows
<1> QED
  <2>1. events \in [Events -> Statuses] /\ tables \in [Kinds \ {"ok"} -> SUBSET Events]
    BY DEF IngestTypeOK
  <2>2. \A e \in Events, k \in Kinds : k = flush.kind /\ e \in flush.rows => Stored(k, e)'
    BY <1>1, <1>2, <2>1, StoreFacts
  <2>3. \A j \in Kinds, e \in Events : Stored(j, e) => Stored(j, e)'
    BY <1>1, <1>2, <2>1, StoreFacts
  <2> QED BY <1>1, <1>2, <2>2, <2>3

\* Events leave a buffer only when it is inserted, or the server crashes; a request
\* comes to its answer only with its events in the buffers.
LEMMA HeldStep == IngestTypeOK /\ HeldInv /\ [IngestNext]_ingest_vars => HeldInv'
<1> SUFFICES ASSUME IngestTypeOK, HeldInv, [IngestNext]_ingest_vars PROVE HeldInv'
  OBVIOUS
<1>0. /\ \A r \in Requests : Buffered(r) => RequestOK(req[r]) /\ Held(r)
      /\ \A a \in aux_owed : buf[a[1]][a[2]] > 0
      /\ aux_owed \subseteq Kinds \X Events
  BY DEF HeldInv, NothingIsLost, IngestTypeOK, Open, Buffered
<1>1. ASSUME \A r \in Requests : Buffered(r)' => Held(r)',
             \A a \in aux_owed' : buf'[a[1]][a[2]] > 0
      PROVE  HeldInv'
  BY <1>1 DEF HeldInv, NothingIsLost
<1>2. ASSUME UNCHANGED <<buf, events, tables>>,
             \A r \in Requests : Buffered(r)' => req'[r] = req[r],
             aux_owed' \subseteq aux_owed
      PROVE  HeldInv'
  BY <1>0, <1>2 DEF HeldInv, NothingIsLost, Stored, Held, OnRecord, Buffered
<1>A. ASSUME NEW r \in Requests, Buffered(r),
             \A k \in Kinds, e \in Events : OnRecord(k, e) => OnRecord(k, e)',
             req'[r].batch = req[r].batch, req'[r].verdict = req[r].verdict
      PROVE  Held(r)'
  <2>1. \A i \in DOMAIN req[r].batch : req[r].verdict[i] \in Kinds /\ req[r].batch[i] \in Events
    BY <1>0, <1>A, BatchFacts
  <2>2. \A i \in DOMAIN req[r].batch : OnRecord(req[r].verdict[i], req[r].batch[i])
    BY <1>0, <1>A DEF Held
  <2> SUFFICES ASSUME NEW i \in DOMAIN req'[r].batch
               PROVE  OnRecord(req[r].verdict[i], req[r].batch[i])'
    BY DEF Held
  <2> DEFINE k == req[r].verdict[i]
             e == req[r].batch[i]
  <2>3. OnRecord(k, e) /\ k \in Kinds /\ e \in Events /\ k' = k /\ e' = e
    BY <1>A, <2>1, <2>2
  <2> HIDE DEF k, e
  <2>4. buf'[k][e] > 0 \/ (IF k = "ok" THEN events'[e] # "absent" ELSE e \in tables'[k])
    BY <1>A, <2>3 DEF OnRecord, Stored
  <2> QED BY <2>3, <2>4 DEF k, e, OnRecord, Stored
<1>3. ASSUME NEW t \in Types, LearnType(t) PROVE HeldInv'
  BY <1>2, <1>3 DEF LearnType, stored_vars, aux_vars
<1>4. ASSUME NEW r \in Requests, NEW batch \in Batches, Receive(r, batch) PROVE HeldInv'
  <2> DEFINE q == [at |-> "buffer", batch |-> batch,
                   verdict |-> [i \in DOMAIN batch |-> Verdict(batch[i])]]
  <2>1. q.at = "buffer"
    OBVIOUS
  <2>2. req' = [req EXCEPT ![r] = q] /\ UNCHANGED <<buf, events, tables, aux_owed>>
    BY <1>4 DEF Receive, Move, stored_vars
  <2> HIDE DEF q
  <2>3. \A s \in Requests : Buffered(s)' => req'[s] = req[s]
    BY <2>1, <2>2 DEF IngestTypeOK, Buffered
  <2> QED
    BY <1>2, <2>2, <2>3
<1>5. ASSUME NEW r \in Requests, Buffer(r) PROVE HeldInv'
  <2> DEFINE q == req[r]
             b == Extended(q)
             at == IF (IF Accumulated(b) >= Size THEN FlushFrom(r, b, Kinds) ELSE Free) = Free
                   THEN "mark" ELSE "flush"
  <2>1. RequestOK(q) /\ at \in {"flush", "mark"}
    BY <1>5 DEF Buffer, IngestTypeOK, Open
  <2>2. /\ \A k \in Kinds, e \in Events : b[k][e] = buf[k][e] + Adds(q, k, e)
        /\ \A k \in Kinds, e \in Events : buf[k][e] \in Nat /\ Adds(q, k, e) \in Nat
    BY <2>1, AddsFacts DEF Extended, IngestTypeOK
  <2>3. \A k \in Kinds, e \in Events : buf[k][e] > 0 => b[k][e] > 0
    BY <2>2
  <2>4. \A i \in DOMAIN q.batch : b[q.verdict[i]][q.batch[i]] > 0
    <3> SUFFICES ASSUME NEW i \in DOMAIN q.batch PROVE b[q.verdict[i]][q.batch[i]] > 0
      OBVIOUS
    <3>1. q.verdict[i] \in Kinds /\ q.batch[i] \in Events
      BY <2>1, BatchFacts
    <3>2. Adds(q, q.verdict[i], q.batch[i]) > 0
      BY <2>1, <3>1, AddsFacts
    <3> QED BY <2>2, <3>1, <3>2
  <2>5. /\ buf' = b /\ UNCHANGED <<events, tables, aux_owed>>
        /\ req' = [req EXCEPT ![r] = [q EXCEPT !.at = at]]
    BY <1>5 DEF Buffer, Move, stored_vars, aux_vars
  <2> HIDE DEF b, at
  <2>6. req'[r].batch = q.batch /\ req'[r].verdict = q.verdict
    <3>1. req'[r] = [q EXCEPT !.at = at]
      BY <2>5 DEF IngestTypeOK
    <3> QED BY <2>1, <3>1, MovedIsOK
  <2>7. Held(r)'
    BY <2>4, <2>5, <2>6 DEF Held, OnRecord
  <2>8. \A k \in Kinds, e \in Events : OnRecord(k, e) => OnRecord(k, e)'
    BY <2>3, <2>5 DEF OnRecord, Stored
  <2>9. \A s \in Requests : s # r => req'[s] = req[s]
    BY <2>5
  <2>10. \A s \in Requests : Buffered(s)' => Held(s)'
    BY <1>A, <2>7, <2>8, <2>9 DEF Buffered
  <2>11. \A a \in aux_owed' : buf'[a[1]][a[2]] > 0
    BY <1>0, <2>3, <2>5
  <2> QED
    BY <1>1, <2>10, <2>11
<1>6. CASE RoutineFlush
  BY <1>2, <1>6 DEF RoutineFlush, stored_vars, aux_vars
<1>7. CASE Inserted
  <2>1. Locked /\ Store(flush.kind, flush.rows)
    BY <1>7 DEF Inserted
  <2>2. /\ buf' = [buf EXCEPT ![flush.kind] = NoEvents]
        /\ aux_owed' = aux_owed \ ({flush.kind} \X flush.rows)
    BY <1>7 DEF Inserted, Cleared, Paid
  <2>3. \A r \in Requests : Buffered(r)' =>
            /\ Buffered(r)
            /\ req'[r].batch = req[r].batch /\ req'[r].verdict = req[r].verdict
    <3>1. CASE UNCHANGED req
      BY <3>1 DEF Buffered
    <3>2. CASE flush.by \in Requests /\ req' = [req EXCEPT ![flush.by] = [@ EXCEPT !.at = "mark"]]
      <4>1. req[flush.by].at = "flush" /\ RequestOK(req[flush.by])
        BY <3>2 DEF IngestTypeOK, Open
      <4>2. /\ req'[flush.by].batch = req[flush.by].batch
            /\ req'[flush.by].verdict = req[flush.by].verdict
        BY <3>2, <4>1, MovedIsOK
      <4>3. \A r \in Requests : r # flush.by => req'[r] = req[r]
        BY <3>2
      <4> QED BY <4>1, <4>2, <4>3 DEF Buffered
    <3> QED BY <1>7, <3>1, <3>2 DEF Inserted, Move
  <2>4. \A k \in Kinds, e \in Events : OnRecord(k, e) => OnRecord(k, e)'
    <3> SUFFICES ASSUME NEW k \in Kinds, NEW e \in Events, OnRecord(k, e) PROVE OnRecord(k, e)'
      OBVIOUS
    <3>1. CASE k = flush.kind
      BY <2>1, <3>1, InsertFacts DEF OnRecord
    <3>2. CASE k # flush.kind
      <4>1. buf'[k] = buf[k] /\ (Stored(k, e) => Stored(k, e)')
        BY <2>1, <2>2, <3>2, InsertFacts DEF IngestTypeOK
      <4> QED BY <4>1 DEF OnRecord
    <3> QED BY <3>1, <3>2
  <2>5. \A r \in Requests : Buffered(r)' => Held(r)'
    BY <1>A, <2>3, <2>4
  <2>6. \A a \in aux_owed' : buf'[a[1]][a[2]] > 0
    <3> SUFFICES ASSUME NEW a \in aux_owed' PROVE buf'[a[1]][a[2]] > 0
      OBVIOUS
    <3>1. a \in aux_owed /\ a[1] \in Kinds /\ a[2] \in Events /\ a = <<a[1], a[2]>>
      BY <1>0, <2>2
    <3>2. buf[a[1]][a[2]] > 0
      BY <1>0, <3>1
    <3>3. a[1] # flush.kind
      <4> SUFFICES ASSUME a[1] = flush.kind PROVE FALSE
        OBVIOUS
      <4>1. a[2] \in flush.rows
        BY <2>1, <3>1, <3>2, InsertFacts DEF Rows
      <4> QED BY <2>2, <3>1, <4>1
    <3> QED BY <2>2, <3>1, <3>2, <3>3 DEF IngestTypeOK
  <2> QED
    BY <1>1, <2>5, <2>6
<1>8. ASSUME NEW done \in BOOLEAN, InsertFails(done) PROVE HeldInv'
  <2>1. /\ Locked /\ buf' = buf /\ aux_owed' \subseteq aux_owed
        /\ \A r \in Requests : Buffered(r)' => req'[r] = req[r]
    BY <1>8 DEF InsertFails, Paid, Move, Idle, IngestTypeOK, Buffered
  <2>2. \A k \in Kinds, e \in Events : Stored(k, e) => Stored(k, e)'
    <3>1. CASE done
      BY <1>8, <2>1, <3>1, InsertFacts DEF InsertFails
    <3>2. CASE ~done
      BY <1>8, <3>2 DEF InsertFails, stored_vars, Stored
    <3> QED BY <3>1, <3>2
  <2>3. \A k \in Kinds, e \in Events : OnRecord(k, e) => OnRecord(k, e)'
    BY <2>1, <2>2 DEF OnRecord
  <2>4. \A r \in Requests : Buffered(r)' => Held(r)'
    BY <1>A, <2>1, <2>3 DEF Buffered
  <2> QED
    BY <1>0, <1>1, <2>1, <2>4
<1>9. ASSUME NEW r \in Requests, Mark(r) PROVE HeldInv'
  <2>1. /\ UNCHANGED <<buf, events, tables>>
        /\ \A s \in Requests : Buffered(s)' => req'[s] = req[s]
    BY <1>9 DEF Mark, stored_vars, Move, Idle, IngestTypeOK, Buffered
  <2>2. Held(r)
    BY <1>0, <1>9 DEF Mark, Buffered
  <2>3. \A a \in aux_owed' : a \in aux_owed \/ (a \in Answered(req[r]) /\ ~Stored(a[1], a[2]))
    BY <1>9 DEF Mark
  <2>4. \A a \in Answered(req[r]) : buf[a[1]][a[2]] > 0 \/ Stored(a[1], a[2])
    BY <2>2 DEF Answered, Held, OnRecord
  <2>5. \A a \in aux_owed' : buf'[a[1]][a[2]] > 0
    BY <1>0, <2>1, <2>3, <2>4
  <2>6. \A k \in Kinds, e \in Events : OnRecord(k, e) => OnRecord(k, e)'
    BY <2>1 DEF OnRecord, Stored
  <2>7. \A s \in Requests : Buffered(s)' => Held(s)'
    BY <1>A, <2>1, <2>6 DEF Buffered
  <2> QED
    BY <1>1, <2>5, <2>7
<1>10. ASSUME NEW r \in Requests, NEW done \in BOOLEAN, MarkFails(r, done) PROVE HeldInv'
  BY <1>2, <1>10 DEF MarkFails, stored_vars, aux_vars, Move, Idle, IngestTypeOK, Buffered
<1>11. ASSUME NEW id \in Ids, Expire(id) PROVE HeldInv'
  BY <1>2, <1>11 DEF Expire, stored_vars
<1>12. ASSUME NEW done \in BOOLEAN, Crash(done) PROVE HeldInv'
  <2>1. \A r \in Requests : ~Buffered(r)'
    BY <1>12 DEF Crash, Idle, Buffered
  <2>2. aux_owed' = {}
    BY <1>0, <1>12 DEF Crash
  <2> QED
    BY <1>1, <2>1, <2>2
<1>13. CASE UNCHANGED ingest_vars
  BY <1>2, <1>13 DEF ingest_vars, stored_vars, aux_vars
<1> QED
  BY <1>3, <1>4, <1>5, <1>6, <1>7, <1>8, <1>9, <1>10, <1>11, <1>12, <1>13 DEF IngestNext

\* What a request has answered of an event is stored or in its buffer, whatever inserts
\* fail and however requests overlap, until a crash (save_batches, _flush_no_lock).
THEOREM AnswersAreOnRecord == IngestSpec => []NothingIsLost
<1>1. IngestInit => HeldInv
  BY DEF IngestInit, HeldInv, NothingIsLost, Idle, Buffered
<1>2. IngestSpec => []HeldInv
  BY <1>1, IngestTypeCorrect, HeldStep, PTL DEF IngestSpec
<1>3. HeldInv => NothingIsLost
  BY DEF HeldInv
<1> QED
  BY <1>2, <1>3, PTL

-----------------------------------------------------------------------------

\* A request that is between its lookup and its mark has found no id that it takes;
\* ids that are marked meanwhile are held by another, and have raced.
LEMMA OnceStep == IngestTypeOK /\ OnceInv /\ [IngestNext]_ingest_vars => OnceInv'
<1> SUFFICES ASSUME IngestTypeOK, OnceInv, [IngestNext]_ingest_vars PROVE OnceInv'
  OBVIOUS
<1>0. /\ \A r \in Requests : Open(r) => /\ Taken(req[r]) \intersect aux_taken \subseteq aux_raced
                                        /\ Taken(req[r]) \subseteq IdsOf(req[r].batch)
      /\ aux_taken \subseteq marked
      /\ \A r, s \in Requests : r # s /\ Open(r) /\ Open(s) =>
             IdsOf(req[r].batch) \intersect IdsOf(req[s].batch) \subseteq aux_raced
  BY BatchFacts DEF OnceInv, AcceptedOnce, IngestTypeOK
<1>1. ASSUME aux_taken' = aux_taken, aux_raced' = aux_raced, marked \subseteq marked',
             \A r \in Requests : Open(r)' => /\ Open(r)
                                             /\ req'[r].batch = req[r].batch
                                             /\ req'[r].verdict = req[r].verdict
      PROVE  OnceInv'
  <2>1. \A r \in Requests : Open(r)' => /\ IdsOf(req[r].batch)' = IdsOf(req[r].batch)
                                        /\ Taken(req[r])' = Taken(req[r])
    BY <1>1 DEF IdsOf, Taken
  <2> QED
    BY <1>0, <1>1, <2>1 DEF OnceInv, AcceptedOnce
<1>2. ASSUME NEW t \in Types, LearnType(t) PROVE OnceInv'
  BY <1>1, <1>2 DEF LearnType, stored_vars, aux_vars, Open
<1>3. ASSUME NEW r \in Requests, NEW batch \in Batches, Receive(r, batch) PROVE OnceInv'
  <2> DEFINE q == [at |-> "buffer", batch |-> batch,
                   verdict |-> [i \in DOMAIN batch |-> Verdict(batch[i])]]
  <2>1. q.batch = batch /\ q.at # "idle"
    OBVIOUS
  <2>2. Taken(q) \intersect marked = {}
    BY DEF Taken, Verdict
  <2>3. /\ req' = [req EXCEPT ![r] = q] /\ ~Open(r)
        /\ UNCHANGED <<marked, aux_taken>>
        /\ aux_raced' = aux_raced \union Racing(batch)
    BY <1>3 DEF Receive, Move
  <2> HIDE DEF q
  <2>4. req'[r] = q /\ \A s \in Requests : s # r => req'[s] = req[s]
    BY <2>3 DEF IngestTypeOK
  <2>5. ASSUME NEW s \in Requests, s # r, Open(s)
        PROVE  IdsOf(q.batch) \intersect IdsOf(req[s].batch) \subseteq aux_raced'
    BY <2>1, <2>3, <2>5 DEF Racing
  <2>6. \A s \in Requests : Open(s)' <=> s = r \/ Open(s)
    BY <2>1, <2>4 DEF Open
  <2>7. AcceptedOnce'
    <3> SUFFICES ASSUME NEW s \in Requests, Open(s)'
                 PROVE  Taken(req'[s]) \intersect aux_taken' \subseteq aux_raced'
      BY DEF AcceptedOnce
    <3>1. CASE s = r
      BY <1>0, <2>2, <2>3, <2>4, <3>1
    <3>2. CASE s # r
      BY <1>0, <2>3, <2>4, <2>6, <3>2
    <3> QED BY <3>1, <3>2
  <2>8. ASSUME NEW s \in Requests, NEW u \in Requests, s # u, Open(s)', Open(u)'
        PROVE  IdsOf(req'[s].batch) \intersect IdsOf(req'[u].batch) \subseteq aux_raced'
    <3>1. CASE s = r
      BY <2>4, <2>5, <2>6, <2>8, <3>1
    <3>2. CASE u = r
      BY <2>4, <2>5, <2>6, <2>8, <3>2
    <3>3. CASE s # r /\ u # r
      BY <1>0, <2>3, <2>4, <2>6, <2>8, <3>3
    <3> QED BY <3>1, <3>2, <3>3
  <2> QED
    BY <1>0, <2>3, <2>7, <2>8 DEF OnceInv
<1>4. ASSUME NEW r \in Requests, Buffer(r) PROVE OnceInv'
  <2> DEFINE at == IF (IF Accumulated(Extended(req[r])) >= Size
                       THEN FlushFrom(r, Extended(req[r]), Kinds) ELSE Free) = Free
                   THEN "mark" ELSE "flush"
  <2>1. at \in {"flush", "mark"}
    OBVIOUS
  <2>2. /\ req' = [req EXCEPT ![r] = [req[r] EXCEPT !.at = at]]
        /\ Open(r) /\ UNCHANGED <<marked, aux_taken, aux_raced>>
    BY <1>4 DEF Buffer, Move, aux_vars, Open
  <2> HIDE DEF at
  <2>3. req'[r] = [req[r] EXCEPT !.at = at] /\ \A s \in Requests : s # r => req'[s] = req[s]
    BY <2>2 DEF IngestTypeOK
  <2>4. req'[r].batch = req[r].batch /\ req'[r].verdict = req[r].verdict
    <3>1. RequestOK(req[r])
      BY <2>2 DEF IngestTypeOK
    <3> QED BY <2>1, <2>3, <3>1, MovedIsOK
  <2> QED
    BY <1>1, <2>2, <2>3, <2>4 DEF Open
<1>5. CASE RoutineFlush
  BY <1>1, <1>5 DEF RoutineFlush, stored_vars, aux_vars, Open
<1>6. CASE Inserted
  <2>1. UNCHANGED <<marked, aux_taken, aux_raced>>
    BY <1>6 DEF Inserted
  <2>2. CASE UNCHANGED req
    BY <1>1, <2>1, <2>2 DEF Open
  <2>3. CASE flush.by \in Requests /\ req' = [req EXCEPT ![flush.by] = [@ EXCEPT !.at = "mark"]]
    <3>1. Open(flush.by) /\ RequestOK(req[flush.by])
      BY <2>3 DEF IngestTypeOK, Open
    <3>2. /\ req'[flush.by] = [req[flush.by] EXCEPT !.at = "mark"]
          /\ \A r \in Requests : r # flush.by => req'[r] = req[r]
      BY <2>3 DEF IngestTypeOK
    <3>3. /\ req'[flush.by].batch = req[flush.by].batch
          /\ req'[flush.by].verdict = req[flush.by].verdict
      BY <3>1, <3>2, MovedIsOK
    <3> QED
      BY <1>1, <2>1, <3>1, <3>2, <3>3 DEF Open
  <2> QED
    BY <1>6, <2>2, <2>3 DEF Inserted, Move
<1>7. ASSUME NEW done \in BOOLEAN, InsertFails(done) PROVE OnceInv'
  <2>1. /\ UNCHANGED <<marked, aux_taken, aux_raced>>
        /\ \A r \in Requests : Open(r)' => req'[r] = req[r] /\ Open(r)
    BY <1>7 DEF InsertFails, Move, Idle, Open, IngestTypeOK
  <2> QED
    BY <1>1, <2>1
<1>8. ASSUME NEW r \in Requests, Mark(r) PROVE OnceInv'
  <2>1. /\ marked' = marked \union IdsOf(req[r].batch)
        /\ aux_taken' = aux_taken \union Taken(req[r])
        /\ aux_raced' = aux_raced /\ Open(r)
        /\ req' = [req EXCEPT ![r] = Idle]
    BY <1>8 DEF Mark, Move, Open
  <2>2. \A s \in Requests : Open(s)' => s # r /\ req'[s] = req[s] /\ Open(s)
    BY <2>1 DEF Open, Idle, IngestTypeOK
  <2>3. \A s \in Requests : Open(s) /\ s # r =>
            Taken(req[s]) \intersect Taken(req[r]) \subseteq aux_raced
    BY <1>0, <2>1
  <2>4. AcceptedOnce'
    BY <1>0, <2>1, <2>2, <2>3 DEF AcceptedOnce
  <2>5. aux_taken' \subseteq marked'
    BY <1>0, <2>1
  <2>6. \A s, u \in Requests : s # u /\ Open(s)' /\ Open(u)' =>
            IdsOf(req'[s].batch) \intersect IdsOf(req'[u].batch) \subseteq aux_raced'
    BY <1>0, <2>1, <2>2
  <2> QED
    BY <2>4, <2>5, <2>6 DEF OnceInv
<1>9. ASSUME NEW r \in Requests, NEW done \in BOOLEAN, MarkFails(r, done) PROVE OnceInv'
  <2>1. /\ UNCHANGED <<aux_taken, aux_raced>> /\ marked \subseteq marked'
        /\ \A s \in Requests : Open(s)' => req'[s] = req[s] /\ Open(s)
    BY <1>9 DEF MarkFails, Move, Idle, Open, IngestTypeOK, aux_vars
  <2> QED
    BY <1>1, <2>1
<1>10. ASSUME NEW id \in Ids, Expire(id) PROVE OnceInv'
  <2>1. /\ marked' = marked \ {id} /\ aux_taken' = aux_taken \ {id} /\ req' = req
        /\ \A i \in aux_raced : i # id => i \in aux_raced'
        /\ \A r \in Requests : Open(r) /\ id \in IdsOf(req[r].batch) => aux_raced \subseteq aux_raced'
    BY <1>10 DEF Expire
  <2>2. \A r \in Requests : Open(r)' <=> Open(r)
    BY <2>1 DEF Open
  <2>3. AcceptedOnce'
    BY <1>0, <2>1, <2>2 DEF AcceptedOnce
  <2>4. \A s, u \in Requests : s # u /\ Open(s)' /\ Open(u)' =>
            IdsOf(req'[s].batch) \intersect IdsOf(req'[u].batch) \subseteq aux_raced'
    BY <1>0, <2>1, <2>2
  <2> QED
    BY <1>0, <2>1, <2>3, <2>4 DEF OnceInv
<1>11. ASSUME NEW done \in BOOLEAN, Crash(done) PROVE OnceInv'
  BY <1>1, <1>11 DEF Crash, Open, Idle
<1>12. CASE UNCHANGED ingest_vars
  BY <1>1, <1>12 DEF ingest_vars, aux_vars, Open
<1> QED
  BY <1>2, <1>3, <1>4, <1>5, <1>6, <1>7, <1>8, <1>9, <1>10, <1>11, <1>12 DEF IngestNext

\* An id is answered ok once while its mark lasts, whatever fails and is tried again, but
\* for requests that overlap (query_processed_before,
\* mark_processed).
THEOREM IdsAreAcceptedOnce == IngestSpec => []AcceptedOnce
<1>1. IngestInit => OnceInv
  BY DEF IngestInit, OnceInv, AcceptedOnce, Idle, Open
<1>2. IngestSpec => []OnceInv
  BY <1>1, IngestTypeCorrect, OnceStep, PTL DEF IngestSpec
<1>3. OnceInv => AcceptedOnce
  BY DEF OnceInv
<1> QED
  BY <1>2, <1>3, PTL

=============================================================================
