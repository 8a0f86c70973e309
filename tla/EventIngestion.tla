--------------------------- MODULE EventIngestion ---------------------------
(***************************************************************************)
(* ReceiveEvents: the server takes batches of events, looks their ids up   *)
(* in Valkey, collects them in three buffers in its memory, and marks the  *)
(* ids. A request whose events fill the buffers, or a periodic routine,    *)
(* writes the buffers to three tables of ClickHouse, one insert after      *)
(* another, under a lock. Inserts fail, with or without effect; the server *)
(* crashes and starts again. Metrics and messages are left out.            *)
(***************************************************************************)
EXTENDS EventTable, Sequences, Functions

CONSTANTS
    Known,    \* the types in the catalogue when the server starts
    Batches,  \* the batches that requests may carry
    Requests, \* requests that can be open at once
    Size,     \* config.event_buffer.size
    MaxSent   \* bound of the model: copies of an event in a buffer

ASSUME IngestParameters ==
    /\ Known \subseteq Types
    /\ Batches \subseteq Seq(Events)
    /\ Size \in Nat \ {0} /\ MaxSent \in Nat \ {0}
    /\ None \notin Requests \union {"routine"} /\ "routine" \notin Requests

Kinds == {"ok", "err", "dup"}

VARIABLES
    types,     \* InMemoryEventTypeCache
    marked,    \* Valkey dedupevt-{id}
    buf,       \* _ok_buf, _err_buf, _dup_buf: how often each event is in them
    flush,     \* _write_lock, and the insert that its holder awaits
    req,       \* the open requests
    tables,    \* ClickHouse discarded_events and duplicate_events
    aux_owed,  \* history: what requests have answered of events, and no table holds
    aux_taken, \* history: the ids answered ok whose mark has not expired
    aux_raced  \* history: of the ids, those looked up again before they were marked

aux_vars == <<aux_owed, aux_taken, aux_raced>>
stored_vars == <<events, tables>>
ingest_vars == <<types, marked, buf, flush, req, stored_vars, aux_vars>>

-----------------------------------------------------------------------------

NoEvents == [e \in Events |-> 0]
Free == [by |-> None]
Idle == [at |-> "idle"]
Open(r) == req[r].at # "idle"
IdsOf(batch) == {e.id : e \in Range(batch)}

IngestInit ==
    /\ types = Known
    /\ marked = {}
    /\ buf = [k \in Kinds |-> NoEvents]
    /\ flush = Free
    /\ req = [r \in Requests |-> Idle]
    /\ TableInit
    /\ tables = [k \in Kinds \ {"ok"} |-> {}]
    /\ aux_owed = {} /\ aux_taken = {} /\ aux_raced = {}

-----------------------------------------------------------------------------

Move(r, q) == req' = [req EXCEPT ![r] = q]

\* CreateEventType has committed and tells the cache.
LearnType(t) ==
    /\ t \notin types
    /\ types' = types \union {t}
    /\ UNCHANGED <<marked, buf, flush, req, stored_vars, aux_vars>>

\* Mutant of Verdict: the ids looked up are not used.
VerdictWithoutLookup(e) == IF e.type \in types /\ e.valid THEN "ok" ELSE "err"

\* _process_event. An event that the catalogue rejects is not called a duplicate.
Verdict(e) ==
    IF e.type \notin types \/ ~e.valid THEN "err"
    ELSE IF e.id \in marked THEN "dup" ELSE "ok"

\* Requests between the lookup of an id and its mark.
Racing(batch) ==
    {id \in IdsOf(batch) : \E r \in Requests : Open(r) /\ id \in IdsOf(req[r].batch)}

\* The call of ReceiveEvents, MGET, and the verdicts, without another await: ids are
\* looked up once for the batch.
Receive(r, batch) ==
    /\ ~Open(r)
    /\ Move(r, [at |-> "buffer", batch |-> batch,
                verdict |-> [i \in DOMAIN batch |-> Verdict(batch[i])]])
    /\ aux_raced' = aux_raced \union Racing(batch)
    /\ UNCHANGED <<types, marked, buf, flush, stored_vars, aux_owed, aux_taken>>

\* How often the request adds e to the buffer of kind k.
Adds(q, k, e) == Cardinality({i \in DOMAIN q.batch : q.batch[i] = e /\ q.verdict[i] = k})

Extended(q) == [k \in Kinds |-> [e \in Events |-> buf[k][e] + Adds(q, k, e)]]
Accumulated(b) == SumFunction([k \in Kinds |-> SumFunction(b[k])])
Rows(b, k) == {e \in Events : b[k][e] > 0}

\* _flush_no_lock comes to the first buffer that is not empty, of those left.
FlushFrom(by, b, left) ==
    IF "ok" \in left /\ Rows(b, "ok") # {} THEN [by |-> by, kind |-> "ok", rows |-> Rows(b, "ok")]
    ELSE IF "err" \in left /\ Rows(b, "err") # {} THEN [by |-> by, kind |-> "err", rows |-> Rows(b, "err")]
    ELSE IF "dup" \in left /\ Rows(b, "dup") # {} THEN [by |-> by, kind |-> "dup", rows |-> Rows(b, "dup")]
    ELSE Free

Left(k) == CASE k = "ok" -> {"err", "dup"} [] k = "err" -> {"dup"} [] k = "dup" -> {}

\* Mutant of Locked: save_batches extends the buffers without the lock.
NeverLocked == FALSE

Locked == flush.by # None

\* save_batches, once the lock is free.
Buffer(r) ==
    LET q == req[r]
        b == Extended(q)
        first == IF Accumulated(b) >= Size THEN FlushFrom(r, b, Kinds) ELSE Free
    IN
    /\ q.at = "buffer"
    /\ ~Locked
    /\ \A k \in Kinds, e \in Events : b[k][e] <= MaxSent
    /\ buf' = b
    /\ flush' = first
    /\ Move(r, [q EXCEPT !.at = IF first = Free THEN "mark" ELSE "flush"])
    /\ UNCHANGED <<types, marked, stored_vars, aux_vars>>

\* periodic_flush_routine, once the lock is free.
RoutineFlush ==
    /\ ~Locked
    /\ flush' = FlushFrom("routine", buf, Kinds)
    /\ flush' # Free
    /\ UNCHANGED <<types, marked, buf, req, stored_vars, aux_vars>>

Store(k, rows) ==
    IF k = "ok"
    THEN InsertRows(rows) /\ UNCHANGED tables
    ELSE tables' = [tables EXCEPT ![k] = @ \union rows] /\ UNCHANGED events

Paid == aux_owed' = aux_owed \ ({flush.kind} \X flush.rows)

\* Mutant of Cleared: all buffers are cleared after the first insert.
AllCleared(k) == [j \in Kinds |-> NoEvents]

\* clear() after an insert.
Cleared(k) == [buf EXCEPT ![k] = NoEvents]

\* An insert succeeds; the flush goes on, or returns the lock.
Inserted ==
    LET b == Cleared(flush.kind)
        next == FlushFrom(flush.by, b, Left(flush.kind))
    IN
    /\ Locked
    /\ Store(flush.kind, flush.rows) /\ Paid
    /\ buf' = b
    /\ flush' = next
    /\ IF next = Free /\ flush.by \in Requests
       THEN Move(flush.by, [req[flush.by] EXCEPT !.at = "mark"])
       ELSE UNCHANGED req
    /\ UNCHANGED <<types, marked, aux_taken, aux_raced>>

\* An insert raises, although ClickHouse may have done it. The routine logs it and
\* sleeps; a request fails. Buffers stay.
InsertFails(done) ==
    /\ Locked
    /\ IF done THEN Store(flush.kind, flush.rows) /\ Paid ELSE UNCHANGED <<stored_vars, aux_owed>>
    /\ flush' = Free
    /\ IF flush.by \in Requests THEN Move(flush.by, Idle) ELSE UNCHANGED req
    /\ UNCHANGED <<types, marked, buf, aux_taken, aux_raced>>

Stored(k, e) == IF k = "ok" THEN events[e] # "absent" ELSE e \in tables[k]
Answered(q) == {<<q.verdict[i], q.batch[i]>> : i \in DOMAIN q.batch}
Taken(q) == {q.batch[i].id : i \in {j \in DOMAIN q.batch : q.verdict[j] = "ok"}}

\* mark_processed marks the ids whatever the verdicts, and the request returns.
Mark(r) ==
    LET q == req[r] IN
    /\ q.at = "mark"
    /\ marked' = marked \union IdsOf(q.batch)
    /\ Move(r, Idle)
    /\ aux_owed' = aux_owed \union {a \in Answered(q) : ~Stored(a[1], a[2])}
    /\ aux_taken' = aux_taken \union Taken(q)
    /\ UNCHANGED <<types, buf, flush, stored_vars, aux_raced>>

\* Valkey raises, before or after it has done the SETs.
MarkFails(r, done) ==
    LET q == req[r] IN
    /\ q.at = "mark"
    /\ marked' = IF done THEN marked \union IdsOf(q.batch) ELSE marked
    /\ Move(r, Idle)
    /\ UNCHANGED <<types, buf, flush, stored_vars, aux_vars>>

\* A mark expires, after more than seven days.
Expire(id) ==
    /\ id \in marked
    /\ marked' = marked \ {id}
    /\ aux_taken' = aux_taken \ {id}
    /\ aux_raced' = IF \E r \in Requests : Open(r) /\ id \in IdsOf(req[r].batch)
                    THEN aux_raced \union {id} ELSE aux_raced \ {id}
    /\ UNCHANGED <<types, buf, flush, req, stored_vars, aux_owed>>

\* The server dies, with an insert done or not, and starts again; WarmUpEventTypes
\* reads at least the types that were known.
Crash(done) ==
    /\ IF done /\ Locked THEN Store(flush.kind, flush.rows) ELSE UNCHANGED stored_vars
    /\ buf' = [k \in Kinds |-> NoEvents]
    /\ aux_owed' = aux_owed \ {a \in aux_owed : buf[a[1]][a[2]] > 0}
    /\ flush' = Free
    /\ req' = [r \in Requests |-> Idle]
    /\ UNCHANGED <<types, marked, aux_taken, aux_raced>>

IngestNext ==
    \/ \E t \in Types : LearnType(t)
    \/ \E r \in Requests, batch \in Batches : Receive(r, batch)
    \/ \E r \in Requests : Buffer(r) \/ Mark(r) \/ \E done \in BOOLEAN : MarkFails(r, done)
    \/ RoutineFlush \/ Inserted
    \/ \E done \in BOOLEAN : InsertFails(done) \/ Crash(done)
    \/ \E id \in Ids : Expire(id)

IngestSpec == IngestInit /\ [][IngestNext]_ingest_vars

-----------------------------------------------------------------------------

RequestOK(q) ==
    /\ q = [at |-> q.at, batch |-> q.batch, verdict |-> q.verdict]
    /\ q.at \in {"buffer", "flush", "mark"}
    /\ q.batch \in Batches /\ q.verdict \in [DOMAIN q.batch -> Kinds]

FlushOK ==
    /\ flush = [by |-> flush.by, kind |-> flush.kind, rows |-> Rows(buf, flush.kind)]
    /\ flush.by \in Requests \union {"routine"} /\ flush.kind \in Kinds

\* The types; what an insert writes is what its buffer holds, all the time it takes,
\* and the lock is with the request that flushes.
IngestTypeOK ==
    /\ types \subseteq Types /\ marked \subseteq Ids
    /\ buf \in [Kinds -> [Events -> Nat]]
    /\ flush = Free \/ FlushOK
    /\ req = [r \in Requests |-> req[r]]
    /\ \A r \in Requests : /\ Open(r) => RequestOK(req[r])
                           /\ req[r].at = "flush" <=> flush.by = r
    /\ events \in [Events -> Statuses]
    /\ tables \in [Kinds \ {"ok"} -> SUBSET Events]
    /\ aux_owed \subseteq Kinds \X Events
    /\ aux_taken \subseteq Ids /\ aux_raced \subseteq Ids

\* What a request answered of an event is on record, or in the buffer, until the server
\* crashes (adr/005 accepts that): neither failed inserts nor the clearing of buffers
\* while other requests arrive lose it (save_batches, _flush_no_lock).
NothingIsLost == \A a \in aux_owed : buf[a[1]][a[2]] > 0

\* No request is about to answer ok for an id that another has answered ok, in spite of
\* retries after failures and crashes, until its mark expires; but for requests that
\* overlap (query_processed_before, mark_processed; adr/005 names that limit).
AcceptedOnce ==
    \A r \in Requests : Open(r) => Taken(req[r]) \intersect aux_taken \subseteq aux_raced
=============================================================================
