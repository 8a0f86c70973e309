------------------------------ MODULE Catalog ------------------------------
(***************************************************************************)
(* Flags and event types: rows of Postgres, and their copies in the memory *)
(* of the server, which decisions and events are answered from. A request  *)
(* writes its row in one transaction and tells the copies after COMMIT.    *)
(* The server dies with its copies and warms them up when it starts.       *)
(***************************************************************************)
EXTENDS FiniteSets

CONSTANTS
    FlagKeys,    \* keys of flags
    Defaults,    \* values that a flag may have as its default
    TypeIds,     \* ids of event types
    Schemas,     \* schemas of event types
    Writers,     \* requests that can be open at once
    Absent       \* no row, no copy

\* The row of an event type: UpdateEventType has renamed it or not.
TypeRow == [schema : Schemas, renamed : BOOLEAN, archived : BOOLEAN]

ASSUME CatalogAssumption ==
    FlagKeys \intersect TypeIds = {} /\ Absent \notin Defaults /\ Absent \notin TypeRow

VARIABLES
    flagRows,    \* flags: the default of each, or Absent
    typeRows,    \* event_types
    writers,     \* the open requests
    serving,     \* what the server has warmed up: "down", "flags", "up"
    defaults,    \* InMemoryFlagStorage
    typeCache,   \* InMemoryEventTypeCache
    aux_crossed, \* history: flags that two requests were changing at once since the copies
                 \* were warmed up
    aux_stale    \* history: event types saved from a copy that was no longer their row

catalog_rows == <<flagRows, typeRows>>
catalog_copies == <<serving, defaults, typeCache>>
catalog_vars == <<catalog_rows, catalog_copies, writers, aux_crossed, aux_stale>>

-----------------------------------------------------------------------------

NewType(schema) == [schema |-> schema, renamed |-> FALSE, archived |-> FALSE]

NoRequest == [at |-> "closed"]
WritesOn(w, key) == writers[w].at \in {"read", "saved", "committed"} /\ writers[w].key = key
Others(w, key) == {v \in Writers \ {w} : WritesOn(v, key)}
\* A row that is written is locked until COMMIT; so is the key of one that is inserted.
RowIsFree(key) == \A w \in Writers : ~(WritesOn(w, key) /\ writers[w].at = "saved")

Row(key) == IF key \in FlagKeys THEN flagRows[key] ELSE typeRows[key]

CatalogInit ==
    /\ flagRows = [f \in FlagKeys |-> Absent] /\ typeRows = [t \in TypeIds |-> Absent]
    /\ writers = [w \in Writers |-> NoRequest]
    /\ serving = "down"
    /\ defaults = [f \in FlagKeys |-> Absent] /\ typeCache = [t \in TypeIds |-> Absent]
    /\ aux_crossed = {} /\ aux_stale = {}

-----------------------------------------------------------------------------

Step(w, request) == writers' = [writers EXCEPT ![w] = request]

\* Two requests cross when one of them opens while the other has not told the copies.
Opens(w, request) ==
    /\ serving = "up" /\ writers[w] = NoRequest
    /\ Step(w, request)
    /\ aux_crossed' = IF request.key \in FlagKeys /\ Others(w, request.key) # {}
                      THEN aux_crossed \union {request.key} ELSE aux_crossed
    /\ UNCHANGED <<catalog_rows, catalog_copies, aux_stale>>

\* CreateFlag and CreateEventType: the row is inserted, and tells its copy.
Create(w, key, row) ==
    /\ Row(key) = Absent /\ RowIsFree(key)
    /\ Opens(w, [at |-> "saved", key |-> key, row |-> row, seen |-> Absent, tells |-> TRUE])

\* UpdateFlag, UpdateEventType and ArchiveEventType read the row without a lock, and change
\* their copy; only the first tells.
Change(w, key, row, tells) ==
    /\ Row(key) # Absent
    /\ Opens(w, [at |-> "read", key |-> key, row |-> row, seen |-> Row(key), tells |-> tells])

\* Mutant of Renamed: the row is built anew.
RenamedAnew(row) == [NewType(row.schema) EXCEPT !.renamed = TRUE]

\* UpdateEventType sets the name.
Renamed(row) == [row EXCEPT !.renamed = TRUE]

Requested(w) ==
    \/ \E f \in FlagKeys, value \in Defaults : Create(w, f, value) \/ Change(w, f, value, TRUE)
    \/ \E t \in TypeIds, schema \in Schemas : Create(w, t, NewType(schema))
    \/ \E t \in TypeIds :
          /\ typeRows[t] # Absent
          /\ \/ Change(w, t, Renamed(typeRows[t]), FALSE)
             \/ ~typeRows[t].archived /\ Change(w, t, [typeRows[t] EXCEPT !.archived = TRUE], FALSE)

\* save writes every column of the copy.
SaveRow(w) ==
    /\ writers[w].at = "read" /\ RowIsFree(writers[w].key)
    /\ Step(w, [writers[w] EXCEPT !.at = "saved"])
    /\ aux_stale' = IF writers[w].key \in TypeIds /\ writers[w].seen # Row(writers[w].key)
                    THEN aux_stale \union {writers[w].key} ELSE aux_stale
    /\ UNCHANGED <<catalog_rows, catalog_copies, aux_crossed>>

CommitRow(w) ==
    LET key == writers[w].key  row == writers[w].row IN
    /\ writers[w].at = "saved"
    /\ IF key \in FlagKeys THEN flagRows' = [flagRows EXCEPT ![key] = row] /\ UNCHANGED typeRows
       ELSE typeRows' = [typeRows EXCEPT ![key] = row] /\ UNCHANGED flagRows
    /\ Step(w, IF writers[w].tells THEN [writers[w] EXCEPT !.at = "committed"] ELSE NoRequest)
    /\ UNCHANGED <<catalog_copies, aux_crossed, aux_stale>>

\* Mutant of TellsAt: the copies are told inside the transaction.
TellsInside == {"saved"}

\* When the notifier is called.
TellsAt == {"committed"}

\* notify_flag_default_changed, notify_event_type_created
Tell(w) ==
    LET key == writers[w].key  row == writers[w].row IN
    /\ writers[w].at \in TellsAt /\ writers[w].tells
    /\ IF key \in FlagKeys THEN defaults' = [defaults EXCEPT ![key] = row] /\ UNCHANGED typeCache
       ELSE typeCache' = [typeCache EXCEPT ![key] = row] /\ UNCHANGED defaults
    /\ Step(w, IF writers[w].at = "committed" THEN NoRequest
               ELSE [writers[w] EXCEPT !.tells = FALSE])
    /\ UNCHANGED <<catalog_rows, serving, aux_crossed, aux_stale>>

\* A statement, or COMMIT, fails: ROLLBACK, and nothing is told.
RequestFails(w) ==
    /\ writers[w].at \in {"read", "saved"}
    /\ Step(w, NoRequest)
    /\ UNCHANGED <<catalog_rows, catalog_copies, aux_crossed, aux_stale>>

ServerDies ==
    /\ serving # "down"
    /\ serving' = "down"
    /\ writers' = [w \in Writers |-> NoRequest]
    /\ defaults' = [f \in FlagKeys |-> Absent] /\ typeCache' = [t \in TypeIds |-> Absent]
    /\ aux_crossed' = {}
    /\ UNCHANGED <<catalog_rows, aux_stale>>

\* WarmUpEventTypes places every row, the archived ones too.
WarmedTypes == typeRows

\* on_startup: the decision caches, the event types, and only then requests.
WarmUp ==
    \/ /\ serving = "down" /\ serving' = "flags"
       /\ defaults' = flagRows
       /\ UNCHANGED <<catalog_rows, writers, typeCache, aux_crossed, aux_stale>>
    \/ /\ serving = "flags" /\ serving' = "up"
       /\ typeCache' = WarmedTypes
       /\ UNCHANGED <<catalog_rows, writers, defaults, aux_crossed, aux_stale>>

CatalogNext ==
    \/ \E w \in Writers : Requested(w) \/ SaveRow(w) \/ CommitRow(w) \/ Tell(w) \/ RequestFails(w)
    \/ ServerDies
    \/ WarmUp

CatalogSpec == CatalogInit /\ [][CatalogNext]_catalog_vars

-----------------------------------------------------------------------------

\* The types of the variables.
CatalogTypeOK ==
    /\ flagRows \in [FlagKeys -> Defaults \union {Absent}]
    /\ typeRows \in [TypeIds -> TypeRow \union {Absent}]
    /\ \A w \in Writers :
          writers[w] # NoRequest =>
              /\ writers[w].at \in {"read", "saved", "committed"}
              /\ \/ writers[w].key \in FlagKeys /\ writers[w].row \in Defaults
                 \/ writers[w].key \in TypeIds /\ writers[w].row \in TypeRow
    /\ serving \in {"down", "flags", "up"}
    /\ defaults \in [FlagKeys -> Defaults \union {Absent}]
    /\ typeCache \in [TypeIds -> TypeRow \union {Absent}]
    /\ aux_crossed \subseteq FlagKeys /\ aux_stale \subseteq TypeIds

\* When the server answers, it gives the default that is stored, but between COMMIT and the
\* call of the notifier, and where two updates of the flag have crossed: then the copy may
\* keep the one that was committed first (UpdateFlag, no lock, notified after COMMIT).
DefaultIsCurrent ==
    serving = "up" =>
        \A f \in FlagKeys \ aux_crossed :
            defaults[f] = flagRows[f] \/ \E w \in Writers : WritesOn(w, f) /\ writers[w].at = "committed"

\* When the server answers, it knows exactly the event types that are stored, with their
\* schemas, but for one whose creator has not told it yet: never one whose transaction was
\* rolled back, or that the warm-up has missed (CreateEventType, WarmUpEventTypes).
TypesAreKnown ==
    serving = "up" =>
        \A t \in TypeIds :
            \/ \E w \in Writers : WritesOn(w, t) /\ writers[w].at = "committed"
            \/ typeRows[t] = Absent /\ typeCache[t] = Absent
            \/ typeRows[t] # Absent /\ typeCache[t] # Absent
               /\ typeCache[t].schema = typeRows[t].schema

\* What decisions and events are answered from is what is stored, but as said above.
CopiesAreCurrent == DefaultIsCurrent /\ TypesAreKnown

\* An archived event type comes back only through an UpdateEventType that had read it before
\* (read without a lock, and a save of every column).
ArchivedStays ==
    [][\A t \in TypeIds :
          typeRows[t] # Absent /\ typeRows[t].archived =>
              typeRows'[t].archived \/ t \in aux_stale]_catalog_vars
=============================================================================
