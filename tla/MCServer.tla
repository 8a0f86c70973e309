------------------------------ MODULE MCServer ------------------------------
(***************************************************************************)
(* Five components of the server's process that share neither tables nor   *)
(* memory, for TLC: the ingestion of events, the flags and event types,    *)
(* the records of decisions, the users, and the versions of an experiment. *)
(* A behaviour moves one of them, its part, and leaves the others at their *)
(* start.                                                                  *)
(***************************************************************************)
EXTENDS EventIngestion, Catalog, Records, Access, ExperimentVersions, TLC

CONSTANTS viewType, viewId, decided, m1

\* A view, and another with the same id but a payload that its schema rejects. Requests
\* send the good one, or both.
View == [id |-> viewId, type |-> viewType, decision |-> decided, valid |-> TRUE]
Broken == [View EXCEPT !.valid = FALSE]

MCEventSet == {View, Broken}
MCWants == [t \in Types |-> None]
MCBatches == {<<View>>, <<View, Broken>>}
\* The persons share an email (one has registered anew), which both accounts may come to have.
MCEmailOf == [p \in Persons |-> m1]

\* An experiment of two halves. Edits make one variant of it, or two that do not sum up;
\* they give it a priority of 0, with an audience that is ignored, and half a conflict.
MCVariant(share, control) == [audience |-> share, control |-> control]
MCHalves == <<MCVariant(50, TRUE), MCVariant(50, FALSE)>>
MCCreations ==
    {[audience |-> 20, variants |-> MCHalves, priority |-> 0, domain |-> Null, policy |-> Null]}
MCNoEdit == [audience |-> Missing, variants |-> Missing, priority |-> Missing,
             domain |-> Missing, policy |-> Missing]
MCEdits == {[MCNoEdit EXCEPT !.variants = <<MCVariant(100, TRUE)>>, !.audience = 30],
            [MCNoEdit EXCEPT !.variants = <<MCVariant(50, TRUE), MCVariant(40, FALSE)>>],
            [MCNoEdit EXCEPT !.priority = 0, !.audience = 100],
            [MCNoEdit EXCEPT !.domain = "domain", !.policy = Null]}

\* The requests are also the editors.
ServerSymmetry == Permutations(Requests)

VARIABLE part    \* "events", "catalog", "records", "access" or "versions"

server_vars ==
    <<part, ingest_vars, catalog_vars, records_vars, access_vars, versions_vars>>

ServerInit ==
    /\ part \in {"events", "catalog", "records", "access", "versions"}
    /\ IngestInit /\ CatalogInit /\ RecordsInit /\ AccessInit /\ VersionsInit

\* All requests have ended, and nothing is left to flush: not a deadlock.
RecordsDone ==
    /\ \A v \in Visits : visits[v] \in {"answered", "failed"}
    /\ UNCHANGED records_vars

InEvents(action) ==
    part = "events" /\ action
      /\ UNCHANGED <<part, catalog_vars, records_vars, access_vars, versions_vars>>
InCatalog(action) ==
    part = "catalog" /\ action
      /\ UNCHANGED <<part, ingest_vars, records_vars, access_vars, versions_vars>>
InRecords(action) ==
    part = "records" /\ action
      /\ UNCHANGED <<part, ingest_vars, catalog_vars, access_vars, versions_vars>>
InAccess(action) ==
    part = "access" /\ action
      /\ UNCHANGED <<part, ingest_vars, catalog_vars, records_vars, versions_vars>>
InVersions(action) ==
    part = "versions" /\ action
      /\ UNCHANGED <<part, ingest_vars, catalog_vars, records_vars, access_vars>>

\* All edits that the bounds allow have been made: not a deadlock either.
VersionsDone ==
    /\ latest # Null /\ Cardinality(history) >= MaxKept /\ \A s \in Editors : edits[s] = NotEditing
    /\ UNCHANGED versions_vars

ServerNext ==
    \/ InEvents(IngestNext) \/ InCatalog(CatalogNext) \/ InRecords(RecordsNext \/ RecordsDone)
    \/ InAccess(AccessNext) \/ InVersions(VersionsNext \/ VersionsDone)

ServerSpec == ServerInit /\ [][ServerNext]_server_vars

\* The types of the component that moves.
ServerTypeOK ==
    /\ part = "events" => IngestTypeOK
    /\ part = "catalog" => CatalogTypeOK
    /\ part = "records" => RecordsTypeOK
    /\ part = "access" => AccessTypeOK
    /\ part = "versions" => VersionsTypeOK
=============================================================================
