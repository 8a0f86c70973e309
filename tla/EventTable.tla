----------------------------- MODULE EventTable -----------------------------
(***************************************************************************)
(* The table of accepted events in ClickHouse, as its readers see it       *)
(* (FINAL). It is a ReplacingMergeTree whose key is the whole event but    *)
(* its payload: an event has one row, the last written.                    *)
(***************************************************************************)
EXTENDS Integers, FiniteSets

CONSTANTS
    Ids,       \* event ids
    Types,     \* ids of event types
    Decisions, \* decision ids
    Events,    \* the events that may be sent
    Wants,     \* requires_attribution of each type, or None
    None

EventType == [id : Ids, type : Types, decision : Decisions, valid : BOOLEAN]

ASSUME EventsAreEvents ==
    /\ Events \subseteq EventType
    /\ IsFiniteSet(Events)
    /\ Wants \in [Types -> Types \union {None}]
    /\ None \notin Types

VARIABLE events    \* the status of each event's row

\* "waiting" is waiting_attribution, "despair" attribution_despair. Waiting for more
\* than seven days, a comparison of received_at, is a status of its own here.
Statuses == {"absent", "waiting", "overdue", "accepted", "despair"}

TableInit == events = [e \in Events |-> "absent"]

\* The status an event is saved with: _to_event.
FirstStatus(e) == IF Wants[e.type] = None THEN "accepted" ELSE "waiting"

\* An insert of events that were received, for the first time or again.
InsertRows(rows) ==
    events' = [e \in Events |-> IF e \in rows THEN FirstStatus(e) ELSE events[e]]
=============================================================================
