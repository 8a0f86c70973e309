---------------------------- MODULE Attribution ----------------------------
(***************************************************************************)
(* The attribution worker beside the table that the server writes. A cycle *)
(* is two statements, and each reads the table, then inserts what it read  *)
(* with another status: rows that are received meanwhile come before or    *)
(* after. Statements fail, with or without effect, and the worker tries    *)
(* again a minute later, also after a restart.                             *)
(***************************************************************************)
EXTENDS EventTable

CONSTANT MaxCopies    \* bound of the model: how often an event is inserted

ASSUME CopiesAreBounded == MaxCopies \in Nat \ {0}

VARIABLES
    worker,       \* the statement that is under way and the rows it has read
    copies,       \* how often the server has inserted each event
    aux_accepted, \* history: the events that have been accepted
    aux_due       \* history: the events that had a parent when the cycle read them

worker_vars == <<worker, aux_due>>
attribution_vars == <<events, worker_vars, copies, aux_accepted>>

-----------------------------------------------------------------------------

Resting == [at |-> "resting", rows |-> {}]
AcceptedNow == {e \in Events : events[e] = "accepted"}
Waiting(e) == events[e] \in {"waiting", "overdue"}

AttributionInit ==
    /\ TableInit
    /\ worker = Resting
    /\ copies = [e \in Events |-> 0]
    /\ aux_accepted = {} /\ aux_due = {}

\* The inserts of the flush.
Flush(rows) ==
    /\ rows # {}
    /\ \A e \in rows : copies[e] < MaxCopies
    /\ InsertRows(rows)
    /\ copies' = [e \in Events |-> IF e \in rows THEN copies[e] + 1 ELSE copies[e]]
    /\ aux_accepted' = aux_accepted \union AcceptedNow'
    /\ aux_due' = aux_due \ rows
    /\ UNCHANGED worker

\* received_at comes to be more than seven days ago.
SevenDaysPass(e) ==
    /\ events[e] = "waiting"
    /\ events' = [events EXCEPT ![e] = "overdue"]
    /\ UNCHANGED <<worker_vars, copies, aux_accepted>>

\* Mutant of IsParent: any event of the decision is a parent.
AnyOfTheDecision(p, e) == p.decision = e.decision

\* The JOIN ... ON of attribution_query.
IsParent(p, e) == p.decision = e.decision /\ p.type = Wants[e.type]

\* What attribution_query reads.
Attributable == {e \in Events : Waiting(e) /\ \E p \in AcceptedNow : IsParent(p, e)}

\* Mutant of Expirable: the age is compared the wrong way.
NoneExpires == {e \in Events : events[e] = "waiting"}

\* What expiration_query reads.
Expirable == {e \in Events : events[e] = "overdue"}

StartAttribution ==
    /\ worker.at = "resting"
    /\ worker' = [at |-> "attributing", rows |-> Attributable]
    /\ aux_due' = Attributable
    /\ UNCHANGED <<events, copies, aux_accepted>>

\* await of attribution_query is over.
StartExpiration ==
    /\ worker.at = "attributed"
    /\ worker' = [at |-> "expiring", rows |-> Expirable]
    /\ UNCHANGED <<events, copies, aux_accepted, aux_due>>

\* The INSERT of a statement.
Rewrite(status) ==
    /\ events' = [e \in Events |-> IF e \in worker.rows THEN status ELSE events[e]]
    /\ aux_accepted' = aux_accepted \union AcceptedNow'
    /\ UNCHANGED copies

FinishAttribution ==
    /\ worker.at = "attributing"
    /\ Rewrite("accepted")
    /\ worker' = [at |-> "attributed", rows |-> {}]
    /\ UNCHANGED aux_due

FinishExpiration ==
    /\ worker.at = "expiring"
    /\ Rewrite("despair")
    /\ worker' = Resting
    /\ UNCHANGED aux_due

\* A statement that fails may have done its INSERT.
HalfDone ==
    /\ worker.at # "resting"
    /\ \/ worker.at = "attributing" /\ Rewrite("accepted")
       \/ worker.at = "expiring" /\ Rewrite("despair")
       \/ UNCHANGED <<events, copies, aux_accepted>>
    /\ UNCHANGED aux_due

\* Mutant of CycleFails: the first statement's exception is caught, and the cycle goes on.
FailureIsIgnored ==
    /\ HalfDone
    /\ worker' = IF worker.at = "attributing" THEN [at |-> "attributed", rows |-> {}] ELSE Resting

\* A statement raises; or the worker dies.
CycleFails == HalfDone /\ worker' = Resting

Cycle == StartAttribution \/ FinishAttribution \/ StartExpiration \/ FinishExpiration

AttributionNext ==
    \/ \E rows \in SUBSET Events : Flush(rows)
    \/ \E e \in Events : SevenDaysPass(e)
    \/ Cycle
    \/ CycleFails

AttributionSpec == AttributionInit /\ [][AttributionNext]_attribution_vars

\* Time passes; the worker runs every minute, and its statements do not fail forever.
FairAttribution ==
    /\ AttributionSpec
    /\ \A e \in Events : WF_attribution_vars(SevenDaysPass(e))
    /\ WF_attribution_vars(StartAttribution)
    /\ SF_attribution_vars(FinishAttribution)
    /\ SF_attribution_vars(StartExpiration)
    /\ SF_attribution_vars(FinishExpiration)

-----------------------------------------------------------------------------

\* The types; what a statement under way has read was received.
AttributionTypeOK ==
    /\ events \in [Events -> Statuses]
    /\ worker.at \in {"resting", "attributing", "attributed", "expiring"}
    /\ worker.rows \subseteq {e \in Events : events[e] # "absent"}
    /\ copies \in [Events -> 0..MaxCopies]
    /\ aux_accepted \subseteq Events /\ aux_due \subseteq Events

\* A click counts only if what it wants was accepted, of the same decision: no phantom
\* conversion, however rows are written again between a statement's read and its insert
\* (attribution_query). The parent may itself wait again, after a retry.
NoPhantomConversion ==
    \A e \in aux_accepted :
        Wants[e.type] # None =>
            \E p \in aux_accepted : p.decision = e.decision /\ p.type = Wants[e.type]

\* The second statement never gives up an event that had a parent when its cycle began,
\* late as it is (_run_attribution_cycle attributes before it expires); but for events
\* inserted again since.
AttributedBeforeExpired == worker.at = "expiring" => worker.rows \intersect aux_due = {}

\* When it is no longer sent, a waiting event is accepted or given up, also one that waits
\* for one that waits (the two queries of a cycle).
WaitingIsResolved == \A e \in Events : Waiting(e) ~> ~Waiting(e)
=============================================================================
