----------------------------- MODULE MCWorkers -----------------------------
(***************************************************************************)
(* The processes of start_prod.sh beside the server, which share nothing   *)
(* here, for TLC: the attribution worker, the notification worker with its *)
(* publishers, and the guardrail worker. A behaviour moves one of them,    *)
(* its part, and leaves the others at their start.                         *)
(***************************************************************************)
EXTENDS Attribution, Notifications, Guardrails, TLC

CONSTANTS viewType, clickType, purchaseType, decided, otherDecision,
          viewEvt, clickEvt, purchaseEvt, otherEvt,
          exp, grd, started, paused, record, otherRecord, telegram, unknown

\* A view, a click that wants it, a purchase that wants the click, and a click of another
\* decision.
EventOf(id, type, decision) == [id |-> id, type |-> type, decision |-> decision, valid |-> TRUE]
MCEventSet == {EventOf(viewEvt, viewType, decided), EventOf(clickEvt, clickType, decided),
               EventOf(purchaseEvt, purchaseType, decided), EventOf(otherEvt, clickType, otherDecision)}
MCWants ==
    [t \in Types |-> CASE t = viewType -> None
                       [] t = clickType -> viewType
                       [] t = purchaseType -> clickType]

\* A guardrail rule fires twice, and is notified of through a channel, or one that is not
\* configured. Where liveness is checked an experiment starts and pauses, of which a message
\* has room for one.
MCHappenings == [type : {"guardrail"}, on : {grd}, detail : {record, otherRecord}]
MCRules == [trigger : {[type |-> "guardrail", on |-> grd]}, connection : {telegram, unknown}]
MCStates == [type : {"experiment_lifecycle"}, on : {exp}, detail : {started, paused}]
MCAnyExperiment == {[trigger |-> [type |-> "experiment_lifecycle", on |-> "*"],
                     connection |-> telegram]}
WorkerSymmetry ==
    Permutations(RuleIds) \union Permutations(GuardIds) \union Permutations(Guarded)
      \union Permutations(CheckSessions)

VARIABLE part    \* "attribution", "notifications" or "guardrails"

worker_parts == <<part, attribution_vars, notification_vars, guardrails_vars>>

WorkersInit ==
    /\ part \in {"attribution", "notifications", "guardrails"}
    /\ AttributionInit /\ NotificationsInit /\ GuardrailsInit

Attributing(action) ==
    /\ part = "attribution" /\ action
    /\ UNCHANGED <<part, notification_vars, guardrails_vars>>
Notifying(action) ==
    /\ part = "notifications" /\ action
    /\ UNCHANGED <<part, attribution_vars, guardrails_vars>>
Guarding(action) ==
    /\ part = "guardrails" /\ action
    /\ UNCHANGED <<part, attribution_vars, notification_vars>>

WorkersNext ==
    Attributing(AttributionNext) \/ Notifying(NotificationsNext) \/ Guarding(GuardrailsNext)

WorkersSpec == WorkersInit /\ [][WorkersNext]_worker_parts

\* FairAttribution, FairMailer and FairChecks, of the part that moves.
FairWorkers ==
    /\ WorkersSpec
    /\ \A e \in Events : WF_worker_parts(Attributing(SevenDaysPass(e)))
    /\ WF_worker_parts(Attributing(StartAttribution))
    /\ SF_worker_parts(Attributing(FinishAttribution))
    /\ SF_worker_parts(Attributing(StartExpiration))
    /\ SF_worker_parts(Attributing(FinishExpiration))
    /\ WF_worker_parts(Notifying(SelectAndSend))
    /\ \A r \in RuleIds : WF_worker_parts(Notifying(CooldownOver(r)))
    /\ WF_worker_parts(Guarding(EndCheck))
    /\ WF_worker_parts(Guarding(\E s \in CheckSessions : StartCheck(s)))
    /\ WF_worker_parts(Guarding(\E s \in CheckSessions, g \in GuardIds :
                                    Revise(s, g) \/ Spared(s, g)))
=============================================================================
