--------------------------- MODULE Notifications ---------------------------
(***************************************************************************)
(* Notifications: whoever changes an experiment or fires a guardrail       *)
(* publishes prepared notifications into a table, one row for each         *)
(* fingerprint; a worker reads the table, leaves out the rules in          *)
(* cooldown, sends the rest in one message for each rule, and removes what *)
(* it sent. The messages cannot be rolled back, the rows and the cooldowns *)
(* are in two databases, and people change the rules meanwhile.            *)
(***************************************************************************)
EXTENDS Integers, FiniteSets, Functions

CONSTANTS
    RuleIds,      \* ids of notification rules
    Resources,    \* ids of experiments and guardrail rules
    Details,      \* states of experiments; ids of audit records
    Happenings,   \* what may be published
    Channels,     \* connection strings
    Configured,   \* the channels with a set up integration
    Rules,        \* the triggers and connections that rules may have
    Longest,      \* how many rows the longest message that a channel takes is about
    Publishers,   \* concurrent calls of PublishNotification
    MaxPublished, \* bound of the model: how many rows are published
    MaxFailures   \* bound of the model: how many cycles of the worker fail

HappeningType == [type : {"experiment_lifecycle", "guardrail"}, on : Resources, detail : Details]
TriggerType == [type : {"experiment_lifecycle", "guardrail"}, on : Resources \union {"*"}]
Rule == [trigger : TriggerType, connection : Channels]

ASSUME NotificationsAssumption ==
    /\ Happenings \subseteq HappeningType
    /\ Rules \subseteq Rule
    /\ Configured \subseteq Channels
    /\ "*" \notin Resources
    /\ Longest \in Nat \ {0}
    /\ MaxPublished \in Nat /\ MaxFailures \in Nat

VARIABLES
    rules,      \* notification_rules: a function of the ids that have a row
    issuedIds,  \* the ids that generate_id has given
    calls,      \* open publications, with the fingerprints each will push
    outbox,     \* prepared_notifications: a function of the fingerprints that have a row
    clock,      \* time.now(): the number of publications
    cooling,    \* the rules that have a notif-cooldown key in Valkey
    mailer,     \* the worker's cycle
    strays,     \* sends of failed cycles, which go on
    failures,   \* cycles that have failed
    aux_untold,    \* history: the fingerprints whose latest publication nobody was told of
    aux_settled, \* history: those told by a committed cycle and not published since
    aux_gone    \* history: those removed after a renewal, or dropped by the fallback

published_vars == <<calls, outbox, clock>>
rule_vars == <<rules, issuedIds>>
cycle_vars == <<cooling, mailer, strays, failures>>
told_vars == <<aux_untold, aux_settled, aux_gone>>
notification_vars == <<rule_vars, published_vars, cycle_vars, told_vars>>

-----------------------------------------------------------------------------

\* Publications of a guardrail share a fingerprint whatever the record, those of an
\* experiment if the state is the same.
Fingerprint(r, h) == <<r, h.on, IF h.type = "guardrail" THEN "any" ELSE h.detail>>
Fingerprints == {Fingerprint(r, h) : r \in RuleIds, h \in Happenings}
RuleOf(fp) == fp[1]

\* "guardrail:*" is a trigger for a guardrail rule of that id, so for none.
Matches(trigger, h) ==
    /\ trigger.type = h.type
    /\ trigger.on = h.on \/ (h.type = "experiment_lifecycle" /\ trigger.on = "*")

Row == [meta : Happenings, issued_at : 1..MaxPublished]
Sleeping == [at |-> "sleeping", batch |-> <<>>, selected |-> <<>>, todo |-> {}, sent |-> {}]

With(f, key, value) == [k \in DOMAIN f \union {key} |-> IF k = key THEN value ELSE f[k]]

\* The rows of a batch for one rule: _group_by_rule_id.
Group(batch, r) == {fp \in DOMAIN batch : RuleOf(fp) = r}

NotificationsInit ==
    /\ rules = <<>> /\ issuedIds = {}
    /\ calls = <<>> /\ outbox = <<>> /\ clock = 0
    /\ cooling = {} /\ mailer = Sleeping /\ strays = {} /\ failures = 0
    /\ aux_untold = {} /\ aux_settled = {} /\ aux_gone = {}

-----------------------------------------------------------------------------
(* Rules.                                                                  *)

CreateNotificationRule(r, rule) ==
    /\ r \notin issuedIds
    /\ issuedIds' = issuedIds \union {r}
    /\ rules' = With(rules, r, rule)
    /\ UNCHANGED <<published_vars, cycle_vars, told_vars>>

\* UpdateNotificationRule reads without a lock and saves every column, so another update
\* may be undone: what a stale copy brings back is one of the values of a rule here. A row
\* deleted meanwhile is not updated.
UpdateNotificationRule(r, rule) ==
    /\ r \in DOMAIN rules
    /\ rules' = [rules EXCEPT ![r] = rule]
    /\ UNCHANGED <<issuedIds, published_vars, cycle_vars, told_vars>>

\* The prepared notifications of the rule stay.
DeleteNotificationRule(r) ==
    /\ r \in DOMAIN rules
    /\ rules' = Restrict(rules, DOMAIN rules \ {r})
    /\ UNCHANGED <<issuedIds, published_vars, cycle_vars, told_vars>>

-----------------------------------------------------------------------------
(* Publishing.                                                             *)

\* all_of_trigger_type, and the match.
SelectRules(p, h) ==
    /\ p \notin DOMAIN calls
    /\ LET selected == {r \in DOMAIN rules : Matches(rules[r].trigger, h)} IN
         /\ selected # {}
         /\ calls' = With(calls, p, [what |-> h, to |-> {Fingerprint(r, h) : r \in selected}])
    /\ UNCHANGED <<rule_vars, outbox, clock, cycle_vars, told_vars>>

\* The rows that a DELETE has locked until its COMMIT.
LockedRows == IF mailer.at = "popped" THEN mailer.sent ELSE {}

\* ON CONFLICT (fingerprint) DO UPDATE SET issued_at: the meta stay the first one's.
Upserted(h, now, fps) ==
    [fp \in fps \union DOMAIN outbox |->
        IF fp \notin fps THEN outbox[fp]
        ELSE [meta |-> IF fp \in DOMAIN outbox THEN outbox[fp].meta ELSE h, issued_at |-> now]]

\* push_all and COMMIT.
Push(p) ==
    /\ p \in DOMAIN calls /\ clock < MaxPublished
    /\ calls[p].to \intersect LockedRows = {}
    /\ clock' = clock + 1
    /\ outbox' = Upserted(calls[p].what, clock + 1, calls[p].to)
    /\ calls' = Restrict(calls, DOMAIN calls \ {p})
    /\ aux_untold' = aux_untold \union calls[p].to
    /\ aux_settled' = aux_settled \ calls[p].to
    /\ aux_gone' = aux_gone \ calls[p].to
    /\ UNCHANGED <<rule_vars, cycle_vars>>

\* A statement raises, or the publisher's process dies: the state has changed, and nobody is told.
PublishFails(p) ==
    /\ p \in DOMAIN calls
    /\ calls' = Restrict(calls, DOMAIN calls \ {p})
    /\ UNCHANGED <<rule_vars, outbox, clock, cycle_vars, told_vars>>

-----------------------------------------------------------------------------
(* The worker: SelectAndSend.                                              *)

\* filter_in_cooldown.
Due(fp) == RuleOf(fp) \notin cooling

\* The three reads, and the start of a task for each rule that has a row. They look at
\* different things, so that other steps between them could as well come before or after.
Collect ==
    /\ mailer.at = "sleeping"
    /\ LET batch == Restrict(outbox, {fp \in DOMAIN outbox : Due(fp)})
           found == {r \in DOMAIN rules : Group(batch, r) # {}}
       IN mailer' = [at |-> "sending", batch |-> batch, selected |-> [r \in found |-> rules[r].connection],
                     todo |-> found, sent |-> {}]
    /\ UNCHANGED <<rule_vars, published_vars, cooling, strays, failures, told_vars>>

\* TelegramNotificationChannel.send: what is cut off at 4096 characters is what remains, and
\* not what is sent, so that a longer message is never taken.
Fits(rows) == Cardinality(rows) <= Longest

\* Whom a message with these rows leaves untold: it tells them as they were read, and
\* FallbackNotificationChannel tells nobody.
DueAfter(connection, batch, r) ==
    IF connection \in Configured /\ Fits(Group(batch, r))
    THEN {fp \in aux_untold : ~(/\ fp \in Group(batch, r) /\ fp \in DOMAIN outbox
                             /\ outbox[fp].issued_at = batch[fp].issued_at)}
    ELSE aux_untold

\* _send_group returns its fingerprints.
SendGroup(r) ==
    /\ mailer.at = "sending" /\ r \in mailer.todo
    /\ mailer.selected[r] \in Configured => Fits(Group(mailer.batch, r))
    /\ aux_untold' = DueAfter(mailer.selected[r], mailer.batch, r)
    /\ mailer' = [mailer EXCEPT !.todo = @ \ {r}, !.sent = @ \union Group(mailer.batch, r)]
    /\ UNCHANGED <<rule_vars, published_vars, cooling, strays, failures, aux_gone, aux_settled>>

\* The gather raises, and the transaction is rolled back; the other tasks go on.
Abandon(r) ==
    /\ strays' = strays \union
                 {[rule |-> s, connection |-> mailer.selected[s],
                   batch |-> Restrict(mailer.batch, Group(mailer.batch, s))] :
                    s \in mailer.todo \ {r}}
    /\ mailer' = Sleeping

\* A message that is too long is refused in every cycle.
SendTooLong(r) ==
    /\ mailer.at = "sending" /\ r \in mailer.todo
    /\ mailer.selected[r] \in Configured /\ ~Fits(Group(mailer.batch, r))
    /\ Abandon(r)
    /\ UNCHANGED <<rule_vars, published_vars, cooling, failures, told_vars>>

\* Rendering or a channel raises, perhaps after the message, or a part of it, has gone out.
\* Nothing raises FailedToSend, which _send_group expects.
SendRaises(r) ==
    /\ mailer.at = "sending" /\ r \in mailer.todo /\ failures < MaxFailures
    /\ aux_untold' \in {aux_untold, DueAfter(mailer.selected[r], mailer.batch, r)}
    /\ Abandon(r)
    /\ failures' = failures + 1
    /\ UNCHANGED <<rule_vars, published_vars, cooling, aux_gone, aux_settled>>

StrayEnds(s) ==
    /\ s \in strays
    /\ strays' = strays \ {s}
    /\ aux_untold' \in {aux_untold, DueAfter(s.connection, s.batch, s.rule)}
    /\ UNCHANGED <<rule_vars, published_vars, cooling, mailer, failures, aux_gone, aux_settled>>

\* Mutants of Popped: all that was read is removed; nothing is.
PoppedAll(cycle) == DOMAIN cycle.batch
PoppedNone(cycle) == {}

\* What pop_all removes.
Popped(cycle) == cycle.sent

\* The DELETE of pop_all, then place_cooldowns: in Valkey, so whatever becomes of the
\* transaction. To fail between the two is to fail before.
PopAndCool ==
    /\ mailer.at = "sending" /\ mailer.todo = {}
    /\ cooling' = cooling \union DOMAIN mailer.selected
    /\ mailer' = [mailer EXCEPT !.at = "popped"]
    /\ UNCHANGED <<rule_vars, published_vars, strays, failures, told_vars>>

CommitCycle ==
    /\ mailer.at = "popped"
    /\ LET popped == Popped(mailer) \intersect DOMAIN outbox IN
         /\ outbox' = Restrict(outbox, DOMAIN outbox \ popped)
         /\ aux_gone' = aux_gone \union
                        {fp \in popped \intersect mailer.sent :
                            \/ outbox[fp].issued_at # mailer.batch[fp].issued_at
                            \/ mailer.selected[RuleOf(fp)] \notin Configured}
    /\ aux_settled' = aux_settled \union mailer.sent
    /\ mailer' = Sleeping
    /\ UNCHANGED <<rule_vars, calls, clock, cooling, strays, failures, aux_untold>>

\* A statement raises, and NotificationWorker.start goes on after a while; or the process
\* dies, with its open sends, and starts again.
CycleRaises ==
    /\ failures < MaxFailures /\ mailer.at # "sleeping"
    /\ \/ mailer.at = "popped" /\ UNCHANGED strays
       \/ strays' = {}
    /\ mailer' = Sleeping
    /\ failures' = failures + 1
    /\ UNCHANGED <<rule_vars, published_vars, cooling, told_vars>>

CooldownOver(r) ==
    /\ r \in cooling
    /\ cooling' = cooling \ {r}
    /\ UNCHANGED <<rule_vars, published_vars, mailer, strays, failures, told_vars>>

RuleStep(r) ==
    \/ \E rule \in Rules : CreateNotificationRule(r, rule) \/ UpdateNotificationRule(r, rule)
    \/ DeleteNotificationRule(r)

PublisherStep(p) == (\E h \in Happenings : SelectRules(p, h)) \/ Push(p) \/ PublishFails(p)

SelectAndSend ==
    Collect \/ (\E r \in RuleIds : SendGroup(r) \/ SendTooLong(r)) \/ PopAndCool \/ CommitCycle

NotificationsNext ==
    \/ \E r \in RuleIds : RuleStep(r) \/ SendRaises(r) \/ CooldownOver(r)
    \/ \E p \in Publishers : PublisherStep(p)
    \/ SelectAndSend
    \/ \E s \in strays : StrayEnds(s)
    \/ CycleRaises

NotificationsSpec == NotificationsInit /\ [][NotificationsNext]_notification_vars

\* The worker's loop goes on, its sends end, and cooldowns run out.
FairMailer ==
    /\ WF_notification_vars(SelectAndSend)
    /\ \A r \in RuleIds : WF_notification_vars(CooldownOver(r))

-----------------------------------------------------------------------------

\* The types; a cycle sends what it has read, to the rules it has read.
NotificationsTypeOK ==
    /\ issuedIds \subseteq RuleIds
    /\ DOMAIN rules \subseteq issuedIds /\ rules \in [DOMAIN rules -> Rules]
    /\ DOMAIN outbox \subseteq Fingerprints /\ outbox \in [DOMAIN outbox -> Row]
    /\ DOMAIN calls \subseteq Publishers
    /\ clock \in 0..MaxPublished /\ failures \in 0..MaxFailures
    /\ cooling \subseteq RuleIds
    /\ aux_untold \union aux_settled \union aux_gone \subseteq Fingerprints
    /\ mailer.sent \subseteq DOMAIN mailer.batch /\ DOMAIN mailer.batch \subseteq Fingerprints
    /\ mailer.todo \subseteq DOMAIN mailer.selected /\ DOMAIN mailer.selected \subseteq RuleIds

\* No event is lost between the tables and the messages: whatever was published and not
\* told is still in the outbox, through failed cycles, restarts and
\* half-sent groups (SelectAndSend). The exceptions are exact: a row renewed after the
\* worker read it is removed unseen, and a message without a configured channel is dropped.
PendingUntilTold == aux_untold \subseteq DOMAIN outbox \union aux_gone

\* What the cycle sends in this step.
SentNow == mailer'.sent \ mailer.sent

\* A publication that a committed cycle told is not told again by a later one: only failed
\* cycles and the sends they left behind repeat themselves (pop_all).
ToldOnceCommitted == [][SentNow \intersect aux_settled = {}]_notification_vars

\* A rule has more rows than its message may be about.
Clogged == \E r \in DOMAIN rules : ~Fits(Group(outbox, r))

\* A notification leaves the outbox, unless its rule is deleted: the rows of a deleted rule
\* stay for good (get_by_ids finds no rule for them). Nor does any while one rule, of whatever
\* connection, has rows for a message that is too long, which fails every cycle.
PendingIsTaken ==
    \A fp \in Fingerprints :
        fp \in DOMAIN outbox ~> \/ fp \notin DOMAIN outbox
                               \/ RuleOf(fp) \notin DOMAIN rules \/ Clogged
=============================================================================
