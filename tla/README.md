# A verification project for the A/B platform "alphabet"

The platform under `src/alphabet-backend` serves values of feature flags to the
users of other products ("subjects"), runs A/B experiments on these flags,
collects events, computes metrics, stops harmful experiments and notifies
people. This directory holds TLA+ modules that model its concurrent core, the
TLC configurations that check them on small instances, and proofs for all
instances.

Paths below are relative to `src/alphabet-backend/src/alphabet` unless they
begin with `src/`. "usecases/02" is
`src/docs/docs/usecases/02-feature-flags-experiments.md`, and so on.

## 1. The system

`start_prod.sh` runs four processes in one container: the web `server`, the
`attribution_worker`, the `guardrails_worker` and the `notifications_worker`.
They share PostgreSQL (READ COMMITTED, SQLAlchemy's default), ClickHouse and
Valkey. Each HTTP request gets one database session (`bootstrap/di/shared.py`)
and runs one interactor, whose `async with self.tx` commits or rolls back.
asyncio switches between requests at every `await`, so at every statement.

| component | state | operations | interacts through |
|---|---|---|---|
| experiments | `experiments_latest`, `experiments_history`, `approvals`, `review_decisions` | create, update, send to review, approve, reject, restore, start, pause, resume, finish, archive | transactions; `InstantNotifier` after COMMIT |
| flags | `flags` | create, update; lock of a flag row while an experiment starts | the lock; `InstantNotifier` |
| access | `users` (with `approver_threshold`), `assigned_approvers` | create, update, activate users; set review rules | read by every interactor; groups read by reviews |
| decisions | two maps in the server's memory (running experiment and default of each flag); in Valkey sticky decisions and cooldown counters; buffers before ClickHouse | make decisions, set a flag's default, set a flag's experiment, warm up, flush | notifier; read by nobody else |
| subject events | event type cache, Valkey deduplication keys, buffers, ClickHouse tables of accepted, waiting and discarded events | receive events, flush, attribute late events | event types from PostgreSQL |
| guardrails | rules, audit log | create, update, archive rules; the periodic check that pauses or halts experiments | metrics evaluator; experiments' rows; notifier |
| metrics, insights | metric definitions | create, update, reports | ClickHouse queries |
| notifications | rules, outbox, Valkey cooldowns | publish, select and send | called by the notifier; worker |
| bootstrap, presentation, shared | none of their own | routing, injection, transactions, identity from a header | everything |
| `src/dummy-iap`, templates, migrations, `src/sys-tests` | outside the core | | |

### What is hard in it

* **Read-modify-write without a lock.** Only reviewers and the guard read an
  experiment `FOR UPDATE`. Authors' requests read it plainly, change the copy
  and save *all* its columns. Whatever was committed meanwhile is overwritten.
* **A uniqueness rule across rows.** One running experiment per flag is ensured
  by a lock on another row, the flag's, and a query under that lock.
* **A quorum over rows without a key**, counted by requests that run while the
  rules of the quorum change.
* **A cache changed after COMMIT**, by a step of its own, in no order between
  requests, in one of two processes, and lost in a crash.
* **Two stores, no transaction over both.** Sticky assignments beside the cache;
  deduplication by a check followed by a set; buffers that a crash loses; events that
  wait for their parent; an outbox in PostgreSQL with cooldowns in Valkey and messages
  that nothing can take back.
* **One session for concurrent tasks.** A check of the guardrail worker gathers its
  actions on one SQLAlchemy session: the COMMIT of one commits what the others have
  written, the ROLLBACK of one removes it, and both release the row locks of all.
* **Two small languages**, whose scanners, parsers and comparisons are written by hand,
  and figures that two evaluators compute by code of their own.

### What makes each component correct

* experiments: nothing runs unreviewed; the state moves along its table; one
  STARTED experiment per flag; a result exactly in the archive; a quorum of
  different reviewers; a row read under a lock is fresh while the lock is held.
* decision cache: it serves what is STARTED, nothing unreviewed, nothing
  finished; starts and ends reach it.
* decisions: a subject's assignment is stable; one winner per conflict domain;
  no more subjects than the audience; cooldown is respected.
* events: each accepted once, attributed to a decision or expired, not lost by
  anything but a crash.
* records: every answered decision is in ClickHouse exactly once.
* flags, event types, users: the copies are what is stored; nothing is taken back but by
  an edit that someone made; an identity has one account, but where requests cross.
* versions: every version of an experiment is kept, and each is one that could be created.
* guardrails: an action and its record are committed together; what harms is stopped.
* notifications: what was published is told, or still pending; not twice.
* languages, reports: what a parser accepts is the grammar's; one order behind all
  operators, and where equality departs from it; a report and a guardrail see one value.

## 2. The modules

| module | what it is |
|---|---|
| `ExperimentDomain` | states of an experiment and the transition table |
| `ExperimentWorkflow` | the abstract specification: what usecases/02 promises, one atomic move at a time |
| `ExperimentLifecycle` | PostgreSQL rows of experiments and the transactions that change them |
| `ExperimentVersions` | what an experiment consists of, how requests edit it, and the history of its versions |
| `DecisionCache` | the lifecycle with the server's cache, the worker process, crashes and warm-ups |
| `VariantDistribution` | pure functions: the axis of variants, the bucket of a hash |
| `Decisions` | `MakeDecision`: overlapping requests of a subject between the cache and Valkey |
| `Records` | the buffers of assignments and resolutions before ClickHouse |
| `Catalog` | flags and event types: rows, copies in the server's memory, restarts |
| `Access` | accounts: created, changed, activated |
| `EventTable` | the table of accepted events, and what an insert does to it |
| `EventIngestion` | `ReceiveEvents`: deduplication, buffers, flushes, failures and crashes; inserts into `EventTable` |
| `Attribution` | the attribution worker on `EventTable` |
| `Notifications` | rules, publishing, the outbox, and the worker that sends |
| `Guardrails` | guard rules and the regular check that pauses and halts |
| `DslLexers`, `TargetLanguage`, `TargetValues`, `MetricLanguage` | pure: scanners of both languages, parser of targeting rules, their comparisons, parser of metrics |
| `Reports` | pure: what a compiled metric is worth to a report, a guardrail, the insights |
| `..._proofs` (8) | theorems and proofs: one module each about `ExperimentLifecycle`, `DecisionCache`, `Decisions`, `EventIngestion` and `ExperimentVersions`; `ServerState_proofs` about `Records`, `Catalog`, `Access` and the composition `MCServer`; `Workers_proofs` about `Attribution`, `Guardrails` and `Notifications`; `Algorithms_proofs` about the pure functions |
| `MCLifecycle`, `MCReview`, `MCCache`, `MCDecisions`, `MCServer`, `MCWorkers` | the values of CONSTANTs, symmetries and scenes for TLC |
| `MCDistribution`, `MCValues`, `MCScanners`, `MCExpressions`, `MCRules`, `MCSampling`; `MCAlgorithms` | inputs of the pure functions, grown step by step, and the reference definitions that the functions are compared with: of shares, of comparisons and figures, of tokens, of metrics and of rules; all of them in one run |

`DecisionCache` extends `ExperimentLifecycle`, `Decisions` extends
`VariantDistribution`. They meet in the cache: `DecisionCache` says what
it holds, `Decisions` lets it hold anything that could be placed on a flag and
asks what requests make of it. So what `Decisions` shows does not depend on the
cache being right. `EventIngestion` and `Attribution` share the rows and the insert of `EventTable`.

`MCServer` puts five components of the server into one run (`EventIngestion`, `Catalog`,
`Records`, `Access`, `ExperimentVersions`) and `MCWorkers` the three worker processes. They share
neither tables nor memory, so an interleaving of two of them shows nothing that
they do not show alone: a behaviour picks one (`part`) and leaves the others at their start.

### ExperimentLifecycle

State: `row` is `experiments_latest`; `approvals`, `decision` and `group` are
`approvals`, `review_decisions` and the approver groups; `rowLock` and
`flagLock` are the row locks that `SELECT ... FOR UPDATE` holds; `sess` is the
open requests with the copy each has read. `aux_accepted` and `aux_resurrected`
are history: the code has no such state, and no guard reads them.

The sessions that are actions of one guardrail check (`CheckOf`) share a database transaction:
`Sharing(s)` is the sessions in that of `s`, and the end of one releases the locks of all
(`Release`). `RefuseGuard` is the end of an action that saves nothing: it leaves the others
without their locks, and they may then save stale copies.

A request is `Read...` (the first read with every check the interactor makes of
it), for some an intermediate look at the database (`RevokeApprovals`,
`CountVotes`, `TakeFlag`), then `Commit...`, the save and COMMIT. `Abort` is every
other end: a raised exception, a deadlock victim, a dead process. A request
that fails a check of its first read has no effect and no step.

| code | actions |
|---|---|
| `CreateExperiment` | `Create` |
| `UpdateExperiment` | `ReadForUpdate`, `CommitUpdate` |
| `SendToReview` | `ReadToSend`, `RevokeApprovals`, `CommitSend` |
| `RestoreFromRejected` | `ReadToRestore`, `CommitRestore` |
| `ApproveDraft` | `ReadForReview`, `CountVotes`, `CommitApprove` |
| `RejectDraft` | `ReadForReview`, `CommitReject` |
| `StartExperiment` | `ReadToStart`, `TakeFlag`, `CommitStart` |
| `ManageRunningExperiment` | `ReadToManage`, `TakeFlag` (to resume), `CommitManage` |
| `ArchiveExperiment` | `ReadToArchive`, `CommitArchive` |
| `RegularCheck._take_action` | `ReadToGuard`, `CommitGuard`, `RefuseGuard` |
| `SetReviewRules` | `SetReviewRules` |

What is merged, and why nothing is lost:

* a lock is taken together with the read that follows it: between the two the
  request does nothing another one could see;
* a save takes the row's lock, writes and commits in one step: the row is
  invisible until COMMIT and locked until then, and a request that waits for
  the lock waits here too (guard of `Save`);
* `INSERT INTO experiments_history SELECT ...` takes `FOR KEY SHARE` on the flag
  through its foreign key, so a save waits for a request that holds the flag
  `FOR UPDATE`; so does an update that changes the flag key;
* what an action of a check has written and not committed is seen by its own session only, and
  is committed or undone by the next end of an action: `CommitGuard` and `Abort` are
  these moments. `Guardrails` has the statements one by one;
* the decision is upserted in the same transaction as the save: one step.

What is abstracted: everything an edit changes but the flag key is `version`;
`newFlag # None` stands for a request with a `name` or a `flag_key`, the two
fields whose setters ask for a draft. Approvals have no key in the
table, so equal rows get a number `n`. Roles and authors do not change, all
flags exist. The history table is in `ExperimentVersions`, the
notifications are in `Notifications`.

### DecisionCache

`cache` is `InMemoryExperimentStorage` of the server; `owed` is what a
coroutine still has to tell it between `tx` COMMIT and the notifier's call; `up`
says whether the server lives. A session of `WorkerSessions` belongs to the guardrail
worker's process: the notifier there changes a cache that no decision is made
from, so it has no step. `Crash` ends the server's sessions; `WarmUp` is
`WarmUpStorages` on the next start. `aux_astray` is history: the flags on which,
since the last warm-up, a stale copy was saved or two notices were due at once.

### VariantDistribution and Decisions

`distribute_variants` lays the variants of an experiment over a hundred buckets,
`make_decision` folds the hash of a subject into one of them
(`decisions/domain.py`). A variant is its position in the list; a list of
counts that the code builds by repetition is here the position at which each
variant starts.

State of `Decisions`: `cache` and `known` are the two maps in the server's memory;
`sticky`, `shown` and `cooling` are the three Valkey keys of a subject; `req` is
the open calls of `MakeDecision` with what they have read so far. The rest is history for the
properties: `aux_told`, what a subject was last told; `aux_torn`, the flags on which requests may
disagree; `aux_homes`, the flags that each experiment has been cached on; `aux_due`, the requests
that were counted and have not ended; `aux_new` and `aux_lost`, the new decisions that such requests
told, or failed to tell.

| code | actions |
|---|---|
| `SetRunningExperimentOnFlag`, `SetFlagDefault` | `SetOnFlag`, `SetFlagDefault` |
| `MakeDecision`, to `_get_experiments_for_flags` | `Arrive` |
| `load_existing_decisions` (HMGET) | `Load` |
| `is_in_cooldown` (EXISTS) says yes | `Rest` |
| it says no; `_resolve_conflicts`, targeting, `_assign_variant` | `Decide` |
| `save_decisions` (HSET, EXPIRE) | `Save` |
| recording, `record_experiment_assignments` (`cooldown.lua`) | `Count` |
| its reply, return | `Return` |
| an exception at an await, before or after it took effect; a cancellation | `Fail` |
| expiry of the keys | `Expire`, `CooldownEnds` |

What is merged: the HSET and EXPIRE of a save (nobody reads the remaining time). The script is
atomic in Valkey, and its reply is a step of its own: a request that fails between the two
has been counted and tells nothing. The writes of assignments and resolutions to their buffers touch
nothing that `Decisions` reads: that they may raise is `Fail`.

What is abstracted: a decision is experiment and variant, its value and its id
follow from them; targeting is the set of attributes a rule accepts; hashes are
constants, arbitrary for each subject and experiment; rivals with the same hash are told apart by
their place in the request, as `min()` does. An experiment's entries may be of several flags: a stale
edit with a `flag_key` moves a running one, and its old entry stays. Subject ids with a semicolon, which the
stored format cannot hold, are `Unsplittable`. Of flags' defaults only whether they
are known is kept.

### EventTable, EventIngestion and Attribution

An event is its id, type and decision, and whether its payload satisfies the
type's schema. `events` is the table of that name as `FINAL` shows it: a
ReplacingMergeTree keyed by the whole event but its payload, so a row of an event
replaces the one before. Its contents are a status; waiting for more than
seven days (`received_at`) is a status of its own, `overdue`.

State of `EventIngestion`: `types` is the cache of event types; `marked` the
deduplication keys in Valkey; `buf` the three buffers, as the number of copies of
each event; `flush` who holds `_write_lock` across an await and the insert that
is awaited; `req` the open requests with their verdicts; `tables` the discarded and
duplicate events. `aux_owed`, `aux_taken` and `aux_raced` are history.

| code | actions |
|---|---|
| `CreateEventType`, after COMMIT | `LearnType` |
| `ReceiveEvents`, MGET and the verdicts | `Receive` |
| `save_batches` | `Buffer`, then `Inserted` or `InsertFails` if the size is reached |
| `periodic_flush_routine` | `RoutineFlush`, then the same |
| `mark_processed` (a pipeline, which is a transaction) and the answer | `Mark`, `MarkFails` |
| expiry of a key | `Expire` |
| death and start of the server | `Crash` |

`Attribution` has the same table with the inserts as `EventTable` allows them
(`Flush`), and `worker`, the statement under way with the rows it has read:
`INSERT ... SELECT` reads at one moment and inserts at another.

| code | actions |
|---|---|
| `attribution_query` | `StartAttribution`, `FinishAttribution` |
| `expiration_query` | `StartExpiration`, `FinishExpiration` |
| an exception of either, or a restart | `CycleFails` |
| `received_at < now64(3) - INTERVAL 7 DAY` comes true | `SevenDaysPass` |

The server changes `events` by `InsertRows` and nothing else (`Store`), and `Attribution` lets any
insert of received events happen at any time. A row is not read back by the server, so
nothing of the worker flows the other way.

What is abstracted: the payload, times of events, and who they are about; counters
and messages. The size of the buffers counts copies, as the code does.

### ExperimentVersions

`latest` is the row, `history` the rows of `experiments_history`, `edits` the open requests with the
copy they read and the row their first statement of `save` copied. `aux_past` is the rows that
were overwritten by the transaction that had copied them, `aux_clear` the highest version
number that still means one content, `aux_half` whether an edit has set half a conflict.

| code | actions |
|---|---|
| `CreateExperiment`, `Experiment.new` | `CreateVersion` |
| `UpdateExperiment`, `SendToReview`, `RestoreFromRejected`: `get_latest_by_id` | `ReadVersion` |
| `save`: `INSERT INTO experiments_history SELECT` | `CopyVersion` |
| `save`: `UPDATE experiments_latest`, COMMIT | `SaveVersion` |
| an exception anywhere | `DropVersion` |

`ExperimentLifecycle` merges the two statements of a save because only the history can tell
them apart; here the history is the subject. A body of PATCH is a record of fields that
are missing, null or a value, and `Edited` is what the setters of the aggregate make of it.

### Records

`bufs`, `inserting` and `inflight` are, for each kind of record, the buffer, who holds its lock
across the insert, and the rows that the insert was given; `recorded` is ClickHouse.
`MakeDecision` calls the two stores one after the other (`Save`, or `SkipResolutions` where no
conflict was resolved); a full buffer is inserted by the request that filled it, else by
`periodic_flush_routine` (`RoutineFlushes`). `Inserts` and `InsertRaises` end an insert; the second
with or without its effect (`aux_torn`). `RecorderDies` empties the memory.

### Catalog and Access

Both have requests that read a row without a lock, save all its columns and commit:
`Change`/`Read...`, `SaveRow`/`SaveUser`, `CommitRow`/`CommitUser`, and an end by failure.
A row that is written, and a key that is inserted, is locked until COMMIT. In `Catalog` a request
that changes what decisions or events are answered from tells the copies after COMMIT (`Tell`); the
server dies and warms up in two steps (`ServerDies`, `WarmUp`). `aux_crossed`, `aux_stale` and
`aux_overwrote` name what overlapping requests did. A caller's `current` says that no other request
has committed the account since the caller read it: a save from any other copy is stale.
`ActivateUser` is two awaited lookups, which see what is committed at their time: `IdentifyPerson`
finds no account of the identity, and `ActivateUser` one of its email. `aux_outrun` is the
identities that had got an account by the second.

### Notifications

`rules` and `outbox` are tables, `cooling` the keys in Valkey, `calls` the open publications, `mailer`
the worker's cycle with what it has read, and `strays` the sends that go on after their cycle
failed: `asyncio.gather` raises at the first exception and cancels nothing.

| code | actions |
|---|---|
| `CreateNotificationRule`, `UpdateNotificationRule`, `DeleteNotificationRule` | the same names |
| `PublishNotification`: `all_of_trigger_type` | `SelectRules` |
| `push_all` and COMMIT | `Push`, `PublishFails` |
| `SelectAndSend`: the reads, and the start of the sends | `Collect` |
| `_send_group` | `SendGroup`, `SendTooLong`, `SendRaises` |
| `pop_all`, `place_cooldowns` | `PopAndCool` |
| COMMIT | `CommitCycle` |
| an exception, a death | `CycleRaises`; `StrayEnds` |
| a cooldown ends | `CooldownOver` |

A publication's fingerprint is its rule, resource and, for experiments, state. The text of a
message is left out but for its length, counted in rows (`Longest`).

### Guardrails

`exps` and `guards` are rows; `ses` is the one session of a check, with its locks and uncommitted
writes; `tasks` are the gathered `_revise_rule` calls, which outlive a check that
failed. `over` says which metrics exceed their threshold, and moves freely.

| code | actions |
|---|---|
| `CreateGuardRule`, `UpdateGuardRule`, `ArchiveGuardRule` | `CreateRule`, `UpdateRule`, `ArchiveRule` |
| `RegularCheck`: `all_running`, `for_experiments`, gather | `StartCheck` |
| `_revise_rule` without an excess, or with a failed query | `Spared` |
| `_take_action`: `get_latest_by_id(lock=True)`, `set_state` | `LockExperiment`, `Refused` |
| `audit_log.write` | `WriteRecord` |
| `experiments.save` | `SaveExperiment` |
| `async with self.tx` ends | `CommitAction`, or `StatementFails` |
| the check ends, or fails; the process dies | `EndCheck`, `WorkerDies` |
| a request of the server | `OtherRequest` |

`aux_shared` is the sessions on which two actions were open at once (`Overlaps`: a refused one
counts, of whatever experiment, for its ROLLBACK is the session's) or one outlived its check.
The notification that `_take_action` publishes has a session of its own (`Notifications`).

### Languages and reports

A source is a sequence of classes of characters, a rule or a metric a sequence of classes of
tokens, a value a type with a rank. The scanners, parsers and comparisons follow the code's
control: a method of a parser is a recursive function of the token where it begins. What it
returns is kept as far as the properties tell results apart: a rule's tree is the set of its
operators, each with the end of its right operand, and a filter the set of its conjunctions,
each the set of its tests. `Translated` and `Fragments` say for which trees code or queries come
out. The digits are 0 and 5, which suffice for a year of zeros and for months and days that
are none; numbers are integers of which `One` is the number 1, equal by `isclose` with the tolerance
`1 / Precision`. `Reports` takes the rows of an experiment and gives the figures of the three who
compute them. Minimum, maximum, count and sum are computed; a quantile is an operator `Quantile` of
its rows, of no rows `NaN`. Rows may name no variant, or `!default`, which no experiment has, and so
do not belong to any figure of a variant. They do not change between the queries of one result.

The grammars of the documents are in `MCScanners`, `MCExpressions` and `MCRules`, in a form that owes
nothing to the parsers: a phrase is told by what may stand beside each of its tokens and by the
depth of brackets after it, the tree of a rule by which operators bind tighter.

## 3. The runs

| run | instance | question |
|---|---|---|
| `MCReview` | 2 sessions, requests with stale edits or two guard actions of one check, in two scenes: 1 experiment on 2 flags, an admin and an approver, lists of up to 2, all operations; 2 experiments on 1 flag, an admin | are reviews right while the rules change under them? what do stale saves and a shared transaction do to the rows, and what do the locks still keep? Deadlock is checked |
| `MCFresh` | 2 experiments on 1 flag, 2 requests, no stale saves | do the requests implement the documented machine, if every saved copy is fresh? |
| `MCCache` | 2 experiments on 1 flag and 1 worker, in two scenes: 2 requests without edits; 1 request at a time, with edits and approver groups | what do starts, stops, the guard and stale edits do to the cache, and do starts and ends reach it? |
| `MCDecisions` | 1 subject, in three scenes: 2 overlapping requests for 1 flag with 4 entries; 1 request at a time for 2 flags with 4 rivals; the same with an experiment that is moved from flag to flag | do decisions stick, are they of the flag, are they counted once, and has a conflict one winner? |
| `MCServer` | events: 2 requests, a good and a broken event of one id; catalog: a flag, a type, 2 requests; records: 3 requests; accounts: 2 users, 3 emails, 2 persons who share one; versions: 2 editors | is what was answered on record, are copies current, is nothing overwritten but where a request was stale? |
| `MCWorkers` | attribution: 4 events, each received up to twice; notifications: 2 rules, 2 publications; guardrails: 2 rules, 2 experiments, 2 sessions | do the workers keep their promises when their steps overlap, fail and die? |
| `MCWorkersLive` | the same, smaller | does what waits end? |
| `MCAlgorithms` | sources of 4 characters, rules of 7 tokens, metrics of 9 (14 with a filter first), triples of values, 3 rows with and without a variant, audiences and weights at the edges | do the pure functions agree with definitions of another form? |
| `Find...` | small instances | see section 6 |

Bounds. Two requests are enough for a stale save, a doubled vote, a lock
conflict or crossed notices: each takes one request that reads and one that
saves in between. A third request is a third copy of the same row. Three
sessions with stale edits and the cache are more than TLC finishes in minutes, so `MCCache` has
three sessions without edits in one scene, and edits of one request beside the guard in the other;
in the first the reviews are of one session, as which of them reviews is no matter of the cache, and
the experiments are created in one order. `MCReview` has two sessions that edit, without the cache;
its scene of two experiments has no rejections, restorations and groups, which the scene of one has.
The proofs have all of this together. Two
experiments on one flag are the smallest case of the uniqueness rule, one
experiment and two flags the smallest case of a changed flag. `MaxVersion = 2`
allows one edit of each experiment, `MaxVoteRows = 2` two approvals of one
reviewer, `MaxGroup = 2` a threshold of two and a list that names a reviewer
twice. `CHECK_DEADLOCK FALSE` appears where experiments can end (every one archived or
security-halted, which nothing leaves; in `MCReview` that end is the step `Ended`) and in `MCAlgorithms`, whose samples have a longest length.
The theorems of section 5 have none of these bounds.

In `Decisions` a subject shares no key with another one, so one subject is
enough; two requests are what it takes to overlap. Entries are chosen so that each
branch is taken: an experiment with half an audience, the same edited to give
another variant, the same halted, one that targets some, and rivals with equal
priority, without one, and strict; in a scene of its own an experiment that is on the one flag, on the
other, or cached on both. Flags on which such an experiment has been are excepted from `AnswersStick`
(`Shared`); to break it there takes two requests that overlap, of which one asks for both flags, and the
moved scene has one request at a time: no run exercises that exception, the proof has it.
`Threshold = 2` lets two flags reach it in one step. `HashSize = 1024` stands for 2^32: it is the smallest power of two with
several hashes in each bucket and ties of the rounding, and nothing but the
quotient by it matters.

In `EventIngestion` requests share the buffers and, through its id, an event. One id
is enough for both, two requests to overlap, two payloads for all three verdicts; a
batch has one event, or the id twice. `Size = 3` needs more than one request; `MaxSent = 2` copies
of an event let one be sent again while the first is buffered. In `Attribution` three types make
a chain, and a second decision a click that must not be attributed; `MaxCopies = 2` allows
one retry of each event. In `Records` three requests fill a buffer of two and leave one to the
routine. In `ExperimentVersions` two editors and three versions give a stale edit of a version
that another edit has made; edits change variants with and without a sum of 100, an audience
that is ignored, a priority of 0, and half a conflict.

In `Notifications` two rules on one resource make two groups of one cycle, one of
which can fail; `MaxPublished = 2` renews a row under the worker; `Longest = 1` makes a
group of two too long. In `Guardrails` two rules are what it takes to share a session: of one
experiment, they refuse each other; of two, one's failure or refusal meets the other's open
writes. Two sessions are for an action that outlives its check beside the next check. In
`Access` three emails let two accounts exchange theirs through a third. Failures and requests are bounded by one each.

In `MCAlgorithms` a source of four characters holds a sign, a fraction and what follows it; seven
tokens hold two comparisons with a connective, or a negated group; nine hold a ratio, and
fourteen, where a filter comes first, three tests, the fewest that tell how `AND` and `OR`
bind; three values are what transitivity asks for. `One = 4` and `Precision = 2` give numbers that are
near each other, so that near is not transitive.

Properties of the passing runs, and the way each could fail:

* `NoDoubleVote`: two requests of one reviewer that both find no vote; only the
  row lock of `ApproveDraft` orders them.
* `AcceptedByQuorum`: approvals counted while `SetReviewRules` and another
  `SendToReview` run; duplicates that count twice.
* `FlagFixedAfterDraft`: the flag that was locked is not the flag of the row.
* `DecisionOnRecord`, `ImplementsWorkflow`: the refinement of
  `ExperimentWorkflow` by `ExperimentLifecycle`, under `FreshSpec`.
* `LockedReadIsFresh`: a row read FOR UPDATE that another request saves before the lock goes. A
  guard's lock goes when any action of its check commits or rolls back, and from then on the copy
  may be stale.
* `OneStartedPerFlagButResurrected`: `lock_on` with `get_active_by_flag` works, for
  starts and resumptions; the exception is named exactly.
* `OffTableOnlyWhenStale`: the setter checks the copy, so the row may jump, but only by
  a stale save.
* `ServedWasReviewed`, `RunningIsServed`, `FinishedIsNotServed`, `HaltedEntryIsHalted`: the
  cache against the rows, at every moment no request owes a notice.
* `ChangesReachCache`: leads-to, under fairness of `Notify`.
* `AnswersAreOfTheFlag`: a sticky decision of an experiment that has left the flag, or of another
  flag's, is told, because sticky decisions are matched against the experiments of all flags that the
  request asks for. That happens to an experiment that has been cached on two flags, and to no
  other (`Moved`); even then the experiment has been on the flag.
* `AnswersStick`: two requests save over each other, a partial save drops fields, an
  edit or a halt changes what was told. The property excepts flags on which two
  overlapping requests saw different things, because there the later save wins,
  keys that expired under an open request (`aux_torn`), and flags of moved experiments (`Shared`).
* `ExperimentsAreCounted`: sticky decisions counted again, the counter not cleared, or
  requests that had passed the check counted into a new cooldown's time. The script's effect and the
  answer are two steps: what is counted and never told, because the reply was lost or the request
  cancelled, is counted by `aux_lost`.
* `OneWinnerPerConflict`: ties, missing and equal priorities, a flag asked for twice.
* `ServerTypeOK`: besides the types of the part that moves, that the rows of an awaited insert of
  events stay what the buffer holds; without the lock another request extends the buffer in between.
* `NothingIsLost`: a buffer of events cleared before, or without, its insert, by any order of
  failures of the three inserts and of requests that wait for the lock.
* `AcceptedOnce`: retries after a failed insert or mark, expiring marks, crashes between.
  Requests that overlap are excepted (`aux_raced`): adr/005 names that limit.
* `CopiesAreCurrent`: a rolled back row that is told, a notice before COMMIT, a warm-up that
  misses a row, two updates whose notices cross (`aux_crossed`).
* `RecordsAreExact`: a record that enters the buffer during the insert and is cleared with it, or
  is inserted twice by a request and the routine. An insert that raised is excepted: what it
  did is unknown, and the buffer keeps its rows.
* `HistoryIsExact`: overlapping saves copy one row twice, lose one, or give one number two
  contents; the exceptions say below which version nothing of this can be.
* `ConfigurationsAreSound`: fields that are valid alone and not together, in any order of edits.
* `ArchivedStays`, `IdentityIsKept`: a lock-free copy brings back what another request changed; an
  activation looks up the identity, then the email, and another one commits between the two
  (`aux_outrun`, excepted: the code does give one identity two accounts then).
* `NoPhantomConversion`: a click attributed to another decision, or to an event that waits
  itself; the chain of three and rewritten rows are where that would happen.
* `AttributedBeforeExpired`: an event that grew old while its parent was there is given up,
  because a failed first statement does not stop the second.
* `PendingUntilTold`: a row is removed that no message was about: by a cycle that read it before it
  was renewed, by a group that failed, by the fallback channel. The first and the last
  happen and are named (`aux_gone`).
* `ToldOnceCommitted`: a committed cycle leaves a row it has told, and its rule is out of cooldown again.
* `ActionsAreRecorded`, `GuardWritesFresh`: a COMMIT of half an action, an audit record without one, an
  experiment that a request had changed. Sessions that two actions shared are excepted; of what
  they break, section 6 has a list. `GuardWritesFresh` looks at each row a guard writes, and excepts a row
  only where the session that wrote it was shared or had outlived its check.
* `WaitingIsResolved`, `PendingIsTaken`, `HarmIsStopped`: leads-to, see below.
* `SharesAreAsked`: the division loses buckets, or the rounding hashes, beyond what it must lose.
* `LexemesAreOfTheGrammar`, `ParsersFollowGrammars`: a dot given back or not, a keyword read as a
  name, `NOT` and `IN` joined (the joined token alone may end within a word: `x NOT INy` is read as
  `NOT IN` and `y`); precedence, association, where an expression ends or fails.
* `OrderIsConsistent`: coercions that differ between `>`, `==` and `IN`, operands that change places. Near
  numbers may be equal and greater at once; versions, which compare part by part, and pairs that
  raise are left out.
* `FiguresAgree`: a report and a guardrail give the same metric different values, shares of nothing, rows
  counted twice or not at all: counts and sums of the variants *and of the rows of none of them* make
  the overall figure, minimum and maximum are the extremes of these. Of quantiles only that report
  and guardrail agree.

Fairness. `CacheSpec` assumes weak fairness of `Notify(s)` alone: between COMMIT and
the notice a coroutine runs no statement that could wait for another request,
so while its process lives the event loop reaches it. Nothing says that requests come, that
they finish their transactions, or that the server is restarted
(`src/docker-compose.yml` gives `api` no restart policy); so none of that is fair.
`FairWorkers` is the conjunction for the three processes, whose `start` catches every exception
and sleeps. `FairAttribution` assumes that time passes, that the worker's loop goes on,
and, as strong fairness, that ClickHouse does not fail each time a statement is tried.
`FairMailer` assumes that the steps of `SelectAndSend` go on and that Valkey's keys expire; it does
not assume that rules stay, nor that messages are short, so the property names both.
`FairChecks` assumes that a check starts, that its tasks go on and that it ends; failures are
finitely many, by the bound. Metrics may move for ever. `MaxCopies` says that a sender stops.

## 4. Mutants

Operators named for a mistake (`CountVotesOfAnyone`, `TakeFlagWithoutLock`,
`NoticeOfPause`, ...) stand before the definition they distort. Each property of
each passing run is violated when one of them takes its place, on the same
configuration (`PROJECT.json`, "mutants").

## 5. What is proved

`ExperimentLifecycle_proofs`, for all constants that satisfy the ASSUMEs of
`ExperimentLifecycle`:

* every step has one of five shapes (`StepShapes`): a request opens on the row it
  read, looks a second time, saves, ends, or a statement without a request. The end of a guard's
  action, by COMMIT or refusal (`RefuseGuard`), ends the locks and open writes of its whole check.
  `MaySave`, `Votes` and `Decides` say what the checks of the code ensure of a save;
* `Inv`, the inductive type invariant: `TypeOK` with `RequestsOK`, which remembers
  what the first read checked. `TypeOK` alone is not inductive: that a
  saved flag is a flag follows from what the copy was when it was read;
* `LockedReadsAreFresh`: whoever holds a row's lock has the row as it is stored. It holds because
  a lock is held by one check at a time, and because a save, too, needs the row's lock or that nobody has it;
  it says nothing of a guard's copy whose lock a task of the same check has let go;
* `TypeCorrect`, `ReviewPrecedesRun`, `ResultWithArchive`
  (`PastInv` says of the open copies what the properties say of the rows: a stale
  copy is saved as it is, so the property of the rows alone is not inductive);
* `OneStartedUnlessResurrected` (`FlagInv`: whoever has passed `TakeFlag` holds the
  flag, and nothing runs on it until it commits);
* `StatesFollowTable`, `FlagsAreFixed`, and `OneVoteEach`, `QuorumAccepts` (`VoteInv`:
  the votes a request counted are those in the table until it commits, because it
  holds the row's lock and only deletions go on);
* `FreshImplementsWorkflow` and `FreshDecisionOnRecord`: the refinement, step by step.

`DecisionCache_proofs`: every step is a step of the lifecycle, a stutter or a crash
(`DatabaseSteps`); a crash keeps `Inv` and `PastInv`; then `CacheTypeCorrect` and
`OnlyReviewedIsServed` (`CacheInv` adds that notices on their way are of accepted
experiments). `StartedIsServed`, `EndsAreTold` and `HaltIsOfRow` are of one invariant, `ViewInv`:

* a flag is *due* what a notice on its way brings, or, without such a notice, what the cache has.
  `RunningIsDue`: whatever runs and is not excepted is due on its flag;
  `DueIsRunning`: where nothing went astray, what a flag is due runs or has stopped there, so an end
  is told on the right flag; `HaltedIsOnFlag` says the same of a halted entry. The three properties
  speak of moments without notices; between a COMMIT and its notice only these hold;
* `ProcessInv`: a dead server has no requests and owes nothing, only the guard's requests are the
  worker's, and two notices due at once have made their flag one of `aux_astray`.

`Decisions_proofs`, for any number of subjects, flags, entries and requests:

* `DecisionsTypeCorrect`, `AnswersAreServed`. `DInv` adds to the types what a request
  holds at each point (`Stages`: what it found is not decided anew, what it decided is what
  `assign_variant` gives), that entries are cached and decisions saved on flags their experiment has
  been on (`OnOwnFlags`), and where the experiments of each open request have been (`AllPlaced`):
  what it found on a flag is of the experiment it saw there, or of one that has been on two
  flags. An experiment's flags only become more, which keeps both (`PlacedGrows`).
* `AnswersAreSticky`. `StickInv` says of each flag that is neither torn nor `Shared`: requests open together
  saw the same (`SeenAlike`); what one found, saved or told is what is saved; what
  is saved and was not found is what the request will decide itself
  (`SavedIsFresh`). The last clause is why two first requests do no harm: they
  write the same.
* `NewDecisionsAreCounted`. `CountInv`: out of cooldown the counter is what is `Recorded`, decisions told,
  pending between the script and the answer, and lost; in it the
  counter is zero and the requests that passed the check (`Passed`) can each add
  as many decisions as there are flags.

What they rest on besides the types: that hashes are functions of subject, experiment and flag, and
that requests and flags are finitely many. Nothing is assumed of the entries: an experiment may be
cached under any flags.

* `ConflictsHaveOneWinner`, from `Survivors` (a request enters its subject only into experiments that
  survived their conflicts). With a priority given, `Beats` is a strict order of a domain
  (`BeatsIsAnOrder`), so two survivors would beat each other. That each request has a winner needs
  that of finitely many rivals one is unbeaten: the one that the fewest beat, a least number, by
  well-founded induction (`SomeoneUnbeaten`); `OneBeatsAll` makes it the only one.

`EventIngestion_proofs`, for any events, batches, requests and sizes:

* `IngestTypeCorrect`, by cases of who holds the lock;
* `AnswersAreOnRecord`: `HeldInv` follows the events of a request from the moment they are
  buffered, through the inserts of whoever flushes, to the answer: each is in its
  buffer or in its table. `InsertFacts` is what carries it over an insert: the rows written
  are those that `clear()` drops;
* `IdsAreAcceptedOnce`: `OnceInv` adds that accepted ids are marked and that requests which
  hold the same id have raced, so a mark set under an open request is of such an id.

`Workers_proofs`, for any events, rules, experiments and sessions. Of `Attribution`: `AttributionTypeCorrect`; `NoPhantoms`, from `ParentInv` (what is about to
be accepted has a parent that *was* accepted: a parent of a chain may wait again after
a retry, so the parents that are accepted *now* would not do); and
`DueEventsAreNotGivenUp`, from `DueInv`, which says at each point of a cycle where its due
events are. Of `Guardrails`: `GuardrailsTypeCorrect`, `ActionsAndRecordsTogether` and
`GuardSavesWhatItLocked`, from two invariants. `SessionInv` says what the database and the one
session ensure: a row is locked by one session; a session without an action is clean; and where no
two actions met, the session's writes are those of its one action, at the point where it stands.
`EditsInv`: no row, committed or not, has a number that no request has given, so a request's row is
newer than any copy. `GuardSavesWhatItLocked` is about sessions where no two actions met, as its
property says: there the lock of the second read is held to COMMIT.

Of `Notifications`, for any rules, events, publishers and channels: `NotificationsTypeCorrect`;
`PendingStaysUntilTold`, from `SentIsTold` (whom a cycle has sent to is told, while the row is the one it
read) and `Dated` (a renewed row is younger than any copy, so it is never taken for the
one that was read); `CommittedIsNotRetold`, from `SettledIsAway`.

`ServerState_proofs`. Of `Records`, for any requests and sizes: `RecordsTypeCorrect`, `RecordsStayExact`. `InsertInv`: the rows
of an insert under way are the buffer, because nobody enters a buffer whose lock is
held; `StageInv`: before a request is past its call its record is nowhere, but for the insert it awaits.

Of `Catalog`, for any flags, types and requests: `CatalogTypeCorrect`, `CopiesStayCurrent`, `TypesStayArchived`.

* `FlagInv`: where no two requests have crossed, one at most is open on a flag; after its COMMIT it has
  the row to tell, and without such a request the copy is the row;
* `TypeIdInv`: a request keeps the schema of the row it changes, and what one has saved without being
  stale was made from the row, so it does not take the row out of the archive;
* `ServingInv`: while the server is down nobody is served, and the flags are warmed up first.

Of `Access`, for any users, emails and identities: `AccessTypeCorrect`, `IdentitiesAreKept`. `EmailInv` says of rows,
committed or not, that their emails differ; `CurrentInv` that a copy which is current has
the row's identity or activates the account by the email it still has; `IdentityInv`, that while no
save was stale and no activation was outrun between its two lookups (`aux_outrun`), an identity has
one account. The last needs the two before: an identity finds
its account by email, and only a stale save can give an activated account's email away.

Of the components beside each other (`MCServer`): `ServerTypeCorrect`. It uses that a behaviour of the
composition is one of each of the five, which holds by the form of `ServerSpec`: they share neither
tables nor memory.

`ExperimentVersions_proofs`, for any bodies, editors and bounds: `VersionsTypeCorrect`,
`ConfigurationsStaySound` (`SoundInv` says it of the copies of open requests too, which a save may
bring back) and `HistoryStaysExact`. `ClearInv` speaks of all rows there are, stored or held: up to
`aux_clear` a number is one content, none is above the latest, and what came before is kept. A
save from a stale copy lowers `aux_clear` to the copy's version, which is what makes
the rest inductive.

`Algorithms_proofs`, of the behaviours of `MCAlgorithms` for every value of its bounds and inputs. The
invariant says only that samples are samples (`SamplesAreTyped`); the rest is about functions.
That a recursive function is what its definition says, and what it or a fold gives, is shown by
induction over sets of naturals, or of finite sets, that are closed under a step: `ByNaturals`
and `BySubsets`, from the well-foundedness of `<`.

* `SharesFollowWeights`, for any size of the hash, weights and audience: `AxisFacts` says which buckets a
  variant has, `HashesOfRange` how many hashes a range of buckets has.
* `OperatorsShareAnOrder`, for any values that `ValuesAreTyped` allows and any tolerance: what each operator
  does with a pair of types that has an order (`OrderedOutcomes`), that has none, or that raises.
  It says that `==` joins equal and near numbers, not that it is the equality of the order.
* `ReportsAgreeWithGuardrails`, for any rows and metrics that `ReportsAreTyped` allows, rows of no variant
  and of `!default` included: a sum over rows is the sum of its parts (`SumOfParts`), one for
  each variant and one for the rows of none of them.
* `ScannersFollowGrammars`: each token is a lexeme of its kind and would not be with one character
  more, but for `NOT IN` (`TokensAreLexemes`), and begins where the scanner moved on to (`TokensFrom`).
* `ParsersReadLanguages` joins two lemmas. `MetricsFollowGrammar`: each method of the parser has read all
  there is of its phrase, or stands where no phrase goes on (`ConjunctionFacts` to
  `MetricFacts`); what it collects is what the neighbours of the tokens say.
  `RulesFollowGrammar`: for each token where a rule may begin and each level (`LevelRead`), by induction
  from the end of the tokens: the level reads a rule, outside whose brackets only operators
  of the level or tighter ones stand, and none of these comes next; if it fails, an
  operator comes next after every rule that begins there, so at the end none does. `RuleGoesOn`
  carries it: what makes a longer rule of a rule is an operator and a rule. The tree is
  the only one, because the right operand of an operator has one end (`OneEnd`).

Assumptions on constants are ASSUMEs of the modules, evaluated by every run that extends them. All
invariants and action properties of the passing runs are proved. Only model-checked are the four
liveness properties: the prover has no fairness and no ENABLED.

`ReviewedBeforeRun` and `ResultIffArchived` are proved and in no run.

## 6. Where the code and the documents disagree

Each of these is a run that TLC finds violated.

| run | the code | the documents |
|---|---|---|
| `FindTwoStarted` | a stale edit brings a stopped experiment back | usecases/02:49, one STARTED per flag |
| `FindGuardUnseen` | the guard's pause does not reach the server's cache | usecases/03:100 |
| `FindLessOrEqual` | `<=` of targeting rules gives what `>` gives (`dsl/runtime.py:137`) | task.md:455 |
| `FindNotCompiles` | a rule with `NOT` never compiles: the code of its node asks for itself (`dsl/codegen.py:78`) | task.md:454; target-dsl.md:75 |

Met while reading or modelling, without a run; an exception of a property is named after it.

Experiments and decisions:

* decisions of a subject with a semicolon in its id are saved and never found
  (adr/002:74-77 promises the same value again; the exception `Unsplittable`);
* conflicts are resolved per request and without the sticky decisions, so a subject
  gets two experiments of one domain (adr/007:94-96);
* a stale `UpdateExperiment` with a `flag_key` moves a started experiment; its entry on the old flag stays,
  and its sticky decisions are told on the old flag by requests that see it on the other
  (`Moved`, `valkey.py:67`);
* a request that is cancelled, or whose reply is lost, after `cooldown.lua` ran has used up what it was
  never told (`aux_lost`);
* a priority of 0 is created and read as none, although adr/007:70 says that 0 beats 1;
* `UpdateExperiment` compares `conflict_policy` with itself, so a PATCH may set half a conflict
  to null (usecases/02:51; `Experiment.new` refuses it; `aux_half`); an audience without variants
  is ignored;
* overlapping edits write one version number twice, and a row that comes between the two
  statements of another save is lost (task.md:325 wants all versions kept; `aux_clear`,
  `aux_past`); changes of state copy rows under an unchanged number;
* a paused experiment does not hold its flag (usecases/02:277), and its end evicts
  the experiment that runs there from the cache (adr/002:84);
* nothing finishes a security-halted experiment (usecases/02:294);
* variants, targeting and metrics are edited in any state (usecases/02:339);
* notices can reach the cache in another order than the commits (adr/002:86);
* a rejection keeps the approvals (usecases/02:236; the next `SendToReview` removes
  them); a repeated approver passes the threshold check (`access/domain.py:9`);
  the stale edit of `FindTwoStarted` undoes a security halt too (usecases/02:96);
* decisions made because of a halt are saved (usecases/03:81-82 excepts them);
* the cooldown starts when the counter reaches the threshold (adr/002:80: when it
  exceeds it).

Flags, accounts, events:

* two updates of a flag may leave the older default in memory (`aux_crossed`); an
  `UpdateEventType` brings an archived type back (`aux_stale`); an `UpdateUser` takes an activation
  back; and where accounts exchange their emails, an activation that found the one account by the
  email that the other has now leaves an identity with two (`aux_overwrote`), and so does an activation
  that commits between the two lookups of another (`aux_outrun`);
* a batch that repeats an id is accepted twice (usecases/04, step 4 of receiving): it is looked up
  once, and `AcceptedOnce` speaks of two requests;
* archived event types are received (adr/006; usecases/04 says so too), and a type that
  the cache does not know is not looked up in PostgreSQL (adr/006:43);
* an insert that landed and raised is repeated, so records count twice (`aux_torn`).

Notifications and guardrails:

* a row renewed between the worker's read and its DELETE is removed untold, and the fallback
  channel drops what it is given (`aux_gone`);
* a failing send fails the whole cycle: the groups that were told are told again; a message
  of more than 4096 characters is never sent (`telegram.py:22` sends the whole text in each turn)
  and stops all rules (`Clogged`);
* a renewed row keeps the meta of its first publication (usecases/07; adr/004);
* two rules of one experiment that fire together share a session, so one's refusal rolls
  back the other's action, in every check (the exception of `HarmIsStopped`, `aux_shared`); a refusal
  or failure in another experiment does the same to an action that is open meanwhile; and the COMMIT of
  one action releases the row locks of the others, before their saves;
  `UpdateGuardRule` brings an archived rule back.

Languages and reports:

* a comparison that raises fails the request (target-dsl.md:58: it is false): `<` of versions, which
  recurses without end, and a text `YYYY-mm-dd` beside a date literal (`dsl/runtime.py:45`, `Raises`);
* `true == 1` (`dsl/runtime.py:109`; target-dsl.md:66: values of different types are never equal);
* the tolerance of target-dsl.md:64 is in `==` and `!=` alone, so near numbers are equal and greater
  (`Near`);
* a literal date on the left of a text changes places with it; versions compare part by part, "any part" for `==` and `>`;
* unsupported comparisons give False (target-dsl.md:68: an error); tokens after
  an expression are ignored; names of targeting rules have no digits; `.5` is accepted; `x NOT INy` is read as `x NOT IN y`
  (`lexer.py:200`);
* the insights divide by zero where an experiment has only duplicate or discarded rows
  (`evaluator.py:371`), and ignore the experiment without filters (`evaluator.py:394`); a failing query
  counts as 0.0 (`evaluator.py:207`); discarded events have neither the status nor the variant that
  queries ask for; rows of `!default` are in the overall figure of an experiment and in no variant's.

## 7. The plan

Done: the lifecycle, its cache, decisions and events (first), then the history of versions, records,
catalog, accounts, notifications, guardrails, languages and reports, with the refinement of
`ExperimentWorkflow`.

Left, in this order:

1. A proof that `Decisions` over a right cache tells only what was reviewed.
2. The three guards of `Guardrails` over the rows of `ExperimentLifecycle` in one run, instead of
   `OtherRequest`; the notifications of a state change as part of `DecisionCache`.
3. The values that decisions carry, and the dates of rules as intervals.
4. Refinements: `Attribution` of a specification where each event is decided at once, `Notifications` of
   one where a pending row is told or dropped.

## 8. Not modelled

* Roles: which request asks for which role is data, checked in each interactor by a line of its own.
* Templates of messages and the text of the generated Python and SQL: wording. What comes
  out of a tree, and what a query selects, is modelled.
* Routing, injection, serialisation and configuration (`bootstrap`, `presentation`) hold no
  state; the warm-ups, routines and the loops of the workers are in the modules above.
* Metrics and reports as rows: plain CRUD that nothing else depends on.
* The insights' counts of assignments and conflicts: sums over what `RecordsAreExact` is about.
* `src/dummy-iap`, migrations, static pages, `src/sys-tests`: outside the core.
* PostgreSQL, Valkey and ClickHouse are modelled as the code uses them: row locks, READ
  COMMITTED reads and atomic COMMIT; atomic commands and scripts; inserts that may land
  although they raise.

See also "components" in `PROJECT.json`.
