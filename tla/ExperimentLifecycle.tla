------------------------ MODULE ExperimentLifecycle ------------------------
(***************************************************************************)
(* Experiments in PostgreSQL and the requests that move them through their *)
(* life: authors and reviewers, each in a database transaction of its own  *)
(* (READ COMMITTED), and the actions of guardrail checks. All the actions  *)
(* of a check go through one database session: the COMMIT or ROLLBACK of   *)
(* one ends the transaction, and the locks, of them all.                   *)
(*                                                                         *)
(* A request is a session. It reads the latest row of one experiment, with *)
(* or without SELECT ... FOR UPDATE, checks and changes the copy in        *)
(* memory, and saves the WHOLE copy over the row when it commits. Between  *)
(* these steps other sessions run. A step that fails a check raises, which *)
(* rolls back: Abort stands for every such end, for a deadlock victim and  *)
(* for a crash.                                                            *)
(***************************************************************************)
EXTENDS ExperimentDomain, Naturals, FiniteSets, Sequences

CONSTANTS
    Experiments,   \* experiment ids
    Flags,         \* keys of the feature flags (all exist)
    Experimenters, \* users with the role EXPERIMENTER
    AuthorOf,      \* the experimenter who creates each experiment
    Admins,        \* users with the role ADMIN
    Approvers,     \* users with the role APPROVER
    Sessions,      \* requests that may be open at a time
    CheckOf,       \* the guardrail check of each session, when it is a guard's action
    Ops,           \* the kinds of request this instance issues
    None,          \* no session, no experiment, no flag, no argument
    MaxVersion,    \* bound on the edits of an experiment
    MaxVoteRows,   \* bound on the rows a reviewer can have in approvals
    MaxGroup       \* bound on the length of an approver list

Reviewers == Admins \union Approvers

AllOps == {"create", "update", "send_to_review", "restore", "approve", "reject",
           "start", "manage", "archive", "guard", "set_review_rules"}

ASSUME NoneIsNoValue ==
    None \notin Experiments \union Flags \union Reviewers \union Sessions
                \union States
ASSUME AuthorsAreExperimenters == AuthorOf \in [Experiments -> Experimenters]
ASSUME OpsAreKnown == Ops \subseteq AllOps
ASSUME BoundsAreNaturals ==
    MaxVersion \in Nat /\ MaxVoteRows \in Nat /\ MaxGroup \in Nat

VARIABLES
    row,         \* experiments_latest: the committed row of each experiment
    approvals,   \* approvals: the committed rows, for each experiment
    decision,    \* review_decisions: the last decision on each experiment
    group,       \* approver threshold and assigned_approvers of each author
    rowLock,     \* the session that holds FOR UPDATE on an experiment's row
    flagLock,    \* the session that holds FOR UPDATE on a flag's row
    sess,        \* the open sessions
    aux_accepted,    \* history: experiments some review has accepted
    aux_resurrected  \* history: experiments that are STARTED only because
                     \* UpdateExperiment saved a stale copy

aux_vars == <<aux_accepted, aux_resurrected>>
vars == <<row, approvals, decision, group, rowLock, flagLock, sess, aux_vars>>

-----------------------------------------------------------------------------
(* Types *)

\* A row of experiments_latest. The version stands for everything that
\* UpdateExperiment edits but the flag key: variants, targeting, metrics, ...
Row == [state: States \union {"absent"}, version: Nat,
        flag: Flags \union {None}, result: BOOLEAN]
NoRow == [state |-> "absent", version |-> 0, flag |-> None, result |-> FALSE]

\* A row of approvals: the table has no key, so n tells equal rows apart.
Vote == [by: Reviewers, n: 1 .. MaxVoteRows]

\* load_approver_group returns None for a threshold of NULL: NoGroup.
Group == [threshold: Nat, approvers: SUBSET Reviewers]
NoGroup == [threshold |-> 0, approvers |-> {}]

\* The requests that read the row with lock=True.
LockedOps == {"approve", "reject", "guard"}

\* phase: "idle" when closed, "read" once the row is read, "checked" once the
\* second look at the database (flag, votes, DELETE of the votes) is done.
Session == [op: AllOps \union {"none"},
            exp: Experiments \union {None},
            arg: Reviewers \union Flags \union States \union {None},
            phase: {"idle", "read", "checked"},
            seen: Row,
            quorum: Nat,
            votes: SUBSET Vote]
Idle == [op |-> "none", exp |-> None, arg |-> None, phase |-> "idle",
         seen |-> NoRow, quorum |-> 0, votes |-> {}]

Open(s) == sess[s].phase # "idle"
Ready(s, op, phase) == sess[s].op = op /\ sess[s].phase = phase
TakesFlag(s) == \/ sess[s].op = "start"
                \/ sess[s].op = "manage" /\ sess[s].arg = "started"

-----------------------------------------------------------------------------
(* Reading and saving a row *)

Init ==
    /\ row = [e \in Experiments |-> NoRow]
    /\ approvals = [e \in Experiments |-> {}]
    /\ decision = [e \in Experiments |-> "none"]
    /\ group = [a \in Experimenters |-> NoGroup]
    /\ rowLock = [e \in Experiments |-> None]
    /\ flagLock = [f \in Flags |-> None]
    /\ sess = [s \in Sessions |-> Idle]
    /\ aux_accepted = {}
    /\ aux_resurrected = {}

OpenSession(s, op, e, arg, quorum) ==
    /\ op \in Ops
    /\ ~Open(s)
    /\ sess' = [sess EXCEPT ![s] =
                   [op |-> op, exp |-> e, arg |-> arg, phase |-> "read",
                    seen |-> row[e], quorum |-> quorum, votes |-> {}]]
    /\ UNCHANGED <<row, approvals, decision, group, flagLock, aux_vars>>

\* get_latest_by_id(e): no lock is taken and none is waited for.
Read(s, op, e, arg) ==
    /\ OpenSession(s, op, e, arg, 0)
    /\ UNCHANGED rowLock

\* Mutant of ReadLocked: with_for_update() is forgotten.
ReadLockedWithoutLock(s, op, e, arg, quorum) ==
    /\ OpenSession(s, op, e, arg, quorum)
    /\ UNCHANGED rowLock

\* The sessions whose transaction is that of s.
Sharing(s) ==
    IF sess[s].op = "guard"
    THEN {t \in Sessions : sess[t].op = "guard" /\ CheckOf[t] = CheckOf[s]}
    ELSE {s}

\* A lock that a request of the kind op in session s need not wait for.
OwnLock(s, op, holder) ==
    op = "guard" /\ holder \in {t \in Sessions : /\ sess[t].op = "guard"
                                              /\ CheckOf[t] = CheckOf[s]}

\* get_latest_by_id(e, lock=True): waits for the lock, then reads the row.
ReadLocked(s, op, e, arg, quorum) ==
    /\ rowLock[e] = None \/ OwnLock(s, op, rowLock[e])
    /\ rowLock' = [rowLock EXCEPT ![e] = s]
    /\ OpenSession(s, op, e, arg, quorum)

\* The second look at the database, in the middle of a transaction.
MarkChecked(s, votes) ==
    sess' = [sess EXCEPT ![s].phase = "checked", ![s].votes = votes]

\* The end of a transaction, committed or rolled back: its locks go.
Release(s) ==
    /\ rowLock' = [e \in Experiments |->
                      IF rowLock[e] \in Sharing(s) THEN None ELSE rowLock[e]]
    /\ flagLock' = [f \in Flags |->
                      IF flagLock[f] \in Sharing(s) THEN None ELSE flagLock[f]]

\* The other actions of a check go on in the transaction that begins next.
Close(s) ==
    /\ sess' = [sess EXCEPT ![s] = Idle]
    /\ Release(s)

\* UpdateExperiment writes STARTED over a row that is not STARTED on that flag.
Resurrects(s, new) ==
    LET now == row[sess[s].exp] IN
    ~(now.state = "started" /\ now.flag = new.flag)

\* experiments.save(new), then COMMIT. INSERT ... SELECT into the history takes
\* FOR KEY SHARE on the flag of the row it copies, which waits for FOR UPDATE,
\* and so does a new flag key; the UPDATE waits for the row.
Save(s, new) ==
    LET e == sess[s].exp IN
    /\ rowLock[e] \in Sharing(s) \union {None}
    /\ \A f \in Flags \intersect {row[e].flag, new.flag} :
           flagLock[f] \in {None, s}
    /\ row' = [row EXCEPT ![e] = new]
    /\ aux_resurrected' =
           IF sess[s].op = "update" /\ new.state = "started"
           THEN IF Resurrects(s, new) THEN aux_resurrected \union {e}
                                      ELSE aux_resurrected
           ELSE aux_resurrected \ {e}
    /\ Close(s)
    /\ UNCHANGED group

\* A save that leaves the review tables alone.
SaveRowOnly(s, new) ==
    /\ Save(s, new)
    /\ UNCHANGED <<approvals, decision, aux_accepted>>

\* An exception in the interactor, or the end of its process: ROLLBACK.
Abort(s) ==
    /\ Open(s)
    /\ Close(s)
    /\ UNCHANGED <<row, approvals, decision, group, aux_vars>>

-----------------------------------------------------------------------------
(* Drafts: CreateExperiment and UpdateExperiment *)

\* Experiment.new: a draft, version 1.
NewRow(f) == [state |-> "draft", version |-> 1, flag |-> f, result |-> FALSE]

\* One INSERT of a new id; the flag exists.
Create(e, f) ==
    /\ "create" \in Ops
    /\ row[e].state = "absent"
    /\ row' = [row EXCEPT ![e] = NewRow(f)]
    /\ UNCHANGED <<approvals, decision, group, rowLock, flagLock, sess, aux_vars>>

\* Mutant of ReadForUpdate: the flag_key setter does not ask for a draft.
ReadForUpdateAnyState(s, e, newFlag) ==
    /\ row[e].state # "absent"
    /\ row[e].version < MaxVersion
    /\ Read(s, "update", e, newFlag)

\* The DTO either carries name or flag_key, whose setters refuse a frozen
\* experiment, or (newFlag = None) only fields whose setters do not.
ReadForUpdate(s, e, newFlag) ==
    /\ row[e].state # "absent"
    /\ newFlag # None => row[e].state = "draft"
    /\ row[e].version < MaxVersion
    /\ Read(s, "update", e, newFlag)

CommitUpdate(s) ==
    /\ Ready(s, "update", "read")
    /\ SaveRowOnly(s, [sess[s].seen EXCEPT
                          !.version = @ + 1,
                          !.flag = IF sess[s].arg = None THEN @ ELSE sess[s].arg])

-----------------------------------------------------------------------------
(* Reviews: SendToReview, RestoreFromRejected, RejectDraft, ApproveDraft *)

ReadToSend(s, e) ==
    /\ CanSetState(row[e].state, "in_review")
    /\ Read(s, "send_to_review", e, None)

\* DELETE of the approvals it can see; rows another DELETE has taken are waited
\* for.
RevokeApprovals(s) ==
    LET e == sess[s].exp IN
    /\ Ready(s, "send_to_review", "read")
    /\ \A t \in Sessions \ {s} :
           Ready(t, "send_to_review", "checked") /\ sess[t].exp = e
               => sess[t].votes \intersect approvals[e] = {}
    /\ MarkChecked(s, approvals[e])
    /\ UNCHANGED <<row, approvals, decision, group, rowLock, flagLock, aux_vars>>

CommitSend(s) ==
    LET e == sess[s].exp IN
    /\ Ready(s, "send_to_review", "checked")
    /\ Save(s, [sess[s].seen EXCEPT !.state = "in_review"])
    /\ approvals' = [approvals EXCEPT ![e] = @ \ sess[s].votes]
    /\ UNCHANGED <<decision, aux_accepted>>

ReadToRestore(s, e) ==
    /\ CanSetState(row[e].state, "draft")
    /\ Read(s, "restore", e, None)

CommitRestore(s) ==
    /\ Ready(s, "restore", "read")
    /\ SaveRowOnly(s, [sess[s].seen EXCEPT !.state = "draft"])

\* The reviewers' requests lock the row and then read the author's threshold.
ReadForReview(s, op, e, u) ==
    /\ row[e].state = "in_review"
    /\ ReadLocked(s, op, e, u, group[AuthorOf[e]].threshold)

\* Who may decide: an admin when the author has no group, else its members.
MayReview(s) ==
    LET u == sess[s].arg IN
    IF sess[s].quorum = 0
    THEN u \in Admins
    ELSE u \in group[AuthorOf[sess[s].exp]].approvers

\* Mutant of CommitReject: the decision is not saved.
CommitRejectUnrecorded(s) ==
    /\ Ready(s, "reject", "read")
    /\ MayReview(s)
    /\ Save(s, [sess[s].seen EXCEPT !.state = "rejected"])
    /\ UNCHANGED <<approvals, decision, aux_accepted>>

CommitReject(s) ==
    LET e == sess[s].exp IN
    /\ Ready(s, "reject", "read")
    /\ MayReview(s)
    /\ Save(s, [sess[s].seen EXCEPT !.state = "rejected"])
    /\ decision' = [decision EXCEPT ![e] = "rejected"]
    /\ UNCHANGED <<approvals, aux_accepted>>

\* ApproveDraft reads the approvals; a reviewer who is among them is refused.
CountVotes(s) ==
    LET e == sess[s].exp IN
    /\ Ready(s, "approve", "read")
    /\ sess[s].arg \notin {v.by : v \in approvals[e]}
    /\ MayReview(s)
    /\ MarkChecked(s, approvals[e])
    /\ UNCHANGED <<row, approvals, decision, group, rowLock, flagLock, aux_vars>>

\* Mutant of Accepts: the new approval is counted twice.
AcceptsEarly(s) ==
    \/ sess[s].quorum = 0
    \/ Cardinality(sess[s].votes) + 2 >= sess[s].quorum

\* The approval accepts at once without a group, else when it completes the
\* quorum.
Accepts(s) ==
    \/ sess[s].quorum = 0
    \/ Cardinality(sess[s].votes) + 1 >= sess[s].quorum

\* Row numbers of u's approvals of e that no open DELETE can name.
FreshVotes(e, u) ==
    {v \in [by: {u}, n: 1 .. MaxVoteRows] :
        /\ v \notin approvals[e]
        /\ \A t \in Sessions : sess[t].exp = e => v \notin sess[t].votes}

CommitApprove(s) ==
    LET e == sess[s].exp IN
    /\ Ready(s, "approve", "checked")
    /\ \E v \in FreshVotes(e, sess[s].arg) :
           /\ \A w \in FreshVotes(e, sess[s].arg) : v.n <= w.n
           /\ approvals' = [approvals EXCEPT ![e] = @ \union {v}]
    /\ IF Accepts(s)
       THEN /\ Save(s, [sess[s].seen EXCEPT !.state = "accepted"])
            /\ decision' = [decision EXCEPT ![e] = "accepted"]
            /\ aux_accepted' = aux_accepted \union {e}
       ELSE /\ Save(s, sess[s].seen)
            /\ UNCHANGED <<decision, aux_accepted>>

\* store_approver_group replaces the rows of the author's approvers: whoever is
\* listed twice is still one reviewer.
StoredGroup(list, threshold) ==
    [threshold |-> threshold, approvers |-> {list[i] : i \in 1 .. Len(list)}]

\* SetReviewRules: the threshold is compared with the length of the list. One
\* transaction, and no lock that a reader waits for.
SetReviewRules(a, list, threshold) ==
    /\ "set_review_rules" \in Ops
    /\ threshold \in 1 .. Len(list)
    /\ group' = [group EXCEPT ![a] = StoredGroup(list, threshold)]
    /\ UNCHANGED <<row, approvals, decision, rowLock, flagLock, sess, aux_vars>>

-----------------------------------------------------------------------------
(* Running: StartExperiment, ManageRunningExperiment, ArchiveExperiment *)

\* Mutant of ReadToStart: an experiment in review may be started.
ReadToStartEarly(s, e) ==
    /\ row[e].state \in {"in_review", "accepted"}
    /\ Read(s, "start", e, None)

ReadToStart(s, e) ==
    /\ row[e].state = "accepted"
    /\ Read(s, "start", e, None)

ReadToManage(s, e, target) ==
    /\ row[e].state \in {"started", "paused"}
    /\ CanSetState(row[e].state, target)
    /\ Read(s, "manage", e, target)

ReadToArchive(s, e) ==
    /\ row[e].state = "finished"
    /\ Read(s, "archive", e, None)

\* get_active_by_flag: the committed rows that are STARTED on the flag.
ActiveOnFlag(f) ==
    {e \in Experiments : row[e].state = "started" /\ row[e].flag = f}

\* Mutant of TakeFlag: lock_on without with_for_update().
TakeFlagWithoutLock(s) ==
    LET f == sess[s].seen.flag IN
    /\ TakesFlag(s) /\ sess[s].phase = "read"
    /\ ActiveOnFlag(f) = {}
    /\ MarkChecked(s, {})
    /\ UNCHANGED <<row, approvals, decision, group, rowLock, flagLock, aux_vars>>

\* Mutant of TakeFlag: the flag is locked, but nobody looks who runs on it.
TakeFlagUnchecked(s) ==
    LET f == sess[s].seen.flag IN
    /\ TakesFlag(s) /\ sess[s].phase = "read"
    /\ flagLock[f] = None
    /\ flagLock' = [flagLock EXCEPT ![f] = s]
    /\ MarkChecked(s, {})
    /\ UNCHANGED <<row, approvals, decision, group, rowLock, aux_vars>>

\* flags.lock_on, then the check that nothing is active on the flag.
TakeFlag(s) ==
    LET f == sess[s].seen.flag IN
    /\ TakesFlag(s) /\ sess[s].phase = "read"
    /\ flagLock[f] = None
    /\ ActiveOnFlag(f) = {}
    /\ flagLock' = [flagLock EXCEPT ![f] = s]
    /\ MarkChecked(s, {})
    /\ UNCHANGED <<row, approvals, decision, group, rowLock, aux_vars>>

CommitStart(s) ==
    /\ Ready(s, "start", "checked")
    /\ SaveRowOnly(s, [sess[s].seen EXCEPT !.state = "started"])

CommitManage(s) ==
    /\ Ready(s, "manage", IF TakesFlag(s) THEN "checked" ELSE "read")
    /\ SaveRowOnly(s, [sess[s].seen EXCEPT !.state = sess[s].arg])

CommitArchive(s) ==
    /\ Ready(s, "archive", "read")
    /\ SaveRowOnly(s, [sess[s].seen EXCEPT !.state = "archived",
                                           !.result = TRUE])

-----------------------------------------------------------------------------
(* The guardrail worker: RegularCheck._take_action *)

GuardTargets == {"paused", "security_halted"}  \* PAUSE and FORCE_CONTROL

\* Mutant of ReadToGuard: the guard writes the state without its setter.
ReadToGuardUnchecked(s, e, target) ==
    /\ row[e].state # "absent"
    /\ ReadLocked(s, "guard", e, target, 0)

ReadToGuard(s, e, target) ==
    /\ CanSetState(row[e].state, target)
    /\ ReadLocked(s, "guard", e, target, 0)

\* The audit record and the save; what another action's COMMIT takes with it is committed
\* here, what its ROLLBACK takes is an Abort.
CommitGuard(s) ==
    /\ Ready(s, "guard", "read")
    /\ SaveRowOnly(s, [sess[s].seen EXCEPT !.state = sess[s].arg])

\* Another action of the check ends before it has a copy to save: its read failed, or the
\* setter refused the row's state. The ROLLBACK leaves the action of s without its lock.
RefuseGuard(s) ==
    /\ sess[s].op = "guard"
    /\ Release(s)
    /\ UNCHANGED <<row, approvals, decision, group, sess, aux_vars>>

-----------------------------------------------------------------------------
(* The specification *)

Begin(s) ==
    \E e \in Experiments :
        \/ \E f \in Flags \union {None} : ReadForUpdate(s, e, f)
        \/ ReadToSend(s, e)
        \/ ReadToRestore(s, e)
        \/ \E u \in Reviewers, op \in {"approve", "reject"} :
               ReadForReview(s, op, e, u)
        \/ ReadToStart(s, e)
        \/ \E target \in States : ReadToManage(s, e, target)
        \/ ReadToArchive(s, e)
        \/ \E target \in GuardTargets : ReadToGuard(s, e, target)

Check(s) == RevokeApprovals(s) \/ CountVotes(s) \/ TakeFlag(s)

Commit(s) ==
    \/ CommitUpdate(s)
    \/ CommitSend(s)
    \/ CommitRestore(s)
    \/ CommitReject(s)
    \/ CommitApprove(s)
    \/ CommitStart(s)
    \/ CommitManage(s)
    \/ CommitArchive(s)
    \/ CommitGuard(s)

ApproverLists == UNION {[1 .. n -> Reviewers] : n \in 1 .. MaxGroup}

Next ==
    \/ \E s \in Sessions :
           Begin(s) \/ Check(s) \/ Commit(s) \/ Abort(s) \/ RefuseGuard(s)
    \/ \E e \in Experiments, f \in Flags : Create(e, f)
    \/ \E a \in Experimenters, list \in ApproverLists, n \in 1 .. MaxGroup :
           SetReviewRules(a, list, n)

Spec == Init /\ [][Next]_vars

-----------------------------------------------------------------------------
(* Properties *)

TypeOK ==
    /\ row \in [Experiments -> Row]
    /\ approvals \in [Experiments -> SUBSET Vote]
    /\ decision \in [Experiments -> {"none", "accepted", "rejected"}]
    /\ group \in [Experimenters -> Group]
    /\ rowLock \in [Experiments -> Sessions \union {None}]
    /\ flagLock \in [Flags -> Sessions \union {None}]
    /\ sess \in [Sessions -> Session]
    /\ aux_accepted \subseteq Experiments
    /\ aux_resurrected \subseteq Experiments

\* What a request read under FOR UPDATE is the committed row as long as it has its
\* lock, although the authors' requests take none (get_latest_by_id with and without
\* lock). A reviewer has it to the end. A guard's action may lose it to the COMMIT or
\* ROLLBACK of another one of its check, and then save a stale copy.
LockedReadIsFresh ==
    \A s \in Sessions :
        Open(s) =>
            /\ sess[s].op \in {"approve", "reject"} => rowLock[sess[s].exp] = s
            /\ rowLock[sess[s].exp] = s => sess[s].seen = row[sess[s].exp]

\* A reviewer has at most one approval of an experiment: the table has no
\* unique key, so only the row lock of ApproveDraft stops a doubled request
\* from counting twice towards the threshold.
NoDoubleVote ==
    \A e \in Experiments : \A v, w \in approvals[e] : v.by = w.by => v = w

\* Nothing is accepted, started, stopped or archived that no review accepted,
\* however requests interleave and whatever stale copies they save.
ReviewedBeforeRun ==
    \A e \in Experiments : row[e].state \in PostReview => e \in aux_accepted

\* Two experiments are never STARTED on one flag (lock_on and
\* get_active_by_flag), but for the one way the flag lock does not cover: an
\* UpdateExperiment that read the row STARTED saves it after it was stopped.
OneStartedPerFlagButResurrected ==
    \A d, e \in Experiments :
        /\ d # e
        /\ row[d].state = "started" /\ row[e].state = "started"
        /\ row[d].flag = row[e].flag
        => d \in aux_resurrected \/ e \in aux_resurrected

\* The result is there exactly when the experiment is archived (usecases/02,
\* invariant 4): whole rows are saved, so a stale save cannot split the two.
ResultIffArchived ==
    \A e \in Experiments : row[e].result <=> row[e].state = "archived"

Stale(s) == sess[s].seen # row[sess[s].exp]

\* The row changes in this step, by a save of a session whose copy was read
\* before somebody else's save.
StaleSave(e) ==
    /\ row'[e] # row[e]
    /\ \E s \in Sessions : sess[s].exp = e /\ Stale(s) /\ sess'[s] = Idle

\* Every change of a committed state is an edge of _VALID_TRANSITIONS, or else
\* the save of a session whose copy was out of date: the table alone does not
\* protect the row, since the setter checks the copy.
OffTableOnlyWhenStale ==
    [][\A e \in Experiments :
          \/ row'[e].state = row[e].state
          \/ <<row[e].state, row'[e].state>> \in
                 ValidTransitions \union {<<"absent", "draft">>}
          \/ StaleSave(e)]_vars

\* An experiment changes its flag only as a draft, or by a stale save: the
\* check that a flag is free is about the flag the experiment runs on.
FlagFixedAfterDraft ==
    [][\A e \in Experiments :
          \/ row'[e].flag = row[e].flag
          \/ row[e].state \in {"absent", "draft"}
          \/ StaleSave(e)]_vars

\* An experiment leaves its review accepted only with approvals of as many
\* DIFFERENT reviewers as the threshold the deciding request read, or by a stale
\* save of an earlier acceptance.
AcceptedByQuorum ==
    [][\A e \in Experiments :
          row[e].state = "in_review" /\ row'[e].state = "accepted" =>
              \/ StaleSave(e)
              \/ \E s \in Sessions :
                     /\ Ready(s, "approve", "checked") /\ sess[s].exp = e
                     /\ Cardinality({v.by : v \in approvals'[e]})
                            >= sess[s].quorum]_vars

-----------------------------------------------------------------------------
(* The promise, and when it is kept *)

\* The system as it would be if no session saved a stale copy: what an
\* optimistic version check, or lock=True on every read, would ensure.
FreshSpec == Init /\ [][Next /\ \A e \in Experiments : ~StaleSave(e)]_vars

WF == INSTANCE ExperimentWorkflow WITH
          state <- [e \in Experiments |-> row[e].state],
          flag <- [e \in Experiments |-> row[e].flag]

\* Without stale saves the requests implement the documented state machine, one
\* experiment per flag included (usecases/02, state diagram and invariants).
ImplementsWorkflow == WF!WSpec

\* Without stale saves the decision on record explains the state: what runs was
\* accepted by the last decision, what is REJECTED was rejected by it
\* (ApproveDraft and RejectDraft upsert review_decisions before they save).
DecisionOnRecord ==
    \A e \in Experiments :
        /\ row[e].state \in PostReview => decision[e] = "accepted"
        /\ row[e].state = "rejected" => decision[e] = "rejected"

-----------------------------------------------------------------------------
(* What documents and messages of the repository say and the code does not do *)

\* usecases/02:49: one experiment at most is STARTED on a flag.
OneStartedPerFlag ==
    \A d, e \in Experiments :
        /\ row[d].state = "started" /\ row[e].state = "started"
        /\ row[d].flag = row[e].flag
        => d = e
=============================================================================
