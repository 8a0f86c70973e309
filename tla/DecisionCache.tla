--------------------------- MODULE DecisionCache ---------------------------
(***************************************************************************)
(* ExperimentLifecycle with the cache that decisions are made from: a map  *)
(* in the memory of the server process from each flag to the experiment it *)
(* serves. The server's requests change it after their COMMIT, so the row  *)
(* and the cache are changed in two steps and the server may die between   *)
(* them. The guardrail worker is another process (start_prod.sh) and has a *)
(* cache of its own, which no decision is made from.                       *)
(***************************************************************************)
EXTENDS ExperimentLifecycle

CONSTANT WorkerSessions  \* the sessions of the guardrail worker's process

ASSUME WorkersAreSessions == WorkerSessions \subseteq Sessions

VARIABLES
    cache,  \* InMemoryExperimentStorage of the server process
    owed,   \* the cache change a request still has to make after its COMMIT
    up,     \* the server process runs and has warmed up its caches
    aux_astray  \* history: flags on which, since the last warm-up, a stale copy
                \* was saved or the notices of two requests were due at once

cache_vars == <<cache, owed, up, aux_astray>>
all_vars == <<vars, cache_vars>>

-----------------------------------------------------------------------------

\* A CachedExperiment; of its contents only is_security_halted matters here.
Entry == [exp: Experiments, halted: BOOLEAN]
Notice == [flag: Flags, entry: Entry \union {None}]

ASSUME NoneIsNoEntry == None \notin Entry /\ None \notin Notice

CacheInit ==
    /\ Init
    /\ cache = [f \in Flags |-> None]
    /\ owed = [s \in Sessions |-> None]
    /\ up = TRUE
    /\ aux_astray = {}

\* A step of a request leaves the cache alone. The worker's requests are the
\* guard's; the others run in the server.
Step(s) ==
    /\ owed[s] = None
    /\ s \in WorkerSessions \/ up
    /\ \/ Begin(s) /\ (sess'[s].op = "guard" <=> s \in WorkerSessions)
       \/ Check(s)
       \/ Abort(s)
       \/ RefuseGuard(s)
    /\ UNCHANGED cache_vars

\* Mutant of NoticeOf: a resumption is announced like a pause.
NoticeOfFirstStart(s) ==
    [flag |-> sess[s].seen.flag,
     entry |-> IF sess[s].op = "start"
               THEN [exp |-> sess[s].exp, halted |-> FALSE]
               ELSE None]

\* Mutant of NoticeOf: only a pause takes the experiment out.
NoticeOfPause(s) ==
    [flag |-> sess[s].seen.flag,
     entry |-> IF sess[s].arg = "paused"
               THEN None
               ELSE [exp |-> sess[s].exp, halted |-> FALSE]]

\* cached_experiment_from_experiment.
CachedOf(e, r) == [exp |-> e, halted |-> r.state = "security_halted"]

\* notify_experiment_activated after a start, notify_experiment_deactivated
\* after any other change of a running experiment, whatever the new state.
NoticeOf(s) ==
    LET saved == [sess[s].seen EXCEPT !.state = "started"] IN
    [flag |-> saved.flag,
     entry |-> IF TakesFlag(s) THEN CachedOf(sess[s].exp, saved) ELSE None]

\* The flags of a stale copy and of the row it is saved over.
FlagsOfStale(s) ==
    IF Stale(s) THEN {sess[s].seen.flag, row[sess[s].exp].flag} ELSE {}

\* The flags on which two notices are due.
Crossed(notices) ==
    {f \in Flags :
        \E s, t \in Sessions :
            /\ s # t
            /\ notices[s] # None /\ notices[t] # None
            /\ notices[s].flag = f /\ notices[t].flag = f}

CommitAndOwe(s) ==
    /\ Commit(s)
    /\ owed' = IF sess[s].op \in {"start", "manage"}
               THEN [owed EXCEPT ![s] = NoticeOf(s)]
               ELSE owed
    /\ aux_astray' = aux_astray \union FlagsOfStale(s) \union Crossed(owed')
    /\ UNCHANGED <<cache, up>>

\* Mutant of Notify: an entry is only replaced, never inserted.
NotifyReplacing(s) ==
    LET f == owed[s].flag IN
    /\ owed[s] # None
    /\ cache' = [cache EXCEPT ![f] = IF @ = None THEN None ELSE owed[s].entry]
    /\ owed' = [owed EXCEPT ![s] = None]
    /\ UNCHANGED <<vars, up, aux_astray>>

\* set_on_flag replaces or pops what is there, whichever experiment it is.
Notify(s) ==
    /\ owed[s] # None
    /\ cache' = [cache EXCEPT ![owed[s].flag] = owed[s].entry]
    /\ owed' = [owed EXCEPT ![s] = None]
    /\ UNCHANGED <<vars, up, aux_astray>>

\* The requests that are one statement here run in the server too.
OneStep ==
    /\ up
    /\ \/ \E e \in Experiments, f \in Flags : Create(e, f)
       \/ \E a \in Experimenters, list \in ApproverLists, n \in 1 .. MaxGroup :
              SetReviewRules(a, list, n)
    /\ UNCHANGED cache_vars

\* The server process dies: its transactions are rolled back, its cache and
\* what its requests still had to tell it are lost. The worker goes on.
Crash ==
    LET live(s) == s \in WorkerSessions IN
    /\ up
    /\ up' = FALSE
    /\ cache' = [f \in Flags |-> None]
    /\ owed' = [s \in Sessions |-> None]
    /\ sess' = [s \in Sessions |-> IF live(s) THEN sess[s] ELSE Idle]
    /\ rowLock' = [e \in Experiments |->
                      IF live(rowLock[e]) THEN rowLock[e] ELSE None]
    /\ flagLock' = [f \in Flags |->
                      IF live(flagLock[f]) THEN flagLock[f] ELSE None]
    /\ UNCHANGED <<row, approvals, decision, group, aux_vars, aux_astray>>

\* Mutant of Loaded: what is PAUSED is loaded too, as held.
LoadedWithPaused(f) ==
    {[exp |-> e, halted |-> row[e].state # "started"] :
        e \in {d \in Experiments :
                  /\ row[d].state \in {"started", "paused", "security_halted"}
                  /\ row[d].flag = f}}

\* What all_running_and_security_halted finds for a flag.
Loaded(f) ==
    {CachedOf(e, row[e]) :
        e \in {d \in Experiments :
                  /\ row[d].state \in {"started", "security_halted"}
                  /\ row[d].flag = f}}

\* The server starts again: WarmUpStorages sets every row it loaded, in the
\* order of the query, which has no ORDER BY; on each flag the last one stays.
WarmUp ==
    /\ ~up
    /\ up' = TRUE
    /\ cache' \in {c \in [Flags -> Entry \union {None}] :
                      \A f \in Flags : IF Loaded(f) = {} THEN c[f] = None
                                                         ELSE c[f] \in Loaded(f)}
    /\ aux_astray' = {}
    /\ UNCHANGED <<vars, owed>>

CacheNext ==
    \/ \E s \in Sessions : Step(s) \/ CommitAndOwe(s) \/ Notify(s)
    \/ OneStep
    \/ Crash
    \/ WarmUp

\* A coroutine that has committed goes on while its process lives. Nothing else
\* is fair: requests may never come and compose does not restart the server.
CacheSpec ==
    CacheInit /\ [][CacheNext]_all_vars /\ \A s \in Sessions : WF_all_vars(Notify(s))

-----------------------------------------------------------------------------
(* Properties *)

CacheTypeOK ==
    /\ TypeOK
    /\ cache \in [Flags -> Entry \union {None}]
    /\ owed \in [Sessions -> Notice \union {None}]
    /\ up \in BOOLEAN
    /\ aux_astray \subseteq Flags

Serves(f, e) == f \in Flags /\ cache[f] # None /\ cache[f].exp = e

\* Requests that changed a running experiment have all told the cache.
Quiet == up /\ \A s \in Sessions : owed[s] = None

\* No other experiment of e's flag has ever been running.
Alone(e) ==
    \A d \in Experiments \ {e} :
        row[d].flag = row[e].flag => row[d].state \notin PostReview \ {"accepted"}

\* e runs, alone on a flag where no save was stale and no notices crossed.
RunsOrderly(e) ==
    row[e].state = "started" /\ Alone(e) /\ row[e].flag \notin aux_astray

\* Subjects only ever get variants of experiments that a review accepted, across
\* crashes and warm-ups: the cache is filled from rows and from copies of rows.
ServedWasReviewed ==
    \A f \in Flags : cache[f] # None => cache[f].exp \in aux_accepted

\* Once the server's requests have told the cache, an experiment that is STARTED
\* is served as such, if no other one was ever running on its flag: a start, a
\* resumption and a warm-up all put it there and nothing takes it out, but for
\* the two races aux_astray names.
RunningIsServed ==
    Quiet => \A e \in Experiments :
        RunsOrderly(e) => cache[row[e].flag] = [exp |-> e, halted |-> FALSE]

\* Once the server's requests have told the cache, nothing FINISHED is served,
\* not even what the worker had paused without telling the server, but for the
\* two races aux_astray names.
FinishedIsNotServed ==
    Quiet => \A f \in Flags \ aux_astray :
        cache[f] # None => row[cache[f].exp].state \notin {"finished", "archived"}

\* What a warm-up loaded as security halted is still halted while it is cached:
\* subjects are held on its control variant, and no request can undo that unless
\* it saves a stale copy.
HaltedEntryIsHalted ==
    \A f \in Flags \ aux_astray :
        cache[f] # None /\ cache[f].halted =>
            row[cache[f].exp].state = "security_halted"

\* A start reaches the subjects, unless the experiment stops running, another
\* one runs on its flag, a race interferes, or the server dies.
StartReachesCache ==
    \A e \in Experiments :
        RunsOrderly(e) /\ up ~> Serves(row[e].flag, e) \/ ~RunsOrderly(e) \/ ~up

\* The end of an experiment reaches the subjects, unless a race interferes.
FinishReachesCache ==
    \A e \in Experiments :
        row[e].state = "finished" ~>
            \/ \A f \in Flags \ aux_astray : ~Serves(f, e)
            \/ row[e].state \notin {"finished", "archived"}

\* Starts and ends both reach the subjects, though the cache is told by a step of its own
\* after COMMIT (InstantNotifier).
ChangesReachCache == StartReachesCache /\ FinishReachesCache

-----------------------------------------------------------------------------
(* What the documents say and the code does not do *)

\* usecases/03:100: while an experiment is PAUSED, nobody gets its variants.
PausedIsNotServed ==
    Quiet => \A f \in Flags :
        cache[f] # None => row[cache[f].exp].state # "paused"
=============================================================================
