------------------------ MODULE DecisionCache_proofs ------------------------
(***************************************************************************)
(* Proofs about DecisionCache, for all values of its constants. Seen from  *)
(* the database, each of its steps is a step of ExperimentLifecycle, a     *)
(* stutter or a crash that ends the server's requests; the invariants of   *)
(* ExperimentLifecycle that a crash keeps hold here too, and carry the     *)
(* invariants of the cache.                                                *)
(***************************************************************************)
EXTENDS DecisionCache, ExperimentLifecycle_proofs

LEMMA DatabaseSteps ==
    ASSUME [CacheNext]_all_vars
    PROVE  [Next]_vars \/ Crash
<1>1. ASSUME NEW s \in Sessions, Step(s) PROVE [Next]_vars
  BY <1>1 DEF Step, Next
<1>2. ASSUME NEW s \in Sessions, CommitAndOwe(s) PROVE [Next]_vars
  BY <1>2 DEF CommitAndOwe, Next
<1>3. ASSUME OneStep PROVE [Next]_vars
  BY <1>3 DEF OneStep, Next
<1>4. ASSUME \/ \E s \in Sessions : Notify(s)
             \/ WarmUp
             \/ UNCHANGED all_vars
      PROVE  [Next]_vars
  BY <1>4 DEF Notify, WarmUp, all_vars
<1> QED BY <1>1, <1>2, <1>3, <1>4 DEF CacheNext

\* A crash ends some requests, with their locks, and leaves the rows alone.
LEMMA CrashKeeps ==
    ASSUME Inv, PastInv, Crash
    PROVE  Inv' /\ PastInv'
<1>1. TypeOK /\ RowsOK /\ RequestsOK
  BY DEF Inv
<1>2. /\ UNCHANGED <<row, approvals, decision, group, aux_accepted, aux_resurrected>>
      /\ sess' \in [Sessions -> Session]
      /\ \A s \in Sessions : sess'[s] = sess[s] \/ sess'[s] = Idle
  <2>1. Idle \in Session
    BY DEF Idle, Session, Row, NoRow, States
  <2> QED BY <1>1, <2>1 DEF Crash, TypeOK, aux_vars
<1>3. /\ rowLock' \in [Experiments -> Sessions \union {None}]
      /\ flagLock' \in [Flags -> Sessions \union {None}]
  BY <1>1 DEF Crash, TypeOK
<1>4. TypeOK'
  BY <1>1, <1>2, <1>3 DEF TypeOK
<1>5. RowsOK'
  BY <1>1, <1>2 DEF RowsOK
<1>6. \A s \in Sessions : Open(s)' => Open(s) /\ sess'[s] = sess[s]
  BY <1>2 DEF Open, Idle
<1>7. RequestsOK'
  <2> SUFFICES ASSUME NEW s \in Sessions
               PROVE  IF Open(s)' THEN WellFormed(sess'[s]) ELSE sess'[s] = Idle
    BY DEF RequestsOK, WellFormed
  <2>1. CASE sess'[s] = Idle
    BY <2>1 DEF Open, Idle
  <2>2. CASE sess'[s] = sess[s]
    BY <1>1, <2>2 DEF RequestsOK, Open
  <2> QED BY <1>2, <2>1, <2>2
<1>8. ReviewedBeforeRun' /\ ResultIffArchived'
  BY <1>2 DEF PastInv, ReviewedBeforeRun, ResultIffArchived
<1>9. CopiesReviewed' /\ CopiesResulted'
  BY <1>2, <1>6 DEF PastInv, CopiesReviewed, CopiesResulted, Reviewed, Resulted
<1> QED BY <1>4, <1>5, <1>7, <1>8, <1>9 DEF Inv, PastInv

-----------------------------------------------------------------------------

\* What is still owed to the cache concerns experiments that were accepted.
OwedWasReviewed ==
    \A s \in Sessions :
        owed[s] # None /\ owed[s].entry # None =>
            owed[s].entry.exp \in aux_accepted

\* The row an open request has read is there: rows are never deleted.
OpenRowsExist == \A s \in Sessions : Open(s) => row[sess[s].exp].state # "absent"

CacheInv ==
    /\ CacheTypeOK /\ Inv /\ PastInv /\ OpenRowsExist
    /\ ServedWasReviewed /\ OwedWasReviewed

LEMMA NextRowsExist ==
    ASSUME Inv, OpenRowsExist, [Next]_vars
    PROVE  OpenRowsExist'
<1> SUFFICES ASSUME NEW t \in Sessions, Open(t)'
             PROVE  row'[sess'[t].exp].state # "absent"
  BY DEF OpenRowsExist
<1>0. TypeOK /\ RequestsOK
  BY DEF Inv
<1>1. Open(t) => sess[t].exp \in Experiments /\ row[sess[t].exp].state # "absent"
  BY <1>0 DEF OpenRowsExist, RequestsOK, WellFormed
<1>2. ASSUME NEW s \in Sessions, NEW r \in Session, Opens(s, r)
      PROVE  row'[sess'[t].exp].state # "absent"
  <2>1. sess'[s] = r /\ (t # s => sess'[t] = sess[t])
    BY <1>0, <1>2 DEF Opens, TypeOK
  <2> QED BY <1>1, <1>2, <2>1 DEF Opens, WellFormed, Open
<1>3. ASSUME NEW s \in Sessions, NEW votes \in SUBSET Vote, Checks(s, votes)
      PROVE  row'[sess'[t].exp].state # "absent"
  BY <1>0, <1>1, <1>3, MarkCheckedTypes DEF Checks
<1>4. ASSUME NEW s \in Sessions, Close(s)
      PROVE  Open(t) /\ sess'[t] = sess[t]
  <2>1. ~Open(s)'
    BY <1>0, <1>4, CloseTypes DEF Open, Idle
  <2> QED BY <1>0, <1>4, <2>1, CloseTypes DEF Open
<1>5. ASSUME NEW s \in Sessions, NEW new \in Row, Saves(s, new)
      PROVE  row'[sess'[t].exp].state # "absent"
  <2>1. /\ Close(s) /\ row' = [row EXCEPT ![sess[s].exp] = new]
        /\ new.state # "absent"
    BY <1>5 DEF Saves, Save, MaySave
  <2> QED BY <1>0, <1>1, <1>4, <2>1 DEF TypeOK
<1>6. ASSUME NEW s \in Sessions, Abort(s)
      PROVE  row'[sess'[t].exp].state # "absent"
  BY <1>1, <1>4, <1>6 DEF Abort
<1>7. ASSUME NEW e \in Experiments, NEW f \in Flags, Create(e, f)
      PROVE  row'[sess'[t].exp].state # "absent"
  BY <1>0, <1>1, <1>7 DEF Create, NewRow, TypeOK, Open
<1>8. CASE RulesChange \/ UNCHANGED vars \/ \E s \in Sessions : RefuseGuard(s)
  BY <1>1, <1>8 DEF RulesChange, RefuseGuard, vars, Open
<1> QED BY <1>0, <1>2, <1>3, <1>5, <1>6, <1>7, <1>8, StepShapes DEF Inv

\* A notice is about the experiment and the flag of the copy that was saved; one
\* that puts the experiment into the cache follows a review.
LEMMA NoticeIsOfReviewed ==
    ASSUME Inv, PastInv, NEW s \in Sessions, Open(s),
           sess[s].op \in {"start", "manage"}
    PROVE  /\ NoticeOf(s) \in Notice
           /\ sess[s].exp \in aux_accepted
<1>1. WellFormed(sess[s])
  BY DEF Inv, RequestsOK
<1>2. sess[s].seen.state \in PostReview
  BY <1>1 DEF WellFormed, PostReview
<1>3. sess[s].exp \in aux_accepted
  BY <1>2 DEF PastInv, CopiesReviewed, Reviewed
<1>4. sess[s].seen \in Row
  BY DEF Inv, TypeOK, Session
<1>5. NoticeOf(s).flag = sess[s].seen.flag
  BY <1>4 DEF NoticeOf, Row
<1>6. NoticeOf(s) \in Notice
  BY <1>1, <1>4 DEF NoticeOf, Notice, Entry, CachedOf, WellFormed, Row
<1> QED BY <1>3, <1>6

LEMMA AcceptedStays ==
    ASSUME Inv, [Next]_vars
    PROVE  aux_accepted \subseteq aux_accepted'
<1>1. ASSUME NEW s \in Sessions, NEW new \in Row, Saves(s, new)
      PROVE  aux_accepted \subseteq aux_accepted'
  BY <1>1 DEF Saves
<1>2. UNCHANGED vars => aux_accepted' = aux_accepted
  BY DEF vars, aux_vars
<1> QED BY <1>1, <1>2, StepShapes DEF Opens, Checks, Abort, RefuseGuard, Create, RulesChange, aux_vars

LEMMA NextCache == CacheInv /\ [CacheNext]_all_vars => CacheInv'
<1> SUFFICES ASSUME CacheInv, [CacheNext]_all_vars PROVE CacheInv'
  OBVIOUS
<1>0. /\ CacheTypeOK /\ TypeOK /\ Inv /\ PastInv /\ OpenRowsExist
      /\ ServedWasReviewed /\ OwedWasReviewed
  BY DEF CacheInv, CacheTypeOK
<1>1. /\ Inv' /\ PastInv' /\ TypeOK' /\ OpenRowsExist'
      /\ aux_accepted \subseteq aux_accepted'
  <2>1. CASE [Next]_vars
    BY <1>0, <2>1, NextInv, NextPast, NextRowsExist, AcceptedStays DEF Inv
  <2>2. CASE Crash
    <3>1. Inv' /\ PastInv' /\ TypeOK'
      BY <1>0, <2>2, CrashKeeps DEF Inv
    <3>2. /\ row' = row /\ aux_accepted' = aux_accepted
          /\ \A s \in Sessions : sess'[s] = sess[s] \/ sess'[s] = Idle
      BY <1>0, <2>2 DEF Crash, TypeOK, aux_vars
    <3>3. OpenRowsExist'
      BY <1>0, <3>2 DEF OpenRowsExist, Open, Idle
    <3> QED BY <3>1, <3>2, <3>3
  <2> QED BY <2>1, <2>2, DatabaseSteps
<1> DEFINE Cached == /\ cache' \in [Flags -> Entry \union {None}]
                     /\ owed' \in [Sessions -> Notice \union {None}]
                     /\ up' \in BOOLEAN
                     /\ aux_astray' \subseteq Flags
           Goal == Cached /\ ServedWasReviewed' /\ OwedWasReviewed'
<1>2. SUFFICES Goal
  BY <1>1 DEF CacheInv, CacheTypeOK
<1>3. /\ cache \in [Flags -> Entry \union {None}]
      /\ owed \in [Sessions -> Notice \union {None}]
      /\ up \in BOOLEAN /\ aux_astray \subseteq Flags
  BY <1>0 DEF CacheTypeOK
<1>4. CASE UNCHANGED cache_vars
  BY <1>0, <1>1, <1>3, <1>4 DEF cache_vars, ServedWasReviewed, OwedWasReviewed
<1>5. ASSUME NEW s \in Sessions, CommitAndOwe(s) PROVE Goal
  <2>1. PICK new \in Row : Saves(s, new)
    BY <1>0, <1>5, CommitSaves DEF CommitAndOwe, Inv
  <2>2. Open(s) /\ WellFormed(sess[s])
    BY <1>0, <2>1 DEF Saves, Inv, RequestsOK
  <2>3. owed' \in [Sessions -> Notice \union {None}]
    BY <1>0, <1>3, <1>5, <2>2, NoticeIsOfReviewed DEF CommitAndOwe
  <2>4. aux_astray' \subseteq Flags
    <3>1. FlagsOfStale(s) \subseteq Flags
      <4>1. row[sess[s].exp].flag \in Flags
        BY <1>0, <2>2 DEF Inv, RowsOK, OpenRowsExist, WellFormed
      <4>2. sess[s].seen.flag \in Flags
        BY <2>2 DEF WellFormed
      <4> QED BY <4>1, <4>2 DEF FlagsOfStale
    <3>2. Crossed(owed') \subseteq Flags
      BY DEF Crossed
    <3> QED BY <1>3, <1>5, <3>1, <3>2 DEF CommitAndOwe
  <2>5. ServedWasReviewed'
    BY <1>0, <1>1, <1>5 DEF CommitAndOwe, ServedWasReviewed
  <2>6. \A t \in Sessions \ {s} : owed'[t] = owed[t]
    BY <1>3, <1>5 DEF CommitAndOwe
  <2>7. CASE sess[s].op \in {"start", "manage"}
    <3>1. owed'[s] = NoticeOf(s)
      BY <1>3, <1>5, <2>7 DEF CommitAndOwe
    <3>2. NoticeOf(s).entry # None => NoticeOf(s).entry.exp = sess[s].exp
      BY DEF NoticeOf, CachedOf
    <3>3. sess[s].exp \in aux_accepted
      BY <1>0, <2>2, <2>7, NoticeIsOfReviewed
    <3>4. OwedWasReviewed'
      BY <1>0, <1>1, <2>6, <3>1, <3>2, <3>3 DEF OwedWasReviewed
    <3> QED BY <1>3, <1>5, <2>3, <2>4, <2>5, <3>4 DEF CommitAndOwe
  <2>8. CASE sess[s].op \notin {"start", "manage"}
    <3>1. OwedWasReviewed'
      BY <1>0, <1>1, <1>5, <2>8 DEF CommitAndOwe, OwedWasReviewed
    <3> QED BY <1>3, <1>5, <2>3, <2>4, <2>5, <3>1 DEF CommitAndOwe
  <2> QED BY <2>7, <2>8
<1>6. ASSUME NEW s \in Sessions, Notify(s) PROVE Goal
  <2>1. owed[s] \in Notice
    BY <1>3, <1>6 DEF Notify
  <2>2. Cached
    BY <1>3, <1>6, <2>1 DEF Notify, Notice
  <2>3. \A t \in Sessions : owed'[t] = None \/ owed'[t] = owed[t]
    BY <1>3, <1>6 DEF Notify
  <2>4. OwedWasReviewed'
    BY <1>0, <1>1, <2>3 DEF OwedWasReviewed
  <2>5. \A f \in Flags : cache'[f] = owed[s].entry \/ cache'[f] = cache[f]
    BY <1>3, <1>6 DEF Notify
  <2>6. ServedWasReviewed'
    BY <1>0, <1>1, <1>6, <2>5 DEF ServedWasReviewed, OwedWasReviewed, Notify
  <2> QED BY <2>2, <2>4, <2>6
<1>7. ASSUME Crash PROVE Goal
  <2>1. /\ cache' = [f \in Flags |-> None]
        /\ owed' = [s \in Sessions |-> None]
        /\ up' = FALSE /\ aux_astray' = aux_astray
    BY <1>7 DEF Crash
  <2> QED BY <1>3, <2>1 DEF ServedWasReviewed, OwedWasReviewed
<1>8. ASSUME WarmUp PROVE Goal
  <2>1. /\ cache' \in [Flags -> Entry \union {None}]
        /\ \A f \in Flags : cache'[f] = None \/ cache'[f] \in Loaded(f)
    BY <1>8 DEF WarmUp
  <2>2. Cached /\ owed' = owed
    BY <1>3, <1>8, <2>1 DEF WarmUp
  <2>3. \A f \in Flags : \A c \in Loaded(f) : c.exp \in aux_accepted
    BY <1>0 DEF Loaded, CachedOf, PastInv, ReviewedBeforeRun, PostReview
  <2>4. ServedWasReviewed'
    BY <1>1, <2>1, <2>3 DEF ServedWasReviewed
  <2>5. OwedWasReviewed'
    BY <1>0, <1>1, <2>2 DEF OwedWasReviewed
  <2> QED BY <2>2, <2>4, <2>5
<1> QED
  BY <1>4, <1>5, <1>6, <1>7, <1>8
     DEF CacheNext, Step, OneStep, all_vars, cache_vars

LEMMA CacheAlways == CacheSpec => []CacheInv
<1>1. CacheInit => Inv /\ PastInv
  BY InitInv
     DEF CacheInit, Init, PastInv, ReviewedBeforeRun, ResultIffArchived, CopiesReviewed,
         CopiesResulted, NoRow, PostReview, Open, Idle
<1>2. CacheInit => CacheTypeOK /\ OpenRowsExist /\ ServedWasReviewed /\ OwedWasReviewed
  BY <1>1 DEF CacheInit, Init, Inv, CacheTypeOK, OpenRowsExist, Open, Idle,
              ServedWasReviewed, OwedWasReviewed
<1> QED BY <1>1, <1>2, NextCache, PTL DEF CacheSpec, CacheInv

\* Every variable of the cache and of the database keeps its type.
THEOREM CacheTypeCorrect == CacheSpec => []CacheTypeOK
<1>1. CacheInv => CacheTypeOK
  BY DEF CacheInv
<1> QED BY <1>1, CacheAlways, PTL

\* Whatever crashes, races and warm-ups do to the cache, decisions are never made
\* from an experiment that no review accepted: notices carry copies of accepted
\* rows and a warm-up loads rows that ran.
THEOREM OnlyReviewedIsServed == CacheSpec => []ServedWasReviewed
<1>1. CacheInv => ServedWasReviewed
  BY DEF CacheInv
<1> QED BY <1>1, CacheAlways, PTL
-----------------------------------------------------------------------------
(* What the cache holds once it is told. A notice that is due counts as    *)
(* told already: what a flag is due outlives the moment between COMMIT and *)
(* the notifier's call, so it is what a commit preserves.                  *)

Owes(s, f) == owed[s] # None /\ owed[s].flag = f

\* What the flag will have when all notices are told.
Due(f, x) ==
    IF \E s \in Sessions : Owes(s, f)
    THEN \E s \in Sessions : Owes(s, f) /\ owed[s].entry = x
    ELSE cache[f] = x

RunningStates == {"started", "paused", "security_halted"}
Halted(f) == cache[f] # None /\ cache[f].halted

\* Who runs where: a dead server has no requests, no cache and nothing to tell it; only
\* the guard's requests are the worker's; a request that owes a notice has ended.
ProcessInv ==
    /\ ~up => /\ \A f \in Flags : cache[f] = None
              /\ \A s \in Sessions : owed[s] = None
    /\ \A s \in Sessions :
          Open(s) => /\ owed[s] = None
                     /\ sess[s].op = "guard" <=> s \in WorkerSessions
                     /\ up \/ s \in WorkerSessions
    /\ \A s \in Sessions : owed[s] # None /\ owed[s].entry # None => ~owed[s].entry.halted
    /\ Crossed(owed) \subseteq aux_astray

RunningIsDue ==
    up => \A e \in Experiments :
        RunsOrderly(e) => Due(row[e].flag, [exp |-> e, halted |-> FALSE])

\* What a flag is due runs, or did so last, on that flag: its end is told on it as well.
DueIsRunning ==
    up => \A f \in Flags \ aux_astray, x \in Entry \union {None} :
        x # None /\ Due(f, x) => row[x.exp].flag = f /\ row[x.exp].state \in RunningStates

HaltedIsOnFlag ==
    \A f \in Flags \ aux_astray : Halted(f) =>
        row[cache[f].exp].flag = f /\ row[cache[f].exp].state = "security_halted"

ViewInv == CacheInv /\ ProcessInv /\ RunningIsDue /\ DueIsRunning /\ HaltedIsOnFlag

\* What a commit saves, of the parts that the cache depends on: a running experiment is
\* finished by ManageRunningExperiment only, which tells the cache of it.
LEMMA CommittedRow ==
    ASSUME Inv, NEW s \in Sessions, Commit(s)
    PROVE  LET e == sess[s].exp  seen == sess[s].seen  new == row'[sess[s].exp] IN
           /\ Open(s) /\ WellFormed(sess[s]) /\ e \in Experiments
           /\ row' = [row EXCEPT ![e] = new]
           /\ MaySave(s, new)
           /\ new.state = "finished" /\ seen.state # "finished" => sess[s].op = "manage"
           /\ sess[s].op = "start" => new.state = "started" /\ new.flag = seen.flag
           /\ sess[s].op = "manage" => new.state = sess[s].arg /\ new.flag = seen.flag
           /\ sess' = [sess EXCEPT ![s] = Idle]
<1> DEFINE e == sess[s].exp
           seen == sess[s].seen
<1>1. TypeOK /\ RequestsOK
  BY DEF Inv
<1>2. PICK new \in Row : Saves(s, new)
  BY <1>1, CommitSaves
<1>3. /\ Open(s) /\ WellFormed(sess[s]) /\ e \in Experiments
      /\ seen \in Row /\ row \in [Experiments -> Row]
  BY <1>1, <1>2 DEF Saves, RequestsOK, WellFormed, TypeOK, Session
<1>4. /\ row' = [row EXCEPT ![e] = new] /\ row'[e] = new
      /\ MaySave(s, new) /\ sess' = [sess EXCEPT ![s] = Idle]
  BY <1>2, <1>3 DEF Saves, Save, Close, Release
<1>5. ASSUME NEW other, Save(s, other) PROVE new = other
  BY <1>3, <1>4, <1>5 DEF Save
<1>6. \/ /\ new.state # "finished" \/ seen.state = "finished"
         /\ sess[s].op \notin {"start", "manage"}
      \/ sess[s].op = "start" /\ new = [seen EXCEPT !.state = "started"]
      \/ sess[s].op = "manage" /\ new = [seen EXCEPT !.state = sess[s].arg]
  <2>1. CASE CommitUpdate(s)
    BY <1>3, <1>5, <2>1 DEF CommitUpdate, SaveRowOnly, Ready, Row
  <2>2. CASE CommitSend(s) \/ CommitRestore(s) \/ CommitReject(s)
    BY <1>3, <1>5, <2>2 DEF CommitSend, CommitRestore, CommitReject, SaveRowOnly, Ready, Row
  <2>3. CASE CommitApprove(s)
    <3>1. seen.state = "in_review" /\ sess[s].op = "approve"
      BY <1>3, <2>3 DEF CommitApprove, Ready, WellFormed
    <3>2. new = [seen EXCEPT !.state = "accepted"] \/ new = seen
      BY <1>5, <2>3 DEF CommitApprove
    <3> QED BY <1>3, <3>1, <3>2 DEF Row
  <2>4. CASE CommitStart(s) \/ CommitManage(s)
    BY <1>5, <2>4 DEF CommitStart, CommitManage, SaveRowOnly, Ready
  <2>5. CASE CommitArchive(s)
    BY <1>3, <1>5, <2>5 DEF CommitArchive, SaveRowOnly, Ready, Row
  <2>6. CASE CommitGuard(s)
    <3>1. sess[s].op = "guard" /\ sess[s].arg \in GuardTargets
      BY <1>3, <2>6 DEF CommitGuard, Ready, WellFormed
    <3>2. new = [seen EXCEPT !.state = sess[s].arg]
      BY <1>5, <2>6 DEF CommitGuard, SaveRowOnly
    <3> QED BY <1>3, <3>1, <3>2 DEF Row, GuardTargets
  <2> QED BY <2>1, <2>2, <2>3, <2>4, <2>5, <2>6 DEF Commit
<1> QED BY <1>3, <1>4, <1>6 DEF Row

\* A commit changes what is due on the flag of its notice, if it owes one.
LEMMA CommitDue ==
    ASSUME CacheInv, ProcessInv, NEW s \in Sessions, CommitAndOwe(s),
           NEW f \in Flags, f \notin aux_astray', NEW x
    PROVE  IF sess[s].op \in {"start", "manage"} /\ sess[s].seen.flag = f
           THEN Due(f, x)' <=> x = NoticeOf(s).entry
           ELSE Due(f, x)' <=> Due(f, x)
<1>1. Inv /\ TypeOK /\ owed \in [Sessions -> Notice \union {None}]
  BY DEF CacheInv, CacheTypeOK
<1>2. Open(s) /\ owed[s] = None /\ sess[s].seen \in Row
  BY <1>1, CommittedRow DEF CommitAndOwe, ProcessInv, TypeOK, Session
<1>3. cache' = cache /\ \A t \in Sessions \ {s} : owed'[t] = owed[t]
  BY <1>1 DEF CommitAndOwe
<1>4. aux_astray \subseteq aux_astray' /\ Crossed(owed') \subseteq aux_astray'
  BY DEF CommitAndOwe
<1>5. CASE sess[s].op \in {"start", "manage"}
  <2>1. owed'[s] = NoticeOf(s) /\ NoticeOf(s) \in Notice
    BY <1>1, <1>2, <1>5, NoticeIsOfReviewed DEF CommitAndOwe, CacheInv
  <2>2. NoticeOf(s).flag = sess[s].seen.flag
    BY <1>2 DEF NoticeOf, Row
  <2>3. CASE sess[s].seen.flag # f
    <3>1. \A t \in Sessions : Owes(t, f)' <=> Owes(t, f)
      BY <1>2, <1>3, <2>1, <2>2, <2>3 DEF Owes
    <3>2. \A t \in Sessions : Owes(t, f) => t # s
      BY <1>2 DEF Owes
    <3> QED BY <1>3, <1>5, <2>3, <3>1, <3>2 DEF Due
  <2>4. CASE sess[s].seen.flag = f
    <3>1. Owes(s, f)'
      BY <2>1, <2>2, <2>4, NoneIsNoEntry DEF Owes
    <3>2. \A t \in Sessions : Owes(t, f)' => t = s
      BY <1>4, <3>1 DEF Owes, Crossed
    <3>3. Due(f, x)' <=> owed'[s].entry = x
      BY <3>1, <3>2 DEF Due
    <3> QED BY <1>5, <2>1, <2>4, <3>3
  <2> QED BY <2>3, <2>4
<1>6. CASE sess[s].op \notin {"start", "manage"}
  <2>1. owed' = owed
    BY <1>6 DEF CommitAndOwe
  <2> QED BY <1>3, <1>6, <2>1 DEF Due, Owes
<1> QED BY <1>5, <1>6

\* The copy of a commit is the row, unless the flags of both are astray from now on.
LEMMA CopyIsRow ==
    ASSUME NEW s \in Sessions, CommitAndOwe(s), NEW f \in Flags, f \notin aux_astray',
           f = sess[s].seen.flag \/ f = row[sess[s].exp].flag
    PROVE  sess[s].seen = row[sess[s].exp]
  BY DEF CommitAndOwe, FlagsOfStale, Stale

\* What has run keeps its flag, and stays among the states that a run leads to.
LEMMA RunGoesOn ==
    ASSUME NEW s, NEW new, MaySave(s, new),
           sess[s].seen.state \in PostReview \ {"accepted"}
    PROVE  new.flag = sess[s].seen.flag /\ new.state \in PostReview \ {"accepted"}
  BY DEF MaySave, PostReview, ValidTransitions

\* A commit keeps what ProcessInv says: the notice it owes is its request's last act.
LEMMA CommitKeepsProcess ==
    ASSUME CacheInv, ProcessInv, NEW s \in Sessions, CommitAndOwe(s)
    PROVE  ProcessInv'
<1>1. Inv /\ TypeOK /\ PastInv /\ owed \in [Sessions -> Notice \union {None}]
  BY DEF CacheInv, CacheTypeOK
<1>2. /\ Open(s) /\ WellFormed(sess[s]) /\ sess' = [sess EXCEPT ![s] = Idle]
      /\ sess[s].seen \in Row
  BY <1>1, CommittedRow DEF CommitAndOwe, TypeOK, Session
<1>3. cache' = cache /\ up' = up /\ Crossed(owed') \subseteq aux_astray'
  BY DEF CommitAndOwe
<1>4. ~Open(s)' /\ \A t \in Sessions \ {s} : sess'[t] = sess[t] /\ owed'[t] = owed[t]
  BY <1>1, <1>2 DEF CommitAndOwe, TypeOK, Open, Idle
<1>5. owed'[s] = None \/ owed'[s] = NoticeOf(s)
  BY <1>1, <1>2 DEF CommitAndOwe, ProcessInv
<1>6. NoticeOf(s).entry # None => ~NoticeOf(s).entry.halted
  BY <1>2 DEF NoticeOf, CachedOf, Row
<1>7. ~up => owed' = owed
  BY <1>1, <1>2 DEF CommitAndOwe, ProcessInv
<1>8. \A t \in Sessions : Open(t)' => Open(t) /\ t # s
  BY <1>4 DEF Open
<1> QED BY <1>3, <1>4, <1>5, <1>6, <1>7, <1>8 DEF ProcessInv

\* Whatever a commit saves, a running experiment that is alone on an orderly flag is what
\* the flag is due.
LEMMA CommitKeepsRunning ==
    ASSUME CacheInv, ProcessInv, RunningIsDue, NEW s \in Sessions, CommitAndOwe(s)
    PROVE  RunningIsDue'
<1> DEFINE e == sess[s].exp
           seen == sess[s].seen
           new == row'[e]
<1>1. Inv /\ TypeOK /\ row \in [Experiments -> Row]
  BY DEF CacheInv, CacheTypeOK, TypeOK
<1>2. /\ WellFormed(sess[s]) /\ e \in Experiments
      /\ row' = [row EXCEPT ![e] = new] /\ MaySave(s, new)
      /\ sess[s].op = "start" => new.state = "started" /\ new.flag = seen.flag
      /\ sess[s].op = "manage" => new.state = sess[s].arg /\ new.flag = seen.flag
  BY <1>1, CommittedRow DEF CommitAndOwe
<1>3. up' = up /\ aux_astray \subseteq aux_astray'
  BY DEF CommitAndOwe
<1> SUFFICES ASSUME up, NEW d \in Experiments, RunsOrderly(d)',
                    NEW g, g = row'[d].flag
             PROVE  Due(g, [exp |-> d, halted |-> FALSE])'
  BY <1>3 DEF RunningIsDue, Due, Owes
<1> DEFINE entry == [exp |-> d, halted |-> FALSE]
<1>4. /\ row'[d].state = "started" /\ g \notin aux_astray'
      /\ \A c \in Experiments \ {d} :
            row'[c].flag = g => row'[c].state \notin PostReview \ {"accepted"}
  BY DEF RunsOrderly, Alone
<1>5. g \in Flags
  <2>1. Inv'
    BY NextCache DEF CacheInv, CacheNext
  <2> QED BY <1>4, <2>1 DEF Inv, RowsOK
<1>6. \A c \in Experiments \ {e} : row'[c] = row[c]
  BY <1>1, <1>2
<1>7. sess[s].op \in {"start", "manage"} => new.state \in PostReview \ {"accepted"}
  BY <1>2 DEF WellFormed, CanSetState, ValidTransitions, PostReview
<1>8. CASE d # e
  <2>1. ~(row[e].flag = g /\ row[e].state \in PostReview \ {"accepted"})
    <3> SUFFICES ASSUME row[e].flag = g, row[e].state \in PostReview \ {"accepted"}
                 PROVE  FALSE
      OBVIOUS
    <3>1. seen = row[e]
      BY <1>4, <1>5, CopyIsRow
    <3>2. new.flag = g /\ new.state \in PostReview \ {"accepted"}
      BY <1>2, <3>1, RunGoesOn
    <3> QED BY <1>2, <1>4, <1>8, <3>2
  <2>2. RunsOrderly(d)
    BY <1>3, <1>4, <1>6, <1>8, <2>1 DEF RunsOrderly, Alone
  <2>3. Due(g, entry)
    BY <1>6, <1>8, <2>2 DEF RunningIsDue
  <2>4. ~(sess[s].op \in {"start", "manage"} /\ seen.flag = g)
    BY <1>2, <1>4, <1>7, <1>8
  <2> QED BY <1>4, <1>5, <2>3, <2>4, CommitDue
<1>9. CASE d = e
  <2>1. CASE sess[s].op = "update" /\ g = seen.flag /\ seen.state = "started"
    <3>1. seen = row[e]
      BY <1>4, <1>5, <2>1, CopyIsRow
    <3>2. RunsOrderly(e) /\ row[e].flag = g
      BY <1>3, <1>4, <1>6, <1>9, <2>1, <3>1 DEF RunsOrderly, Alone
    <3>3. Due(g, entry)
      BY <1>9, <3>2 DEF RunningIsDue
    <3> QED BY <1>4, <1>5, <2>1, <3>3, CommitDue
  <2>2. CASE TakesFlag(s) /\ g = seen.flag
    <3>1. NoticeOf(s).entry = entry
      <4>1. [seen EXCEPT !.state = "started"].state = "started"
        BY <1>1, <1>2 DEF TypeOK, Session, Row
      <4> QED BY <1>9, <2>2, <4>1 DEF NoticeOf, CachedOf
    <3>2. sess[s].op \in {"start", "manage"}
      BY <2>2 DEF TakesFlag
    <3> QED BY <1>4, <1>5, <2>2, <3>1, <3>2, CommitDue
  <2> QED BY <1>2, <1>4, <1>9, <2>1, <2>2 DEF MaySave
<1> QED BY <1>8, <1>9

\* Whatever a commit saves, what an orderly flag is due runs on it: an end is told on the
\* flag of the experiment that ends.
LEMMA CommitKeepsDue ==
    ASSUME CacheInv, ProcessInv, DueIsRunning, NEW s \in Sessions, CommitAndOwe(s)
    PROVE  DueIsRunning'
<1> DEFINE e == sess[s].exp
           seen == sess[s].seen
           new == row'[e]
<1>1. Inv /\ TypeOK /\ row \in [Experiments -> Row]
  BY DEF CacheInv, CacheTypeOK, TypeOK
<1>2. /\ WellFormed(sess[s]) /\ e \in Experiments
      /\ row' = [row EXCEPT ![e] = new] /\ MaySave(s, new)
      /\ new.state = "finished" /\ seen.state # "finished" => sess[s].op = "manage"
      /\ sess[s].op = "start" => new.state = "started" /\ new.flag = seen.flag
      /\ sess[s].op = "manage" => new.state = sess[s].arg /\ new.flag = seen.flag
  BY <1>1, CommittedRow DEF CommitAndOwe
<1>3. up' = up /\ aux_astray \subseteq aux_astray'
  BY DEF CommitAndOwe
<1> SUFFICES ASSUME up, NEW f \in Flags, f \notin aux_astray', NEW x \in Entry, x # None,
                    Due(f, x)'
             PROVE  row'[x.exp].flag = f /\ row'[x.exp].state \in RunningStates
  BY <1>3 DEF DueIsRunning
<1>4. CASE sess[s].op \in {"start", "manage"} /\ seen.flag = f
  <2>1. x = NoticeOf(s).entry
    BY <1>4, CommitDue
  <2>2. TakesFlag(s) /\ x.exp = e
    BY <2>1 DEF NoticeOf, CachedOf
  <2> QED BY <1>2, <1>4, <2>2 DEF TakesFlag, RunningStates
<1>5. CASE ~(sess[s].op \in {"start", "manage"} /\ seen.flag = f)
  <2>1. Due(f, x)
    BY <1>5, CommitDue
  <2>2. row[x.exp].flag = f /\ row[x.exp].state \in RunningStates
    BY <1>3, <2>1 DEF DueIsRunning
  <2>3. CASE x.exp = e
    <3>1. seen = row[e]
      BY <2>2, <2>3, CopyIsRow
    <3>2. new.flag = f /\ new.state # "finished"
      BY <1>2, <1>5, <2>2, <2>3, <3>1, RunGoesOn DEF RunningStates, PostReview
    <3>3. new.state \in RunningStates
      BY <1>2, <2>2, <2>3, <3>1, <3>2 DEF MaySave, RunningStates, ValidTransitions
    <3> QED BY <2>3, <3>2, <3>3
  <2> QED BY <1>1, <1>2, <2>2, <2>3 DEF Entry
<1> QED BY <1>4, <1>5

\* No request ends a security halt but a stale one: ManageRunningExperiment refuses it.
LEMMA CommitKeepsHalted ==
    ASSUME CacheInv, HaltedIsOnFlag, NEW s \in Sessions, CommitAndOwe(s)
    PROVE  HaltedIsOnFlag'
<1> DEFINE e == sess[s].exp
           seen == sess[s].seen
           new == row'[e]
<1>1. Inv /\ TypeOK /\ row \in [Experiments -> Row] /\ cache \in [Flags -> Entry \union {None}]
  BY DEF CacheInv, CacheTypeOK, TypeOK
<1>2. /\ WellFormed(sess[s]) /\ e \in Experiments
      /\ row' = [row EXCEPT ![e] = new] /\ MaySave(s, new)
      /\ new.state = "finished" /\ seen.state # "finished" => sess[s].op = "manage"
  BY <1>1, CommittedRow DEF CommitAndOwe
<1> SUFFICES ASSUME NEW f \in Flags, f \notin aux_astray', Halted(f)
             PROVE  /\ row'[cache[f].exp].flag = f
                    /\ row'[cache[f].exp].state = "security_halted"
  BY DEF HaltedIsOnFlag, Halted, CommitAndOwe
<1>3. row[cache[f].exp].flag = f /\ row[cache[f].exp].state = "security_halted"
  BY DEF HaltedIsOnFlag, CommitAndOwe
<1>4. CASE cache[f].exp = e
  <2>1. seen = row[e]
    BY <1>3, <1>4, CopyIsRow
  <2>2. new.flag = f /\ new.state \in {"security_halted", "finished"}
    BY <1>2, <1>3, <1>4, <2>1 DEF MaySave, ValidTransitions
  <2>3. sess[s].op # "manage"
    BY <1>2, <1>3, <1>4, <2>1 DEF WellFormed
  <2> QED BY <1>2, <1>3, <1>4, <2>1, <2>2, <2>3
<1> QED BY <1>1, <1>2, <1>3, <1>4 DEF Halted, Entry

\* What a flag is due depends on the cache and on the notices only.
LEMMA SameView ==
    ASSUME RunningIsDue, DueIsRunning, HaltedIsOnFlag, UNCHANGED <<row, cache_vars>>
    PROVE  RunningIsDue' /\ DueIsRunning' /\ HaltedIsOnFlag'
  BY DEF RunningIsDue, DueIsRunning, HaltedIsOnFlag, RunsOrderly, Alone, Due, Owes, Halted,
         cache_vars

\* A step before the COMMIT: the rows stay, and a request that opens is of its process.
LEMMA StepKeepsView ==
    ASSUME ViewInv, NEW s \in Sessions, Step(s)
    PROVE  ProcessInv' /\ RunningIsDue' /\ DueIsRunning' /\ HaltedIsOnFlag'
<1>1. Inv /\ TypeOK /\ RowsOK /\ RequestsOK
  BY DEF ViewInv, CacheInv, Inv
<1>2. UNCHANGED cache_vars /\ owed[s] = None /\ (s \in WorkerSessions \/ up)
  BY DEF Step
<1>3. /\ row' = row
      /\ \A t \in Sessions :
            Open(t)' => \/ t = s /\ (sess'[s].op = "guard" <=> s \in WorkerSessions)
                        \/ Open(t) /\ sess'[t].op = sess[t].op
  <2>1. CASE Begin(s) /\ (sess'[s].op = "guard" <=> s \in WorkerSessions)
    <3>1. PICK r \in Session : Opens(s, r)
      BY <1>1, <2>1, BeginOpens
    <3> QED BY <1>1, <2>1, <3>1 DEF Opens, TypeOK, Open
  <2>2. CASE Check(s)
    <3>1. PICK votes \in SUBSET Vote : Checks(s, votes)
      BY <1>1, <2>2, CheckChecks
    <3> QED BY <1>1, <3>1, MarkCheckedTypes DEF Checks
  <2>3. CASE Abort(s)
    BY <1>1, <2>3, CloseTypes DEF Abort, Open, Idle
  <2>4. CASE RefuseGuard(s)
    BY <2>4 DEF RefuseGuard, Open
  <2> QED BY <2>1, <2>2, <2>3, <2>4 DEF Step
<1>4. ProcessInv'
  BY <1>2, <1>3 DEF ViewInv, ProcessInv, cache_vars, Crossed
<1> QED BY <1>2, <1>3, <1>4, SameView DEF ViewInv

\* A draft and new review rules concern no running experiment.
LEMMA OneStepKeepsView ==
    ASSUME ViewInv, OneStep
    PROVE  ProcessInv' /\ RunningIsDue' /\ DueIsRunning' /\ HaltedIsOnFlag'
<1>1. UNCHANGED <<sess, cache_vars>>
  BY DEF OneStep, Create, SetReviewRules
<1>2. ProcessInv'
  BY <1>1 DEF ViewInv, ProcessInv, cache_vars, Crossed, Open
<1>3. CASE row' = row
  BY <1>1, <1>2, <1>3, SameView DEF ViewInv
<1>4. ASSUME NEW e \in Experiments, NEW f \in Flags, Create(e, f)
      PROVE  RunningIsDue' /\ DueIsRunning' /\ HaltedIsOnFlag'
  <2>1. row \in [Experiments -> Row]
    BY DEF ViewInv, CacheInv, CacheTypeOK, TypeOK
  <2>2. /\ row[e].state = "absent" /\ row'[e].state = "draft"
        /\ \A d \in Experiments \ {e} : row'[d] = row[d]
    BY <1>4, <2>1 DEF Create, NewRow
  <2>3. \A d \in Experiments : RunsOrderly(d)' => RunsOrderly(d) /\ d # e
    BY <1>1, <2>2 DEF RunsOrderly, Alone, PostReview, cache_vars
  <2>4. RunningIsDue'
    <3> SUFFICES ASSUME up, NEW d \in Experiments, RunsOrderly(d)'
                 PROVE  Due(row[d].flag, [exp |-> d, halted |-> FALSE])'
      BY <1>1 DEF RunningIsDue, cache_vars
    <3>1. RunsOrderly(d) /\ row'[d] = row[d]
      BY <2>2, <2>3
    <3>2. Due(row[d].flag, [exp |-> d, halted |-> FALSE])
      BY <3>1 DEF ViewInv, RunningIsDue
    <3> QED BY <1>1, <3>1, <3>2 DEF Due, Owes, cache_vars
  <2>5. DueIsRunning'
    BY <1>1, <2>2 DEF ViewInv, DueIsRunning, Due, Owes, cache_vars, Entry, RunningStates
  <2>6. HaltedIsOnFlag'
    <3>1. cache \in [Flags -> Entry \union {None}]
      BY DEF ViewInv, CacheInv, CacheTypeOK
    <3> QED BY <1>1, <2>2, <3>1 DEF ViewInv, HaltedIsOnFlag, Halted, cache_vars, Entry
  <2> QED BY <2>4, <2>5, <2>6
<1>5. row' = row \/ \E e \in Experiments, f \in Flags : Create(e, f)
  BY DEF OneStep, SetReviewRules
<1> QED BY <1>2, <1>3, <1>4, <1>5

\* A notice that is told was what its flag is due, and no other is due there.
LEMMA NotifyKeepsView ==
    ASSUME ViewInv, NEW s \in Sessions, Notify(s)
    PROVE  ProcessInv' /\ RunningIsDue' /\ DueIsRunning' /\ HaltedIsOnFlag'
<1>1. /\ cache \in [Flags -> Entry \union {None}]
      /\ owed \in [Sessions -> Notice \union {None}]
      /\ Inv /\ RowsOK
  BY DEF ViewInv, CacheInv, CacheTypeOK, Inv
<1>2. owed[s] \in Notice /\ owed[s] # None /\ owed[s].flag \in Flags
  BY <1>1 DEF Notify, Notice
<1>3. /\ cache' = [cache EXCEPT ![owed[s].flag] = owed[s].entry]
      /\ owed' = [owed EXCEPT ![s] = None]
      /\ UNCHANGED <<row, sess, up, aux_astray>>
  BY DEF Notify, vars
<1>4. /\ owed'[s] = None /\ \A t \in Sessions \ {s} : owed'[t] = owed[t]
      /\ up
  BY <1>1, <1>2, <1>3 DEF ViewInv, ProcessInv
<1>5. Crossed(owed') \subseteq Crossed(owed) /\ Crossed(owed) \subseteq aux_astray
  BY <1>4 DEF ViewInv, ProcessInv, Crossed
<1>6. ProcessInv'
  BY <1>3, <1>4, <1>5 DEF ViewInv, ProcessInv, Open
<1>7. ASSUME NEW f \in Flags, f \notin aux_astray, NEW x
      PROVE  Due(f, x)' <=> Due(f, x)
  <2>1. CASE owed[s].flag # f
    <3>1. \A t \in Sessions : Owes(t, f)' <=> Owes(t, f)
      BY <1>2, <1>4, <2>1 DEF Owes
    <3>2. \A t \in Sessions : Owes(t, f) => t # s
      BY <2>1 DEF Owes
    <3>3. cache'[f] = cache[f]
      BY <1>1, <1>3, <2>1
    <3> QED BY <1>4, <3>1, <3>2, <3>3 DEF Due
  <2>2. CASE owed[s].flag = f
    <3>1. Owes(s, f) /\ \A t \in Sessions : Owes(t, f) => t = s
      BY <1>2, <1>5, <1>7, <2>2 DEF Owes, Crossed
    <3>2. \A t \in Sessions : ~Owes(t, f)'
      BY <1>4, <3>1 DEF Owes
    <3>3. cache'[f] = owed[s].entry
      BY <1>1, <1>3, <2>2
    <3> QED BY <3>1, <3>2, <3>3 DEF Due
  <2> QED BY <2>1, <2>2
<1>8. RunningIsDue'
  <2> SUFFICES ASSUME NEW d \in Experiments, RunsOrderly(d)', NEW g, g = row'[d].flag
               PROVE  Due(g, [exp |-> d, halted |-> FALSE])'
    BY DEF RunningIsDue, Due, Owes
  <2>1. RunsOrderly(d) /\ row[d].flag = g
    BY <1>3 DEF RunsOrderly, Alone
  <2>2. g \in Flags \ aux_astray
    BY <1>1, <2>1 DEF RunsOrderly, RowsOK
  <2>3. Due(g, [exp |-> d, halted |-> FALSE])
    BY <1>4, <2>1 DEF ViewInv, RunningIsDue
  <2> QED BY <1>7, <2>2, <2>3
<1>9. DueIsRunning'
  <2> SUFFICES ASSUME NEW f \in Flags, f \notin aux_astray, NEW x \in Entry, x # None,
                      Due(f, x)'
               PROVE  row[x.exp].flag = f /\ row[x.exp].state \in RunningStates
    BY <1>3 DEF DueIsRunning
  <2> QED BY <1>4, <1>7 DEF ViewInv, DueIsRunning
<1>10. HaltedIsOnFlag'
  <2>1. \A f \in Flags : Halted(f)' => Halted(f) /\ cache'[f] = cache[f]
    BY <1>1, <1>2, <1>3 DEF ViewInv, ProcessInv, Halted
  <2> QED BY <1>3, <2>1 DEF ViewInv, HaltedIsOnFlag
<1> QED BY <1>6, <1>8, <1>9, <1>10

\* A crash takes the cache and the notices with it: nothing is due until the warm-up.
LEMMA CrashKeepsView ==
    ASSUME ViewInv, Crash
    PROVE  ProcessInv' /\ RunningIsDue' /\ DueIsRunning' /\ HaltedIsOnFlag'
<1>1. TypeOK
  BY DEF ViewInv, CacheInv, CacheTypeOK
<1>2. /\ up' = FALSE
      /\ cache' = [f \in Flags |-> None] /\ owed' = [s \in Sessions |-> None]
      /\ \A s \in Sessions : sess'[s] = IF s \in WorkerSessions THEN sess[s] ELSE Idle
  BY DEF Crash
<1>3. \A s \in Sessions : Open(s)' => /\ Open(s) /\ sess'[s] = sess[s]
                                      /\ s \in WorkerSessions
  BY <1>2 DEF Open, Idle
<1>4. ProcessInv'
  BY <1>2, <1>3 DEF ViewInv, ProcessInv, Crossed
<1>5. \A f \in Flags : ~Halted(f)'
  BY <1>2 DEF Halted
<1> QED BY <1>2, <1>4, <1>5 DEF RunningIsDue, DueIsRunning, HaltedIsOnFlag

\* A warm-up finds an orderly experiment alone on its flag, and loads nothing else.
LEMMA WarmUpKeepsView ==
    ASSUME ViewInv, WarmUp
    PROVE  ProcessInv' /\ RunningIsDue' /\ DueIsRunning' /\ HaltedIsOnFlag'
<1>1. Inv /\ RowsOK
  BY DEF ViewInv, CacheInv, Inv
<1>2. /\ ~up /\ up' = TRUE /\ aux_astray' = {} /\ owed' = owed
      /\ UNCHANGED <<row, sess>>
      /\ \A f \in Flags : IF Loaded(f) = {} THEN cache'[f] = None
                                            ELSE cache'[f] \in Loaded(f)
  BY DEF WarmUp, vars
<1>3. \A s \in Sessions : owed'[s] = None
  BY <1>2 DEF ViewInv, ProcessInv
<1>4. ProcessInv'
  BY <1>2, <1>3 DEF ViewInv, ProcessInv, Crossed, Open
<1>5. \A f \in Flags : \A x : Due(f, x)' <=> cache'[f] = x
  BY <1>3 DEF Due, Owes
<1>6. RunningIsDue'
  <2> SUFFICES ASSUME NEW d \in Experiments, RunsOrderly(d)', NEW g, g = row'[d].flag
               PROVE  Due(g, [exp |-> d, halted |-> FALSE])'
    BY DEF RunningIsDue, Due, Owes
  <2>1. /\ row[d].state = "started" /\ row[d].flag = g /\ g \in Flags
        /\ \A c \in Experiments \ {d} :
              row[c].flag = g => row[c].state \notin PostReview \ {"accepted"}
    BY <1>1, <1>2 DEF RunsOrderly, Alone, RowsOK
  <2>2. CachedOf(d, row[d]) = [exp |-> d, halted |-> FALSE]
    BY <2>1 DEF CachedOf
  <2>3. Loaded(g) = {CachedOf(d, row[d])}
    BY <2>1 DEF Loaded, PostReview
  <2> QED BY <1>2, <1>5, <2>1, <2>2, <2>3
<1>7. \A f \in Flags : cache'[f] # None =>
          /\ row[cache'[f].exp].flag = f
          /\ row[cache'[f].exp].state \in RunningStates
          /\ cache'[f].halted => row[cache'[f].exp].state = "security_halted"
  <2> SUFFICES ASSUME NEW f \in Flags, cache'[f] # None
               PROVE  /\ row[cache'[f].exp].flag = f
                      /\ row[cache'[f].exp].state \in RunningStates
                      /\ cache'[f].halted => row[cache'[f].exp].state = "security_halted"
    OBVIOUS
  <2>1. PICK d \in Experiments : /\ row[d].state \in {"started", "security_halted"}
                                 /\ row[d].flag = f
                                 /\ cache'[f] = CachedOf(d, row[d])
    BY <1>2 DEF Loaded
  <2>2. CachedOf(d, row[d]).exp = d
    BY DEF CachedOf
  <2>3. CachedOf(d, row[d]).halted = (row[d].state = "security_halted")
    BY DEF CachedOf
  <2> QED BY <2>1, <2>2, <2>3 DEF RunningStates
<1>8. DueIsRunning'
  BY <1>2, <1>5, <1>7 DEF DueIsRunning
<1>9. HaltedIsOnFlag'
  BY <1>2, <1>7 DEF HaltedIsOnFlag, Halted
<1> QED BY <1>4, <1>6, <1>8, <1>9

LEMMA NextView == ViewInv /\ [CacheNext]_all_vars => ViewInv'
<1> SUFFICES ASSUME ViewInv, [CacheNext]_all_vars PROVE ViewInv'
  OBVIOUS
<1>1. CacheInv'
  BY NextCache DEF ViewInv
<1>2. CASE UNCHANGED all_vars
  <2>1. ProcessInv'
    BY <1>2 DEF ViewInv, ProcessInv, Crossed, Open, all_vars, vars, cache_vars
  <2> QED BY <1>1, <1>2, <2>1, SameView DEF ViewInv, all_vars, vars
<1>3. ASSUME NEW s \in Sessions, CommitAndOwe(s) PROVE ViewInv'
  BY <1>1, <1>3, CommitKeepsProcess, CommitKeepsRunning, CommitKeepsDue, CommitKeepsHalted
     DEF ViewInv
<1> QED
  BY <1>1, <1>2, <1>3, StepKeepsView, OneStepKeepsView, NotifyKeepsView, CrashKeepsView,
     WarmUpKeepsView DEF CacheNext, ViewInv

LEMMA ViewAlways == CacheSpec => []ViewInv
<1>1. CacheInit => ProcessInv /\ RunningIsDue /\ DueIsRunning /\ HaltedIsOnFlag
  BY DEF CacheInit, Init, ProcessInv, RunningIsDue, DueIsRunning, HaltedIsOnFlag,
         RunsOrderly, Due, Owes, Halted, Crossed, NoRow, Open, Idle
<1> QED BY <1>1, NextView, CacheAlways, PTL DEF CacheSpec, ViewInv

\* When nothing is owed, what a flag is due is what it has.
LEMMA QuietDue ==
    ASSUME Quiet, NEW f, NEW x
    PROVE  up /\ (Due(f, x) <=> cache[f] = x)
  BY DEF Quiet, Due, Owes

\* Once all is told, who is STARTED alone on an orderly flag is served on it: the start,
\* a resumption and a warm-up put it into the cache, and no notice of another takes it out.
THEOREM StartedIsServed == CacheSpec => []RunningIsServed
<1>1. ViewInv => RunningIsServed
  BY QuietDue DEF ViewInv, RunningIsServed, RunningIsDue
<1> QED BY <1>1, ViewAlways, PTL

\* Once all is told, what is FINISHED is not served on an orderly flag, though the guard
\* in the worker's process never tells the server what it paused.
THEOREM EndsAreTold == CacheSpec => []FinishedIsNotServed
<1>1. ViewInv => FinishedIsNotServed
  <2> SUFFICES ASSUME ViewInv, Quiet, NEW f \in Flags \ aux_astray, cache[f] # None
               PROVE  row[cache[f].exp].state \notin {"finished", "archived"}
    BY DEF FinishedIsNotServed
  <2>1. cache[f] \in Entry
    BY DEF ViewInv, CacheInv, CacheTypeOK
  <2>2. row[cache[f].exp].state \in RunningStates
    BY <2>1, QuietDue DEF ViewInv, DueIsRunning
  <2> QED BY <2>2 DEF RunningStates
<1> QED BY <1>1, ViewAlways, PTL

\* A cached security halt is one of the row: only a warm-up caches it, and only the save of a
\* stale copy ends it.
THEOREM HaltIsOfRow == CacheSpec => []HaltedEntryIsHalted
<1>1. ViewInv => HaltedEntryIsHalted
  BY DEF ViewInv, HaltedIsOnFlag, Halted, HaltedEntryIsHalted
<1> QED BY <1>1, ViewAlways, PTL
=============================================================================
