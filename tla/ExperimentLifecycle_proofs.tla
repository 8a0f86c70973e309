--------------------- MODULE ExperimentLifecycle_proofs ---------------------
(***************************************************************************)
(* Proofs about ExperimentLifecycle, for all values of its constants.      *)
(*                                                                         *)
(* Every step is one of five shapes: a request opens on the row it read,   *)
(* looks a second time, saves, or ends; or locks go, or rows or groups are *)
(* made, without a request.                                                *)
(* The lemmas of the first part say so, with all that the checks of the    *)
(* code ensure about the request; the invariants are then proved shape by  *)
(* shape.                                                                  *)
(***************************************************************************)
EXTENDS ExperimentLifecycle, FiniteSetTheorems, TLAPS

\* What the checks at the start of a request ensure about its copy and its
\* argument, until it ends.
WellFormed(r) ==
    /\ r.exp \in Experiments
    /\ r.seen.state # "absent"
    /\ r.seen.flag \in Flags
    /\ r.op \in AllOps \ {"create", "set_review_rules"}
    /\ r.op = "update" =>
           /\ r.arg \in Flags \union {None}
           /\ r.arg # None => r.seen.state = "draft"
    /\ r.op = "send_to_review" => CanSetState(r.seen.state, "in_review")
    /\ r.op = "restore" => CanSetState(r.seen.state, "draft")
    /\ r.op \in {"approve", "reject"} =>
           r.seen.state = "in_review" /\ r.arg \in Reviewers
    /\ r.op = "start" => r.seen.state = "accepted"
    /\ r.op \in {"manage", "guard"} =>
           r.arg \in States /\ CanSetState(r.seen.state, r.arg)
    /\ r.op = "manage" => r.seen.state \in {"started", "paused"}
    /\ r.op = "guard" => r.arg \in GuardTargets
    /\ r.op = "archive" => r.seen.state = "finished"

RowsOK == \A e \in Experiments : row[e].state # "absent" => row[e].flag \in Flags

RequestsOK ==
    \A s \in Sessions : IF Open(s) THEN WellFormed(sess[s]) ELSE sess[s] = Idle

Inv == TypeOK /\ RowsOK /\ RequestsOK

-----------------------------------------------------------------------------
(* The shapes of a step *)

\* Session s opens as the request r.
Opens(s, r) ==
    /\ ~Open(s)
    /\ r.phase = "read" /\ WellFormed(r)
    /\ r.seen = row[r.exp]
    /\ sess' = [sess EXCEPT ![s] = r]
    /\ \/ r.op \notin LockedOps /\ rowLock' = rowLock
       \/ /\ rowLock[r.exp] = None \/ OwnLock(s, r.op, rowLock[r.exp])
          /\ rowLock' = [rowLock EXCEPT ![r.exp] = s]
    /\ UNCHANGED <<row, approvals, decision, group, flagLock, aux_vars>>

\* Session s looks a second time; it sees these votes.
Checks(s, votes) ==
    /\ Open(s)
    /\ MarkChecked(s, votes)
    /\ TakesFlag(s) => TakeFlag(s)
    /\ ~TakesFlag(s) => flagLock' = flagLock
    /\ sess[s].op = "approve" => CountVotes(s) /\ votes = approvals[sess[s].exp]
    /\ UNCHANGED <<row, approvals, decision, group, rowLock, aux_vars>>

\* What session s may save, given what it read.
MaySave(s, new) ==
    LET seen == sess[s].seen IN
    /\ new \in Row
    /\ new.flag \in Flags /\ new.state # "absent"
    /\ new.flag # seen.flag => seen.state = "draft"
    /\ \/ new.state = seen.state
       \/ <<seen.state, new.state>> \in ValidTransitions /\ new.flag = seen.flag
    /\ new.state = "started" =>
           \/ sess[s].op = "update" /\ new.flag = seen.flag /\ seen.state = "started"
           \/ TakesFlag(s) /\ sess[s].phase = "checked" /\ new.flag = seen.flag
    /\ (seen.result <=> seen.state = "archived")
           => (new.result <=> new.state = "archived")
    /\ new.state \in PostReview =>
           seen.state \in PostReview \/ sess[s].exp \in aux_accepted'

\* Session s casts a vote of its reviewer, and accepts if that is the last one.
Votes(s, new) ==
    LET e == sess[s].exp IN
    /\ Ready(s, "approve", "checked")
    /\ \E v \in Vote : /\ v.by = sess[s].arg
                       /\ approvals' = [approvals EXCEPT ![e] = @ \union {v}]
    /\ new.state = "accepted" => Accepts(s)

\* Session s records the decision its save makes, and only reviewers decide.
Decides(s, new) ==
    \/ /\ decision' = decision
       /\ new.state \in {"accepted", "rejected"} => new.state = sess[s].seen.state
    \/ /\ new.state \in {"accepted", "rejected"}
       /\ decision' = [decision EXCEPT ![sess[s].exp] = new.state]

\* Session s saves the row new, and ends.
Saves(s, new) ==
    /\ Open(s)
    /\ Save(s, new)
    /\ MaySave(s, new)
    /\ \/ Votes(s, new)
       \/ /\ \A e \in Experiments : approvals'[e] \subseteq approvals[e]
          /\ \A e \in Experiments \ {sess[s].exp} : approvals'[e] = approvals[e]
          /\ new.state = "accepted" => sess[s].seen.state = "accepted"
    /\ approvals' \in [Experiments -> SUBSET Vote]
    /\ Decides(s, new)
    /\ decision' \in [Experiments -> {"none", "accepted", "rejected"}]
    /\ aux_accepted' \in SUBSET Experiments
    /\ aux_accepted \subseteq aux_accepted'

\* A first read opens a well-formed request: what the checks ensured of the row
\* they ensured of the copy.
LEMMA BeginOpens ==
    ASSUME TypeOK, RowsOK, NEW s \in Sessions, Begin(s)
    PROVE  \E r \in Session : Opens(s, r)
<1> USE DEF States, AllOps
<1>1. ASSUME NEW op \in AllOps \ {"create", "set_review_rules"}, NEW e \in Experiments,
             NEW arg \in Reviewers \union Flags \union States \union {None},
             NEW quorum \in Nat,
             OpenSession(s, op, e, arg, quorum),
             \/ op \notin LockedOps /\ rowLock' = rowLock
             \/ /\ rowLock[e] = None \/ OwnLock(s, op, rowLock[e])
                /\ rowLock' = [rowLock EXCEPT ![e] = s],
             WellFormed([op |-> op, exp |-> e, arg |-> arg, phase |-> "read",
                         seen |-> row[e], quorum |-> quorum, votes |-> {}])
      PROVE  \E r \in Session : Opens(s, r)
  <2> DEFINE r == [op |-> op, exp |-> e, arg |-> arg, phase |-> "read",
                   seen |-> row[e], quorum |-> quorum, votes |-> {}]
  <2>1. row[e] \in Row
    BY DEF TypeOK
  <2>2. r \in Session
    BY <2>1 DEF Session
  <2>3. Opens(s, r)
    BY <1>1 DEF Opens, OpenSession
  <2> QED BY <2>2, <2>3
<1>2. PICK e \in Experiments :
        \/ \E f \in Flags \union {None} : ReadForUpdate(s, e, f)
        \/ ReadToSend(s, e)
        \/ ReadToRestore(s, e)
        \/ \E u \in Reviewers, op \in {"approve", "reject"} :
               ReadForReview(s, op, e, u)
        \/ ReadToStart(s, e)
        \/ \E target \in States : ReadToManage(s, e, target)
        \/ ReadToArchive(s, e)
        \/ \E target \in GuardTargets : ReadToGuard(s, e, target)
  BY DEF Begin
<1>3. row[e].state # "absent" => row[e].flag \in Flags
  BY DEF RowsOK
<1>4. CASE \E f \in Flags \union {None} : ReadForUpdate(s, e, f)
  <2>1. PICK f \in Flags \union {None} : ReadForUpdate(s, e, f)
    BY <1>4
  <2> QED BY <2>1, <1>1, <1>3 DEF ReadForUpdate, Read, WellFormed, LockedOps
<1>5. CASE ReadToSend(s, e)
  BY <1>5, <1>1, <1>3 DEF ReadToSend, Read, WellFormed, LockedOps, CanSetState,
                          ValidTransitions
<1>6. CASE ReadToRestore(s, e)
  BY <1>6, <1>1, <1>3 DEF ReadToRestore, Read, WellFormed, LockedOps, CanSetState,
                          ValidTransitions
<1>7. CASE \E u \in Reviewers, op \in {"approve", "reject"} : ReadForReview(s, op, e, u)
  <2>1. PICK u \in Reviewers, op \in {"approve", "reject"} : ReadForReview(s, op, e, u)
    BY <1>7
  <2>2. group[AuthorOf[e]].threshold \in Nat
    BY AuthorsAreExperimenters DEF TypeOK, Group
  <2> QED BY <2>1, <2>2, <1>1, <1>3 DEF ReadForReview, ReadLocked, WellFormed
<1>8. CASE ReadToStart(s, e)
  BY <1>8, <1>1, <1>3 DEF ReadToStart, Read, WellFormed, LockedOps
<1>9. CASE \E target \in States : ReadToManage(s, e, target)
  <2>1. PICK target \in States : ReadToManage(s, e, target)
    BY <1>9
  <2> QED BY <2>1, <1>1, <1>3 DEF ReadToManage, Read, WellFormed, LockedOps
<1>10. CASE ReadToArchive(s, e)
  BY <1>10, <1>1, <1>3 DEF ReadToArchive, Read, WellFormed, LockedOps
<1>11. CASE \E target \in GuardTargets : ReadToGuard(s, e, target)
  <2>1. PICK target \in GuardTargets : ReadToGuard(s, e, target)
    BY <1>11
  <2> QED BY <2>1, <1>1, <1>3 DEF ReadToGuard, ReadLocked, WellFormed, GuardTargets,
                                 CanSetState, ValidTransitions
<1> QED BY <1>2, <1>4, <1>5, <1>6, <1>7, <1>8, <1>9, <1>10, <1>11

\* Every second look is of the shape Checks.
LEMMA CheckChecks ==
    ASSUME TypeOK, RequestsOK, NEW s \in Sessions, Check(s)
    PROVE  \E votes \in SUBSET Vote : Checks(s, votes)
<1>1. CASE RevokeApprovals(s)
  <2>1. Open(s) /\ ~TakesFlag(s) /\ sess[s].op # "approve"
    BY <1>1 DEF RevokeApprovals, Ready, Open, TakesFlag
  <2>2. sess[s].exp \in Experiments
    BY <2>1 DEF RequestsOK, WellFormed
  <2>3. approvals[sess[s].exp] \in SUBSET Vote
    BY <2>2 DEF TypeOK
  <2>4. Checks(s, approvals[sess[s].exp])
    BY <1>1, <2>1 DEF RevokeApprovals, Checks
  <2> QED BY <2>3, <2>4
<1>2. CASE CountVotes(s)
  <2>1. Open(s) /\ ~TakesFlag(s)
    BY <1>2 DEF CountVotes, Ready, Open, TakesFlag
  <2>2. sess[s].exp \in Experiments
    BY <2>1 DEF RequestsOK, WellFormed
  <2>3. approvals[sess[s].exp] \in SUBSET Vote
    BY <2>2 DEF TypeOK
  <2>4. Checks(s, approvals[sess[s].exp])
    BY <1>2, <2>1 DEF CountVotes, Checks
  <2> QED BY <2>3, <2>4
<1>3. CASE TakeFlag(s)
  <2>1. Checks(s, {})
    BY <1>3 DEF TakeFlag, TakesFlag, Checks, Open
  <2> QED BY <2>1
<1> QED BY <1>1, <1>2, <1>3 DEF Check

\* Every commit is of the shape Saves: the setters checked the copy, and only
\* CommitApprove accepts.
LEMMA CommitSaves ==
    ASSUME TypeOK, RequestsOK, NEW s \in Sessions, Commit(s)
    PROVE  \E new \in Row : Saves(s, new)
<1> DEFINE seen == sess[s].seen
<1> USE DEF States, PostReview, ValidTransitions
<1>1. Open(s)
  BY DEF Commit, CommitUpdate, CommitSend, CommitRestore, CommitReject, CommitApprove,
         CommitStart, CommitManage, CommitArchive, CommitGuard, Ready, Open
<1>2. WellFormed(sess[s])
  BY <1>1 DEF RequestsOK
<1>3. /\ seen \in Row /\ seen.state \in States
      /\ seen.flag \in Flags /\ seen.state # "absent"
  BY <1>2 DEF TypeOK, Session, WellFormed, Row
<1>4. CASE CommitUpdate(s)
  <2> DEFINE new == [seen EXCEPT !.version = @ + 1,
                                 !.flag = IF sess[s].arg = None THEN @ ELSE sess[s].arg]
  <2>1. SaveRowOnly(s, new) /\ sess[s].op = "update"
    BY <1>4 DEF CommitUpdate, Ready
  <2>2. /\ sess[s].arg \in Flags \union {None}
        /\ sess[s].arg # None => seen.state = "draft"
    BY <1>2, <2>1 DEF WellFormed
  <2>3. new \in Row /\ new.flag \in Flags
    <3> DEFINE f == IF sess[s].arg = None THEN seen.flag ELSE sess[s].arg
    <3>1. f \in Flags
      BY <1>3, <2>2
    <3>2. seen.version + 1 \in Nat
      BY <1>3 DEF Row
    <3>3. /\ new = [seen EXCEPT !.version = seen.version + 1, !.flag = f]
          /\ new.flag = f
      BY <1>3 DEF Row
    <3> HIDE DEF f
    <3>4. [seen EXCEPT !.version = seen.version + 1, !.flag = f] \in Row
      BY <1>3, <3>1, <3>2 DEF Row
    <3> QED BY <3>1, <3>3, <3>4
  <2>4. /\ new.state = seen.state /\ new.result = seen.result
        /\ new.flag # seen.flag => seen.state = "draft"
    BY <1>3, <2>2 DEF Row
  <2>5. MaySave(s, new)
    BY <1>3, <2>1, <2>3, <2>4 DEF MaySave
  <2> HIDE DEF new
  <2>6. Saves(s, new)
    BY <1>1, <2>1, <2>4, <2>5 DEF Saves, Decides, SaveRowOnly, TypeOK
  <2> QED BY <2>3, <2>6
<1>5. CASE CommitSend(s)
  <2> DEFINE new == [seen EXCEPT !.state = "in_review"]
  <2>1. Save(s, new) /\ sess[s].op = "send_to_review" /\ aux_accepted' = aux_accepted
    BY <1>5 DEF CommitSend, Ready
  <2>2. CanSetState(seen.state, "in_review")
    BY <1>2, <2>1 DEF WellFormed
  <2>3. new \in Row /\ MaySave(s, new)
    BY <1>3, <2>2 DEF Row, MaySave, CanSetState
  <2>4. /\ approvals' \in [Experiments -> SUBSET Vote] /\ decision' = decision
        /\ \A e \in Experiments : approvals'[e] \subseteq approvals[e]
        /\ \A e \in Experiments \ {sess[s].exp} : approvals'[e] = approvals[e]
        /\ new.state # "accepted"
    BY <1>3, <1>5 DEF CommitSend, TypeOK, Row
  <2>5. Saves(s, new)
    BY <1>1, <2>1, <2>3, <2>4 DEF Saves, Decides, TypeOK
  <2> QED BY <2>3, <2>5
<1>6. CASE CommitRestore(s)
  <2> DEFINE new == [seen EXCEPT !.state = "draft"]
  <2>1. SaveRowOnly(s, new) /\ sess[s].op = "restore"
    BY <1>6 DEF CommitRestore, Ready
  <2>2. CanSetState(seen.state, "draft")
    BY <1>2, <2>1 DEF WellFormed
  <2>3. new \in Row /\ MaySave(s, new)
    BY <1>3, <2>2 DEF Row, MaySave, CanSetState
  <2>4. Saves(s, new)
    BY <1>1, <2>1, <2>3 DEF Saves, Decides, SaveRowOnly, TypeOK
  <2> QED BY <2>3, <2>4
<1>7. CASE CommitReject(s)
  <2> DEFINE new == [seen EXCEPT !.state = "rejected"]
  <2>1. Save(s, new) /\ sess[s].op = "reject" /\ UNCHANGED <<approvals, aux_accepted>>
    BY <1>7 DEF CommitReject, Ready
  <2>2. seen.state = "in_review"
    BY <1>2, <2>1 DEF WellFormed
  <2>3. new \in Row /\ MaySave(s, new)
    BY <1>3, <2>2 DEF Row, MaySave
  <2>4. decision' \in [Experiments -> {"none", "accepted", "rejected"}]
    BY <1>7 DEF CommitReject, TypeOK
  <2>5. Decides(s, new)
    BY <1>3, <1>7 DEF CommitReject, Decides, Row
  <2>6. new.state # "accepted"
    BY <1>3 DEF Row
  <2>7. Saves(s, new)
    BY <1>1, <2>1, <2>3, <2>4, <2>5, <2>6 DEF Saves, TypeOK
  <2> QED BY <2>3, <2>7
<1>8. CASE CommitApprove(s)
  <2> DEFINE e == sess[s].exp
  <2>1. sess[s].op = "approve"
    BY <1>8 DEF CommitApprove, Ready
  <2>2. e \in Experiments /\ sess[s].arg \in Reviewers /\ seen.state = "in_review"
    BY <1>2, <2>1 DEF WellFormed
  <2>3. /\ approvals' \in [Experiments -> SUBSET Vote]
        /\ \E v \in Vote : /\ v.by = sess[s].arg
                           /\ approvals' = [approvals EXCEPT ![e] = @ \union {v}]
    <3>1. PICK v \in FreshVotes(e, sess[s].arg) :
              approvals' = [approvals EXCEPT ![e] = @ \union {v}]
      BY <1>8 DEF CommitApprove
    <3>2. v \in Vote /\ v.by = sess[s].arg
      BY <2>2, <3>1 DEF FreshVotes, Vote
    <3> QED BY <3>1, <3>2 DEF TypeOK
  <2>4. CASE Accepts(s)
    <3> DEFINE new == [seen EXCEPT !.state = "accepted"]
    <3>1. /\ Save(s, new)
          /\ decision' = [decision EXCEPT ![e] = "accepted"]
          /\ aux_accepted' = aux_accepted \union {e}
      BY <1>8, <2>4 DEF CommitApprove
    <3>2. new \in Row /\ MaySave(s, new)
      BY <1>3, <2>2, <3>1 DEF Row, MaySave
    <3>3. Votes(s, new)
      BY <1>8, <2>3, <2>4 DEF CommitApprove, Votes
    <3>4. Saves(s, new)
      BY <1>1, <2>2, <2>3, <3>1, <3>2, <3>3 DEF Saves, Decides, TypeOK
    <3> QED BY <3>2, <3>4
  <2>5. CASE ~Accepts(s)
    <3>1. Save(s, seen) /\ UNCHANGED <<decision, aux_accepted>>
      BY <1>8, <2>5 DEF CommitApprove
    <3>2. MaySave(s, seen)
      BY <1>3, <2>2 DEF MaySave
    <3>3. Votes(s, seen)
      BY <1>8, <2>2, <2>3 DEF CommitApprove, Votes
    <3>4. Saves(s, seen)
      BY <1>1, <2>3, <3>1, <3>2, <3>3 DEF Saves, Decides, TypeOK
    <3> QED BY <1>3, <3>4
  <2> QED BY <2>4, <2>5
<1>9. CASE CommitStart(s)
  <2> DEFINE new == [seen EXCEPT !.state = "started"]
  <2>1. SaveRowOnly(s, new) /\ sess[s].op = "start" /\ sess[s].phase = "checked"
    BY <1>9 DEF CommitStart, Ready
  <2>2. seen.state = "accepted"
    BY <1>2, <2>1 DEF WellFormed
  <2>3. new \in Row /\ MaySave(s, new)
    BY <1>3, <2>1, <2>2 DEF Row, MaySave, TakesFlag
  <2>4. Saves(s, new)
    BY <1>1, <2>1, <2>3 DEF Saves, Decides, SaveRowOnly, TypeOK
  <2> QED BY <2>3, <2>4
<1>10. CASE CommitManage(s)
  <2> DEFINE new == [seen EXCEPT !.state = sess[s].arg]
  <2>1. /\ SaveRowOnly(s, new) /\ sess[s].op = "manage"
        /\ TakesFlag(s) => sess[s].phase = "checked"
    BY <1>10 DEF CommitManage, Ready
  <2>2. /\ sess[s].arg \in States /\ CanSetState(seen.state, sess[s].arg)
        /\ seen.state \in {"started", "paused"}
    BY <1>2, <2>1 DEF WellFormed
  <2>3. new \in Row /\ MaySave(s, new)
    BY <1>3, <2>1, <2>2 DEF Row, MaySave, TakesFlag, CanSetState
  <2>4. new.state \notin {"accepted", "rejected"}
    BY <1>3, <2>2 DEF Row, CanSetState
  <2>5. Saves(s, new)
    BY <1>1, <2>1, <2>3, <2>4 DEF Saves, Decides, SaveRowOnly, TypeOK
  <2> QED BY <2>3, <2>5
<1>11. CASE CommitArchive(s)
  <2> DEFINE new == [seen EXCEPT !.state = "archived", !.result = TRUE]
  <2>1. SaveRowOnly(s, new) /\ sess[s].op = "archive"
    BY <1>11 DEF CommitArchive, Ready
  <2>2. seen.state = "finished"
    BY <1>2, <2>1 DEF WellFormed
  <2>3. new \in Row /\ MaySave(s, new)
    BY <1>3, <2>2 DEF Row, MaySave
  <2>4. Saves(s, new)
    BY <1>1, <2>1, <2>3 DEF Saves, Decides, SaveRowOnly, TypeOK
  <2> QED BY <2>3, <2>4
<1>12. CASE CommitGuard(s)
  <2> DEFINE new == [seen EXCEPT !.state = sess[s].arg]
  <2>1. SaveRowOnly(s, new) /\ sess[s].op = "guard"
    BY <1>12 DEF CommitGuard, Ready
  <2>2. sess[s].arg \in GuardTargets /\ CanSetState(seen.state, sess[s].arg)
    BY <1>2, <2>1 DEF WellFormed
  <2>3. new \in Row /\ MaySave(s, new)
    BY <1>3, <2>2 DEF Row, MaySave, CanSetState, GuardTargets
  <2>4. new.state \notin {"accepted", "rejected"}
    BY <1>3, <2>2 DEF Row, GuardTargets
  <2>5. Saves(s, new)
    BY <1>1, <2>1, <2>3, <2>4 DEF Saves, Decides, SaveRowOnly, TypeOK
  <2> QED BY <2>3, <2>5
<1> QED
  BY <1>4, <1>5, <1>6, <1>7, <1>8, <1>9, <1>10, <1>11, <1>12 DEF Commit

\* SetReviewRules changes nothing but a group.
RulesChange ==
    /\ group' \in [Experimenters -> Group]
    /\ UNCHANGED <<row, approvals, decision, rowLock, flagLock, sess, aux_vars>>

LEMMA SetReviewRulesChanges ==
    ASSUME TypeOK, NEW a \in Experimenters, NEW list \in ApproverLists,
           NEW n \in 1 .. MaxGroup, SetReviewRules(a, list, n)
    PROVE  RulesChange
<1> DEFINE approvers == {list[i] : i \in 1 .. Len(list)}
<1>1. PICK k \in 1 .. MaxGroup : list \in [1 .. k -> Reviewers]
  BY DEF ApproverLists
<1>2. Len(list) = k
  BY <1>1, BoundsAreNaturals
<1>3. approvers \in SUBSET Reviewers
  BY <1>1, <1>2
<1>4. n \in Nat
  BY BoundsAreNaturals
<1>5. [threshold |-> n, approvers |-> approvers] \in Group
  BY <1>3, <1>4 DEF Group
<1>6. group' = [group EXCEPT ![a] = [threshold |-> n, approvers |-> approvers]]
  BY DEF SetReviewRules, StoredGroup
<1> HIDE DEF approvers
<1> QED BY <1>5, <1>6 DEF TypeOK, SetReviewRules, RulesChange

\* The five shapes of a step, and the steps without a request.
LEMMA StepShapes ==
    ASSUME Inv, [Next]_vars
    PROVE  \/ \E s \in Sessions, r \in Session : Opens(s, r)
           \/ \E s \in Sessions, votes \in SUBSET Vote : Checks(s, votes)
           \/ \E s \in Sessions, new \in Row : Saves(s, new)
           \/ \E s \in Sessions : Abort(s)
           \/ \E s \in Sessions : RefuseGuard(s)
           \/ \E e \in Experiments, f \in Flags : Create(e, f)
           \/ RulesChange
           \/ UNCHANGED vars
<1>1. ASSUME NEW s \in Sessions, Begin(s)
      PROVE  \E r \in Session : Opens(s, r)
  BY <1>1, BeginOpens DEF Inv
<1>2. ASSUME NEW s \in Sessions, Check(s)
      PROVE  \E votes \in SUBSET Vote : Checks(s, votes)
  BY <1>2, CheckChecks DEF Inv
<1>3. ASSUME NEW s \in Sessions, Commit(s)
      PROVE  \E new \in Row : Saves(s, new)
  BY <1>3, CommitSaves DEF Inv
<1>4. ASSUME NEW a \in Experimenters, NEW list \in ApproverLists,
             NEW n \in 1 .. MaxGroup, SetReviewRules(a, list, n)
      PROVE  RulesChange
  BY <1>4, SetReviewRulesChanges DEF Inv
<1> QED BY <1>1, <1>2, <1>3, <1>4 DEF Next

-----------------------------------------------------------------------------
(* Type correctness *)

LEMMA InitInv == Init => Inv
<1> SUFFICES ASSUME Init PROVE Inv
  OBVIOUS
<1>1. NoRow \in Row /\ NoGroup \in Group
  BY DEF NoRow, Row, NoGroup, Group
<1>2. Idle \in Session
  BY <1>1 DEF Idle, Session
<1> QED BY <1>1, <1>2 DEF Init, Inv, TypeOK, RowsOK, RequestsOK, Open, Idle, NoRow

\* The locks that remain when a transaction ends are held by others.
LEMMA CloseTypes ==
    ASSUME TypeOK, NEW s \in Sessions, Close(s)
    PROVE  /\ sess' \in [Sessions -> Session]
           /\ rowLock' \in [Experiments -> Sessions \union {None}]
           /\ flagLock' \in [Flags -> Sessions \union {None}]
           /\ \A t \in Sessions \ {s} : sess'[t] = sess[t]
           /\ sess'[s] = Idle
<1>1. Idle \in Session
  BY DEF Idle, Session, NoRow, Row
<1> QED BY <1>1 DEF Close, Release, TypeOK

\* A ROLLBACK that ends no action of its own releases locks of its check.
LEMMA RefuseTypes ==
    ASSUME TypeOK, NEW s \in Sessions, RefuseGuard(s)
    PROVE  /\ rowLock' \in [Experiments -> Sessions \union {None}]
           /\ flagLock' \in [Flags -> Sessions \union {None}]
           /\ UNCHANGED <<row, approvals, decision, group, sess, aux_accepted, aux_resurrected>>
BY DEF RefuseGuard, Release, TypeOK, aux_vars

LEMMA CloseRequests ==
    ASSUME TypeOK, RequestsOK, NEW s \in Sessions, Close(s)
    PROVE  RequestsOK'
<1> SUFFICES ASSUME NEW t \in Sessions
             PROVE  IF Open(t)' THEN WellFormed(sess'[t]) ELSE sess'[t] = Idle
  BY DEF RequestsOK, WellFormed
<1>1. CASE t = s
  <2>1. sess'[t] = Idle
    BY <1>1, CloseTypes
  <2>2. Idle.phase = "idle"
    BY DEF Idle
  <2> QED BY <2>1, <2>2 DEF Open
<1>2. CASE t # s
  BY <1>2, CloseTypes DEF RequestsOK, Open
<1> QED BY <1>1, <1>2

\* A second look changes the phase and the votes of one open session.
LEMMA MarkCheckedTypes ==
    ASSUME TypeOK, NEW s \in Sessions, NEW votes \in SUBSET Vote, Open(s),
           MarkChecked(s, votes)
    PROVE  /\ sess' \in [Sessions -> Session]
           /\ \A t \in Sessions : /\ sess'[t].op = sess[t].op
                                  /\ sess'[t].exp = sess[t].exp
                                  /\ sess'[t].arg = sess[t].arg
                                  /\ sess'[t].seen = sess[t].seen
                                  /\ Open(t)' <=> Open(t)
           /\ \A t \in Sessions \ {s} : sess'[t] = sess[t]
           /\ sess'[s].phase = "checked" /\ sess'[s].votes = votes
<1> DEFINE r == [sess[s] EXCEPT !.phase = "checked", !.votes = votes]
<1>1. sess[s] \in Session
  BY DEF TypeOK
<1>2. /\ r \in Session
      /\ r.op = sess[s].op /\ r.exp = sess[s].exp /\ r.arg = sess[s].arg
      /\ r.seen = sess[s].seen /\ r.phase = "checked" /\ r.votes = votes
  BY <1>1 DEF Session
<1>3. sess' = [sess EXCEPT ![s] = r]
  BY DEF MarkChecked, TypeOK
<1> HIDE DEF r
<1> QED BY <1>1, <1>2, <1>3 DEF TypeOK, Open

LEMMA NextInv == Inv /\ [Next]_vars => Inv'
<1> SUFFICES ASSUME Inv, [Next]_vars PROVE Inv'
  OBVIOUS
<1>0. TypeOK /\ RowsOK /\ RequestsOK
  BY DEF Inv
<1>1. ASSUME NEW s \in Sessions, NEW r \in Session, Opens(s, r)
      PROVE  Inv'
  <2>1. TypeOK'
    BY <1>0, <1>1 DEF Opens, TypeOK, aux_vars, WellFormed
  <2>2. RowsOK'
    BY <1>0, <1>1 DEF Opens, RowsOK
  <2>3. RequestsOK'
    <3>1. sess'[s] = r /\ \A t \in Sessions \ {s} : sess'[t] = sess[t]
      BY <1>0, <1>1 DEF Opens, TypeOK
    <3> QED BY <1>0, <1>1, <3>1 DEF Opens, RequestsOK, Open, WellFormed
  <2> QED BY <2>1, <2>2, <2>3 DEF Inv
<1>2. ASSUME NEW s \in Sessions, NEW votes \in SUBSET Vote, Checks(s, votes)
      PROVE  Inv'
  <2>1. /\ sess' \in [Sessions -> Session]
        /\ \A t \in Sessions : /\ sess'[t].op = sess[t].op
                               /\ sess'[t].exp = sess[t].exp
                               /\ sess'[t].arg = sess[t].arg
                               /\ sess'[t].seen = sess[t].seen
                               /\ Open(t)' <=> Open(t)
        /\ \A t \in Sessions \ {s} : sess'[t] = sess[t]
    BY <1>0, <1>2, MarkCheckedTypes DEF Checks
  <2>2. flagLock' \in [Flags -> Sessions \union {None}]
    BY <1>0, <1>2 DEF Checks, TakeFlag, TypeOK
  <2>3. TypeOK'
    BY <1>0, <1>2, <2>1, <2>2 DEF Checks, TypeOK, aux_vars
  <2>4. RowsOK'
    BY <1>0, <1>2 DEF Checks, RowsOK
  <2>5. RequestsOK'
    BY <1>0, <1>2, <2>1 DEF Checks, RequestsOK, WellFormed
  <2> QED BY <2>3, <2>4, <2>5 DEF Inv
<1>3. ASSUME NEW s \in Sessions, NEW new \in Row, Saves(s, new)
      PROVE  Inv'
  <2> DEFINE e == sess[s].exp
  <2>1. e \in Experiments
    BY <1>0, <1>3 DEF Saves, RequestsOK, WellFormed
  <2>2. Close(s) /\ row' = [row EXCEPT ![e] = new] /\ group' = group
    BY <1>3 DEF Saves, Save
  <2>3. aux_resurrected' \subseteq Experiments
    BY <1>0, <1>3, <2>1 DEF Saves, Save, TypeOK
  <2>4. TypeOK'
    BY <1>0, <1>3, <2>1, <2>2, <2>3, CloseTypes DEF Saves, TypeOK
  <2>5. RowsOK'
    BY <1>0, <1>3, <2>1, <2>2 DEF Saves, MaySave, RowsOK, TypeOK
  <2>6. RequestsOK'
    BY <1>0, <2>2, CloseRequests
  <2> QED BY <2>4, <2>5, <2>6 DEF Inv
<1>4. ASSUME NEW s \in Sessions, Abort(s)
      PROVE  Inv'
  <2>1. Close(s) /\ UNCHANGED <<row, approvals, decision, group, aux_vars>>
    BY <1>4 DEF Abort
  <2>2. TypeOK'
    BY <1>0, <2>1, CloseTypes DEF TypeOK, aux_vars
  <2>3. RowsOK'
    BY <1>0, <2>1 DEF RowsOK
  <2>4. RequestsOK'
    BY <1>0, <2>1, CloseRequests
  <2> QED BY <2>2, <2>3, <2>4 DEF Inv
<1>5. ASSUME NEW e \in Experiments, NEW f \in Flags, Create(e, f)
      PROVE  Inv'
  <2> DEFINE new == [state |-> "draft", version |-> 1, flag |-> f, result |-> FALSE]
  <2>1. new \in Row
    BY DEF Row, States
  <2>2. row' = [row EXCEPT ![e] = new]
    BY <1>5 DEF Create, NewRow
  <2>3. TypeOK'
    BY <1>0, <1>5, <2>1, <2>2 DEF Create, NewRow, TypeOK, aux_vars
  <2>4. RowsOK'
    BY <1>0, <2>2 DEF RowsOK, TypeOK
  <2>5. RequestsOK'
    BY <1>0, <1>5 DEF Create, NewRow, RequestsOK, WellFormed, Open
  <2> QED BY <2>3, <2>4, <2>5 DEF Inv
<1>6. CASE RulesChange
  BY <1>0, <1>6 DEF RulesChange, Inv, TypeOK, RowsOK, RequestsOK, WellFormed, Open,
                    aux_vars
<1>7. CASE UNCHANGED vars
  BY <1>0, <1>7 DEF vars, Inv, TypeOK, RowsOK, RequestsOK, WellFormed, Open, aux_vars
<1>8. ASSUME NEW s \in Sessions, RefuseGuard(s)
      PROVE  Inv'
  <2>1. TypeOK'
    BY <1>0, <1>8, RefuseTypes DEF TypeOK
  <2> QED BY <1>0, <1>8, <2>1, RefuseTypes DEF Inv, RowsOK, RequestsOK, WellFormed, Open
<1> QED BY <1>1, <1>2, <1>3, <1>4, <1>5, <1>6, <1>7, <1>8, StepShapes

\* All variables keep their types: in particular the argument of a request
\* survives as a state, a flag or a reviewer until the commit that stores it.
THEOREM TypeCorrect == Spec => []TypeOK
<1>1. Spec => []Inv
  BY InitInv, NextInv, PTL DEF Spec
<1>2. Inv => TypeOK
  BY DEF Inv
<1> QED BY <1>1, <1>2, PTL

-----------------------------------------------------------------------------
(* The row lock *)

\* Only the actions of a guardrail check share a transaction.
LEMMA SharingFacts ==
    ASSUME NEW s \in Sessions, NEW t \in Sessions
    PROVE  /\ s \in Sharing(s)
           /\ t \in Sharing(s) => t = s \/ sess[t].op = "guard"
BY DEF Sharing

\* A session that is not in the transaction that ends keeps its locks.
LEMMA ReleaseFacts ==
    ASSUME TypeOK, NEW s \in Sessions, Release(s), NEW t \in Sessions
    PROVE  /\ \A e \in Experiments :
                  rowLock'[e] = t <=> rowLock[e] = t /\ t \notin Sharing(s)
           /\ \A f \in Flags :
                  flagLock'[f] = t <=> flagLock[f] = t /\ t \notin Sharing(s)
BY NoneIsNoValue DEF Release, TypeOK

LEMMA NextFresh == Inv /\ LockedReadIsFresh /\ [Next]_vars => LockedReadIsFresh'
<1> SUFFICES ASSUME Inv, LockedReadIsFresh, [Next]_vars, NEW t \in Sessions, Open(t)'
             PROVE  /\ sess'[t].op \in {"approve", "reject"} => rowLock'[sess'[t].exp] = t
                    /\ rowLock'[sess'[t].exp] = t => sess'[t].seen = row'[sess'[t].exp]
  BY DEF LockedReadIsFresh
<1> DEFINE e == sess[t].exp
           Goal == /\ sess'[t].op \in {"approve", "reject"} => rowLock'[sess'[t].exp] = t
                   /\ rowLock'[sess'[t].exp] = t => sess'[t].seen = row'[sess'[t].exp]
<1>0. TypeOK /\ RequestsOK /\ t # None
  BY NoneIsNoValue DEF Inv
<1>1. Open(t) => /\ sess[t].op \in {"approve", "reject"} => rowLock[e] = t
                 /\ rowLock[e] = t => sess[t].seen = row[e]
                 /\ e \in Experiments
  BY <1>0 DEF LockedReadIsFresh, RequestsOK, WellFormed
<1>2. ASSUME NEW s \in Sessions, NEW r \in Session, Opens(s, r)
      PROVE  Goal
  <2>1. CASE t = s
    <3>1. sess'[t] = r
      BY <1>0, <1>2, <2>1 DEF Opens, TypeOK
    <3>2. r.exp \in Experiments /\ r.seen = row'[r.exp]
      BY <1>2 DEF Opens, WellFormed
    <3>3. r.op \in {"approve", "reject"} => rowLock'[r.exp] = t
      BY <1>0, <1>2, <2>1, <3>2 DEF Opens, LockedOps, TypeOK
    <3> QED BY <3>1, <3>2, <3>3
  <2>2. CASE t # s
    <3>1. sess'[t] = sess[t] /\ Open(t)
      BY <1>0, <1>2, <2>2 DEF Opens, TypeOK, Open
    <3>2. r.exp \in Experiments /\ row' = row
      BY <1>2 DEF Opens, WellFormed
    <3>3. rowLock'[e] = t => rowLock[e] = t
      BY <1>0, <1>1, <1>2, <2>2, <3>1, <3>2 DEF Opens, TypeOK
    <3>4. sess[t].op \in {"approve", "reject"} => rowLock'[e] = t
      <4>1. SUFFICES ASSUME sess[t].op \in {"approve", "reject"} PROVE rowLock'[e] = t
        OBVIOUS
      <4>2. rowLock[e] = t /\ e \in Experiments
        BY <1>1, <3>1, <4>1
      <4>3. ~OwnLock(s, r.op, t)
        BY <4>1 DEF OwnLock
      <4> QED BY <1>0, <1>2, <3>2, <4>2, <4>3 DEF Opens, TypeOK
    <3> QED BY <1>1, <3>1, <3>2, <3>3, <3>4
  <2> QED BY <2>1, <2>2
<1>3. ASSUME NEW s \in Sessions, NEW votes \in SUBSET Vote, Checks(s, votes)
      PROVE  Goal
  BY <1>0, <1>1, <1>3, MarkCheckedTypes DEF Checks, Open
<1>4. ASSUME NEW s \in Sessions, Close(s)
      PROVE  /\ t # s /\ sess'[t] = sess[t] /\ Open(t)
             /\ rowLock'[e] = t => rowLock[e] = t /\ t \notin Sharing(s)
             /\ sess[t].op \in {"approve", "reject"} => rowLock'[e] = t
  <2>1. t # s
    BY <1>0, <1>4, CloseTypes DEF Idle, Open
  <2>2. sess'[t] = sess[t] /\ Open(t)
    BY <1>0, <1>4, <2>1, CloseTypes DEF Open
  <2>3. Release(s)
    BY <1>4 DEF Close
  <2>4. sess[t].op \in {"approve", "reject"} => t \notin Sharing(s)
    BY <2>1, SharingFacts
  <2> QED BY <1>0, <1>1, <2>1, <2>2, <2>3, <2>4, ReleaseFacts
<1>5. ASSUME NEW s \in Sessions, NEW new \in Row, Saves(s, new)
      PROVE  Goal
  <2>1. /\ Close(s)
        /\ row' = [row EXCEPT ![sess[s].exp] = new]
        /\ rowLock[sess[s].exp] \in Sharing(s) \union {None}
    BY <1>5 DEF Saves, Save
  <2>2. /\ t # s /\ sess'[t] = sess[t] /\ Open(t)
        /\ rowLock'[e] = t => rowLock[e] = t /\ t \notin Sharing(s)
        /\ sess[t].op \in {"approve", "reject"} => rowLock'[e] = t
    BY <1>4, <2>1
  <2>3. rowLock'[e] = t => e # sess[s].exp
    BY <1>0, <2>1, <2>2
  <2> QED BY <1>0, <1>1, <2>1, <2>2, <2>3 DEF TypeOK
<1>6. ASSUME NEW s \in Sessions, Abort(s)
      PROVE  Goal
  BY <1>1, <1>4, <1>6 DEF Abort
<1>7. ASSUME NEW s \in Sessions, RefuseGuard(s)
      PROVE  Goal
  <2>1. Release(s) /\ UNCHANGED <<row, sess>> /\ sess[s].op = "guard"
    BY <1>7 DEF RefuseGuard
  <2>2. sess[t].op \in {"approve", "reject"} => t \notin Sharing(s)
    BY <2>1, SharingFacts
  <2> QED BY <1>0, <1>1, <2>1, <2>2, ReleaseFacts DEF Open
<1>8. ASSUME NEW d \in Experiments, NEW f \in Flags, Create(d, f)
      PROVE  Goal
  <2>1. sess' = sess /\ rowLock' = rowLock /\ row[d].state = "absent"
    BY <1>8 DEF Create
  <2>2. rowLock[e] = t => e # d
    BY <1>0, <1>1, <2>1 DEF RequestsOK, WellFormed, Open
  <2> QED BY <1>0, <1>1, <1>8, <2>1, <2>2 DEF Create, TypeOK, Open
<1>9. CASE RulesChange \/ UNCHANGED vars
  BY <1>1, <1>9 DEF RulesChange, vars, Open
<1> QED BY <1>2, <1>3, <1>5, <1>6, <1>7, <1>8, <1>9, StepShapes

\* What was read under FOR UPDATE is the committed row as long as the lock is held, for
\* any number of sessions and of guardrail checks, whose actions save into each other's
\* transactions: a lock holds off every save but those of its own transaction, and with
\* such a save it goes. Reviewers hold theirs until they commit.
THEOREM LockedReadsAreFresh == Spec => []LockedReadIsFresh
<1>1. Init => LockedReadIsFresh
  BY DEF Init, LockedReadIsFresh, Open, Idle
<1> QED BY <1>1, InitInv, NextInv, NextFresh, PTL DEF Spec

-----------------------------------------------------------------------------
(* What a row says of its experiment's past *)

\* The history a row must have: committed rows and copies, stale ones too.
Reviewed(r, e) == r.state \in PostReview => e \in aux_accepted
Resulted(r) == r.result <=> r.state = "archived"

CopiesReviewed ==
    \A s \in Sessions : Open(s) => Reviewed(sess[s].seen, sess[s].exp)
CopiesResulted == \A s \in Sessions : Open(s) => Resulted(sess[s].seen)

PastInv == ReviewedBeforeRun /\ ResultIffArchived /\ CopiesReviewed /\ CopiesResulted

LEMMA NextPast == Inv /\ PastInv /\ [Next]_vars => PastInv'
<1> SUFFICES ASSUME Inv, PastInv, [Next]_vars PROVE PastInv'
  OBVIOUS
<1> USE DEF Reviewed, Resulted
<1>0. TypeOK /\ RequestsOK
  BY DEF Inv
<1>1. /\ \A e \in Experiments : Reviewed(row[e], e) /\ Resulted(row[e])
      /\ \A s \in Sessions :
             Open(s) => Reviewed(sess[s].seen, sess[s].exp) /\ Resulted(sess[s].seen)
  BY DEF PastInv, ReviewedBeforeRun, ResultIffArchived, CopiesReviewed, CopiesResulted
<1> DEFINE Goal ==
        /\ \A e \in Experiments : Reviewed(row[e], e)' /\ Resulted(row'[e])
        /\ \A s \in Sessions :
               Open(s)' => /\ Reviewed(sess[s].seen, sess[s].exp)'
                           /\ Resulted(sess'[s].seen)
<1>2. SUFFICES Goal
  BY DEF PastInv, ReviewedBeforeRun, ResultIffArchived, CopiesReviewed, CopiesResulted
<1>3. ASSUME NEW s \in Sessions, NEW r \in Session, Opens(s, r)
      PROVE  Goal
  <2>1. sess'[s] = r /\ \A t \in Sessions \ {s} : sess'[t] = sess[t]
    BY <1>0, <1>3 DEF Opens, TypeOK
  <2> QED BY <1>1, <1>3, <2>1 DEF Opens, WellFormed, Open, aux_vars
<1>4. ASSUME NEW s \in Sessions, NEW votes \in SUBSET Vote, Checks(s, votes)
      PROVE  Goal
  BY <1>0, <1>1, <1>4, MarkCheckedTypes DEF Checks, aux_vars
<1>5. ASSUME NEW s \in Sessions, Close(s)
      PROVE  \A t \in Sessions : Open(t)' => Open(t) /\ sess'[t] = sess[t]
  <2>1. ~Open(s)'
    BY <1>0, <1>5, CloseTypes DEF Open, Idle
  <2> QED BY <1>0, <1>5, <2>1, CloseTypes DEF Open
<1>6. ASSUME NEW s \in Sessions, NEW new \in Row, Saves(s, new)
      PROVE  Goal
  <2> DEFINE e == sess[s].exp
  <2>1. /\ Close(s) /\ row' = [row EXCEPT ![e] = new]
        /\ aux_accepted \subseteq aux_accepted' /\ Open(s) /\ MaySave(s, new)
    BY <1>6 DEF Saves, Save
  <2>2. Resulted(new) /\ (new.state \in PostReview => e \in aux_accepted')
    BY <1>1, <2>1 DEF MaySave
  <2>3. \A d \in Experiments : row'[d] = IF d = e THEN new ELSE row[d]
    BY <1>0, <2>1 DEF TypeOK
  <2>4. \A d \in Experiments : Reviewed(row[d], d)' /\ Resulted(row'[d])
    BY <1>1, <2>1, <2>2, <2>3
  <2>5. \A t \in Sessions : Open(t)' => /\ Reviewed(sess[t].seen, sess[t].exp)'
                                        /\ Resulted(sess'[t].seen)
    BY <1>1, <1>5, <2>1
  <2> QED BY <2>4, <2>5
<1>7. ASSUME NEW s \in Sessions, Abort(s)
      PROVE  Goal
  BY <1>1, <1>5, <1>7 DEF Abort, aux_vars
<1>8. ASSUME NEW e \in Experiments, NEW f \in Flags, Create(e, f)
      PROVE  Goal
  <2> DEFINE new == [state |-> "draft", version |-> 1, flag |-> f, result |-> FALSE]
  <2>1. \A d \in Experiments : row'[d] = IF d = e THEN new ELSE row[d]
    BY <1>0, <1>8 DEF Create, NewRow, TypeOK
  <2>2. Resulted(new) /\ new.state \notin PostReview
    BY DEF PostReview
  <2> QED BY <1>1, <1>8, <2>1, <2>2 DEF Create, NewRow, Open, aux_vars
<1>9. CASE RulesChange \/ UNCHANGED vars \/ \E s \in Sessions : RefuseGuard(s)
  BY <1>1, <1>9 DEF RulesChange, RefuseGuard, vars, Open, aux_vars
<1> QED BY <1>3, <1>4, <1>6, <1>7, <1>8, <1>9, StepShapes

LEMMA PastAlways == Spec => []PastInv
<1>1. Init => PastInv
  BY DEF Init, PastInv, ReviewedBeforeRun, ResultIffArchived, CopiesReviewed,
         CopiesResulted, NoRow, PostReview, Open, Idle
<1> QED BY <1>1, InitInv, NextInv, NextPast, PTL DEF Spec

\* Whatever stale copies are saved, nothing is accepted, started, stopped or
\* archived that no review accepted: only ApproveDraft writes a first state after
\* the review, and a copy that is past the review is of an accepted experiment.
THEOREM ReviewPrecedesRun == Spec => []ReviewedBeforeRun
<1>1. PastInv => ReviewedBeforeRun
  BY DEF PastInv
<1> QED BY <1>1, PastAlways, PTL

\* usecases/02, invariant 4: a result exactly in the archive. It survives stale
\* saves because save() writes the whole row.
THEOREM ResultWithArchive == Spec => []ResultIffArchived
<1>1. PastInv => ResultIffArchived
  BY DEF PastInv
<1> QED BY <1>1, PastAlways, PTL

-----------------------------------------------------------------------------
(* One experiment per flag *)

Running(r, f) == r.state = "started" /\ r.flag = f

\* A session that checked the flag still holds it, and what has become STARTED
\* on the flag since then was resurrected.
HoldsFlag(s) == TakesFlag(s) /\ sess[s].phase = "checked"
FlagsHeld ==
    \A s \in Sessions : HoldsFlag(s) =>
        /\ flagLock[sess[s].seen.flag] = s
        /\ \A e \in Experiments : Running(row[e], sess[s].seen.flag) => e \in aux_resurrected

FlagInv == OneStartedPerFlagButResurrected /\ FlagsHeld

\* What a save does to the flag it saves STARTED on: it was there already, or it
\* is a resurrection, or the session holds the flag.
LEMMA SavedRunning ==
    ASSUME Inv, FlagInv, NEW s \in Sessions, NEW new \in Row, Saves(s, new),
           new.state = "started"
    PROVE  LET e == sess[s].exp IN
           \/ Running(row[e], new.flag) /\ aux_resurrected' = aux_resurrected
           \/ e \in aux_resurrected' /\ aux_resurrected \subseteq aux_resurrected'
           \/ /\ HoldsFlag(s) /\ sess[s].seen.flag = new.flag
              /\ aux_resurrected' = aux_resurrected \ {e}
<1> DEFINE e == sess[s].exp
<1>1. /\ aux_resurrected' = IF sess[s].op = "update" /\ new.state = "started"
                            THEN IF Resurrects(s, new) THEN aux_resurrected \union {e}
                                                       ELSE aux_resurrected
                            ELSE aux_resurrected \ {e}
      /\ MaySave(s, new)
  BY DEF Saves, Save
<1>2. CASE sess[s].op = "update"
  BY <1>1, <1>2 DEF Resurrects, Running
<1>3. CASE sess[s].op # "update"
  BY <1>1, <1>3 DEF MaySave, HoldsFlag
<1> QED BY <1>2, <1>3

LEMMA NextFlag == Inv /\ FlagInv /\ [Next]_vars => FlagInv'
<1> SUFFICES ASSUME Inv, FlagInv, [Next]_vars PROVE FlagInv'
  OBVIOUS
<1>0. TypeOK /\ RequestsOK
  BY DEF Inv
<1> DEFINE Lone ==
        \A d, e \in Experiments : \A f \in Flags :
            d # e /\ Running(row'[d], f) /\ Running(row'[e], f)
                => d \in aux_resurrected' \/ e \in aux_resurrected'
<1> DEFINE Held ==
        \A t \in Sessions : HoldsFlag(t)' =>
            /\ flagLock'[sess'[t].seen.flag] = t
            /\ \A e \in Experiments :
                   Running(row'[e], sess'[t].seen.flag) => e \in aux_resurrected'
<1>1. /\ \A d, e \in Experiments : \A f \in Flags :
             d # e /\ Running(row[d], f) /\ Running(row[e], f)
                 => d \in aux_resurrected \/ e \in aux_resurrected
      /\ \A t \in Sessions : HoldsFlag(t) =>
             /\ flagLock[sess[t].seen.flag] = t
             /\ sess[t].seen.flag \in Flags
             /\ \A e \in Experiments :
                    Running(row[e], sess[t].seen.flag) => e \in aux_resurrected
  BY <1>0 DEF FlagInv, OneStartedPerFlagButResurrected, FlagsHeld, Running, HoldsFlag,
              RequestsOK, WellFormed, Open
<1>2. SUFFICES Lone /\ Held
  <2>1. RowsOK'
    BY NextInv DEF Inv
  <2> QED BY <2>1 DEF FlagInv, OneStartedPerFlagButResurrected, FlagsHeld, Running,
                      RowsOK
<1>3. ASSUME NEW s \in Sessions, NEW r \in Session, Opens(s, r)
      PROVE  Lone /\ Held
  <2>1. sess'[s] = r /\ \A t \in Sessions \ {s} : sess'[t] = sess[t]
    BY <1>0, <1>3 DEF Opens, TypeOK
  <2>2. r.phase # "checked"
    BY <1>3 DEF Opens
  <2> QED BY <1>1, <1>3, <2>1, <2>2 DEF Opens, Running, HoldsFlag, TakesFlag, aux_vars
<1>4. ASSUME NEW s \in Sessions, NEW votes \in SUBSET Vote, Checks(s, votes)
      PROVE  Lone /\ Held
  <2> DEFINE f == sess[s].seen.flag
  <2>1. UNCHANGED <<row, aux_resurrected>>
    BY <1>4 DEF Checks, aux_vars
  <2>2. \A t \in Sessions : /\ sess'[t].seen = sess[t].seen
                            /\ TakesFlag(t)' <=> TakesFlag(t)
    BY <1>0, <1>4, MarkCheckedTypes DEF Checks, TakesFlag
  <2>3. \A t \in Sessions \ {s} : sess'[t] = sess[t]
    BY <1>0, <1>4, MarkCheckedTypes DEF Checks
  <2>4. CASE TakesFlag(s)
    <3>1. /\ flagLock[f] = None /\ ActiveOnFlag(f) = {}
          /\ flagLock' = [flagLock EXCEPT ![f] = s]
      BY <1>4, <2>4 DEF Checks, TakeFlag
    <3>2. f \in Flags
      BY <1>0, <1>4 DEF Checks, RequestsOK, WellFormed
    <3>3. flagLock'[f] = s /\ \A g \in Flags \ {f} : flagLock'[g] = flagLock[g]
      BY <1>0, <3>1, <3>2 DEF TypeOK
    <3>4. \A e \in Experiments : ~Running(row[e], f)
      BY <3>1 DEF ActiveOnFlag, Running
    <3>5. Held
      <4> SUFFICES ASSUME NEW t \in Sessions, HoldsFlag(t)'
                   PROVE  /\ flagLock'[sess'[t].seen.flag] = t
                          /\ \A e \in Experiments :
                                 Running(row'[e], sess'[t].seen.flag) => e \in aux_resurrected'
        OBVIOUS
      <4>1. CASE t = s
        BY <2>1, <2>2, <3>3, <3>4, <4>1 DEF Running
      <4>2. CASE t # s
        <5>1. sess'[t] = sess[t] /\ HoldsFlag(t)
          BY <2>2, <2>3, <4>2 DEF HoldsFlag
        <5>2. sess[t].seen.flag # f
          BY <1>1, <3>1, <5>1, NoneIsNoValue
        <5> QED BY <1>1, <2>1, <3>3, <5>1, <5>2 DEF Running
      <4> QED BY <4>1, <4>2
    <3> QED BY <1>1, <2>1, <3>5 DEF Running
  <2>5. CASE ~TakesFlag(s)
    <3>1. flagLock' = flagLock
      BY <1>4, <2>5 DEF Checks
    <3>2. \A t \in Sessions : HoldsFlag(t)' => HoldsFlag(t)
      BY <2>2, <2>3, <2>5 DEF HoldsFlag
    <3> QED BY <1>1, <2>1, <2>2, <3>1, <3>2 DEF Running
  <2> QED BY <2>4, <2>5
<1>5. ASSUME NEW s \in Sessions, Close(s), NEW t \in Sessions, HoldsFlag(t)'
      PROVE  /\ t # s /\ HoldsFlag(t) /\ sess'[t] = sess[t]
             /\ flagLock'[sess[t].seen.flag] = t
  <2>1. t # s
    <3>1. Idle.phase # "checked"
      BY DEF Idle
    <3> QED BY <1>0, <1>5, <3>1, CloseTypes DEF HoldsFlag
  <2>2. sess'[t] = sess[t] /\ HoldsFlag(t)
    BY <1>0, <1>5, <2>1, CloseTypes DEF HoldsFlag, TakesFlag
  <2>3. t \notin Sharing(s)
    BY <2>1, <2>2, SharingFacts DEF HoldsFlag, TakesFlag
  <2> QED BY <1>0, <1>1, <1>5, <2>1, <2>2, <2>3, ReleaseFacts DEF Close
<1>6. ASSUME NEW s \in Sessions, NEW new \in Row, Saves(s, new)
      PROVE  Lone /\ Held
  <2> DEFINE e == sess[s].exp
  <2>1. Close(s) /\ row' = [row EXCEPT ![e] = new]
    BY <1>6 DEF Saves, Save
  <2>2. \A d \in Experiments \ {e} : \A f \in Flags : Running(row'[d], f) <=> Running(row[d], f)
    BY <1>0, <2>1 DEF Running, TypeOK
  <2>3. \A d \in Experiments \ {e} : d \in aux_resurrected => d \in aux_resurrected'
    BY <1>6 DEF Saves, Save
  <2>4. e \in Experiments /\ row'[e] = new
    BY <1>0, <1>6, <2>1 DEF Saves, RequestsOK, WellFormed, TypeOK
  <2>5. \A f \in Flags : Running(row'[e], f) <=> (new.state = "started" /\ new.flag = f)
    BY <2>4 DEF Running
  <2>6. new.state = "started" =>
            \/ Running(row[e], new.flag) /\ aux_resurrected' = aux_resurrected
            \/ e \in aux_resurrected' /\ aux_resurrected \subseteq aux_resurrected'
            \/ HoldsFlag(s) /\ sess[s].seen.flag = new.flag
    BY <1>6, SavedRunning
  <2>7. Lone
    <3> SUFFICES ASSUME NEW d \in Experiments \ {e}, NEW f \in Flags,
                        Running(row'[d], f), Running(row'[e], f)
                 PROVE  d \in aux_resurrected' \/ e \in aux_resurrected'
      <4> SUFFICES ASSUME NEW c \in Experiments, NEW d \in Experiments, NEW f \in Flags,
                          c # d, Running(row'[c], f), Running(row'[d], f)
                   PROVE  c \in aux_resurrected' \/ d \in aux_resurrected'
        OBVIOUS
      <4>1. CASE c # e /\ d # e
        BY <1>1, <2>2, <2>3, <4>1
      <4> QED BY <4>1
    <3>1. Running(row[d], f) /\ new.state = "started" /\ new.flag = f
      BY <2>2, <2>5
    <3> QED BY <1>1, <2>3, <2>4, <2>6, <3>1
  <2>8. Held
    <3> SUFFICES ASSUME NEW t \in Sessions, HoldsFlag(t)', NEW d \in Experiments,
                        Running(row'[d], sess'[t].seen.flag)
                 PROVE  d \in aux_resurrected'
      BY <1>5, <2>1
    <3> DEFINE f == sess[t].seen.flag
    <3>1. t # s /\ HoldsFlag(t) /\ sess'[t] = sess[t]
      BY <1>5, <2>1
    <3>2. f \in Flags /\ flagLock[f] = t /\ Running(row'[d], f)
      BY <1>1, <3>1
    <3>3. CASE d # e
      BY <1>1, <2>2, <2>3, <3>1, <3>2, <3>3
    <3>4. CASE d = e
      <4>1. new.state = "started" /\ new.flag = f
        BY <2>5, <3>2, <3>4
      <4>2. ~(HoldsFlag(s) /\ sess[s].seen.flag = f)
        BY <1>1, <3>1, <3>2
      <4> QED BY <1>1, <2>4, <2>6, <3>1, <3>4, <4>1, <4>2
    <3> QED BY <3>3, <3>4
  <2> QED BY <2>7, <2>8
<1>7. ASSUME NEW s \in Sessions, Abort(s)
      PROVE  Lone /\ Held
  <2>1. Close(s) /\ UNCHANGED <<row, aux_resurrected>>
    BY <1>7 DEF Abort, aux_vars
  <2> QED BY <1>1, <1>5, <2>1 DEF Running
<1>8. ASSUME NEW e \in Experiments, NEW f \in Flags, Create(e, f)
      PROVE  Lone /\ Held
  <2> DEFINE new == [state |-> "draft", version |-> 1, flag |-> f, result |-> FALSE]
  <2>1. \A d \in Experiments : row'[d] = IF d = e THEN new ELSE row[d]
    BY <1>0, <1>8 DEF Create, NewRow, TypeOK
  <2>2. \A d \in Experiments : \A g \in Flags : Running(row'[d], g) => Running(row[d], g)
    BY <2>1 DEF Running
  <2>3. UNCHANGED <<sess, flagLock, aux_resurrected>>
    BY <1>8 DEF Create, NewRow, aux_vars
  <2> QED BY <1>1, <2>2, <2>3 DEF HoldsFlag, TakesFlag
<1>9. CASE RulesChange \/ UNCHANGED vars
  <2>1. UNCHANGED <<row, sess, flagLock, aux_resurrected>>
    BY <1>9 DEF RulesChange, vars, aux_vars
  <2> QED BY <1>1, <2>1 DEF Running, HoldsFlag, TakesFlag
<1>10. ASSUME NEW s \in Sessions, RefuseGuard(s)
       PROVE  Lone /\ Held
  <2>1. Release(s) /\ UNCHANGED <<row, sess, aux_resurrected>> /\ sess[s].op = "guard"
    BY <1>10 DEF RefuseGuard, aux_vars
  <2>2. ASSUME NEW t \in Sessions, HoldsFlag(t)
        PROVE  flagLock'[sess[t].seen.flag] = t
    <3>1. t \notin Sharing(s)
      BY <2>1, <2>2, SharingFacts DEF HoldsFlag, TakesFlag
    <3> QED BY <1>0, <1>1, <2>1, <2>2, <3>1, ReleaseFacts
  <2> QED BY <1>1, <2>1, <2>2 DEF Running, HoldsFlag, TakesFlag
<1> QED BY <1>3, <1>4, <1>6, <1>7, <1>8, <1>9, <1>10, StepShapes

\* The flag lock keeps two requests from starting experiments on one flag, for
\* any number of them: only an update that saves a stale STARTED can break it.
THEOREM OneStartedUnlessResurrected == Spec => []OneStartedPerFlagButResurrected
<1>1. Init => FlagInv
  <2> SUFFICES ASSUME Init PROVE FlagInv
    OBVIOUS
  <2>1. \A e \in Experiments : row[e].state = "absent"
    BY DEF Init, NoRow
  <2>2. \A s \in Sessions : sess[s].phase = "idle"
    BY DEF Init, Idle
  <2> QED BY <2>1, <2>2 DEF FlagInv, OneStartedPerFlagButResurrected, FlagsHeld, HoldsFlag
<1>2. FlagInv => OneStartedPerFlagButResurrected
  BY DEF FlagInv
<1> QED BY <1>1, <1>2, InitInv, NextInv, NextFlag, PTL DEF Spec

-----------------------------------------------------------------------------
(* The state table *)

\* A save of a copy that was up to date takes the row along an edge of the table,
\* or leaves its state, and moves the flag of nothing but a draft.
LEMMA FreshSaves ==
    ASSUME Inv, NEW s \in Sessions, NEW new \in Row, Saves(s, new)
    PROVE  LET e == sess[s].exp IN
           /\ e \in Experiments
           /\ row' = [row EXCEPT ![e] = new]
           /\ \/ row'[e] = row[e]
              \/ StaleSave(e)
              \/ /\ ~Stale(s)
                 /\ \/ new.state = row[e].state
                    \/ /\ <<row[e].state, new.state>> \in ValidTransitions
                       /\ new.flag = row[e].flag
                 /\ new.flag = row[e].flag \/ row[e].state = "draft"
<1> DEFINE e == sess[s].exp
<1>1. e \in Experiments
  BY DEF Inv, Saves, RequestsOK, WellFormed
<1>2. Close(s) /\ row' = [row EXCEPT ![e] = new] /\ MaySave(s, new)
  BY DEF Saves, Save
<1>3. sess'[s] = Idle
  BY <1>2, CloseTypes DEF Inv
<1>4. Stale(s) /\ row'[e] # row[e] => StaleSave(e)
  BY <1>3 DEF StaleSave
<1>5. ~Stale(s) => sess[s].seen = row[e]
  BY DEF Stale
<1> QED BY <1>1, <1>2, <1>4, <1>5 DEF MaySave

\* What a step can do to one row.
LEMMA RowSteps ==
    ASSUME Inv, [Next]_vars, NEW e \in Experiments
    PROVE  \/ row'[e] = row[e]
           \/ StaleSave(e)
           \/ row[e].state = "absent" /\ row'[e].state = "draft"
           \/ /\ \/ row'[e].state = row[e].state
                 \/ <<row[e].state, row'[e].state>> \in ValidTransitions
              /\ row'[e].flag = row[e].flag \/ row[e].state = "draft"
<1>1. ASSUME NEW s \in Sessions, NEW new \in Row, Saves(s, new)
      PROVE  \/ row'[e] = row[e]
             \/ StaleSave(e)
             \/ /\ \/ row'[e].state = row[e].state
                   \/ <<row[e].state, row'[e].state>> \in ValidTransitions
                /\ row'[e].flag = row[e].flag \/ row[e].state = "draft"
  BY <1>1, FreshSaves DEF Inv, TypeOK
<1>2. ASSUME NEW d \in Experiments, NEW f \in Flags, Create(d, f)
      PROVE  \/ row'[e] = row[e]
             \/ row[e].state = "absent" /\ row'[e].state = "draft"
  BY <1>2 DEF Create, NewRow, Inv, TypeOK
<1> QED BY <1>1, <1>2, StepShapes DEF Opens, Checks, Abort, RefuseGuard, RulesChange, vars

\* Every change of a committed state is an edge of _VALID_TRANSITIONS, or the
\* save of a copy that was out of date when it was saved.
THEOREM StatesFollowTable == Spec => OffTableOnlyWhenStale
<1> DEFINE OnTable(e) ==
        \/ row'[e].state = row[e].state
        \/ <<row[e].state, row'[e].state>> \in
               ValidTransitions \union {<<"absent", "draft">>}
        \/ StaleSave(e)
<1>1. Inv /\ [Next]_vars => [\A e \in Experiments : OnTable(e)]_vars
  BY RowSteps
<1>2. Spec => [][\A e \in Experiments : OnTable(e)]_vars
  BY <1>1, InitInv, NextInv, PTL DEF Spec
<1> QED BY <1>2 DEF OffTableOnlyWhenStale

\* An experiment keeps the flag it left the draft with, unless a request saves a
\* copy that was out of date.
THEOREM FlagsAreFixed == Spec => FlagFixedAfterDraft
<1> DEFINE Fixed(e) ==
        \/ row'[e].flag = row[e].flag
        \/ row[e].state \in {"absent", "draft"}
        \/ StaleSave(e)
<1>1. Inv /\ [Next]_vars => [\A e \in Experiments : Fixed(e)]_vars
  BY RowSteps
<1>2. Spec => [][\A e \in Experiments : Fixed(e)]_vars
  BY <1>1, InitInv, NextInv, PTL DEF Spec
<1> QED BY <1>2 DEF FlagFixedAfterDraft

-----------------------------------------------------------------------------
(* The votes of a review *)

Voters(votes) == {v.by : v \in votes}

\* A set of votes, at most one of each reviewer, has as many voters as votes.
LEMMA VotersAreVotes ==
    ASSUME NEW votes, IsFiniteSet(votes),
           \A v, w \in votes : v.by = w.by => v = w
    PROVE  IsFiniteSet(Voters(votes)) /\ Cardinality(Voters(votes)) = Cardinality(votes)
<1> DEFINE by == [v \in votes |-> v.by]
<1>1. by \in Surjection(votes, Voters(votes))
  BY DEF Surjection, Voters
<1>2. by \in Injection(votes, Voters(votes))
  BY DEF Injection, IsInjective, Voters
<1> HIDE DEF by
<1> QED BY <1>1, <1>2, FS_Surjection

\* While a review decides, the approvals are those it counted, and its reviewer
\* is not among them.
CountsAreFresh ==
    \A s \in Sessions : Ready(s, "approve", "checked") =>
        /\ sess[s].votes = approvals[sess[s].exp]
        /\ sess[s].arg \notin Voters(approvals[sess[s].exp])
FiniteVotes == \A e \in Experiments : IsFiniteSet(approvals[e])

VoteInv == NoDoubleVote /\ FiniteVotes /\ CountsAreFresh

\* A save that casts a vote adds a vote of a new voter to those that were counted.
LEMMA CastVote ==
    ASSUME Inv, VoteInv, NEW s \in Sessions, NEW new \in Row, Votes(s, new),
           sess[s].exp \in Experiments
    PROVE  LET e == sess[s].exp IN
           /\ \A d \in Experiments \ {e} : approvals'[d] = approvals[d]
           /\ IsFiniteSet(approvals'[e])
           /\ Cardinality(approvals'[e]) = Cardinality(sess[s].votes) + 1
           /\ \A v, w \in approvals'[e] : v.by = w.by => v = w
<1> DEFINE e == sess[s].exp
<1>1. PICK v \in Vote : v.by = sess[s].arg /\ approvals' = [approvals EXCEPT ![e] = @ \union {v}]
  BY DEF Votes
<1>2. /\ IsFiniteSet(approvals[e])
      /\ sess[s].votes = approvals[e] /\ sess[s].arg \notin Voters(approvals[e])
      /\ \A x, y \in approvals[e] : x.by = y.by => x = y
  BY DEF VoteInv, FiniteVotes, CountsAreFresh, NoDoubleVote, Votes
<1>3. approvals'[e] = approvals[e] \union {v}
  BY <1>1 DEF Inv, TypeOK
<1>4. \A w \in approvals[e] : w.by # v.by
  BY <1>1, <1>2 DEF Voters
<1>5. v \notin approvals[e]
  BY <1>4
<1>6. IsFiniteSet(approvals'[e]) /\ Cardinality(approvals'[e]) = Cardinality(approvals[e]) + 1
  <2>1. /\ IsFiniteSet(approvals[e] \union {v})
        /\ Cardinality(approvals[e] \union {v}) = Cardinality(approvals[e]) + 1
    BY <1>2, <1>5, FS_AddElement
  <2> QED BY <1>3, <2>1
<1>7. \A x, y \in approvals'[e] : x.by = y.by => x = y
  BY <1>2, <1>3, <1>4
<1>8. \A d \in Experiments \ {e} : approvals'[d] = approvals[d]
  BY <1>1 DEF Inv, TypeOK
<1> QED BY <1>2, <1>6, <1>7, <1>8

LEMMA NextVote == Inv /\ LockedReadIsFresh /\ VoteInv /\ [Next]_vars => VoteInv'
<1> SUFFICES ASSUME Inv, LockedReadIsFresh, VoteInv, [Next]_vars PROVE VoteInv'
  OBVIOUS
<1>0. TypeOK /\ RequestsOK
  BY DEF Inv
<1> DEFINE Single == \A e \in Experiments :
                         /\ IsFiniteSet(approvals'[e])
                         /\ \A v, w \in approvals'[e] : v.by = w.by => v = w
<1> DEFINE Counted(t) == /\ sess'[t].votes = approvals'[sess'[t].exp]
                         /\ sess'[t].arg \notin Voters(approvals'[sess'[t].exp])
<1> DEFINE Counts == \A t \in Sessions : Ready(t, "approve", "checked")' => Counted(t)
<1>1. /\ \A e \in Experiments : /\ IsFiniteSet(approvals[e])
                                /\ \A v, w \in approvals[e] : v.by = w.by => v = w
      /\ \A t \in Sessions : Ready(t, "approve", "checked") =>
             /\ sess[t].votes = approvals[sess[t].exp]
             /\ sess[t].arg \notin Voters(approvals[sess[t].exp])
             /\ rowLock[sess[t].exp] = t /\ sess[t].exp \in Experiments
  BY <1>0 DEF VoteInv, NoDoubleVote, FiniteVotes, CountsAreFresh, LockedReadIsFresh,
              Ready, RequestsOK, WellFormed, Open
<1>2. SUFFICES Single /\ Counts
  BY DEF VoteInv, NoDoubleVote, FiniteVotes, CountsAreFresh, Voters, Ready
<1>3. ASSUME NEW s \in Sessions, NEW r \in Session, Opens(s, r)
      PROVE  Single /\ Counts
  <2>1. sess'[s] = r /\ \A t \in Sessions \ {s} : sess'[t] = sess[t]
    BY <1>0, <1>3 DEF Opens, TypeOK
  <2>2. r.phase = "read" /\ approvals' = approvals
    BY <1>3 DEF Opens
  <2> QED BY <1>1, <2>1, <2>2 DEF Ready
<1>4. ASSUME NEW s \in Sessions, NEW votes \in SUBSET Vote, Checks(s, votes)
      PROVE  Single /\ Counts
  <2>1. /\ \A t \in Sessions \ {s} : sess'[t] = sess[t]
        /\ sess'[s].op = sess[s].op /\ sess'[s].exp = sess[s].exp
        /\ sess'[s].arg = sess[s].arg /\ sess'[s].votes = votes
    BY <1>0, <1>4, MarkCheckedTypes DEF Checks
  <2>2. approvals' = approvals
    BY <1>4 DEF Checks
  <2>3. sess[s].op = "approve" => /\ votes = approvals[sess[s].exp]
                                  /\ sess[s].arg \notin Voters(approvals[sess[s].exp])
    BY <1>4 DEF Checks, CountVotes, Voters
  <2> QED BY <1>1, <2>1, <2>2, <2>3 DEF Ready
<1>5. ASSUME NEW s \in Sessions, Close(s), NEW t \in Sessions,
             Ready(t, "approve", "checked")'
      PROVE  t # s /\ sess'[t] = sess[t] /\ Ready(t, "approve", "checked")
  <2>1. Idle.op # "approve"
    BY DEF Idle
  <2> QED BY <1>0, <1>5, <2>1, CloseTypes DEF Ready
<1>6. ASSUME NEW s \in Sessions, NEW new \in Row, Saves(s, new)
      PROVE  Single /\ Counts
  <2> DEFINE e == sess[s].exp
  <2>1. Close(s) /\ rowLock[e] \in Sharing(s) \union {None} /\ e \in Experiments
    BY <1>0, <1>6 DEF Saves, Save, RequestsOK, WellFormed
  <2>2. \A d \in Experiments \ {e} : approvals'[d] = approvals[d]
    BY <1>6, <2>1, CastVote DEF Saves
  <2>3. Single
    <3>1. CASE Votes(s, new)
      BY <1>1, <2>1, <2>2, <3>1, CastVote
    <3>2. CASE ~Votes(s, new)
      <4>1. \A d \in Experiments : approvals'[d] \subseteq approvals[d]
        BY <1>6, <3>2 DEF Saves
      <4> QED BY <1>1, <4>1, FS_Subset
    <3> QED BY <3>1, <3>2
  <2>4. Counts
    <3> SUFFICES ASSUME NEW t \in Sessions, Ready(t, "approve", "checked")'
                 PROVE  Counted(t)
      OBVIOUS
    <3>1. t # s /\ sess'[t] = sess[t] /\ Ready(t, "approve", "checked")
      BY <1>5, <2>1
    <3>2. t \notin Sharing(s)
      BY <3>1, SharingFacts DEF Ready
    <3>3. sess[t].exp # e
      BY <1>1, <2>1, <3>1, <3>2, NoneIsNoValue
    <3> QED BY <1>1, <2>2, <3>1, <3>3
  <2> QED BY <2>3, <2>4
<1>7. ASSUME NEW s \in Sessions, Abort(s)
      PROVE  Single /\ Counts
  <2>1. Close(s) /\ approvals' = approvals
    BY <1>7 DEF Abort
  <2> QED BY <1>1, <1>5, <2>1
<1>8. CASE \/ \E e \in Experiments, f \in Flags : Create(e, f)
           \/ RulesChange
           \/ UNCHANGED vars
           \/ \E s \in Sessions : RefuseGuard(s)
  <2>1. UNCHANGED <<approvals, sess>>
    BY <1>8 DEF Create, NewRow, RulesChange, RefuseGuard, vars
  <2> QED BY <1>1, <2>1 DEF Ready
<1> QED BY <1>3, <1>4, <1>6, <1>7, <1>8, StepShapes

LEMMA VotesAlways == Spec => []VoteInv
<1>1. Init => VoteInv
  BY FS_EmptySet DEF Init, VoteInv, NoDoubleVote, FiniteVotes, CountsAreFresh, Ready, Idle
<1>2. Init => LockedReadIsFresh
  BY DEF Init, LockedReadIsFresh, Open, Idle
<1> QED BY <1>1, <1>2, InitInv, NextInv, NextFresh, NextVote, PTL DEF Spec

\* No reviewer has two approvals of one experiment, however often the request is
\* repeated or doubled: the row lock serialises the check and the INSERT.
THEOREM OneVoteEach == Spec => []NoDoubleVote
<1>1. VoteInv => NoDoubleVote
  BY DEF VoteInv
<1> QED BY <1>1, VotesAlways, PTL

\* A review accepts only with approvals of as many different reviewers as the
\* threshold it read, unless the saved copy was out of date.
THEOREM QuorumAccepts == Spec => AcceptedByQuorum
<1> DEFINE Quorum(e) ==
        row[e].state = "in_review" /\ row'[e].state = "accepted" =>
            \/ StaleSave(e)
            \/ \E s \in Sessions :
                   /\ Ready(s, "approve", "checked") /\ sess[s].exp = e
                   /\ Cardinality({v.by : v \in approvals'[e]}) >= sess[s].quorum
<1>1. ASSUME Inv, VoteInv, [Next]_vars, NEW e \in Experiments,
             row[e].state = "in_review", row'[e].state = "accepted", ~StaleSave(e)
      PROVE  \E s \in Sessions :
                 /\ Ready(s, "approve", "checked") /\ sess[s].exp = e
                 /\ Cardinality({v.by : v \in approvals'[e]}) >= sess[s].quorum
  <2>1. PICK s \in Sessions, new \in Row : Saves(s, new)
    <3>1. row' # row
      BY <1>1
    <3>2. ~\E d \in Experiments, f \in Flags : Create(d, f)
      BY <1>1 DEF Create, Inv, TypeOK
    <3> QED BY <1>1, <3>1, <3>2, StepShapes DEF Opens, Checks, Abort, RefuseGuard, RulesChange, vars
  <2>2. sess[s].exp = e /\ new = row'[e] /\ ~Stale(s)
    <3> DEFINE d == sess[s].exp
    <3>1. /\ d \in Experiments /\ row' = [row EXCEPT ![d] = new]
          /\ row'[d] = row[d] \/ StaleSave(d) \/ ~Stale(s)
      BY <1>1, <2>1, FreshSaves
    <3>2. row'[e] # row[e]
      BY <1>1
    <3>3. d = e /\ new = row'[e]
      BY <1>1, <3>1, <3>2 DEF Inv, TypeOK
    <3> QED BY <1>1, <3>1, <3>2, <3>3
  <2>3. Votes(s, new)
    BY <1>1, <2>1, <2>2 DEF Saves, Stale
  <2>4. Accepts(s) /\ Ready(s, "approve", "checked")
    BY <1>1, <2>2, <2>3 DEF Votes
  <2>5. /\ IsFiniteSet(approvals'[e])
        /\ Cardinality(approvals'[e]) = Cardinality(sess[s].votes) + 1
        /\ \A v, w \in approvals'[e] : v.by = w.by => v = w
    BY <1>1, <2>2, <2>3, CastVote
  <2>6. Cardinality(Voters(approvals'[e])) = Cardinality(sess[s].votes) + 1
    BY <2>5, VotersAreVotes
  <2>7. Cardinality(sess[s].votes) + 1 \in Nat /\ sess[s].quorum \in Nat
    BY <1>1, <2>5, FS_CardinalityType DEF Inv, TypeOK, Session
  <2>8. Cardinality(Voters(approvals'[e])) >= sess[s].quorum
    BY <2>4, <2>6, <2>7 DEF Accepts
  <2> QED BY <2>2, <2>4, <2>8 DEF Voters
<1>2. Inv /\ VoteInv /\ [Next]_vars => [\A e \in Experiments : Quorum(e)]_vars
  BY <1>1
<1>3. Spec => [][\A e \in Experiments : Quorum(e)]_vars
  BY <1>2, InitInv, NextInv, VotesAlways, PTL DEF Spec
<1> QED BY <1>3 DEF AcceptedByQuorum

-----------------------------------------------------------------------------
(* The workflow, when nothing stale is saved *)

FreshNext == Next /\ \A e \in Experiments : ~StaleSave(e)

\* Without stale saves nothing is resurrected.
NoneResurrected == aux_resurrected = {}

LEMMA NextNoneResurrected ==
    ASSUME Inv, FlagInv, NoneResurrected, [FreshNext]_vars
    PROVE  NoneResurrected'
<1>1. [Next]_vars
  BY DEF FreshNext
<1>2. ASSUME NEW s \in Sessions, NEW new \in Row, Saves(s, new)
      PROVE  aux_resurrected' = {}
  <2> DEFINE e == sess[s].exp
  <2>1. /\ aux_resurrected' = IF sess[s].op = "update" /\ new.state = "started"
                              THEN IF Resurrects(s, new) THEN aux_resurrected \union {e}
                                                         ELSE aux_resurrected
                              ELSE aux_resurrected \ {e}
        /\ MaySave(s, new)
    BY <1>2 DEF Saves, Save
  <2>2. CASE sess[s].op = "update" /\ new.state = "started"
    <3>1. sess[s].seen.state = "started" /\ sess[s].seen.flag = new.flag
      BY <2>1, <2>2 DEF MaySave, TakesFlag
    <3>2. /\ row' = [row EXCEPT ![e] = new] /\ e \in Experiments
          /\ row'[e] = row[e] \/ StaleSave(e) \/ ~Stale(s)
      BY <1>2, FreshSaves
    <3>3. row'[e] = row[e] => ~Resurrects(s, new)
      BY <2>2, <3>2 DEF Resurrects, Inv, TypeOK
    <3>4. ~Stale(s) => ~Resurrects(s, new)
      BY <3>1 DEF Stale, Resurrects
    <3>5. row'[e] # row[e] => ~StaleSave(e)
      BY <3>2 DEF FreshNext, vars
    <3> QED BY <2>1, <2>2, <3>2, <3>3, <3>4, <3>5 DEF NoneResurrected
  <2>3. CASE ~(sess[s].op = "update" /\ new.state = "started")
    BY <2>1, <2>3 DEF NoneResurrected
  <2> QED BY <2>2, <2>3
<1> QED BY <1>1, <1>2, StepShapes
        DEF Opens, Checks, Abort, RefuseGuard, Create, RulesChange, vars, aux_vars, NoneResurrected

\* A step without a stale save is a step of the workflow, or changes no state and
\* no flag.
LEMMA FreshStepsAreMoves ==
    ASSUME Inv, FlagInv, NoneResurrected, [FreshNext]_vars
    PROVE  [WF!WNext]_(WF!wvars)
<1> DEFINE state == [e \in Experiments |-> row[e].state]
           flag == [e \in Experiments |-> row[e].flag]
<1>1. [Next]_vars /\ TypeOK
  BY DEF FreshNext, Inv
<1>2. CASE row' = row
  BY <1>2 DEF WF!wvars
<1>3. ASSUME NEW s \in Sessions, NEW new \in Row, Saves(s, new), row' # row
      PROVE  WF!WNext \/ (state' = state /\ flag' = flag)
  <2>1. PICK e \in Experiments : e = sess[s].exp /\ row' = [row EXCEPT ![e] = new]
    BY <1>3, FreshSaves
  <2>2. row'[e] = new /\ row'[e] # row[e] /\ row[e] \in Row
    BY <1>1, <1>3, <2>1 DEF TypeOK
  <2>3. /\ ~Stale(s) /\ sess[s].seen = row[e]
        /\ \/ new.state = row[e].state
           \/ /\ <<row[e].state, new.state>> \in ValidTransitions
              /\ new.flag = row[e].flag
        /\ new.flag = row[e].flag \/ row[e].state = "draft"
    <3>1. ~StaleSave(e)
      BY <1>3, <2>1 DEF FreshNext, vars
    <3> QED BY <1>3, <2>1, <2>2, <3>1, FreshSaves DEF Stale
  <2>4. /\ state' = [state EXCEPT ![e] = new.state]
        /\ flag' = [flag EXCEPT ![e] = new.flag]
        /\ state[e] = row[e].state /\ flag[e] = row[e].flag
    BY <1>1, <2>1 DEF TypeOK
  <2>5. CASE new.state = row[e].state /\ new.flag = row[e].flag
    BY <2>4, <2>5
  <2>6. CASE new.state = row[e].state /\ new.flag # row[e].flag
    <3>1. row[e].state = "draft" /\ new.flag \in Flags
      BY <1>3, <2>3, <2>6 DEF Saves, MaySave
    <3>2. state' = state
      BY <2>4, <2>6
    <3>3. WF!Retarget(e)
      BY <2>4, <3>1, <3>2 DEF WF!Retarget
    <3> QED BY <2>1, <3>3 DEF WF!WNext
  <2>7. CASE new.state # row[e].state
    <3>1. /\ <<row[e].state, new.state>> \in ValidTransitions
          /\ new.flag = row[e].flag
      BY <2>3, <2>7
    <3>2. ASSUME new.state = "started"
          PROVE  \A d \in Experiments : ~(row[d].state = "started" /\ row[d].flag = row[e].flag)
      <4>1. aux_resurrected' = {}
        BY NextNoneResurrected DEF NoneResurrected
      <4>2. ~Running(row[e], new.flag)
        BY <2>7, <3>2 DEF Running
      <4>3. HoldsFlag(s) /\ sess[s].seen.flag = new.flag
        BY <1>3, <2>1, <3>2, <4>1, <4>2, SavedRunning
      <4>4. \A d \in Experiments : Running(row[d], sess[s].seen.flag) => d \in aux_resurrected
        BY <4>3 DEF FlagInv, FlagsHeld
      <4> QED BY <3>1, <4>3, <4>4 DEF Running, NoneResurrected
    <3>3. new.state \in States
      BY <3>1 DEF ValidTransitions, States
    <3>4. flag' = flag
      BY <2>4, <3>1
    <3>5. WF!Move(e)
      BY <2>4, <3>1, <3>2, <3>3, <3>4
         DEF WF!Move, WF!FreeOf, WF!States, WF!ValidTransitions, States, ValidTransitions
    <3> QED BY <2>1, <3>5 DEF WF!WNext
  <2> QED BY <2>5, <2>6, <2>7
<1>4. ASSUME NEW e \in Experiments, NEW f \in Flags, Create(e, f)
      PROVE  WF!WNext
  <2> DEFINE new == [state |-> "draft", version |-> 1, flag |-> f, result |-> FALSE]
  <2>1. row[e].state = "absent" /\ row' = [row EXCEPT ![e] = new]
    BY <1>4 DEF Create, NewRow
  <2>2. /\ state' = [state EXCEPT ![e] = "draft"]
        /\ flag' = [flag EXCEPT ![e] = f]
        /\ state[e] = "absent"
    BY <1>1, <2>1 DEF TypeOK
  <2>3. WF!NewDraft(e)
    BY <2>2 DEF WF!NewDraft
  <2> QED BY <2>3 DEF WF!WNext
<1> QED BY <1>1, <1>2, <1>3, <1>4, StepShapes
        DEF Opens, Checks, Abort, RefuseGuard, RulesChange, vars, WF!wvars

\* If no session saves a stale copy, the requests implement the state machine of
\* usecases/02, with one STARTED experiment per flag: the row locks, flag locks
\* and checks suffice for everything but the unlocked reads.
THEOREM FreshImplementsWorkflow == FreshSpec => ImplementsWorkflow
<1>1. Init => FlagInv /\ NoneResurrected
  <2> SUFFICES ASSUME Init PROVE FlagInv /\ NoneResurrected
    OBVIOUS
  <2>1. \A e \in Experiments : row[e].state = "absent"
    BY DEF Init, NoRow
  <2>2. \A s \in Sessions : sess[s].phase = "idle"
    BY DEF Init, Idle
  <2> QED BY <2>1, <2>2 DEF Init, FlagInv, OneStartedPerFlagButResurrected, FlagsHeld,
                            HoldsFlag, NoneResurrected
<1>2. Init => WF!WInit
  BY DEF Init, WF!WInit, NoRow
<1>3. [FreshNext]_vars => [Next]_vars
  BY DEF FreshNext
<1>4. Inv /\ FlagInv /\ NoneResurrected /\ [FreshNext]_vars => NoneResurrected'
  BY NextNoneResurrected
<1>5. Inv /\ FlagInv /\ NoneResurrected /\ [FreshNext]_vars => [WF!WNext]_(WF!wvars)
  BY FreshStepsAreMoves
<1>6. FreshSpec <=> Init /\ [][FreshNext]_vars
  BY DEF FreshSpec, FreshNext
<1>7. FreshSpec => WF!WInit /\ [][WF!WNext]_(WF!wvars)
  BY <1>1, <1>2, <1>3, <1>4, <1>5, <1>6, InitInv, NextInv, NextFlag, PTL
<1> QED BY <1>7 DEF ImplementsWorkflow, WF!WSpec

\* Without stale saves a decision and the state it explains change together.
LEMMA NextDecision ==
    ASSUME Inv, DecisionOnRecord, [FreshNext]_vars
    PROVE  DecisionOnRecord'
<1> DEFINE Explained(e) ==
        /\ row'[e].state \in PostReview => decision'[e] = "accepted"
        /\ row'[e].state = "rejected" => decision'[e] = "rejected"
<1>1. [Next]_vars /\ TypeOK
  BY DEF FreshNext, Inv
<1>2. \A e \in Experiments : /\ row[e].state \in PostReview => decision[e] = "accepted"
                             /\ row[e].state = "rejected" => decision[e] = "rejected"
  BY DEF DecisionOnRecord
<1>3. SUFFICES \A e \in Experiments : Explained(e)
  BY DEF DecisionOnRecord
<1>4. ASSUME NEW s \in Sessions, NEW new \in Row, Saves(s, new), NEW d \in Experiments
      PROVE  Explained(d)
  <2>1. PICK e \in Experiments : e = sess[s].exp /\ row' = [row EXCEPT ![e] = new]
    BY <1>4, FreshSaves
  <2>2. row'[e] = new /\ (d # e => row'[d] = row[d])
    BY <1>1, <2>1 DEF TypeOK
  <2>3. \/ /\ decision' = decision
           /\ new.state \in {"accepted", "rejected"} => new.state = sess[s].seen.state
        \/ /\ new.state \in {"accepted", "rejected"}
           /\ decision'[e] = new.state
           /\ d # e => decision'[d] = decision[d]
    BY <1>1, <1>4, <2>1 DEF Saves, Decides, TypeOK
  <2>4. CASE d # e
    BY <1>2, <2>2, <2>3, <2>4
  <2>5. CASE d = e /\ decision'[e] = new.state /\ new.state \in {"accepted", "rejected"}
    BY <2>2, <2>5 DEF PostReview
  <2>6. CASE /\ d = e /\ decision' = decision
             /\ new.state \in {"accepted", "rejected"} => new.state = sess[s].seen.state
    <3>1. row'[e] # row[e] => ~StaleSave(e)
      BY <2>1 DEF FreshNext, vars
    <3>2. \/ row'[e] = row[e]
          \/ /\ ~Stale(s)
             /\ \/ new.state = row[e].state
                \/ <<row[e].state, new.state>> \in ValidTransitions
      BY <1>4, <2>1, <3>1, FreshSaves
    <3>3. CASE row'[e] = row[e]
      BY <1>2, <2>6, <3>3
    <3>4. CASE ~Stale(s) /\ new.state \in {"accepted", "rejected"}
      BY <1>2, <2>1, <2>2, <2>6, <3>4 DEF Stale, PostReview
    <3>5. CASE ~Stale(s) /\ new.state \notin {"accepted", "rejected"}
      <4>1. new.state \in PostReview => row[e].state \in PostReview
        BY <2>2, <3>2, <3>5 DEF ValidTransitions, PostReview
      <4> QED BY <1>2, <2>2, <2>6, <3>5, <4>1
    <3> QED BY <3>2, <3>3, <3>4, <3>5
  <2> QED BY <2>3, <2>4, <2>5, <2>6
<1>5. ASSUME NEW e \in Experiments, NEW f \in Flags, Create(e, f)
      PROVE  \A d \in Experiments : Explained(d)
  <2> DEFINE new == [state |-> "draft", version |-> 1, flag |-> f, result |-> FALSE]
  <2>1. /\ \A d \in Experiments : row'[d] = IF d = e THEN new ELSE row[d]
        /\ decision' = decision
    BY <1>1, <1>5 DEF Create, NewRow, TypeOK
  <2> QED BY <1>2, <2>1 DEF PostReview
<1>6. CASE UNCHANGED <<row, decision>>
  BY <1>2, <1>6
<1> QED BY <1>1, <1>4, <1>5, <1>6, StepShapes DEF Opens, Checks, Abort, RefuseGuard, RulesChange, vars

\* If no session saves a stale copy, review_decisions explains the state of every
\* experiment that was decided on.
THEOREM FreshDecisionOnRecord == FreshSpec => []DecisionOnRecord
<1>1. Init => DecisionOnRecord
  BY DEF Init, DecisionOnRecord, NoRow, PostReview
<1>2. [FreshNext]_vars => [Next]_vars
  BY DEF FreshNext
<1>3. Inv /\ DecisionOnRecord /\ [FreshNext]_vars => DecisionOnRecord'
  BY NextDecision
<1>4. FreshSpec <=> Init /\ [][FreshNext]_vars
  BY DEF FreshSpec, FreshNext
<1> QED BY <1>1, <1>2, <1>3, <1>4, InitInv, NextInv, PTL
=============================================================================
