---------------------------- MODULE MCDecisions ----------------------------
(***************************************************************************)
(* Decisions for TLC: one subject, two flags. On flagF the experiment expX,*)
(* that is edited or halted, or expZ, which targets attrA; on flagG expY,  *)
(* a rival of expX with equal priority, strict, or without a priority. In  *)
(* the first scene two requests overlap that ask for flagF; in the others  *)
(* one request at a time asks for both flags, on which are rivals, or expX *)
(* and expX itself, moved there by an update from a stale copy.            *)
(***************************************************************************)
EXTENDS Decisions, TLC

CONSTANTS flagF, flagG, expX, expY, expZ, dom, attrA, attrB, user

\* expX, half of it outside; edited, it is all of the first variant.
X1 == [exp |-> expX, flag |-> flagF, halted |-> FALSE, targets |-> Attrs, domain |-> dom,
       strict |-> FALSE, priority |-> 1, audience |-> 50, weights |-> <<50, 50>>,
       control |-> 2]
X2 == [X1 EXCEPT !.audience = 100, !.weights = <<100, 0>>]
X3 == [X2 EXCEPT !.halted = TRUE]
Z1 == [X2 EXCEPT !.exp = expZ, !.targets = {attrA}, !.domain = None, !.priority = None]
Y1 == [X1 EXCEPT !.exp = expY, !.flag = flagG]
Y2 == [Y1 EXCEPT !.strict = TRUE]
Y3 == [Y1 EXCEPT !.priority = None]
XG == [X1 EXCEPT !.flag = flagG]

StickyEntries == {X1, X2, X3, Z1}
RivalEntries == {X1, Y1, Y2, Y3}
MovedEntries == {X1, XG, Z1}
MCEntries == StickyEntries \union RivalEntries \union MovedEntries
MCKeyLists == {<<flagF>>, <<flagG>>, <<flagF, flagG>>, <<flagF, flagG, flagG>>}
MCHashOf ==
    [p \in Subjects \X Experiments \X Flags |->
        IF p[2] = expX /\ p[3] = flagF THEN 700 ELSE 300]
MCTieHash ==
    [p \in Domains \X Experiments |-> IF p[2] = expY THEN 1 ELSE IF p[2] = expX THEN 0 ELSE 2]
RequestSymmetry == Permutations(Requests)

VARIABLE scene

SceneInit == scene \in {"overlap", "rivals", "moved"} /\ DecisionsInit

\* Two requests overlap that ask for flagF, on which experiments follow each other.
OverlapStep ==
    \/ \E x \in StickyEntries : SetOnFlag(flagF, x)
    \/ \E r \in Requests, s \in Subjects : Arrive(r, s, attrA, <<flagF>>)

\* One request at a time asks for lists of both flags, with these experiments.
OneByOne(entries) ==
    \/ \E f \in Flags, x \in entries \union {None} : SetOnFlag(f, x)
    \/ \E f \in Flags : SetFlagDefault(f)
    \/ \E r \in Requests, s \in Subjects, a \in Attrs, k \in KeyLists :
          (\A o \in Requests : ~Open(o)) /\ Arrive(r, s, a, k)

RequestStep ==
    \/ \E r \in Requests : Load(r) \/ Rest(r) \/ Decide(r) \/ Save(r)
    \/ \E r \in Requests : Count(r) \/ Return(r) \/ Fail(r)
    \/ \E s \in Subjects : Expire(s) \/ CooldownEnds(s)

\* Of the steps of DecisionsNext, those of the scene.
SceneNext ==
    /\ UNCHANGED scene
    /\ \/ scene = "overlap" /\ OverlapStep
       \/ scene = "rivals" /\ OneByOne(RivalEntries)
       \/ scene = "moved" /\ OneByOne(MovedEntries)
       \/ RequestStep

SceneSpec == SceneInit /\ [][SceneNext]_<<scene, decision_vars>>
=============================================================================
