----------------------------- MODULE Decisions -----------------------------
(***************************************************************************)
(* MakeDecision: a subject asks for the values of several flags. A request *)
(* looks once at the server's cache of running experiments, then awaits    *)
(* Valkey four times: for the subject's sticky decisions, for its cooldown,*)
(* to save what it decided, and to count it. Requests of one subject run   *)
(* at the same time, the cache changes under them, keys of Valkey expire,  *)
(* and a request can fail at each await.                                   *)
(*                                                                         *)
(* A decision is the experiment and the variant. That its value is the     *)
(* variant's, that its id repeats them, and attributes beyond what targets *)
(* tell apart are left out.                                                *)
(***************************************************************************)
EXTENDS VariantDistribution

CONSTANTS
    Subjects,     \* ids of subjects
    Unsplittable, \* subjects with a ";" in their id
    Flags,        \* flag keys
    Experiments,  \* ids of experiments
    Domains,      \* conflict domains
    Attrs,        \* what targeting rules can tell apart in subject_attrs
    Entries,      \* the CachedExperiments that may be placed on flags
    KeyLists,     \* the lists of flag keys that requests ask for
    HashOf,       \* mmh3.hash("flag:experiment:subject")
    TieHash,      \* mmh3.hash("domain:experiment")
    Requests,     \* requests that can be open at once
    WarmedUp,     \* the flags of which WarmUpStorages found a default
    Threshold,    \* cooldown_experiment_threshold
    None

\* Without a conflict domain there is no policy. A variant is a weight, its name
\* the position in the list. Entries of one experiment may be of several flags: a
\* save from a stale copy can move a running experiment to another flag.
EntryType ==
    [exp : Experiments, flag : Flags, halted : BOOLEAN, targets : SUBSET Attrs,
     domain : Domains \union {None}, strict : BOOLEAN, priority : Nat \union {None},
     audience : Percentage, weights : Seq(Percentage), control : Nat]

ASSUME EntriesAreExperiments ==
    /\ Entries \subseteq EntryType
    /\ \A x \in Entries :
          /\ ValidWeights(x.weights)
          /\ x.control \in DOMAIN x.weights
          /\ x.domain = None => ~x.strict

ASSUME HashesAreHashes ==
    /\ HashOf \in [Subjects \X Experiments \X Flags -> 0..HashSize - 1]
    /\ TieHash \in [Domains \X Experiments -> Nat]

ASSUME RequestParameters ==
    /\ Unsplittable \subseteq Subjects /\ WarmedUp \subseteq Flags
    /\ KeyLists \subseteq Seq(Flags)
    /\ Threshold \in Nat \ {0}
    /\ None \notin Entries \union Domains \union Nat
    /\ IsFiniteSet(Requests) /\ IsFiniteSet(Flags)

VARIABLES
    cache,    \* InMemoryExperimentStorage: the entry of each flag
    known,    \* InMemoryFlagStorage: the flags whose default is known
    sticky,   \* Valkey u:{subject}: decisions by flag
    shown,    \* Valkey exp_count:{subject}
    cooling,  \* Valkey cooldown:{subject} exists
    req,      \* the open requests
    aux_told, \* history: what the subject was last told, by flag, see Forget
    aux_torn, \* history: flags on which overlapping requests may disagree
    aux_homes,\* history: the flags that each experiment has been cached on
    aux_due,  \* history: requests that cooldown.lua answered since the cooldown
              \* last ended and that have not returned
    aux_new,  \* history: new decisions that such requests told
    aux_lost  \* history: those that such requests failed to tell

valkey_vars == <<sticky, shown, cooling>>
count_vars == <<aux_due, aux_new, aux_lost>>
aux_vars == <<aux_told, aux_torn, aux_homes, count_vars>>
decision_vars == <<cache, known, valkey_vars, req, aux_vars>>

-----------------------------------------------------------------------------

Nothing == [f \in {} |-> None]
f ++ g == [x \in DOMAIN f \union DOMAIN g |-> IF x \in DOMAIN f THEN f[x] ELSE g[x]]
Without(f, S) == Restrict(f, DOMAIN f \ S)

Decided == [exp : Experiments, variant : Nat \union {Outside}]
Partial(m, S, T) == DOMAIN m \subseteq S /\ m \in [DOMAIN m -> T]

Idle == [at |-> "idle"]
Open(r) == req[r].at # "idle"
Keys(q) == Range(q.keys)

DecisionsInit ==
    /\ cache = [f \in Flags |-> None]
    /\ known = WarmedUp
    /\ sticky = [s \in Subjects |-> Nothing]
    /\ shown = [s \in Subjects |-> 0]
    /\ cooling = [s \in Subjects |-> FALSE]
    /\ req = [r \in Requests |-> Idle]
    /\ aux_told = [s \in Subjects |-> Nothing]
    /\ aux_torn = [s \in Subjects |-> {}]
    /\ aux_homes = [e \in Experiments |-> {}]
    /\ aux_due = {}
    /\ aux_new = [s \in Subjects |-> 0]
    /\ aux_lost = [s \in Subjects |-> 0]

-----------------------------------------------------------------------------
\* The caches, as the notifier changes them.

\* SetRunningExperimentOnFlag: the notifier and the warm-up put an experiment on the
\* flag it has at that time, and leave the entry of the flag that it had before.
SetOnFlag(f, x) ==
    /\ x # cache[f]
    /\ x # None => x.flag = f
    /\ cache' = [cache EXCEPT ![f] = x]
    /\ aux_homes' = IF x = None THEN aux_homes
                    ELSE [aux_homes EXCEPT ![x.exp] = @ \union {f}]
    /\ UNCHANGED <<known, valkey_vars, req, aux_told, aux_torn, count_vars>>

\* SetFlagDefault of a flag the cache does not know.
SetFlagDefault(f) ==
    /\ f \notin known
    /\ known' = known \union {f}
    /\ UNCHANGED <<cache, valkey_vars, req, aux_vars>>

-----------------------------------------------------------------------------
\* What a request decides, from what it saw when it arrived.

\* The positions of the request's list at which it saw an experiment.
Candidates(q) == {i \in DOMAIN q.keys : q.seen[q.keys[i]] # None}
At(q, i) == q.seen[q.keys[i]]
Rivals(q, d) == {i \in Candidates(q) : At(q, i).domain = d}

\* Mutant of Beats: equal priorities are not told apart.
BeatsOrTies(q, i, j) ==
    LET x == At(q, i)
        y == At(q, j)
    IN  x.priority # None /\ (y.priority = None \/ x.priority <= y.priority)

Tie(x) == TieHash[x.domain, x.exp]

\* The order of _apply_policy on the rivals' positions: the smallest priority, then
\* the largest hash, then, as min() takes it, the first; experiments without a
\* priority lose.
Beats(q, i, j) ==
    LET x == At(q, i)
        y == At(q, j)
    IN  /\ x.priority # None
        /\ \/ y.priority = None
           \/ x.priority < y.priority
           \/ x.priority = y.priority /\ Tie(x) > Tie(y)
           \/ x.priority = y.priority /\ Tie(x) = Tie(y) /\ i <= j

\* _resolve_conflicts: a lone experiment of its domain survives, whatever its
\* policy; of several the winner does, unless one of them is strict. A flag asked
\* for twice makes its experiment a rival of itself.
Survives(q, x) ==
    \/ x.domain = None
    \/ Cardinality(Rivals(q, x.domain)) = 1
    \/ \E i \in Rivals(q, x.domain) :
          /\ At(q, i) = x
          /\ \A j \in Rivals(q, x.domain) : ~At(q, j).strict /\ Beats(q, i, j)

\* The flags that get a new decision: not found among the sticky ones, with an
\* experiment that survives its conflicts and targets the subject.
Assigned(q) ==
    {f \in Keys(q) \ DOMAIN q.found :
        /\ q.seen[f] # None
        /\ Survives(q, q.seen[f])
        /\ q.attr \in q.seen[f].targets
        /\ f \in known}

\* _assign_variant: the control variant of a halted experiment, else the bucket's.
\* A subject outside the audience gets a decision of the experiment as well.
assign_variant(s, x) ==
    [exp |-> x.exp,
     variant |-> IF x.halted
                 THEN x.control
                 ELSE make_decision(x.audience, x.weights, HashOf[s, x.exp, x.flag])]

Answer(q) == q.fresh ++ q.found

-----------------------------------------------------------------------------
\* A request.

Move(r, q) == req' = [req EXCEPT ![r] = q]

\* Open requests of s that saw another experiment, or another state of the same
\* one, on a flag that both ask for.
Torn(s, k, seen) ==
    {f \in Range(k) : \E r \in Requests :
        Open(r) /\ req[r].subject = s /\ f \in Keys(req[r]) /\ req[r].seen[f] # seen[f]}

\* The call of MakeDecision: _get_experiments_for_flags.
Arrive(r, s, a, k) ==
    /\ ~Open(r)
    /\ LET seen == Restrict(cache, Range(k)) IN
       /\ Move(r, [at |-> "load", subject |-> s, attr |-> a, keys |-> k, seen |-> seen,
                   found |-> Nothing, fresh |-> Nothing])
       /\ aux_torn' = [aux_torn EXCEPT ![s] = @ \union Torn(s, k, seen)]
    /\ UNCHANGED <<cache, known, valkey_vars, aux_told, aux_homes, count_vars>>

\* Mutant of Found: decisions are found by flag alone.
FoundByFlag(q) == Restrict(sticky[q.subject], Keys(q) \intersect DOMAIN sticky[q.subject])

\* Mutant of Found: what is sticky is not used.
FoundNothing(q) == Nothing

\* load_existing_decisions: those of the requested flags whose experiment is one
\* of those seen, on whichever flag. _load_decision takes the fifth field and
\* those before it from the text between semicolons; a semicolon in the subject's
\* id, which is part of the first field, moves them, and no id matches.
Found(q) ==
    LET saved == sticky[q.subject] IN
    IF q.subject \in Unsplittable
    THEN Nothing
    ELSE Restrict(saved, {f \in Keys(q) \intersect DOMAIN saved :
                             \E i \in Candidates(q) : At(q, i).exp = saved[f].exp})

\* HMGET u:{subject}.
Load(r) ==
    /\ req[r].at = "load"
    /\ Move(r, [req[r] EXCEPT !.at = "decide", !.found = Found(req[r])])
    /\ UNCHANGED <<cache, known, valkey_vars, aux_vars>>

\* Mutant of Counted: sticky decisions are counted too.
CountedWithSticky(q) == Cardinality(DOMAIN Answer(q))

\* new_decision_count.
Counted(q) == Cardinality(DOMAIN q.fresh)

\* The request is over: its new decisions, if due, are among those of the counter m.
Ends(r, m) ==
    /\ Move(r, Idle)
    /\ aux_due' = aux_due \ {r}
    /\ m' = IF r \in aux_due
            THEN [m EXCEPT ![req[r].subject] = @ + Cardinality(DOMAIN req[r].fresh)]
            ELSE m

\* What the subject is told, when the request returns.
Tell(r) ==
    /\ Ends(r, aux_new)
    /\ aux_told' = [aux_told EXCEPT ![req[r].subject] = Answer(req[r]) ++ @]
    /\ UNCHANGED aux_lost

\* EXISTS cooldown:{subject} says yes: the flags without a sticky decision get
\* their defaults, nothing is saved.
Rest(r) ==
    /\ req[r].at = "decide"
    /\ cooling[req[r].subject]
    /\ Tell(r)
    /\ UNCHANGED <<cache, known, valkey_vars, aux_torn, aux_homes>>

\* It says no: all decisions are made at once, without another await. Without any
\* of an experiment the request is done.
Decide(r) ==
    LET q == req[r]
        fresh == [f \in Assigned(q) |-> assign_variant(q.subject, q.seen[f])]
    IN
    /\ q.at = "decide"
    /\ ~cooling[q.subject]
    /\ IF DOMAIN fresh \union DOMAIN q.found = {}
       THEN Tell(r)
       ELSE /\ Move(r, [q EXCEPT !.at = "save", !.fresh = fresh])
            /\ UNCHANGED <<aux_told, count_vars>>
    /\ UNCHANGED <<cache, known, valkey_vars, aux_torn, aux_homes>>

\* What was told of a flag no longer binds when a decision of another experiment
\* is saved for it.
Forget(told, saved) ==
    Without(told, {f \in DOMAIN told \intersect DOMAIN saved : told[f].exp # saved[f].exp})

\* HSET keeps the other fields of the hash.
Saved(q) == Answer(q) ++ sticky[q.subject]

\* save_decisions, of the new decisions and of those just loaded; EXPIRE starts
\* the hash's time again.
Save(r) ==
    LET q == req[r] IN
    /\ q.at = "save"
    /\ sticky' = [sticky EXCEPT ![q.subject] = Saved(q)]
    /\ Move(r, [q EXCEPT !.at = "count"])
    /\ aux_told' = [aux_told EXCEPT ![q.subject] = Forget(@, Answer(q))]
    /\ UNCHANGED <<cache, known, shown, cooling, aux_torn, aux_homes, count_vars>>

\* cooldown.lua for a subject that is not in cooldown.
Trigger(s, n) ==
    LET full == shown[s] + n >= Threshold IN
    /\ shown' = [shown EXCEPT ![s] = IF full THEN 0 ELSE @ + n]
    /\ cooling' = [cooling EXCEPT ![s] = full]

\* The assignments and resolutions are buffered, then record_experiment_assignments
\* runs cooldown.lua, atomically in Valkey; the reply is awaited.
Count(r) ==
    LET q == req[r] IN
    /\ q.at = "count"
    /\ Counted(q) > 0
    /\ IF cooling[q.subject]
       THEN UNCHANGED <<shown, cooling>>
       ELSE Trigger(q.subject, Counted(q))
    /\ Move(r, [q EXCEPT !.at = "return"])
    /\ aux_due' = aux_due \union {r}
    /\ UNCHANGED <<cache, known, sticky, aux_told, aux_torn, aux_homes, aux_new, aux_lost>>

\* The reply comes, or there was nothing to count: the request returns.
Return(r) ==
    /\ \/ req[r].at = "return"
       \/ req[r].at = "count" /\ Counted(req[r]) = 0
    /\ Tell(r)
    /\ UNCHANGED <<cache, known, valkey_vars, aux_torn, aux_homes>>

\* An await raises: Valkey, before or after it has done what it was asked, or
\* ClickHouse when the buffer is flushed by this request, or a targeting rule; or
\* the request is cancelled. Nothing that was done is undone.
Fail(r) ==
    /\ Open(r)
    /\ Ends(r, aux_lost)
    /\ UNCHANGED <<cache, known, valkey_vars, aux_told, aux_torn, aux_homes, aux_new>>

-----------------------------------------------------------------------------
\* Time passes in Valkey.

\* u:{subject} expires, store_stickiness_for_s after the last save.
Expire(s) ==
    /\ DOMAIN sticky[s] # {}
    /\ sticky' = [sticky EXCEPT ![s] = Nothing]
    /\ aux_told' = [aux_told EXCEPT ![s] = Nothing]
    /\ aux_torn' = [aux_torn EXCEPT ![s] =
                       IF \E r \in Requests : Open(r) /\ req[r].subject = s
                       THEN Flags ELSE {}]
    /\ UNCHANGED <<cache, known, shown, cooling, req, aux_homes, count_vars>>

\* cooldown:{subject} expires.
CooldownEnds(s) ==
    /\ cooling[s]
    /\ cooling' = [cooling EXCEPT ![s] = FALSE]
    /\ aux_due' = {r \in aux_due : req[r].subject # s}
    /\ aux_new' = [aux_new EXCEPT ![s] = 0]
    /\ aux_lost' = [aux_lost EXCEPT ![s] = 0]
    /\ UNCHANGED <<cache, known, sticky, shown, req, aux_told, aux_torn, aux_homes>>

-----------------------------------------------------------------------------

DecisionsNext ==
    \/ \E f \in Flags, x \in Entries \union {None} : SetOnFlag(f, x)
    \/ \E f \in Flags : SetFlagDefault(f)
    \/ \E r \in Requests, s \in Subjects, a \in Attrs, k \in KeyLists : Arrive(r, s, a, k)
    \/ \E r \in Requests : Load(r) \/ Rest(r) \/ Decide(r) \/ Save(r)
    \/ \E r \in Requests : Count(r) \/ Return(r) \/ Fail(r)
    \/ \E s \in Subjects : Expire(s) \/ CooldownEnds(s)

DecisionsSpec == DecisionsInit /\ [][DecisionsNext]_decision_vars

-----------------------------------------------------------------------------

RequestOK(q) ==
    /\ DOMAIN q = {"at", "subject", "attr", "keys", "seen", "found", "fresh"}
    /\ q.at \in {"load", "decide", "save", "count", "return"}
    /\ q.subject \in Subjects /\ q.attr \in Attrs /\ q.keys \in KeyLists
    /\ q.seen \in [Keys(q) -> Entries \union {None}]
    /\ Partial(q.found, Keys(q), Decided) /\ Partial(q.fresh, Keys(q), Decided)

\* The types; the counter stays below the threshold, because cooldown.lua resets it
\* in the step in which it reaches it.
DecisionsTypeOK ==
    /\ cache \in [Flags -> Entries \union {None}]
    /\ known \subseteq Flags
    /\ DOMAIN sticky = Subjects /\ DOMAIN aux_told = Subjects
    /\ \A s \in Subjects : /\ Partial(sticky[s], Flags, Decided)
                           /\ Partial(aux_told[s], Flags, Decided)
    /\ shown \in [Subjects -> 0..Threshold - 1]
    /\ cooling \in [Subjects -> BOOLEAN]
    /\ DOMAIN req = Requests
    /\ \A r \in Requests : Open(r) => RequestOK(req[r])
    /\ aux_torn \in [Subjects -> SUBSET Flags]
    /\ aux_homes \in [Experiments -> SUBSET Flags]
    /\ aux_due \subseteq {r \in Requests : req[r].at = "return"}
    /\ aux_new \in [Subjects -> Nat] /\ aux_lost \in [Subjects -> Nat]

Moved(e) == \E f, g \in aux_homes[e] : f # g

\* Every decision that a request tells of a flag is of an experiment that has been on
\* that flag, and it is of the one that the request saw there, although sticky ones
\* are matched against the experiments of all flags and survive a change of the
\* flag's experiment (load_existing_decisions); but for an experiment that has been
\* cached on two flags, whose old decision is still told where another has
\* taken its place.
AnswersAreOfTheFlag ==
    \A r \in Requests : Open(r) =>
        \A f \in DOMAIN Answer(req[r]) :
            LET e == Answer(req[r])[f].exp
                x == req[r].seen[f]
            IN  /\ f \in aux_homes[e]
                /\ (x # None /\ x.exp = e) \/ Moved(e)

\* A conflict has exactly one winner, unless one of the rivals is strict or none
\* has a priority, when it has none (_resolve_conflicts, adr/007); the subject is
\* entered into no experiment that lost.
OneWinnerPerConflict ==
    \A r \in Requests : Open(r) =>
        LET q == req[r]
            rivals(c) == {At(q, i) : i \in Rivals(q, c)}
            winners(c) == {x \in rivals(c) : Survives(q, x)}
        IN  \A c \in Domains :
               /\ Cardinality({x \in rivals(c) : x.flag \in DOMAIN q.fresh}) <= 1
               /\ Cardinality(Rivals(q, c)) > 1 =>
                     Cardinality(winners(c)) =
                         IF /\ \A x \in rivals(c) : ~x.strict
                            /\ \E x \in rivals(c) : x.priority # None
                         THEN 1 ELSE 0

\* Flags that an experiment was on which has been on another flag.
Shared == {f \in Flags : \E e \in Experiments : f \in aux_homes[e] /\ Moved(e)}

Repeated(s) ==
    \A f \in (DOMAIN aux_told[s] \intersect DOMAIN aux_told'[s]) \ (aux_torn[s] \union Shared) :
        aux_told[s][f].exp = aux_told'[s][f].exp => aux_told'[s][f] = aux_told[s][f]

\* Stickiness (MakeDecision, adr/002): while its decision lives in Valkey a subject
\* is told the same variant of the same experiment, whatever becomes of the
\* experiment's audience, weights or state, unless two requests overlapped that
\* disagreed about the flag, or the decision expired under one, or an experiment of
\* the flag has been moved to or from another.
AnswersStick == [][\A s \in Subjects \ Unsplittable : Repeated(s)]_decision_vars

\* New decisions that are counted and not yet told, by request and flag.
Pending(s) ==
    {p \in aux_due \X Flags :
        req[p[1]].subject = s /\ p[2] \in DOMAIN req[p[1]].fresh}

Recorded(s) == aux_new[s] + Cardinality(Pending(s)) + aux_lost[s]

\* The counter is exact in spite of concurrent requests and lost replies: out of
\* cooldown it is the number of new decisions that were told, are about to be, or
\* were lost with their request after the script had run; and a cooldown lets no
\* more of them through than requests that had passed the check (MakeDecision,
\* cooldown.lua).
ExperimentsAreCounted ==
    \A s \in Subjects :
        IF cooling[s]
        THEN Recorded(s) < Threshold + Cardinality(Requests) * Cardinality(Flags)
        ELSE Recorded(s) = shown[s]
=============================================================================
