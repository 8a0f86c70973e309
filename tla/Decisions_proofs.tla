-------------------------- MODULE Decisions_proofs --------------------------
(***************************************************************************)
(* Theorems about Decisions, for every set of subjects, flags, entries and *)
(* requests.                                                               *)
(***************************************************************************)
EXTENDS Decisions, FiniteSetTheorems, WellFoundedInduction, TLAPS

\* What a request holds at each point, and that decisions stay on the flag of
\* their experiment.
Stages ==
    \A r \in Requests : Open(r) =>
        LET q == req[r] IN
        /\ q.at = "load" => q.found = Nothing
        /\ q.at \in {"load", "decide"} => q.fresh = Nothing
        /\ \A f \in DOMAIN q.fresh : /\ f \notin DOMAIN q.found
                                     /\ q.seen[f] # None
                                     /\ q.fresh[f] = assign_variant(q.subject, q.seen[f])

OnOwnFlags ==
    /\ \A f \in Flags : cache[f] # None => cache[f].flag = f /\ f \in aux_homes[cache[f].exp]
    /\ \A r \in Requests : Open(r) =>
          \A f \in Keys(req[r]) : req[r].seen[f] # None => req[r].seen[f].flag = f
    /\ \A s \in Subjects : \A f \in DOMAIN sticky[s] : f \in aux_homes[sticky[s][f].exp]

\* Where the experiments of a request have been, if h says where each has been.
Placed(h, q) ==
    /\ \A f \in Keys(q) : q.seen[f] # None => f \in h[q.seen[f].exp]
    /\ \A f \in DOMAIN q.found :
          /\ f \in h[q.found[f].exp]
          /\ \/ q.seen[f] # None /\ q.seen[f].exp = q.found[f].exp
             \/ \E a, b \in h[q.found[f].exp] : a # b

AllPlaced == \A r \in Requests : Open(r) => Placed(aux_homes, req[r])

DInv == DecisionsTypeOK /\ Stages /\ OnOwnFlags /\ AllPlaced

\* The open requests of s that ask for f.
Asks(r, s, f) == Open(r) /\ req[r].subject = s /\ f \in Keys(req[r])

\* What AnswersStick rests on, for a flag that is not torn: requests that are open
\* together agree about the flag, and what one has found or saved, or the subject was
\* told, is what is saved; what a request does not find although it is saved is
\* what it will decide itself.
SeenAlike(s, f) ==
    \A r1, r2 \in Requests :
        Asks(r1, s, f) /\ Asks(r2, s, f) => req[r1].seen[f] = req[r2].seen[f]

IsSaved(s, f, v) == f \in DOMAIN sticky[s] /\ sticky[s][f] = v

FoundIsSaved(s, f) ==
    \A r \in Requests : Asks(r, s, f) /\ f \in DOMAIN req[r].found
        => IsSaved(s, f, req[r].found[f])

FreshIsSaved(s, f) ==
    \A r \in Requests : Asks(r, s, f) /\ req[r].at \in {"count", "return"} /\ f \in DOMAIN req[r].fresh
        => IsSaved(s, f, req[r].fresh[f])

SavedIsFresh(s, f) ==
    \A r \in Requests :
        /\ Asks(r, s, f) /\ req[r].at # "load" /\ f \notin DOMAIN req[r].found
        /\ req[r].seen[f] # None
        /\ f \in DOMAIN sticky[s] /\ sticky[s][f].exp = req[r].seen[f].exp
        => sticky[s][f] = assign_variant(s, req[r].seen[f])

ToldIsSaved(s, f) == f \in DOMAIN aux_told[s] => IsSaved(s, f, aux_told[s][f])

Sticks(s, f) ==
    /\ SeenAlike(s, f) /\ FoundIsSaved(s, f) /\ FreshIsSaved(s, f)
    /\ SavedIsFresh(s, f) /\ ToldIsSaved(s, f)

StickInv ==
    /\ DInv
    /\ \A s \in Subjects \ Unsplittable : \A f \in Flags \ (aux_torn[s] \union Shared) : Sticks(s, f)

\* The requests of s that passed the check of its cooldown.
Passed(s) == {r \in Requests : Open(r) /\ req[r].subject = s /\ req[r].at \in {"save", "count"}}

\* What ExperimentsAreCounted rests on: each request that passed the check may still
\* count as many new decisions as there are flags.
CountOK(s) ==
    IF cooling[s]
    THEN /\ shown[s] = 0
         /\ Recorded(s) + Cardinality(Flags) * Cardinality(Passed(s))
              < Threshold + Cardinality(Flags) * Cardinality(Requests)
    ELSE Recorded(s) = shown[s]

CountInv ==
    /\ DInv
    /\ \A s \in Subjects : CountOK(s)
-----------------------------------------------------------------------------
\* Operators.

\* Every hash falls into a bucket.
LEMMA BucketInRange == ASSUME NEW h \in 0..HashSize - 1 PROVE Bucket(h) \in Buckets
<1> DEFINE n == TotalBuckets * h
<1>1. n \in Nat BY DEF TotalBuckets
<1>2. HashSize \in Nat /\ HashSize > 0 BY HashSizeIsPositive
<1>3. n \div HashSize \in Nat BY <1>1, <1>2
<1>4. RoundHalfEven(n, HashSize) \in Nat
  <2> HIDE DEF n
  <2> QED BY <1>3 DEF RoundHalfEven
<1> QED BY <1>4 DEF Bucket, Buckets, TotalBuckets

\* The variant of a decision is one of the experiment's, or outside of it.
LEMMA VariantExists ==
    ASSUME NEW audience, NEW weights \in Seq(Percentage), NEW h \in 0..HashSize - 1
    PROVE  make_decision(audience, weights, h) \in Nat \union {Outside}
<1>1. Bucket(h) \in Buckets BY BucketInRange
<1>2. DOMAIN weights \subseteq Nat OBVIOUS
<1> QED BY <1>1, <1>2 DEF make_decision, distribute_variants

LEMMA AssignedIsDecided ==
    ASSUME NEW s \in Subjects, NEW x \in Entries
    PROVE  assign_variant(s, x) \in Decided /\ assign_variant(s, x).exp = x.exp
<1>1. x \in EntryType BY EntriesAreExperiments
<1>2. /\ x.exp \in Experiments /\ x.flag \in Flags
      /\ x.weights \in Seq(Percentage) /\ x.control \in Nat
  BY <1>1 DEF EntryType
<1>3. HashOf[s, x.exp, x.flag] \in 0..HashSize - 1
  BY <1>2, HashesAreHashes
<1>4. make_decision(x.audience, x.weights, HashOf[s, x.exp, x.flag]) \in Nat \union {Outside}
  BY <1>2, <1>3, VariantExists
<1> QED BY <1>2, <1>4 DEF assign_variant, Decided

LEMMA Merged ==
    ASSUME NEW S, NEW T, NEW f, NEW g, Partial(f, S, T), Partial(g, S, T)
    PROVE  /\ Partial(f ++ g, S, T)
           /\ DOMAIN (f ++ g) = DOMAIN f \union DOMAIN g
           /\ \A x \in DOMAIN f : (f ++ g)[x] = f[x]
           /\ \A x \in DOMAIN g \ DOMAIN f : (f ++ g)[x] = g[x]
BY DEF Partial, ++

LEMMA NothingIsPartial == ASSUME NEW S, NEW T PROVE Partial(Nothing, S, T) /\ DOMAIN Nothing = {}
BY DEF Partial, Nothing

LEMMA KeysAreFlags == ASSUME NEW q, q.keys \in KeyLists PROVE Keys(q) \subseteq Flags
BY RequestParameters DEF Keys, Range

LEMMA PartialWidens ==
    ASSUME NEW S, NEW S2, NEW T, NEW f, Partial(f, S, T), S \subseteq S2 PROVE Partial(f, S2, T)
BY DEF Partial

\* The updates of a request.
Updated(q, p, at, found, fresh) ==
    /\ DOMAIN p = DOMAIN q
    /\ p.subject = q.subject /\ p.attr = q.attr /\ p.keys = q.keys /\ p.seen = q.seen
    /\ p.at = at /\ p.found = found /\ p.fresh = fresh

LEMMA Updates ==
    ASSUME NEW q, RequestOK(q), NEW a, NEW m
    PROVE  /\ Updated(q, [q EXCEPT !.at = a, !.found = m], a, m, q.fresh)
           /\ Updated(q, [q EXCEPT !.at = a, !.fresh = m], a, q.found, m)
           /\ Updated(q, [q EXCEPT !.at = a], a, q.found, q.fresh)
BY DEF RequestOK, Updated

-----------------------------------------------------------------------------
\* Types, stages and flags: DInv.

\* A step of one request from q to p leaves the others.
Moves(r, p) ==
    /\ \A o \in Requests : req'[o] = IF o = r THEN p ELSE req[o]
    /\ DOMAIN req' = Requests

LEMMA MoveMoves ==
    ASSUME DOMAIN req = Requests, NEW r \in Requests, NEW p, Move(r, p)
    PROVE  Moves(r, p)
BY DEF Move, Moves

LEMMA DInit == DecisionsInit => DInv
<1> SUFFICES ASSUME DecisionsInit PROVE DInv OBVIOUS
<1>1. Partial(Nothing, Flags, Decided) BY NothingIsPartial
<1>2. \A r \in Requests : ~Open(r) BY DEF DecisionsInit, Idle, Open
<1>3. DecisionsTypeOK BY <1>1, <1>2, RequestParameters DEF DecisionsInit, DecisionsTypeOK
<1>4. OnOwnFlags BY <1>2, NothingIsPartial DEF DecisionsInit, OnOwnFlags
<1> QED BY <1>2, <1>3, <1>4 DEF DInv, Stages, AllPlaced

\* An experiment that is cached on one more flag stays where it has been.
LEMMA PlacedGrows ==
    ASSUME NEW h \in [Experiments -> SUBSET Flags], NEW e \in Experiments, NEW g,
           NEW q, RequestOK(q), Placed(h, q)
    PROVE  Placed([h EXCEPT ![e] = @ \union {g}], q)
<1> DEFINE k == [h EXCEPT ![e] = @ \union {g}]
<1>1. \A d \in Experiments : h[d] \subseteq k[d] OBVIOUS
<1>2. ASSUME NEW f \in Keys(q), q.seen[f] # None PROVE q.seen[f].exp \in Experiments
  <2>1. q.seen[f] \in Entries BY <1>2 DEF RequestOK
  <2> QED BY <2>1, EntriesAreExperiments DEF EntryType
<1>3. \A f \in DOMAIN q.found : q.found[f].exp \in Experiments
  BY DEF RequestOK, Partial, Decided
<1> HIDE DEF k
<1>4. Placed(k, q) BY <1>1, <1>2, <1>3 DEF Placed
<1> QED BY <1>4 DEF k

LEMMA DSetOnFlag ==
    ASSUME DInv, NEW f \in Flags, NEW x \in Entries \union {None}, SetOnFlag(f, x)
    PROVE  DInv'
<1>1. /\ UNCHANGED <<known, sticky, shown, cooling, req, aux_told, aux_torn, aux_due,
                     aux_new, aux_lost>>
      /\ cache' = [cache EXCEPT ![f] = x] /\ (x # None => x.flag = f)
  BY DEF SetOnFlag, valkey_vars, count_vars
<1>2. /\ aux_homes \in [Experiments -> SUBSET Flags]
      /\ cache \in [Flags -> Entries \union {None}]
  BY DEF DInv, DecisionsTypeOK
<1>3. \A g \in Flags : cache[g] # None => cache[g].exp \in Experiments
  BY <1>2, EntriesAreExperiments DEF EntryType
<1>4. \A s \in Subjects : \A g \in DOMAIN sticky[s] : sticky[s][g].exp \in Experiments
  BY DEF DInv, DecisionsTypeOK, Partial, Decided
<1>5. \A r \in Requests : Open(r) => RequestOK(req[r]) /\ Placed(aux_homes, req[r])
  BY DEF DInv, DecisionsTypeOK, AllPlaced
<1>6. CASE x = None
  <2>1. aux_homes' = aux_homes BY <1>6 DEF SetOnFlag
  <2>2. DecisionsTypeOK' BY <1>1, <1>2, <2>1 DEF DInv, DecisionsTypeOK, Open, RequestOK
  <2>3. OnOwnFlags' BY <1>1, <1>2, <1>6, <2>1 DEF DInv, OnOwnFlags, Open
  <2> QED BY <1>1, <2>1, <2>2, <2>3 DEF DInv, Stages, AllPlaced, Open
<1>7. CASE x # None
  <2>1. x \in Entries /\ x.exp \in Experiments
    BY <1>7, EntriesAreExperiments DEF EntryType
  <2> DEFINE k == [aux_homes EXCEPT ![x.exp] = @ \union {f}]
  <2>2. aux_homes' = k BY <1>7 DEF SetOnFlag
  <2>3. k \in [Experiments -> SUBSET Flags] BY <1>2
  <2>4. f \in k[x.exp] /\ \A e \in Experiments : aux_homes[e] \subseteq k[e] BY <1>2, <2>1
  <2>5. \A r \in Requests : Open(r) => Placed(k, req[r])
    BY <1>2, <1>5, <2>1, PlacedGrows
  <2> HIDE DEF k
  <2>6. DecisionsTypeOK'
    BY <1>1, <1>2, <2>1, <2>2, <2>3 DEF DInv, DecisionsTypeOK, Open, RequestOK
  <2>7. OnOwnFlags'
    <3>1. \A g \in Flags : cache'[g] # None =>
             cache'[g].flag = g /\ g \in aux_homes'[cache'[g].exp]
      BY <1>1, <1>2, <1>3, <2>2, <2>4 DEF DInv, OnOwnFlags
    <3>2. \A s \in Subjects : \A g \in DOMAIN sticky'[s] : g \in aux_homes'[sticky'[s][g].exp]
      BY <1>1, <1>4, <2>2, <2>4 DEF DInv, OnOwnFlags
    <3> QED BY <1>1, <3>1, <3>2 DEF DInv, OnOwnFlags, Open
  <2>8. AllPlaced' BY <1>1, <2>2, <2>5 DEF AllPlaced, Open
  <2> QED BY <1>1, <2>6, <2>7, <2>8 DEF DInv, Stages, Open
<1> QED BY <1>6, <1>7

LEMMA DSetFlagDefault ==
    ASSUME DInv, NEW f \in Flags, SetFlagDefault(f) PROVE DInv'
BY DEF DInv, SetFlagDefault, DecisionsTypeOK, Stages, OnOwnFlags, AllPlaced,
       valkey_vars, aux_vars, count_vars, Open, RequestOK

LEMMA DArrive ==
    ASSUME DInv, NEW r \in Requests, NEW s \in Subjects, NEW a \in Attrs,
           NEW k \in KeyLists, Arrive(r, s, a, k)
    PROVE  DInv'
<1> DEFINE seen == Restrict(cache, Range(k))
           p == [at |-> "load", subject |-> s, attr |-> a, keys |-> k, seen |-> seen,
                 found |-> Nothing, fresh |-> Nothing]
<1>1. /\ Moves(r, p)
      /\ UNCHANGED <<cache, known, sticky, shown, cooling, aux_told, aux_homes,
                     aux_due, aux_new, aux_lost>>
      /\ aux_torn' = [aux_torn EXCEPT ![s] = @ \union Torn(s, k, seen)]
  BY MoveMoves DEF Arrive, DInv, DecisionsTypeOK, valkey_vars, count_vars
<1>2. Keys(p) = Range(k) /\ Keys(p) \subseteq Flags BY KeysAreFlags DEF Keys
<1>3. seen \in [Keys(p) -> Entries \union {None}] /\ \A f \in Keys(p) : seen[f] = cache[f]
  BY <1>2 DEF DInv, DecisionsTypeOK, Restrict
<1>4. RequestOK(p) BY <1>3, NothingIsPartial DEF RequestOK
<1>5. Open(r)' /\ \A o \in Requests \ {r} : (Open(o)' <=> Open(o)) /\ req'[o] = req[o]
  BY <1>1 DEF Moves, Open
<1>6. Torn(s, k, seen) \subseteq Flags BY <1>2 DEF Torn
<1>7. DecisionsTypeOK'
  <2>1. aux_torn' \in [Subjects -> SUBSET Flags] BY <1>1, <1>6 DEF DInv, DecisionsTypeOK
  <2>2. r \notin aux_due BY DEF Arrive, Open, DInv, DecisionsTypeOK
  <2>3. aux_due' \subseteq {o \in Requests : req'[o].at = "return"}
    BY <1>1, <1>5, <2>2 DEF DInv, DecisionsTypeOK
  <2> HIDE DEF p, seen
  <2> QED BY <1>1, <1>4, <1>5, <2>1, <2>3 DEF DInv, DecisionsTypeOK, Moves
<1>8. Stages' BY <1>1, <1>5, NothingIsPartial DEF DInv, Stages, Moves
<1>9. OnOwnFlags' BY <1>1, <1>2, <1>3, <1>5 DEF DInv, OnOwnFlags, Moves
<1>10. Placed(aux_homes, p)
  <2>1. \A f \in Keys(p) : p.seen[f] # None => f \in aux_homes[p.seen[f].exp]
    BY <1>2, <1>3 DEF DInv, OnOwnFlags
  <2>2. DOMAIN p.found = {} BY NothingIsPartial
  <2> HIDE DEF p
  <2> QED BY <2>1, <2>2 DEF Placed
<1>11. AllPlaced'
  <2> HIDE DEF p, seen
  <2> QED BY <1>1, <1>5, <1>10 DEF DInv, AllPlaced, Moves
<1> QED BY <1>7, <1>8, <1>9, <1>11 DEF DInv

\* DInv, taken apart into what a request satisfies and the rest.
Sound(q) ==
    /\ RequestOK(q)
    /\ q.at = "load" => q.found = Nothing
    /\ q.at \in {"load", "decide"} => q.fresh = Nothing
    /\ \A f \in DOMAIN q.fresh : /\ f \notin DOMAIN q.found
                                 /\ q.seen[f] # None
                                 /\ q.fresh[f] = assign_variant(q.subject, q.seen[f])
    /\ \A f \in Keys(q) : q.seen[f] # None => q.seen[f].flag = f

StoredOK ==
    /\ DOMAIN sticky = Subjects
    /\ \A s \in Subjects : Partial(sticky[s], Flags, Decided)
    /\ \A s \in Subjects : \A f \in DOMAIN sticky[s] : f \in aux_homes[sticky[s][f].exp]

ToldOK ==
    /\ DOMAIN aux_told = Subjects
    /\ \A s \in Subjects : Partial(aux_told[s], Flags, Decided)

CachesOK ==
    /\ cache \in [Flags -> Entries \union {None}]
    /\ known \subseteq Flags
    /\ aux_homes \in [Experiments -> SUBSET Flags]
    /\ \A f \in Flags : cache[f] # None => cache[f].flag = f /\ f \in aux_homes[cache[f].exp]

CountersOK ==
    /\ shown \in [Subjects -> 0..Threshold - 1]
    /\ cooling \in [Subjects -> BOOLEAN]
    /\ aux_torn \in [Subjects -> SUBSET Flags]
    /\ aux_new \in [Subjects -> Nat] /\ aux_lost \in [Subjects -> Nat]

DueOK == aux_due \subseteq {r \in Requests : req[r].at = "return"}

LEMMA DParts ==
    DInv <=> /\ StoredOK /\ ToldOK /\ CachesOK /\ CountersOK /\ DueOK
             /\ DOMAIN req = Requests
             /\ \A r \in Requests : Open(r) => Sound(req[r]) /\ Placed(aux_homes, req[r])
BY DEF DInv, DecisionsTypeOK, Stages, OnOwnFlags, AllPlaced, StoredOK, ToldOK,
       CachesOK, CountersOK, DueOK, Sound

LEMMA DStep ==
    ASSUME DInv, StoredOK', ToldOK', CachesOK', CountersOK', UNCHANGED aux_homes,
           NEW r \in Requests, NEW p, Moves(r, p),
           p = Idle \/ (Sound(p) /\ Placed(aux_homes, p)),
           aux_due' \subseteq aux_due \union {r}, r \in aux_due' => p.at = "return"
    PROVE  DInv'
<1>1. \A o \in Requests : Open(o) => Sound(req[o]) /\ Placed(aux_homes, req[o]) BY DParts
<1>2. ~Open(r)' \/ (Sound(req'[r]) /\ Placed(aux_homes', req'[r])) BY DEF Moves, Open, Idle
<1>3. \A o \in Requests \ {r} : req'[o] = req[o] /\ (Open(o)' <=> Open(o))
  BY DEF Moves, Open
<1>4. \A o \in Requests : Open(o)' => Sound(req'[o]) /\ Placed(aux_homes', req'[o])
  BY <1>1, <1>2, <1>3
<1>5. DOMAIN req' = Requests BY DEF Moves
<1>6. DueOK' BY <1>3, DParts DEF DueOK, Moves
<1>7. DecisionsTypeOK'
  BY <1>4, <1>5, <1>6 DEF DecisionsTypeOK, StoredOK, ToldOK, CachesOK, CountersOK, DueOK, Sound
<1>8. Stages' /\ OnOwnFlags' /\ AllPlaced'
  BY <1>4 DEF Stages, OnOwnFlags, AllPlaced, Sound, CachesOK, StoredOK
<1> QED BY <1>7, <1>8 DEF DInv

\* A request that goes on.
LEMMA DAdvance ==
    ASSUME DInv, NEW r \in Requests, Open(r), req[r].at # "return",
           NEW p, Moves(r, p), Sound(p), Placed(aux_homes, p),
           UNCHANGED <<cache, known, shown, cooling, aux_torn, aux_homes, count_vars>>,
           StoredOK', ToldOK'
    PROVE  DInv'
<1>1. CachesOK' /\ CountersOK' BY DParts DEF CachesOK, CountersOK, count_vars
<1>2. aux_due' = aux_due /\ r \notin aux_due BY DParts DEF DueOK, count_vars
<1> QED BY <1>1, <1>2, DStep

LEMMA DLoad == ASSUME DInv, NEW r \in Requests, Load(r) PROVE DInv'
<1> DEFINE q == req[r]
           p == [q EXCEPT !.at = "decide", !.found = Found(q)]
<1>1. Open(r) /\ Sound(q) /\ Placed(aux_homes, q) /\ q.at = "load"
  BY DParts DEF Load, Open
<1>2. Updated(q, p, "decide", Found(q), q.fresh) BY <1>1, Updates DEF Sound
<1>3. q.fresh = Nothing /\ q.fresh = p.fresh BY <1>1, <1>2 DEF Sound, Updated
<1>4. q.subject \in Subjects /\ Keys(q) \subseteq Flags /\ Keys(p) = Keys(q)
  BY <1>1, <1>2, KeysAreFlags DEF Sound, RequestOK, Updated, Keys
<1>5. Partial(sticky[q.subject], Flags, Decided) BY <1>4, DParts DEF StoredOK
<1>6. /\ Partial(Found(q), Keys(q), Decided)
      /\ \A f \in DOMAIN Found(q) :
            /\ f \in DOMAIN sticky[q.subject] /\ Found(q)[f] = sticky[q.subject][f]
            /\ \E i \in Candidates(q) : At(q, i).exp = Found(q)[f].exp
  BY <1>5, NothingIsPartial DEF Found, Restrict, Partial
<1>7. ASSUME NEW f \in DOMAIN Found(q)
      PROVE  /\ f \in aux_homes[Found(q)[f].exp]
             /\ \/ q.seen[f] # None /\ q.seen[f].exp = Found(q)[f].exp
                \/ \E a, b \in aux_homes[Found(q)[f].exp] : a # b
  <2>1. PICK i \in Candidates(q) : At(q, i).exp = Found(q)[f].exp BY <1>6
  <2> DEFINE g == q.keys[i]
  <2>2. g \in Keys(q) /\ q.seen[g] # None BY <2>1 DEF Candidates, Keys, Range
  <2>3. g \in aux_homes[Found(q)[f].exp] BY <1>1, <2>1, <2>2 DEF Placed, At
  <2>4. f \in aux_homes[Found(q)[f].exp] BY <1>4, <1>6, DParts DEF StoredOK
  <2> QED BY <2>1, <2>2, <2>3, <2>4 DEF At
<1>8. Placed(aux_homes, p)
  <2> HIDE DEF p
  <2> QED BY <1>1, <1>2, <1>4, <1>7 DEF Placed, Updated
<1>9. Sound(p)
  <2>1. RequestOK(p) BY <1>1, <1>2, <1>4, <1>6 DEF Sound, RequestOK, Updated
  <2>2. p.at = "decide" /\ p.fresh = Nothing BY <1>2, <1>3 DEF Updated
  <2>3. \A f \in Keys(p) : p.seen[f] # None => p.seen[f].flag = f
    BY <1>1, <1>2, <1>4 DEF Sound, Updated
  <2> HIDE DEF p
  <2> QED BY <2>1, <2>2, <2>3, NothingIsPartial DEF Sound
<1>10. Moves(r, p) BY MoveMoves DEF Load, DInv, DecisionsTypeOK
<1>11. /\ StoredOK' /\ ToldOK'
       /\ UNCHANGED <<cache, known, shown, cooling, aux_torn, aux_homes, count_vars>>
  BY DParts DEF Load, valkey_vars, aux_vars, StoredOK, ToldOK
<1> HIDE DEF p
<1> QED BY <1>1, <1>8, <1>9, <1>10, <1>11, DAdvance

\* What a sound request answers.
LEMMA AnswerOK ==
    ASSUME NEW q, Sound(q)
    PROVE  /\ Partial(Answer(q), Flags, Decided)
           /\ DOMAIN Answer(q) = DOMAIN q.fresh \union DOMAIN q.found
           /\ \A f \in DOMAIN q.fresh : Answer(q)[f] = q.fresh[f]
           /\ \A f \in DOMAIN q.found : Answer(q)[f] = q.found[f]
           /\ IsFiniteSet(DOMAIN q.fresh) /\ Cardinality(DOMAIN q.fresh) \in Nat
           /\ Cardinality(DOMAIN q.fresh) <= Cardinality(Flags)
<1>1. Keys(q) \subseteq Flags BY KeysAreFlags DEF Sound, RequestOK
<1>2. Partial(q.fresh, Flags, Decided) /\ Partial(q.found, Flags, Decided)
  BY <1>1, PartialWidens DEF Sound, RequestOK
<1>3. DOMAIN q.fresh \subseteq Flags BY <1>2 DEF Partial
<1>4. /\ IsFiniteSet(DOMAIN q.fresh)
      /\ Cardinality(DOMAIN q.fresh) <= Cardinality(Flags)
  BY <1>3, RequestParameters, FS_Subset
<1>5. Cardinality(DOMAIN q.fresh) \in Nat BY <1>4, FS_CardinalityType
<1>6. /\ Partial(Answer(q), Flags, Decided)
      /\ DOMAIN Answer(q) = DOMAIN q.fresh \union DOMAIN q.found
      /\ \A f \in DOMAIN q.fresh : Answer(q)[f] = q.fresh[f]
      /\ \A f \in DOMAIN q.found \ DOMAIN q.fresh : Answer(q)[f] = q.found[f]
  BY <1>2 DEF Answer, Partial, ++
<1> QED BY <1>4, <1>5, <1>6 DEF Sound

\* A new decision is of the experiment that was seen.
LEMMA FreshIsSeen ==
    ASSUME NEW q, Sound(q), NEW f \in DOMAIN q.fresh, q.seen[f] \in Entries
    PROVE  Answer(q)[f].exp = q.seen[f].exp
<1>1. Answer(q)[f] = q.fresh[f] BY AnswerOK
<1>2. q.fresh[f] = assign_variant(q.subject, q.seen[f]) BY DEF Sound
<1>3. q.subject \in Subjects BY DEF Sound, RequestOK
<1>4. assign_variant(q.subject, q.seen[f]).exp = q.seen[f].exp BY <1>3, AssignedIsDecided
<1> QED BY <1>1, <1>2, <1>4

\* A request that ends, its new decisions added to m or to nothing.
LEMMA DEnds ==
    ASSUME DInv, NEW r \in Requests, Open(r), Move(r, Idle), aux_due' = aux_due \ {r},
           StoredOK', ToldOK', CachesOK', CountersOK', UNCHANGED aux_homes
    PROVE  DInv'
<1>1. Moves(r, Idle) BY MoveMoves DEF DInv, DecisionsTypeOK
<1> QED BY <1>1, DStep

LEMMA CounterGrows ==
    ASSUME NEW m, m \in [Subjects -> Nat], NEW s \in Subjects, NEW n \in Nat
    PROVE  [m EXCEPT ![s] = @ + n] \in [Subjects -> Nat]
OBVIOUS

LEMMA DTell ==
    ASSUME DInv, NEW r \in Requests, Open(r), Tell(r),
           StoredOK', CachesOK', shown' \in [Subjects -> 0..Threshold - 1],
           cooling' \in [Subjects -> BOOLEAN], UNCHANGED <<aux_torn, aux_homes>>
    PROVE  DInv'
<1> DEFINE q == req[r]
<1>1. Sound(q) /\ q.subject \in Subjects BY DParts DEF Sound, RequestOK
<1>2. Partial(Answer(q), Flags, Decided) /\ Cardinality(DOMAIN q.fresh) \in Nat
  BY <1>1, AnswerOK
<1>3. Partial(Answer(q) ++ aux_told[q.subject], Flags, Decided)
  BY <1>1, <1>2, DParts, Merged DEF ToldOK
<1>4. ToldOK' BY <1>1, <1>3, DParts DEF ToldOK, Tell
<1>5. aux_new' \in [Subjects -> Nat]
  BY <1>1, <1>2, DParts, CounterGrows DEF CountersOK, Tell, Ends
<1>6. CountersOK' BY <1>5, DParts DEF CountersOK, Tell
<1> QED BY <1>4, <1>6, DEnds DEF Tell, Ends

LEMMA DRest == ASSUME DInv, NEW r \in Requests, Rest(r) PROVE DInv'
<1>1. Open(r) /\ Tell(r) BY DEF Rest, Open
<1>2. StoredOK' /\ CachesOK' BY DParts DEF Rest, valkey_vars, StoredOK, CachesOK
<1>3. /\ shown' \in [Subjects -> 0..Threshold - 1] /\ cooling' \in [Subjects -> BOOLEAN]
      /\ UNCHANGED <<aux_torn, aux_homes>>
  BY DParts DEF Rest, valkey_vars, CountersOK
<1> QED BY <1>1, <1>2, <1>3, DTell

LEMMA DDecide == ASSUME DInv, NEW r \in Requests, Decide(r) PROVE DInv'
<1> DEFINE q == req[r]
           fresh == [f \in Assigned(q) |-> assign_variant(q.subject, q.seen[f])]
           p == [q EXCEPT !.at = "save", !.fresh = fresh]
<1>1. Open(r) /\ Sound(q) /\ Placed(aux_homes, q) /\ q.at = "decide"
  BY DParts DEF Decide, Open
<1>2. StoredOK' /\ CachesOK' BY DParts DEF Decide, valkey_vars, StoredOK, CachesOK
<1>3. /\ shown' \in [Subjects -> 0..Threshold - 1] /\ cooling' \in [Subjects -> BOOLEAN]
      /\ UNCHANGED <<cache, known, shown, cooling, aux_torn, aux_homes>>
  BY DParts DEF Decide, valkey_vars, CountersOK
<1>4. CASE Tell(r) BY <1>1, <1>2, <1>3, <1>4, DTell
<1>5. CASE Move(r, p) /\ UNCHANGED <<aux_told, count_vars>>
  <2>1. Updated(q, p, "save", q.found, fresh) BY <1>1, Updates DEF Sound
  <2>2. Moves(r, p) BY <1>5, MoveMoves DEF DInv, DecisionsTypeOK
  <2>3. Keys(p) = Keys(q) BY <2>1 DEF Updated, Keys
  <2>4. DOMAIN fresh = Assigned(q) OBVIOUS
  <2>5. ASSUME NEW f \in Assigned(q)
        PROVE  /\ f \in Keys(q) /\ f \notin DOMAIN q.found /\ q.seen[f] # None
               /\ fresh[f] = assign_variant(q.subject, q.seen[f])
               /\ fresh[f] \in Decided /\ fresh[f].exp = q.seen[f].exp
    <3>1. f \in Keys(q) /\ f \notin DOMAIN q.found /\ q.seen[f] # None BY DEF Assigned
    <3>2. q.seen[f] \in Entries /\ q.subject \in Subjects
      BY <1>1, <3>1 DEF Sound, RequestOK
    <3> QED BY <3>1, <3>2, AssignedIsDecided
  <2>6. Partial(fresh, Keys(q), Decided) BY <2>4, <2>5 DEF Partial
  <2>7. RequestOK(p)
    <3> HIDE DEF fresh, p
    <3> QED BY <1>1, <2>1, <2>3, <2>6 DEF Sound, RequestOK, Updated
  <2>8. Placed(aux_homes, p)
    <3> HIDE DEF fresh, p
    <3> QED BY <1>1, <2>1, <2>3 DEF Placed, Updated
  <2>10. Sound(p)
    <3>2. \A f \in DOMAIN fresh : /\ f \notin DOMAIN q.found /\ q.seen[f] # None
                                  /\ fresh[f] = assign_variant(q.subject, q.seen[f])
      BY <2>4, <2>5
    <3>3. \A f \in Keys(p) : q.seen[f] # None => q.seen[f].flag = f
      BY <1>1, <2>3, <2>1 DEF Sound
    <3> HIDE DEF fresh, p
    <3> QED BY <2>1, <2>7, <3>2, <3>3 DEF Sound, Updated
  <2>11. ToldOK' BY <1>5, DParts DEF ToldOK
  <2> HIDE DEF p, fresh
  <2> QED BY <1>1, <1>2, <1>3, <1>5, <2>2, <2>8, <2>10, <2>11, DAdvance
<1> QED BY <1>4, <1>5 DEF Decide

LEMMA ForgetsSome ==
    ASSUME NEW told, NEW saved, Partial(told, Flags, Decided)
    PROVE  /\ Partial(Forget(told, saved), Flags, Decided)
           /\ \A f \in DOMAIN Forget(told, saved) :
                 /\ f \in DOMAIN told /\ Forget(told, saved)[f] = told[f]
                 /\ f \in DOMAIN saved => told[f].exp = saved[f].exp
BY DEF Partial, Forget, Without, Restrict

LEMMA DSave == ASSUME DInv, NEW r \in Requests, Save(r) PROVE DInv'
<1> DEFINE q == req[r]
           p == [q EXCEPT !.at = "count"]
           s == q.subject
<1>1. Open(r) /\ Sound(q) /\ Placed(aux_homes, q) /\ q.at = "save"
  BY DParts DEF Save, Open
<1>2. s \in Subjects /\ Keys(q) \subseteq Flags
  BY <1>1, KeysAreFlags DEF Sound, RequestOK
<1>3. Updated(q, p, "count", q.found, q.fresh) BY <1>1, Updates DEF Sound
<1>4. Sound(p) /\ Placed(aux_homes, p)
  <2>1. Keys(p) = Keys(q) BY <1>3 DEF Updated, Keys
  <2> HIDE DEF p
  <2>2. RequestOK(p) BY <1>1, <1>3, <2>1 DEF Sound, RequestOK, Updated
  <2> QED BY <1>1, <1>3, <2>1, <2>2 DEF Sound, Placed, Updated
<1>5. Moves(r, p) BY MoveMoves DEF Save, DInv, DecisionsTypeOK
<1>6. Partial(Saved(q), Flags, Decided)
  <2>1. Partial(Answer(q), Flags, Decided) BY <1>1, AnswerOK
  <2>2. Partial(sticky[s], Flags, Decided) BY <1>2, DParts DEF StoredOK
  <2> QED BY <2>1, <2>2, Merged DEF Saved
<1>7. ASSUME NEW f \in DOMAIN Saved(q) PROVE f \in aux_homes[Saved(q)[f].exp]
  <2>1. CASE f \in DOMAIN q.found
    <3>1. Saved(q)[f] = q.found[f] BY <1>1, <2>1, AnswerOK DEF Saved, ++
    <3> QED BY <1>1, <2>1, <3>1 DEF Placed
  <2>2. CASE f \in DOMAIN q.fresh
    <3>1. f \in Keys(q) /\ q.seen[f] # None /\ q.seen[f] \in Entries
      BY <1>1, <2>2 DEF Sound, RequestOK, Partial
    <3>2. q.fresh[f].exp = q.seen[f].exp
      BY <1>1, <1>2, <2>2, <3>1, AssignedIsDecided DEF Sound
    <3>3. Saved(q)[f] = q.fresh[f] BY <1>1, <2>2, AnswerOK DEF Saved, ++
    <3> QED BY <1>1, <3>1, <3>2, <3>3 DEF Placed
  <2>3. CASE f \notin DOMAIN q.found \union DOMAIN q.fresh
    <3>1. f \in DOMAIN sticky[s] /\ Saved(q)[f] = sticky[s][f]
      BY <1>1, <2>3, AnswerOK DEF Saved, ++
    <3> QED BY <1>2, <3>1, DParts DEF StoredOK
  <2> QED BY <2>1, <2>2, <2>3
<1>8. StoredOK'
  <2>1. /\ DOMAIN sticky' = Subjects
        /\ \A t \in Subjects : sticky'[t] = IF t = s THEN Saved(q) ELSE sticky[t]
    BY <1>2, DParts DEF Save, StoredOK
  <2>2. aux_homes' = aux_homes BY DEF Save
  <2> QED BY <1>6, <1>7, <2>1, <2>2, DParts DEF StoredOK
<1>9. ToldOK'
  <2>1. Partial(Forget(aux_told[s], Answer(q)), Flags, Decided)
    BY <1>2, DParts, ForgetsSome DEF ToldOK
  <2> QED BY <1>2, <2>1, DParts DEF Save, ToldOK
<1>10. UNCHANGED <<cache, known, shown, cooling, aux_torn, aux_homes, count_vars>> BY DEF Save
<1> HIDE DEF p
<1> QED BY <1>1, <1>4, <1>5, <1>8, <1>9, <1>10, DAdvance

\* The counter stays below the threshold: reaching it starts the cooldown and
\* clears it in one step.
LEMMA DCount == ASSUME DInv, NEW r \in Requests, Count(r) PROVE DInv'
<1> DEFINE q == req[r]
           s == q.subject
           p == [q EXCEPT !.at = "return"]
<1>1. Open(r) /\ Sound(q) /\ Placed(aux_homes, q) /\ q.at = "count"
  BY DParts DEF Count, Open
<1>2. s \in Subjects /\ Counted(q) \in Nat
  BY <1>1, AnswerOK DEF Sound, RequestOK, Counted
<1>3. StoredOK' /\ CachesOK' /\ ToldOK' BY DParts DEF Count, StoredOK, CachesOK, ToldOK
<1>4. /\ shown' \in [Subjects -> 0..Threshold - 1]
      /\ cooling' \in [Subjects -> BOOLEAN]
  <2>1. CASE UNCHANGED <<shown, cooling>> BY <2>1, DParts DEF CountersOK
  <2>2. CASE Trigger(s, Counted(q))
    <3>1. shown[s] \in 0..Threshold - 1 /\ Threshold \in Nat \ {0}
      BY <1>2, DParts, RequestParameters DEF CountersOK
    <3> DEFINE n == shown[s] + Counted(q)
    <3>2. (IF n >= Threshold THEN 0 ELSE n) \in 0..Threshold - 1 BY <1>2, <3>1
    <3>3. shown' = [shown EXCEPT ![s] = IF n >= Threshold THEN 0 ELSE n]
      BY <1>2, <2>2, DParts DEF Trigger, CountersOK
    <3>4. cooling' = [cooling EXCEPT ![s] = n >= Threshold] BY <2>2 DEF Trigger
    <3>5. (n >= Threshold) \in BOOLEAN OBVIOUS
    <3>6. cooling' \in [Subjects -> BOOLEAN] BY <3>4, <3>5, DParts DEF CountersOK
    <3> HIDE DEF n
    <3> QED BY <3>2, <3>3, <3>6, DParts DEF CountersOK
  <2> QED BY <2>1, <2>2 DEF Count
<1>5. Updated(q, p, "return", q.found, q.fresh) BY <1>1, Updates DEF Sound
<1>6. Moves(r, p) BY MoveMoves DEF Count, DInv, DecisionsTypeOK
<1>7. Sound(p) /\ Placed(aux_homes, p) /\ p.at = "return"
  <2>1. Keys(p) = Keys(q) BY <1>5 DEF Updated, Keys
  <2> HIDE DEF p
  <2>2. RequestOK(p) BY <1>1, <1>5, <2>1 DEF Sound, RequestOK, Updated
  <2> QED BY <1>1, <1>5, <2>1, <2>2 DEF Sound, Placed, Updated
<1>8. CountersOK' /\ UNCHANGED aux_homes /\ aux_due' = aux_due \union {r}
  BY <1>4, DParts DEF Count, CountersOK
<1> HIDE DEF p
<1> QED BY <1>1, <1>3, <1>6, <1>7, <1>8, DStep

LEMMA DReturn == ASSUME DInv, NEW r \in Requests, Return(r) PROVE DInv'
<1>1. Open(r) /\ Tell(r) BY DEF Return, Open
<1>2. StoredOK' /\ CachesOK' BY DParts DEF Return, valkey_vars, StoredOK, CachesOK
<1>3. /\ shown' \in [Subjects -> 0..Threshold - 1] /\ cooling' \in [Subjects -> BOOLEAN]
      /\ UNCHANGED <<aux_torn, aux_homes>>
  BY DParts DEF Return, valkey_vars, CountersOK
<1> QED BY <1>1, <1>2, <1>3, DTell

LEMMA DFail == ASSUME DInv, NEW r \in Requests, Fail(r) PROVE DInv'
<1>1. Open(r) /\ Sound(req[r]) BY DParts DEF Fail
<1>2. StoredOK' /\ ToldOK' /\ CachesOK' /\ UNCHANGED aux_homes
  BY DParts DEF Fail, valkey_vars, StoredOK, ToldOK, CachesOK
<1>3. req[r].subject \in Subjects /\ Cardinality(DOMAIN req[r].fresh) \in Nat
  BY <1>1, AnswerOK DEF Sound, RequestOK
<1>4. aux_lost' \in [Subjects -> Nat]
  BY <1>3, DParts, CounterGrows DEF CountersOK, Fail, Ends
<1>5. CountersOK' BY <1>4, DParts DEF Fail, valkey_vars, CountersOK
<1> QED BY <1>1, <1>2, <1>5, DEnds DEF Fail, Ends

LEMMA DExpire == ASSUME DInv, NEW s \in Subjects, Expire(s) PROVE DInv'
<1>1. /\ DOMAIN sticky' = Subjects /\ DOMAIN aux_told' = Subjects
      /\ \A t \in Subjects : /\ sticky'[t] = IF t = s THEN Nothing ELSE sticky[t]
                             /\ aux_told'[t] = IF t = s THEN Nothing ELSE aux_told[t]
  BY DParts DEF Expire, StoredOK, ToldOK
<1>2. Partial(Nothing, Flags, Decided) /\ DOMAIN Nothing = {} BY NothingIsPartial
<1>3. StoredOK' /\ ToldOK' BY <1>1, <1>2, DParts DEF StoredOK, ToldOK, Expire
<1>4. UNCHANGED <<cache, known, shown, cooling, req, aux_homes, aux_due, aux_new, aux_lost>>
  BY DEF Expire, count_vars
<1>5. aux_torn' \in [Subjects -> SUBSET Flags] BY DParts DEF Expire, CountersOK
<1> QED BY <1>3, <1>4, <1>5
        DEF DInv, DecisionsTypeOK, Stages, OnOwnFlags, AllPlaced,
            StoredOK, ToldOK, Open, RequestOK

LEMMA DCooldownEnds == ASSUME DInv, NEW s \in Subjects, CooldownEnds(s) PROVE DInv'
<1>1. /\ UNCHANGED <<cache, known, sticky, shown, req, aux_told, aux_torn, aux_homes>>
      /\ aux_due' \subseteq aux_due
  BY DEF CooldownEnds
<1>2. /\ cooling' \in [Subjects -> BOOLEAN]
      /\ aux_new' \in [Subjects -> Nat] /\ aux_lost' \in [Subjects -> Nat]
  BY DParts DEF CooldownEnds, CountersOK
<1> QED BY <1>1, <1>2
        DEF DInv, DecisionsTypeOK, Stages, OnOwnFlags, AllPlaced, Open, RequestOK

LEMMA DStutter == ASSUME DInv, UNCHANGED decision_vars PROVE DInv'
BY DEF DInv, DecisionsTypeOK, Stages, OnOwnFlags, AllPlaced, decision_vars,
       valkey_vars, aux_vars, count_vars, Open, RequestOK

LEMMA DNext == ASSUME DInv, [DecisionsNext]_decision_vars PROVE DInv'
<1>1. CASE \E f \in Flags, x \in Entries \union {None} : SetOnFlag(f, x)
  BY <1>1, DSetOnFlag
<1>2. CASE \E f \in Flags : SetFlagDefault(f) BY <1>2, DSetFlagDefault
<1>3. CASE \E r \in Requests, s \in Subjects, a \in Attrs, k \in KeyLists : Arrive(r, s, a, k)
  BY <1>3, DArrive
<1>4. CASE \E r \in Requests : Load(r) BY <1>4, DLoad
<1>5. CASE \E r \in Requests : Rest(r) BY <1>5, DRest
<1>6. CASE \E r \in Requests : Decide(r) BY <1>6, DDecide
<1>7. CASE \E r \in Requests : Save(r) BY <1>7, DSave
<1>8. CASE \E r \in Requests : Count(r) \/ Return(r) BY <1>8, DCount, DReturn
<1>9. CASE \E r \in Requests : Fail(r) BY <1>9, DFail
<1>10. CASE \E s \in Subjects : Expire(s) BY <1>10, DExpire
<1>11. CASE \E s \in Subjects : CooldownEnds(s) BY <1>11, DCooldownEnds
<1>12. CASE UNCHANGED decision_vars BY <1>12, DStutter
<1> QED BY <1>1, <1>2, <1>3, <1>4, <1>5, <1>6, <1>7, <1>8, <1>9, <1>10, <1>11, <1>12
        DEF DecisionsNext

\* The types, and the counter below the threshold, of any number of subjects and
\* requests.
THEOREM DecisionsTypeCorrect == DecisionsSpec => []DecisionsTypeOK
<1>1. DInv => DecisionsTypeOK BY DEF DInv
<1> QED BY <1>1, DInit, DNext, PTL DEF DecisionsSpec

\* However many flags a request asks for, and whatever was saved under experiments
\* that have since been replaced, what it tells of a flag is of an experiment that has
\* been on the flag, and of the one that it saw there unless that experiment
\* has been cached on two flags: load_existing_decisions matches a decision
\* with the experiments of all the flags asked for.
THEOREM AnswersAreServed == DecisionsSpec => []AnswersAreOfTheFlag
<1>1. ASSUME DInv, NEW r \in Requests, Open(r), NEW f \in DOMAIN Answer(req[r])
      PROVE  LET e == Answer(req[r])[f].exp
                 x == req[r].seen[f]
             IN  f \in aux_homes[e] /\ ((x # None /\ x.exp = e) \/ Moved(e))
  <2>1. Sound(req[r]) /\ Placed(aux_homes, req[r]) BY <1>1, DParts
  <2>2. CASE f \in DOMAIN req[r].found
    <3>1. Answer(req[r])[f] = req[r].found[f] BY <2>1, <2>2, AnswerOK
    <3> QED BY <2>1, <2>2, <3>1 DEF Placed, Moved
  <2>3. CASE f \in DOMAIN req[r].fresh
    <3>1. f \in Keys(req[r]) /\ req[r].seen[f] \in Entries /\ req[r].seen[f] # None
      BY <2>1, <2>3 DEF Sound, RequestOK, Partial
    <3>2. Answer(req[r])[f].exp = req[r].seen[f].exp BY <2>1, <2>3, <3>1, FreshIsSeen
    <3> QED BY <2>1, <3>1, <3>2 DEF Placed
  <2> QED BY <1>1, <2>1, <2>2, <2>3, AnswerOK
<1>2. DInv => AnswersAreOfTheFlag BY <1>1 DEF AnswersAreOfTheFlag
<1> QED BY <1>2, DInit, DNext, PTL DEF DecisionsSpec

-----------------------------------------------------------------------------
\* Stickiness.

\* A step after which the requests that ask for f of s are among those before it, as
\* they were or only further, and in which what is saved and told of f stays.
Stays(s, f) ==
    /\ sticky'[s] = sticky[s] /\ aux_told'[s] = aux_told[s]
    /\ \A r \in Requests : Asks(r, s, f)' =>
          /\ Asks(r, s, f) /\ req'[r].seen = req[r].seen /\ req'[r].found = req[r].found
          /\ req'[r].at # "load" => req[r].at # "load"
          /\ req'[r].at \in {"count", "return"} =>
                req[r].at \in {"count", "return"} /\ req'[r].fresh = req[r].fresh

LEMMA StaysSticky ==
    ASSUME NEW s \in Subjects, NEW f \in Flags, Sticks(s, f), Stays(s, f)
    PROVE  Sticks(s, f)'
<1>1. SeenAlike(s, f)' BY DEF Sticks, Stays, SeenAlike
<1>2. FoundIsSaved(s, f)' BY DEF Sticks, Stays, FoundIsSaved, IsSaved
<1>3. FreshIsSaved(s, f)' BY DEF Sticks, Stays, FreshIsSaved, IsSaved
<1>4. SavedIsFresh(s, f)' BY DEF Sticks, Stays, SavedIsFresh
<1>5. ToldIsSaved(s, f)' BY DEF Sticks, Stays, ToldIsSaved, IsSaved
<1> QED BY <1>1, <1>2, <1>3, <1>4, <1>5 DEF Sticks

\* Nothing happens to the requests.
LEMMA StaysQuiet ==
    ASSUME UNCHANGED req, NEW s \in Subjects, NEW f \in Flags,
           sticky'[s] = sticky[s], aux_told'[s] = aux_told[s]
    PROVE  Stays(s, f)
BY DEF Stays, Asks, Open

\* An experiment that has been on a flag has still been there after a step.
LEMMA SharedGrows ==
    ASSUME DInv, [DecisionsNext]_decision_vars PROVE Shared \subseteq Shared'
<1>1. aux_homes \in [Experiments -> SUBSET Flags] BY DEF DInv, DecisionsTypeOK
<1>2. \A e \in Experiments : aux_homes[e] \subseteq aux_homes'[e]
  <2>1. CASE aux_homes' = aux_homes BY <2>1
  <2>2. ASSUME NEW f \in Flags, NEW x \in Entries \union {None}, SetOnFlag(f, x)
        PROVE  \A e \in Experiments : aux_homes[e] \subseteq aux_homes'[e]
    BY <1>1, <2>2 DEF SetOnFlag
  <2>3. ASSUME NEW r \in Requests,
               \/ Load(r) \/ Rest(r) \/ Decide(r) \/ Save(r) \/ Count(r) \/ Return(r) \/ Fail(r)
        PROVE  aux_homes' = aux_homes
    BY <2>3 DEF Load, Rest, Decide, Save, Count, Return, Fail, aux_vars
  <2> QED BY <2>1, <2>2, <2>3
          DEF DecisionsNext, SetFlagDefault, Arrive, Expire, CooldownEnds, decision_vars, aux_vars
<1> QED BY <1>2 DEF Shared, Moved

\* What a request answers on a flag that shares no experiment is of the one it saw there.
LEMMA AnswerIsSeen ==
    ASSUME DInv, NEW r \in Requests, Open(r), NEW f \in DOMAIN Answer(req[r]), f \notin Shared
    PROVE  req[r].seen[f] # None /\ Answer(req[r])[f].exp = req[r].seen[f].exp
<1>1. Sound(req[r]) /\ Placed(aux_homes, req[r]) BY DParts
<1>2. CASE f \in DOMAIN req[r].found
  <2> DEFINE e == req[r].found[f].exp
  <2>1. Answer(req[r])[f] = req[r].found[f] BY <1>1, <1>2, AnswerOK
  <2>2. f \in Flags BY <1>1, AnswerOK DEF Partial
  <2>3. e \in Experiments BY <1>1, <1>2 DEF Sound, RequestOK, Partial, Decided
  <2>4. ~\E a, b \in aux_homes[e] : a # b
    BY <1>1, <1>2, <2>2, <2>3 DEF Shared, Moved, Placed
  <2> QED BY <1>1, <1>2, <2>1, <2>4 DEF Placed
<1>3. CASE f \in DOMAIN req[r].fresh
  <2>1. f \in Keys(req[r]) /\ req[r].seen[f] \in Entries /\ req[r].seen[f] # None
    BY <1>1, <1>3 DEF Sound, RequestOK, Partial
  <2> QED BY <1>1, <1>3, <2>1, FreshIsSeen
<1> QED BY <1>1, <1>2, <1>3, AnswerOK

LEMMA StickArrive ==
    ASSUME StickInv, NEW r \in Requests, NEW s0 \in Subjects, NEW a \in Attrs,
           NEW k \in KeyLists, Arrive(r, s0, a, k),
           NEW s \in Subjects \ Unsplittable, NEW f \in Flags \ (aux_torn'[s] \union Shared)
    PROVE  Sticks(s, f)'
<1> DEFINE seen == Restrict(cache, Range(k))
           p == [at |-> "load", subject |-> s0, attr |-> a, keys |-> k, seen |-> seen,
                 found |-> Nothing, fresh |-> Nothing]
<1>1. /\ Moves(r, p) /\ UNCHANGED <<sticky, aux_told>>
      /\ aux_torn' = [aux_torn EXCEPT ![s0] = @ \union Torn(s0, k, seen)]
  BY MoveMoves DEF Arrive, StickInv, DInv, DecisionsTypeOK, valkey_vars
<1>2. f \notin aux_torn[s] /\ (s = s0 => f \notin Torn(s0, k, seen))
  BY <1>1 DEF StickInv, DInv, DecisionsTypeOK
<1>3. Sticks(s, f) BY <1>2 DEF StickInv
<1>4. \A o \in Requests \ {r} : (Asks(o, s, f)' <=> Asks(o, s, f)) /\ req'[o] = req[o]
  BY <1>1 DEF Moves, Asks, Open
<1>5. Asks(r, s, f)' => /\ s = s0 /\ f \in Range(k) /\ req'[r] = p
                        /\ req'[r].at = "load" /\ DOMAIN req'[r].found = {}
  BY <1>1, NothingIsPartial DEF Moves, Asks, Keys
<1>6. ASSUME Asks(r, s, f)', NEW o \in Requests \ {r}, Asks(o, s, f)
      PROVE  req[o].seen[f] = p.seen[f]
  BY <1>2, <1>5, <1>6 DEF Torn, Asks
<1>7. SeenAlike(s, f)' BY <1>3, <1>4, <1>5, <1>6 DEF Sticks, SeenAlike
<1>8. FoundIsSaved(s, f)' BY <1>1, <1>3, <1>4, <1>5 DEF Sticks, FoundIsSaved, IsSaved
<1>9. FreshIsSaved(s, f)' BY <1>1, <1>3, <1>4, <1>5 DEF Sticks, FreshIsSaved, IsSaved
<1>10. SavedIsFresh(s, f)' BY <1>1, <1>3, <1>4, <1>5 DEF Sticks, SavedIsFresh
<1>11. ToldIsSaved(s, f)' BY <1>1, <1>3 DEF Sticks, ToldIsSaved, IsSaved
<1> QED BY <1>7, <1>8, <1>9, <1>10, <1>11 DEF Sticks

LEMMA StickLoad ==
    ASSUME StickInv, NEW r \in Requests, Load(r),
           NEW s \in Subjects \ Unsplittable, NEW f \in Flags \ (aux_torn'[s] \union Shared)
    PROVE  Sticks(s, f)'
<1> DEFINE q == req[r]
           p == [q EXCEPT !.at = "decide", !.found = Found(q)]
<1>1. Open(r) /\ Sound(q) /\ q.at = "load" BY DParts DEF StickInv, Load, Open
<1>2. Updated(q, p, "decide", Found(q), q.fresh) BY <1>1, Updates DEF Sound
<1>3. Moves(r, p) /\ UNCHANGED <<sticky, aux_told, aux_torn>>
  BY MoveMoves DEF Load, StickInv, DInv, DecisionsTypeOK, valkey_vars, aux_vars
<1>4. Sticks(s, f) BY <1>3 DEF StickInv
<1>5. \A o \in Requests \ {r} : (Asks(o, s, f)' <=> Asks(o, s, f)) /\ req'[o] = req[o]
  BY <1>3 DEF Moves, Asks, Open
<1>6. Asks(r, s, f)' => /\ Asks(r, s, f) /\ q.subject = s /\ f \in Keys(q)
                        /\ req'[r].seen = q.seen /\ req'[r].found = Found(q)
                        /\ req'[r].at = "decide"
  <2> HIDE DEF p
  <2> QED BY <1>1, <1>2, <1>3 DEF Moves, Asks, Keys, Updated
<1>7. ASSUME Asks(r, s, f)'
      PROVE  /\ f \in DOMAIN Found(q) => IsSaved(s, f, Found(q)[f])
             /\ q.seen[f] # None /\ f \in DOMAIN sticky[s] /\ sticky[s][f].exp = q.seen[f].exp
                   => f \in DOMAIN Found(q)
  <2>1. q.subject = s /\ f \in Keys(q) BY <1>6, <1>7
  <2>2. PICK i \in DOMAIN q.keys : q.keys[i] = f BY <2>1 DEF Keys, Range
  <2>3. Found(q) = Restrict(sticky[s], {g \in Keys(q) \intersect DOMAIN sticky[s] :
                                \E j \in Candidates(q) : At(q, j).exp = sticky[s][g].exp})
    BY <2>1 DEF Found
  <2>4. f \in DOMAIN Found(q) => IsSaved(s, f, Found(q)[f])
    BY <2>3 DEF Restrict, IsSaved
  <2>5. q.seen[f] # None => i \in Candidates(q) /\ At(q, i) = q.seen[f]
    BY <2>2 DEF Candidates, At
  <2>6. q.seen[f] # None /\ f \in DOMAIN sticky[s] /\ sticky[s][f].exp = q.seen[f].exp
            => f \in DOMAIN Found(q)
    BY <2>1, <2>3, <2>5 DEF Restrict
  <2> QED BY <2>4, <2>6
<1>8. SeenAlike(s, f)' BY <1>4, <1>5, <1>6 DEF Sticks, SeenAlike
<1>9. FoundIsSaved(s, f)' BY <1>3, <1>4, <1>5, <1>6, <1>7 DEF Sticks, FoundIsSaved, IsSaved
<1>10. FreshIsSaved(s, f)' BY <1>3, <1>4, <1>5, <1>6 DEF Sticks, FreshIsSaved, IsSaved
<1>11. SavedIsFresh(s, f)' BY <1>3, <1>4, <1>5, <1>6, <1>7 DEF Sticks, SavedIsFresh
<1>12. ToldIsSaved(s, f)' BY <1>3, <1>4 DEF Sticks, ToldIsSaved, IsSaved
<1> QED BY <1>8, <1>9, <1>10, <1>11, <1>12 DEF Sticks

\* What a request that returns tells of f is what is saved.
LEMMA TellsSaved ==
    ASSUME StickInv, NEW r \in Requests, Open(r), req[r].at \in {"decide", "count", "return"},
           NEW s \in Subjects \ Unsplittable, NEW f \in Flags, Sticks(s, f),
           req[r].subject = s, f \in DOMAIN Answer(req[r])
    PROVE  IsSaved(s, f, Answer(req[r])[f])
<1> DEFINE q == req[r]
<1>1. Sound(q) BY DParts DEF StickInv
<1>2. f \in Keys(q) BY <1>1, AnswerOK DEF Sound, RequestOK, Partial
<1>3. Asks(r, s, f) BY <1>2 DEF Asks
<1>4. CASE f \in DOMAIN q.found
  BY <1>1, <1>3, <1>4, AnswerOK DEF Sticks, FoundIsSaved
<1>5. CASE f \in DOMAIN q.fresh
  <2>1. q.at \in {"count", "return"} BY <1>1, <1>5, NothingIsPartial DEF Sound
  <2> QED BY <1>1, <1>3, <1>5, <2>1, AnswerOK DEF Sticks, FreshIsSaved
<1> QED BY <1>1, <1>4, <1>5, AnswerOK

LEMMA StickTell ==
    ASSUME StickInv, NEW r \in Requests, Open(r), req[r].at \in {"decide", "count", "return"},
           Tell(r), UNCHANGED <<sticky, aux_torn>>,
           NEW s \in Subjects \ Unsplittable, NEW f \in Flags \ (aux_torn'[s] \union Shared)
    PROVE  /\ Sticks(s, f)'
           /\ f \in DOMAIN aux_told[s] \intersect DOMAIN aux_told'[s]
                 => aux_told'[s][f] = aux_told[s][f]
<1> DEFINE q == req[r]
<1>1. Moves(r, Idle) BY MoveMoves DEF Tell, Ends, StickInv, DInv, DecisionsTypeOK
<1>2. Sticks(s, f) BY DEF StickInv
<1>3. \A o \in Requests : Asks(o, s, f)' => Asks(o, s, f) /\ req'[o] = req[o]
  BY <1>1 DEF Moves, Asks, Open, Idle
<1>4. q.subject \in Subjects /\ DOMAIN aux_told = Subjects
  BY DParts DEF StickInv, Sound, RequestOK, ToldOK
<1>5. aux_told'[s] = IF s = q.subject THEN Answer(q) ++ aux_told[s] ELSE aux_told[s]
  BY <1>4 DEF Tell
<1>6. ASSUME f \in DOMAIN aux_told'[s] PROVE IsSaved(s, f, aux_told'[s][f])
  <2>1. CASE s = q.subject /\ f \in DOMAIN Answer(q)
    <3>1. IsSaved(s, f, Answer(q)[f]) BY <1>2, <2>1, TellsSaved
    <3>2. aux_told'[s][f] = Answer(q)[f] BY <1>5, <2>1 DEF ++
    <3> QED BY <3>1, <3>2
  <2>2. CASE ~(s = q.subject /\ f \in DOMAIN Answer(q))
    <3>1. f \in DOMAIN aux_told[s] /\ aux_told'[s][f] = aux_told[s][f]
      BY <1>5, <1>6, <2>2 DEF ++
    <3> QED BY <1>2, <3>1 DEF Sticks, ToldIsSaved
  <2> QED BY <2>1, <2>2
<1>7. SeenAlike(s, f)' BY <1>2, <1>3 DEF Sticks, SeenAlike
<1>8. FoundIsSaved(s, f)' BY <1>2, <1>3 DEF Sticks, FoundIsSaved, IsSaved
<1>9. FreshIsSaved(s, f)' BY <1>2, <1>3 DEF Sticks, FreshIsSaved, IsSaved
<1>10. SavedIsFresh(s, f)' BY <1>2, <1>3 DEF Sticks, SavedIsFresh
<1>11. ToldIsSaved(s, f)' BY <1>6 DEF ToldIsSaved, IsSaved
<1>12. Sticks(s, f)' BY <1>7, <1>8, <1>9, <1>10, <1>11 DEF Sticks
<1>13. ASSUME f \in DOMAIN aux_told[s] \intersect DOMAIN aux_told'[s]
       PROVE  aux_told'[s][f] = aux_told[s][f]
  BY <1>2, <1>6, <1>13 DEF Sticks, ToldIsSaved, IsSaved
<1> QED BY <1>12, <1>13

LEMMA StickDecide ==
    ASSUME StickInv, NEW r \in Requests, Decide(r), ~Tell(r),
           NEW s \in Subjects \ Unsplittable, NEW f \in Flags \ (aux_torn'[s] \union Shared)
    PROVE  Sticks(s, f)'
<1> DEFINE q == req[r]
           fresh == [g \in Assigned(q) |-> assign_variant(q.subject, q.seen[g])]
           p == [q EXCEPT !.at = "save", !.fresh = fresh]
<1>1. Open(r) /\ Sound(q) /\ q.at = "decide" BY DParts DEF StickInv, Decide, Open
<1>2. Updated(q, p, "save", q.found, fresh) BY <1>1, Updates DEF Sound
<1>3. Moves(r, p) /\ UNCHANGED <<sticky, aux_told, aux_torn>>
  <2>1. Move(r, p) /\ UNCHANGED <<sticky, aux_told, aux_torn>>
    BY DEF Decide, valkey_vars
  <2> QED BY <2>1, MoveMoves DEF StickInv, DInv, DecisionsTypeOK
<1>4. \A o \in Requests \ {r} : (Asks(o, s, f)' <=> Asks(o, s, f)) /\ req'[o] = req[o]
  BY <1>3 DEF Moves, Asks, Open
<1>5. Asks(r, s, f)' => /\ Asks(r, s, f) /\ req'[r].seen = q.seen
                        /\ req'[r].found = q.found /\ req'[r].at = "save"
  <2> HIDE DEF p, fresh
  <2> QED BY <1>1, <1>2, <1>3 DEF Moves, Asks, Keys, Updated
<1>6. Stays(s, f) BY <1>1, <1>3, <1>4, <1>5 DEF Stays
<1>7. Sticks(s, f) BY <1>3 DEF StickInv
<1> QED BY <1>6, <1>7, StaysSticky

\* A save does not change what is saved of f for an experiment that the request saw:
\* what it found is there, what it decided is what any other would decide.
LEMMA StickSave ==
    ASSUME StickInv, NEW r \in Requests, Save(r),
           NEW s \in Subjects \ Unsplittable, NEW f \in Flags \ (aux_torn'[s] \union Shared)
    PROVE  /\ Sticks(s, f)'
           /\ f \in DOMAIN aux_told[s] \intersect DOMAIN aux_told'[s]
                 => aux_told'[s][f] = aux_told[s][f]
<1> DEFINE q == req[r]
           p == [q EXCEPT !.at = "count"]
<1>1. Open(r) /\ Sound(q) /\ q.at = "save" BY DParts DEF StickInv, Save, Open
<1>2. Updated(q, p, "count", q.found, q.fresh) BY <1>1, Updates DEF Sound
<1>3. Moves(r, p) /\ UNCHANGED aux_torn
  BY MoveMoves DEF Save, StickInv, DInv, DecisionsTypeOK
<1>4. /\ Sticks(s, f) /\ q.subject \in Subjects
      /\ DOMAIN sticky = Subjects /\ ToldOK
      /\ \A o \in Requests : Open(o) => Sound(req[o])
  BY <1>1, <1>3, DParts DEF StickInv, Sound, RequestOK, StoredOK
<1>5. \A o \in Requests \ {r} : (Asks(o, s, f)' <=> Asks(o, s, f)) /\ req'[o] = req[o]
  BY <1>3 DEF Moves, Asks, Open
<1>6. Asks(r, s, f)' => /\ Asks(r, s, f) /\ req'[r].seen = q.seen /\ req'[r].at = "count"
                        /\ req'[r].found = q.found /\ req'[r].fresh = q.fresh
  <2> HIDE DEF p
  <2> QED BY <1>1, <1>2, <1>3 DEF Moves, Asks, Keys, Updated
<1>7. CASE s # q.subject
  <2>1. sticky'[s] = sticky[s] /\ aux_told'[s] = aux_told[s]
    BY <1>4, <1>7 DEF Save, ToldOK
  <2>2. ~Asks(r, s, f) BY <1>7 DEF Asks
  <2>3. Stays(s, f) BY <1>5, <1>6, <2>1, <2>2 DEF Stays
  <2> QED BY <1>4, <2>1, <2>3, StaysSticky
<1>8. CASE s = q.subject
  <2> DEFINE Kept(v) == f \in DOMAIN sticky'[s] /\ sticky'[s][f] = v
  <2>1. sticky'[s] = Answer(q) ++ sticky[s] /\ aux_told'[s] = Forget(aux_told[s], Answer(q))
    BY <1>4, <1>8 DEF Save, Saved, ToldOK
  <2>2. /\ DOMAIN Answer(q) = DOMAIN q.fresh \union DOMAIN q.found
        /\ Partial(Answer(q), Flags, Decided)
        /\ \A g \in DOMAIN q.fresh : Answer(q)[g] = q.fresh[g]
        /\ \A g \in DOMAIN q.found : Answer(q)[g] = q.found[g]
    BY <1>1, AnswerOK
  <2>3. f \in DOMAIN Answer(q) => Asks(r, s, f)
    BY <1>1, <1>8, <2>2 DEF Asks, Sound, RequestOK, Partial
  <2>4. f \in DOMAIN q.fresh => /\ q.fresh[f] = assign_variant(s, q.seen[f])
                               /\ q.seen[f] # None /\ f \notin DOMAIN q.found
    BY <1>1, <1>8 DEF Sound
  <2>5. f \in DOMAIN q.found => IsSaved(s, f, q.found[f])
    BY <1>4, <2>2, <2>3 DEF Sticks, FoundIsSaved
  <2>6. /\ DOMAIN sticky'[s] = DOMAIN Answer(q) \union DOMAIN sticky[s]
        /\ f \in DOMAIN Answer(q) => sticky'[s][f] = Answer(q)[f]
        /\ f \notin DOMAIN Answer(q) /\ f \in DOMAIN sticky[s] => sticky'[s][f] = sticky[s][f]
    BY <2>1 DEF ++
  \* What was saved of the experiment that the request saw stays.
  <2>7. ASSUME NEW v, IsSaved(s, f, v), f \in DOMAIN q.fresh => v.exp = q.seen[f].exp
        PROVE  Kept(v)
    <3>1. CASE f \in DOMAIN q.fresh
      <4>1. Asks(r, s, f) BY <2>2, <2>3, <3>1
      <4>2. v = assign_variant(s, q.seen[f])
        BY <1>1, <1>4, <2>4, <2>7, <3>1, <4>1 DEF Sticks, SavedIsFresh, IsSaved
      <4> QED BY <2>2, <2>4, <2>6, <3>1, <4>2 DEF IsSaved
    <3>2. CASE f \in DOMAIN q.found
      BY <2>2, <2>5, <2>6, <2>7, <3>2 DEF IsSaved
    <3>3. CASE f \notin DOMAIN Answer(q)
      BY <2>6, <2>7, <3>3 DEF IsSaved
    <3> QED BY <2>2, <3>1, <3>2, <3>3
  \* What is saved afterwards was saved before, or is decided by this request.
  <2>8. f \in DOMAIN sticky'[s] =>
            \/ IsSaved(s, f, sticky'[s][f])
            \/ f \in DOMAIN q.fresh /\ sticky'[s][f] = assign_variant(s, q.seen[f])
    BY <2>2, <2>4, <2>5, <2>6 DEF IsSaved
  <2>9. f \in DOMAIN q.fresh => Asks(r, s, f) BY <2>2, <2>3
  <2>10. SeenAlike(s, f)' BY <1>4, <1>5, <1>6 DEF Sticks, SeenAlike
  <2>11. FoundIsSaved(s, f)'
    <3>1. SUFFICES ASSUME NEW o \in Requests, Asks(o, s, f)', f \in DOMAIN req'[o].found
                   PROVE  Kept(req'[o].found[f])
      BY DEF FoundIsSaved, IsSaved
    <3> DEFINE v == req[o].found[f]
    <3>2. /\ Asks(o, s, f) /\ req'[o].found = req[o].found /\ f \in DOMAIN req[o].found
          /\ Sound(req[o])
      BY <1>4, <1>5, <1>6, <3>1 DEF Asks
    <3>3. IsSaved(s, f, v) BY <1>4, <3>2 DEF Sticks, FoundIsSaved
    <3>4. v.exp = req[o].seen[f].exp
      <4>1. Open(o) /\ f \in DOMAIN Answer(req[o]) /\ Answer(req[o])[f] = v
        BY <3>2, AnswerOK DEF Asks
      <4> QED BY <4>1, AnswerIsSeen DEF StickInv
    <3>5. f \in DOMAIN q.fresh => v.exp = q.seen[f].exp
      BY <1>4, <2>9, <3>2, <3>4 DEF Sticks, SeenAlike
    <3>6. Kept(v) BY <2>7, <3>3, <3>5, <3>2
    <3> QED BY <3>2, <3>6
  <2>12. FreshIsSaved(s, f)'
    <3>1. SUFFICES ASSUME NEW o \in Requests, Asks(o, s, f)', req'[o].at \in {"count", "return"},
                          f \in DOMAIN req'[o].fresh
                   PROVE  Kept(req'[o].fresh[f])
      BY DEF FreshIsSaved, IsSaved
    <3>2. CASE o = r
      BY <1>6, <2>2, <2>6, <3>1, <3>2 DEF IsSaved
    <3>3. CASE o # r
      <4> DEFINE v == req[o].fresh[f]
      <4>1. Asks(o, s, f) /\ req'[o] = req[o] /\ Sound(req[o]) BY <1>4, <1>5, <3>1, <3>3 DEF Asks
      <4>2. IsSaved(s, f, v) BY <1>4, <3>1, <4>1 DEF Sticks, FreshIsSaved
      <4>3. v.exp = req[o].seen[f].exp
        <5>1. Open(o) /\ f \in DOMAIN Answer(req[o]) /\ Answer(req[o])[f] = v
          BY <3>1, <4>1, AnswerOK DEF Asks
        <5> QED BY <5>1, AnswerIsSeen DEF StickInv
      <4>4. f \in DOMAIN q.fresh => v.exp = q.seen[f].exp
        BY <1>4, <2>9, <4>1, <4>3 DEF Sticks, SeenAlike
      <4>5. Kept(v) BY <2>7, <4>1, <4>2, <4>4
      <4> QED BY <4>1, <4>5
    <3> QED BY <3>2, <3>3
  <2>13. SavedIsFresh(s, f)'
    <3>1. SUFFICES ASSUME NEW o \in Requests, Asks(o, s, f)', req'[o].at # "load",
                          f \notin DOMAIN req'[o].found, req'[o].seen[f] # None,
                          f \in DOMAIN sticky'[s], sticky'[s][f].exp = req'[o].seen[f].exp
                   PROVE  sticky'[s][f] = assign_variant(s, req'[o].seen[f])
      BY DEF SavedIsFresh
    <3>2. /\ Asks(o, s, f) /\ req'[o].seen = req[o].seen /\ req'[o].found = req[o].found
          /\ req[o].at # "load"
      BY <1>1, <1>5, <1>6, <3>1
    <3>3. CASE IsSaved(s, f, sticky'[s][f])
      BY <1>4, <3>1, <3>2, <3>3 DEF Sticks, SavedIsFresh, IsSaved
    <3>4. CASE f \in DOMAIN q.fresh /\ sticky'[s][f] = assign_variant(s, q.seen[f])
      BY <1>4, <2>9, <3>2, <3>4 DEF Sticks, SeenAlike
    <3> QED BY <2>8, <3>1, <3>3, <3>4
  <2>14. /\ \A g \in DOMAIN aux_told'[s] :
               /\ g \in DOMAIN aux_told[s] /\ aux_told'[s][g] = aux_told[s][g]
               /\ g \in DOMAIN Answer(q) => aux_told[s][g].exp = Answer(q)[g].exp
    BY <1>4, <2>1, ForgetsSome DEF ToldOK
  <2>15. ToldIsSaved(s, f)'
    <3>1. SUFFICES ASSUME f \in DOMAIN aux_told'[s] PROVE Kept(aux_told'[s][f])
      BY DEF ToldIsSaved, IsSaved
    <3> DEFINE v == aux_told[s][f]
    <3>2. IsSaved(s, f, v) BY <1>4, <2>14, <3>1 DEF Sticks, ToldIsSaved
    <3>3. f \in DOMAIN q.fresh => v.exp = q.seen[f].exp
      BY <1>1, <2>2, <2>14, <3>1, AnswerIsSeen DEF StickInv
    <3>4. Kept(v) BY <2>7, <2>14, <3>1, <3>2, <3>3
    <3> QED BY <2>14, <3>1, <3>4
  <2>16. Sticks(s, f)' BY <2>10, <2>11, <2>12, <2>13, <2>15 DEF Sticks
  <2> QED BY <2>14, <2>16
<1> QED BY <1>7, <1>8

LEMMA StickCount ==
    ASSUME StickInv, NEW r \in Requests, Count(r),
           NEW s \in Subjects \ Unsplittable, NEW f \in Flags \ (aux_torn'[s] \union Shared)
    PROVE  Sticks(s, f)'
<1> DEFINE q == req[r]
           p == [q EXCEPT !.at = "return"]
<1>1. Open(r) /\ Sound(q) /\ q.at = "count" BY DParts DEF StickInv, Count, Open
<1>2. Updated(q, p, "return", q.found, q.fresh) BY <1>1, Updates DEF Sound
<1>3. Moves(r, p) /\ UNCHANGED <<sticky, aux_told, aux_torn>>
  BY MoveMoves DEF Count, StickInv, DInv, DecisionsTypeOK
<1>4. \A o \in Requests \ {r} : (Asks(o, s, f)' <=> Asks(o, s, f)) /\ req'[o] = req[o]
  BY <1>3 DEF Moves, Asks, Open
<1>5. Asks(r, s, f)' => /\ Asks(r, s, f) /\ req'[r].seen = q.seen /\ req'[r].fresh = q.fresh
                        /\ req'[r].found = q.found
  <2> HIDE DEF p
  <2> QED BY <1>1, <1>2, <1>3 DEF Moves, Asks, Keys, Updated
<1>6. Stays(s, f) BY <1>1, <1>3, <1>4, <1>5 DEF Stays
<1>7. Sticks(s, f) BY <1>3 DEF StickInv
<1> QED BY <1>6, <1>7, StaysSticky

LEMMA StickFail ==
    ASSUME StickInv, NEW r \in Requests, Fail(r),
           NEW s \in Subjects \ Unsplittable, NEW f \in Flags \ (aux_torn'[s] \union Shared)
    PROVE  Sticks(s, f)'
<1>1. Moves(r, Idle) /\ UNCHANGED <<sticky, aux_told, aux_torn>>
  BY MoveMoves DEF Fail, Ends, StickInv, DInv, DecisionsTypeOK, valkey_vars
<1>2. \A o \in Requests : Asks(o, s, f)' => Asks(o, s, f) /\ req'[o] = req[o]
  BY <1>1 DEF Moves, Asks, Open, Idle
<1>3. Stays(s, f) BY <1>1, <1>2 DEF Stays
<1> QED BY <1>1, <1>3, StaysSticky DEF StickInv

\* Decisions that expire under open requests may be decided differently by them and
\* by later ones; without open requests nothing is left to disagree.
LEMMA StickExpire ==
    ASSUME StickInv, NEW s0 \in Subjects, Expire(s0),
           NEW s \in Subjects \ Unsplittable, NEW f \in Flags \ (aux_torn'[s] \union Shared)
    PROVE  /\ Sticks(s, f)'
           /\ f \in DOMAIN aux_told[s] \intersect DOMAIN aux_told'[s]
                 => aux_told'[s][f] = aux_told[s][f]
<1>1. /\ DOMAIN sticky = Subjects /\ DOMAIN aux_told = Subjects
      /\ aux_torn \in [Subjects -> SUBSET Flags]
  BY DParts DEF StickInv, StoredOK, ToldOK, CountersOK
<1>2. UNCHANGED req BY DEF Expire
<1>3. CASE s # s0
  <2>1. sticky'[s] = sticky[s] /\ aux_told'[s] = aux_told[s] /\ aux_torn'[s] = aux_torn[s]
    BY <1>1, <1>3 DEF Expire
  <2>2. Sticks(s, f) BY <2>1 DEF StickInv
  <2> QED BY <1>2, <2>1, <2>2, StaysQuiet, StaysSticky
<1>4. CASE s = s0
  <2>1. ~\E r \in Requests : Open(r) /\ req[r].subject = s
    BY <1>1, <1>4 DEF Expire
  <2>2. \A r \in Requests : ~Asks(r, s, f)' BY <1>2, <2>1 DEF Asks, Open
  <2>3. DOMAIN aux_told'[s] = {} BY <1>1, <1>4, NothingIsPartial DEF Expire
  <2> QED BY <2>2, <2>3
          DEF Sticks, SeenAlike, FoundIsSaved, FreshIsSaved, SavedIsFresh, ToldIsSaved
<1> QED BY <1>3, <1>4

\* A step that neither opens, moves nor ends a request, and keeps the decisions.
LEMMA StickQuiet ==
    ASSUME StickInv, UNCHANGED <<sticky, req, aux_told, aux_torn>>,
           NEW s \in Subjects \ Unsplittable, NEW f \in Flags \ (aux_torn'[s] \union Shared)
    PROVE  Sticks(s, f)'
BY StaysQuiet, StaysSticky DEF StickInv

LEMMA StickStep ==
    ASSUME StickInv, [DecisionsNext]_decision_vars,
           NEW s \in Subjects \ Unsplittable, NEW f \in Flags \ (aux_torn'[s] \union Shared)
    PROVE  Sticks(s, f)'
<1>1. CASE \E g \in Flags, x \in Entries \union {None} : SetOnFlag(g, x)
  BY <1>1, StickQuiet DEF SetOnFlag, valkey_vars
<1>2. CASE \E g \in Flags : SetFlagDefault(g)
  BY <1>2, StickQuiet DEF SetFlagDefault, valkey_vars, aux_vars
<1>3. CASE \E r \in Requests, t \in Subjects, a \in Attrs, k \in KeyLists : Arrive(r, t, a, k)
  BY <1>3, StickArrive
<1>4. CASE \E r \in Requests : Load(r) BY <1>4, StickLoad
<1>5. CASE \E r \in Requests : Rest(r)
  BY <1>5, StickTell DEF Rest, valkey_vars, Open
<1>6. CASE \E r \in Requests : Decide(r)
  BY <1>6, StickTell, StickDecide DEF Decide, valkey_vars, Open
<1>7. CASE \E r \in Requests : Save(r) BY <1>7, StickSave
<1>8. CASE \E r \in Requests : Count(r) \/ Return(r)
  BY <1>8, StickCount, StickTell DEF Return, valkey_vars, Open
<1>9. CASE \E r \in Requests : Fail(r) BY <1>9, StickFail
<1>10. CASE \E t \in Subjects : Expire(t) BY <1>10, StickExpire
<1>11. CASE \E t \in Subjects : CooldownEnds(t)
  BY <1>11, StickQuiet DEF CooldownEnds
<1>12. CASE UNCHANGED decision_vars
  BY <1>12, StickQuiet DEF decision_vars, valkey_vars, aux_vars
<1> QED BY <1>1, <1>2, <1>3, <1>4, <1>5, <1>6, <1>7, <1>8, <1>9, <1>10, <1>11, <1>12
        DEF DecisionsNext

LEMMA StickInit == DecisionsInit => StickInv
<1> SUFFICES ASSUME DecisionsInit PROVE StickInv OBVIOUS
<1>1. \A r \in Requests : ~Open(r) BY DEF DecisionsInit, Idle, Open
<1>2. \A s \in Subjects : DOMAIN aux_told[s] = {} BY NothingIsPartial DEF DecisionsInit
<1> QED BY <1>1, <1>2, DInit
        DEF StickInv, Sticks, SeenAlike, FoundIsSaved, FreshIsSaved, SavedIsFresh, ToldIsSaved, Asks

LEMMA StickNext == ASSUME StickInv, [DecisionsNext]_decision_vars PROVE StickInv'
<1>1. DInv' /\ Shared \subseteq Shared' BY DNext, SharedGrows DEF StickInv
<1> QED BY <1>1, StickStep DEF StickInv

\* What is told again is what was told: both are what is saved. Torn flags only
\* become fewer in a step that forgets what was told.
LEMMA RepeatsItself ==
    ASSUME StickInv, [DecisionsNext]_decision_vars, NEW s \in Subjects \ Unsplittable,
           NEW f \in (DOMAIN aux_told[s] \intersect DOMAIN aux_told'[s])
                        \ (aux_torn[s] \union Shared)
    PROVE  aux_told'[s][f] = aux_told[s][f]
<1>1. f \in Flags /\ aux_torn \in [Subjects -> SUBSET Flags]
  BY DParts DEF StickInv, ToldOK, CountersOK, Partial
<1>2. CASE UNCHANGED aux_told BY <1>2
<1>3. ASSUME NEW r \in Requests, Tell(r), Open(r), req[r].at \in {"decide", "count", "return"},
             UNCHANGED <<sticky, aux_torn>>
      PROVE  aux_told'[s][f] = aux_told[s][f]
  BY <1>1, <1>3, StickTell
<1>4. ASSUME NEW r \in Requests, Save(r) PROVE aux_told'[s][f] = aux_told[s][f]
  BY <1>1, <1>4, StickSave DEF Save
<1>5. ASSUME NEW t \in Subjects, Expire(t) PROVE aux_told'[s][f] = aux_told[s][f]
  <2>1. s # t \/ DOMAIN aux_told'[s] = {}
    BY <1>5, DParts, NothingIsPartial DEF StickInv, ToldOK, Expire
  <2>2. s # t BY <2>1
  <2> QED BY <1>5, <2>2, DParts DEF StickInv, ToldOK, Expire
<1>6. CASE \E r \in Requests : Rest(r)
  BY <1>3, <1>6 DEF Rest, valkey_vars, Open
<1>7. CASE \E r \in Requests : Decide(r)
  BY <1>2, <1>3, <1>7 DEF Decide, valkey_vars, Open
<1>8. CASE \E r \in Requests : Return(r)
  BY <1>3, <1>8 DEF Return, valkey_vars, Open
<1> QED BY <1>2, <1>4, <1>5, <1>6, <1>7, <1>8
        DEF DecisionsNext, SetOnFlag, SetFlagDefault, Arrive, Load, Count, Fail, CooldownEnds,
            decision_vars, aux_vars

\* Stickiness, for every number of requests that overlap.
THEOREM AnswersAreSticky == DecisionsSpec => AnswersStick
<1> DEFINE Sticky == \A s \in Subjects \ Unsplittable : Repeated(s)
<1>1. StickInv /\ [DecisionsNext]_decision_vars => Sticky
  BY RepeatsItself DEF Repeated
<1>2. AnswersStick <=> [][Sticky]_decision_vars BY DEF AnswersStick
<1> HIDE DEF Sticky
<1> QED BY <1>1, <1>2, StickInit, StickNext, PTL DEF DecisionsSpec

-----------------------------------------------------------------------------
\* The counter of experiments shown.

\* How a step of one request changes the number of those that passed the check.
LEMMA PassedCount ==
    ASSUME NEW s
    PROVE  /\ IsFiniteSet(Passed(s)) /\ Cardinality(Passed(s)) \in Nat
           /\ Cardinality(Flags) \in Nat /\ Cardinality(Requests) \in Nat
           /\ Cardinality(Passed(s)) <= Cardinality(Requests)
<1>1. Passed(s) \subseteq Requests BY DEF Passed
<1> QED BY <1>1, RequestParameters, FS_Subset, FS_CardinalityType

LEMMA PassedNext ==
    ASSUME NEW s, NEW r \in Requests, NEW p, Moves(r, p)
    PROVE  /\ p.at = "idle" \/ ~(p.subject = s /\ p.at \in {"save", "count"})
                 => Passed(s)' = Passed(s) \ {r}
           /\ p.at # "idle" /\ p.subject = s /\ p.at \in {"save", "count"}
                 => Passed(s)' = Passed(s) \union {r}
BY DEF Moves, Passed, Open

\* What a due request has counted and not told is as many as its new decisions.
OwnPending(r) == {r} \X DOMAIN req[r].fresh

LEMMA PendingFacts ==
    ASSUME DInv, NEW s
    PROVE  IsFiniteSet(Pending(s)) /\ Cardinality(Pending(s)) \in Nat
<1>1. IsFiniteSet(aux_due) BY DParts, RequestParameters, FS_Subset DEF DueOK
<1>2. IsFiniteSet(aux_due \X Flags) BY <1>1, RequestParameters, FS_Product
<1>3. Pending(s) \subseteq aux_due \X Flags BY DEF Pending
<1> QED BY <1>2, <1>3, FS_Subset, FS_CardinalityType

LEMMA OwnPendingFacts ==
    ASSUME NEW r, IsFiniteSet(DOMAIN req[r].fresh)
    PROVE  /\ IsFiniteSet(OwnPending(r))
           /\ Cardinality(OwnPending(r)) = Cardinality(DOMAIN req[r].fresh)
<1> DEFINE D == DOMAIN req[r].fresh
<1>1. IsFiniteSet({r}) /\ Cardinality({r}) = 1 BY FS_Singleton
<1>2. Cardinality(D) \in Nat BY FS_CardinalityType
<1>3. IsFiniteSet({r} \X D) /\ Cardinality({r} \X D) = Cardinality({r}) * Cardinality(D)
  <2>1. IsFiniteSet(D) OBVIOUS
  <2> HIDE DEF D
  <2> QED BY <1>1, <2>1, FS_Product
<1>4. Cardinality({r}) * Cardinality(D) = Cardinality(D)
  <2> HIDE DEF D
  <2> QED BY <1>1, <1>2
<1> QED BY <1>3, <1>4 DEF OwnPending

LEMMA ApartCount ==
    ASSUME NEW S, NEW T, IsFiniteSet(S), IsFiniteSet(T), S \intersect T = {}
    PROVE  Cardinality(S \union T) = Cardinality(S) + Cardinality(T)
<1>1. Cardinality(S \intersect T) = 0 BY FS_EmptySet
<1>2. Cardinality(S) \in Nat /\ Cardinality(T) \in Nat BY FS_CardinalityType
<1>3. Cardinality(S \union T) = Cardinality(S) + Cardinality(T) - Cardinality(S \intersect T)
  BY FS_Union
<1> QED BY <1>1, <1>2, <1>3

\* A request that is not due moves.
LEMMA RecordedMoves ==
    ASSUME DInv, NEW r \in Requests, r \notin aux_due, NEW p, Moves(r, p),
           UNCHANGED count_vars, NEW s
    PROVE  Recorded(s)' = Recorded(s)
<1>1. aux_due' = aux_due /\ aux_new' = aux_new /\ aux_lost' = aux_lost BY DEF count_vars
<1>2. \A o \in aux_due : req'[o] = req[o] BY DParts DEF DueOK, Moves
<1>3. Pending(s)' = Pending(s) BY <1>1, <1>2 DEF Pending
<1> QED BY <1>1, <1>3 DEF Recorded

\* A request ends: what it had pending was told or lost.
LEMMA RecordedEnds ==
    ASSUME DInv, NEW r \in Requests, Open(r), NEW s \in Subjects,
           \/ Ends(r, aux_new) /\ UNCHANGED aux_lost
           \/ Ends(r, aux_lost) /\ UNCHANGED aux_new
    PROVE  Recorded(s)' = Recorded(s)
<1> DEFINE q == req[r]
           n == Cardinality(DOMAIN q.fresh)
           Rest0 == Pending(s) \ OwnPending(r)
<1>1. /\ Sound(q) /\ q.subject \in Subjects /\ n \in Nat /\ IsFiniteSet(DOMAIN q.fresh)
      /\ DOMAIN q.fresh \subseteq Flags
  <2>1. Sound(q) BY DParts
  <2>2. Keys(q) \subseteq Flags BY <2>1, KeysAreFlags DEF Sound, RequestOK
  <2> QED BY <2>1, <2>2, AnswerOK DEF Sound, RequestOK, Partial
<1>2. Moves(r, Idle) /\ aux_due' = aux_due \ {r}
  BY MoveMoves DEF Ends, DInv, DecisionsTypeOK
<1>3. aux_new[s] \in Nat /\ aux_lost[s] \in Nat /\ Cardinality(Pending(s)) \in Nat
  BY DParts, PendingFacts DEF CountersOK
<1>4. \A o \in aux_due' : req'[o] = req[o] /\ o # r BY <1>2, DParts DEF DueOK, Moves
<1>5. CASE r \in aux_due /\ q.subject = s
  <2>1. OwnPending(r) \subseteq Pending(s) BY <1>1, <1>5 DEF OwnPending, Pending
  <2>2. Pending(s)' = Rest0 BY <1>2, <1>4 DEF Pending, OwnPending
  <2>3. IsFiniteSet(Rest0) /\ Cardinality(Rest0) \in Nat
    BY PendingFacts, FS_Subset, FS_CardinalityType
  <2>4. Cardinality(Pending(s)) = Cardinality(Rest0) + n
    <3>1. Pending(s) = Rest0 \union OwnPending(r) /\ Rest0 \intersect OwnPending(r) = {}
      BY <2>1
    <3>2. IsFiniteSet(OwnPending(r)) /\ Cardinality(OwnPending(r)) = n
      BY <1>1, OwnPendingFacts
    <3> HIDE DEF Rest0, n
    <3> QED BY <2>3, <3>1, <3>2, ApartCount
  <2>5. aux_new'[s] + aux_lost'[s] = aux_new[s] + aux_lost[s] + n
    <3>1. CASE Ends(r, aux_new) /\ UNCHANGED aux_lost
      <4>1. aux_new'[s] = aux_new[s] + n BY <1>1, <1>5, <3>1, DParts DEF Ends, CountersOK
      <4> HIDE DEF n
      <4> QED BY <1>1, <1>3, <3>1, <4>1
    <3>2. CASE Ends(r, aux_lost) /\ UNCHANGED aux_new
      <4>1. aux_lost'[s] = aux_lost[s] + n BY <1>1, <1>5, <3>2, DParts DEF Ends, CountersOK
      <4> HIDE DEF n
      <4> QED BY <1>1, <1>3, <3>2, <4>1
    <3> QED BY <3>1, <3>2
  <2>6. aux_new'[s] \in Nat /\ aux_lost'[s] \in Nat
    <3>1. CASE Ends(r, aux_new) /\ UNCHANGED aux_lost
      <4>1. aux_new'[s] = aux_new[s] + n BY <1>1, <1>5, <3>1, DParts DEF Ends, CountersOK
      <4> HIDE DEF n
      <4> QED BY <1>1, <1>3, <3>1, <4>1
    <3>2. CASE Ends(r, aux_lost) /\ UNCHANGED aux_new
      <4>1. aux_lost'[s] = aux_lost[s] + n BY <1>1, <1>5, <3>2, DParts DEF Ends, CountersOK
      <4> HIDE DEF n
      <4> QED BY <1>1, <1>3, <3>2, <4>1
    <3> QED BY <3>1, <3>2
  <2>7. Cardinality(Pending(s)') = Cardinality(Rest0) BY <2>2
  <2>8. Recorded(s)' = aux_new'[s] + Cardinality(Pending(s)') + aux_lost'[s] BY DEF Recorded
  <2>9. Recorded(s) = aux_new[s] + Cardinality(Pending(s)) + aux_lost[s] BY DEF Recorded
  <2>10. Cardinality(Pending(s)') \in Nat BY <2>3, <2>7
  <2> DEFINE a1 == aux_new'[s]
             a2 == Cardinality(Pending(s)')
             a3 == aux_lost'[s]
             b2 == Cardinality(Pending(s))
             c == Cardinality(Rest0)
  <2>11. a1 + a3 = aux_new[s] + aux_lost[s] + n /\ b2 = c + n /\ a2 = c
    BY <2>4, <2>5, <2>7
  <2>12. a1 \in Nat /\ a2 \in Nat /\ a3 \in Nat /\ b2 \in Nat /\ c \in Nat /\ n \in Nat
    BY <1>1, <1>3, <2>3, <2>6, <2>10
  <2>13. a1 + a2 + a3 = aux_new[s] + b2 + aux_lost[s]
    <3> HIDE DEF a1, a2, a3, b2, c, n, Rest0
    <3> QED BY <1>3, <2>11, <2>12
  <2> QED BY <2>8, <2>9, <2>13
<1>6. CASE ~(r \in aux_due /\ q.subject = s)
  <2>1. Pending(s)' = Pending(s) BY <1>2, <1>4, <1>6 DEF Pending
  <2>2. aux_new'[s] = aux_new[s] /\ aux_lost'[s] = aux_lost[s]
    BY <1>1, <1>6, DParts DEF Ends, CountersOK
  <2> QED BY <2>1, <2>2 DEF Recorded
<1> QED BY <1>5, <1>6

\* The script runs for a request.
LEMMA RecordedCount ==
    ASSUME DInv, NEW r \in Requests, Count(r), NEW s \in Subjects
    PROVE  Recorded(s)' = Recorded(s) + (IF s = req[r].subject THEN Counted(req[r]) ELSE 0)
<1> DEFINE q == req[r]
           p == [q EXCEPT !.at = "return"]
<1>1. Open(r) /\ Sound(q) /\ q.at = "count" BY DParts DEF Count, Open
<1>2. /\ Counted(q) \in Nat /\ IsFiniteSet(DOMAIN q.fresh) /\ DOMAIN q.fresh \subseteq Flags
      /\ aux_new[s] \in Nat /\ aux_lost[s] \in Nat /\ Cardinality(Pending(s)) \in Nat
  <2>1. Keys(q) \subseteq Flags BY <1>1, KeysAreFlags DEF Sound, RequestOK
  <2> QED BY <1>1, <2>1, AnswerOK, DParts, PendingFacts
          DEF Counted, CountersOK, Sound, RequestOK, Partial
<1>3. Moves(r, p) /\ aux_due' = aux_due \union {r} /\ UNCHANGED <<aux_new, aux_lost>>
  BY MoveMoves DEF Count, DInv, DecisionsTypeOK
<1>4. Updated(q, p, "return", q.found, q.fresh) BY <1>1, Updates DEF Sound
<1>5. r \notin aux_due BY <1>1, DParts DEF DueOK
<1>6. /\ \A o \in aux_due : req'[o] = req[o]
      /\ req'[r].subject = q.subject /\ req'[r].fresh = q.fresh
  <2> HIDE DEF p
  <2> QED BY <1>3, <1>4, <1>5, DParts DEF DueOK, Moves, Updated
<1>7. CASE s = q.subject
  <2>1. Pending(s)' = Pending(s) \union OwnPending(r)
    BY <1>2, <1>3, <1>6, <1>7 DEF Pending, OwnPending
  <2>2. Pending(s) \intersect OwnPending(r) = {} BY <1>5 DEF Pending, OwnPending
  <2>3. Cardinality(Pending(s)') = Cardinality(Pending(s)) + Counted(q)
    BY <1>2, <2>1, <2>2, PendingFacts, OwnPendingFacts, ApartCount DEF Counted
  <2>4. Recorded(s)' = aux_new[s] + Cardinality(Pending(s)') + aux_lost[s]
    BY <1>3 DEF Recorded
  <2> QED BY <1>2, <1>7, <2>3, <2>4 DEF Recorded
<1>8. CASE s # q.subject
  <2>1. Pending(s)' = Pending(s) BY <1>3, <1>6, <1>8 DEF Pending
  <2>2. Recorded(s)' = Recorded(s) BY <1>3, <2>1 DEF Recorded
  <2>3. Recorded(s) \in Nat BY <1>2 DEF Recorded
  <2> QED BY <1>8, <2>2, <2>3
<1> QED BY <1>7, <1>8

LEMMA RecordedInNat ==
    ASSUME DInv, NEW s \in Subjects PROVE Recorded(s) \in Nat
BY DParts, PendingFacts DEF CountersOK, Recorded

\* Fewer that passed, and the same counters.
LEMMA CountStays ==
    ASSUME DInv, NEW s \in Subjects, CountOK(s),
           shown'[s] = shown[s], cooling'[s] = cooling[s], Recorded(s)' = Recorded(s),
           cooling[s] => Passed(s)' \subseteq Passed(s)
    PROVE  CountOK(s)'
<1> DEFINE F == Cardinality(Flags)
           P == Cardinality(Passed(s))
           Q == Cardinality(Passed(s)')
           W == Recorded(s)
<1>1. F \in Nat /\ P \in Nat /\ IsFiniteSet(Passed(s)) /\ Cardinality(Requests) \in Nat
  BY PassedCount
<1>2. W \in Nat /\ Threshold \in Nat BY RequestParameters, RecordedInNat
<1>3. CASE cooling[s]
  <2>1. Q \in Nat /\ Q <= P BY <1>1, <1>3, FS_Subset, FS_CardinalityType
  <2>2. F * Q <= F * P /\ F * Q \in Nat /\ F * P \in Nat
    <3> HIDE DEF F, P, Q
    <3> QED BY <1>1, <2>1
  <2>3. F * Cardinality(Requests) \in Nat BY <1>1
  <2>4. shown[s] = 0 /\ W + F * P < Threshold + F * Cardinality(Requests)
    BY <1>3 DEF CountOK
  <2>5. W + F * Q < Threshold + F * Cardinality(Requests)
    <3> HIDE DEF F, P, Q, W
    <3> QED BY <1>2, <2>2, <2>3, <2>4
  <2> QED BY <1>3, <2>4, <2>5 DEF CountOK
<1>4. CASE ~cooling[s] BY <1>4 DEF CountOK
<1> QED BY <1>3, <1>4

\* The script is the step that counts: the request that ran it is the one fewer among
\* those that passed the check, which makes up for what it adds.
LEMMA CountCount ==
    ASSUME DInv, NEW r \in Requests, Count(r), NEW s \in Subjects, CountOK(s)
    PROVE  CountOK(s)'
<1> DEFINE q == req[r]
           p == [q EXCEPT !.at = "return"]
<1>1. Open(r) /\ Sound(q) /\ q.at = "count" /\ CountersOK BY DParts DEF Count, Open
<1>2. Moves(r, p) BY MoveMoves DEF Count, DInv, DecisionsTypeOK
<1>3. Passed(s)' = Passed(s) \ {r}
  <2>1. Updated(q, p, "return", q.found, q.fresh) BY <1>1, Updates DEF Sound
  <2>2. p.at = "return" BY <2>1 DEF Updated
  <2> HIDE DEF p
  <2> QED BY <1>2, <2>2, PassedNext
<1>4. q.subject \in Subjects BY <1>1 DEF Sound, RequestOK
<1>5. CASE s # q.subject
  <2>1. Recorded(s)' = Recorded(s) BY <1>5, RecordedCount, RecordedInNat
  <2>2. shown'[s] = shown[s] /\ cooling'[s] = cooling[s]
    BY <1>1, <1>4, <1>5 DEF Count, Trigger, CountersOK
  <2> QED BY <1>1, <1>3, <2>1, <2>2, CountStays
<1>6. CASE s = q.subject
  <2> DEFINE n == Counted(q)
             F == Cardinality(Flags)
             P == Cardinality(Passed(s))
             R == Cardinality(Requests)
             Q == Cardinality(Passed(s)')
             W == Recorded(s)
  <2>1. n \in Nat /\ n <= F BY <1>1, AnswerOK DEF Counted
  <2>2. r \in Passed(s) BY <1>1, <1>6 DEF Passed
  <2>3. F \in Nat /\ P \in Nat /\ R \in Nat /\ P <= R /\ IsFiniteSet(Passed(s))
    BY PassedCount
  <2>4. Q \in Nat /\ Q = P - 1
    BY <1>3, <2>2, <2>3, FS_RemoveElement, FS_CardinalityType
  <2>5. Recorded(s)' = W + n BY <1>6, RecordedCount
  <2>6. W \in Nat /\ shown[s] \in 0..Threshold - 1 /\ Threshold \in Nat
    BY <1>1, RequestParameters, RecordedInNat DEF CountersOK
  <2>7. F * Q = F * P - F /\ F * P \in Nat /\ F * R \in Nat /\ F * P <= F * R
    <3> HIDE DEF F, P, Q, R
    <3> QED BY <2>3, <2>4
  <2>8. CASE cooling[s]
    <3>1. shown'[s] = shown[s] /\ cooling'[s] = cooling[s] BY <1>6, <2>8 DEF Count
    <3>2. shown[s] = 0 /\ W + F * P < Threshold + F * R BY <2>8 DEF CountOK
    <3>3. Recorded(s)' + F * Q < Threshold + F * R
      <4> HIDE DEF F, P, Q, R, n, W
      <4> QED BY <2>1, <2>3, <2>5, <2>6, <2>7, <3>2
    <3> QED BY <2>8, <3>1, <3>2, <3>3 DEF CountOK
  <2>9. CASE ~cooling[s]
    <3>1. W = shown[s] BY <2>9 DEF CountOK
    <3>2. Trigger(s, n) BY <1>6, <2>9 DEF Count
    <3>3. CASE shown[s] + n >= Threshold
      <4>1. shown'[s] = 0 /\ cooling'[s] = TRUE
        BY <1>1, <3>2, <3>3 DEF Trigger, CountersOK
      <4>2. Recorded(s)' + F * Q < Threshold + F * R
        <5> HIDE DEF F, P, Q, R, n, W
        <5> QED BY <2>1, <2>3, <2>5, <2>6, <2>7, <3>1
      <4> QED BY <4>1, <4>2 DEF CountOK
    <3>4. CASE ~(shown[s] + n >= Threshold)
      <4>1. shown'[s] = shown[s] + n
        <5> HIDE DEF n
        <5> QED BY <1>1, <3>2, <3>4 DEF Trigger, CountersOK
      <4>2. ~cooling'[s]
        <5> HIDE DEF n
        <5> QED BY <1>1, <3>2, <3>4 DEF Trigger, CountersOK
      <4>3. Recorded(s)' = shown'[s] BY <2>5, <3>1, <4>1
      <4> QED BY <4>2, <4>3 DEF CountOK
    <3> QED BY <3>3, <3>4
  <2> QED BY <2>8, <2>9
<1> QED BY <1>5, <1>6

\* A request that ends: what it counted is told or lost.
LEMMA CountEnds ==
    ASSUME DInv, NEW r \in Requests, Open(r), UNCHANGED <<shown, cooling>>,
           \/ Ends(r, aux_new) /\ UNCHANGED aux_lost
           \/ Ends(r, aux_lost) /\ UNCHANGED aux_new,
           NEW s \in Subjects, CountOK(s)
    PROVE  CountOK(s)'
<1>1. Moves(r, Idle) BY MoveMoves DEF Ends, DInv, DecisionsTypeOK
<1>2. Passed(s)' = Passed(s) \ {r} BY <1>1, PassedNext DEF Idle
<1>3. Recorded(s)' = Recorded(s) BY RecordedEnds
<1> QED BY <1>2, <1>3, CountStays

LEMMA CountTell ==
    ASSUME DInv, NEW r \in Requests, Open(r), Tell(r), UNCHANGED <<shown, cooling>>,
           NEW s \in Subjects, CountOK(s)
    PROVE  CountOK(s)'
BY CountEnds DEF Tell

LEMMA CountDecide ==
    ASSUME DInv, NEW r \in Requests, Decide(r), NEW s \in Subjects, CountOK(s)
    PROVE  CountOK(s)'
<1> DEFINE q == req[r]
           fresh == [f \in Assigned(q) |-> assign_variant(q.subject, q.seen[f])]
           p == [q EXCEPT !.at = "save", !.fresh = fresh]
<1>1. CASE Tell(r) BY <1>1, CountTell DEF Decide, valkey_vars, Open
<1>2. CASE Move(r, p) /\ UNCHANGED count_vars
  <2>1. Sound(q) /\ r \notin aux_due BY DParts DEF Decide, Open, DueOK
  <2>2. Moves(r, p) BY <1>2, MoveMoves DEF DInv, DecisionsTypeOK
  <2>3. Updated(q, p, "save", q.found, fresh) BY <2>1, Updates DEF Sound
  <2>4. p.subject = q.subject /\ p.at = "save"
    <3> HIDE DEF p, fresh
    <3> QED BY <2>3 DEF Updated
  <2>5. cooling[s] => Passed(s)' = Passed(s) \ {r}
    <3>1. cooling[s] => p.subject # s BY <2>4 DEF Decide
    <3> HIDE DEF p
    <3> QED BY <2>2, <3>1, PassedNext
  <2>6. Recorded(s)' = Recorded(s)
    <3> HIDE DEF p
    <3> QED BY <1>2, <2>1, <2>2, RecordedMoves
  <2> QED BY <2>5, <2>6, CountStays DEF Decide, valkey_vars
<1> QED BY <1>1, <1>2 DEF Decide

\* A request that had not passed the check and goes on to decide.
LEMMA CountBefore ==
    ASSUME DInv, NEW r \in Requests, NEW p, Moves(r, p), p.at \in {"load", "decide"},
           req[r].at # "return",
           UNCHANGED <<shown, cooling, count_vars>>, NEW s \in Subjects, CountOK(s)
    PROVE  CountOK(s)'
<1>1. Passed(s)' \subseteq Passed(s) BY PassedNext
<1>2. r \notin aux_due BY DParts DEF DueOK
<1>3. Recorded(s)' = Recorded(s) BY <1>2, RecordedMoves
<1> QED BY <1>1, <1>3, CountStays

LEMMA CountSave ==
    ASSUME DInv, NEW r \in Requests, Save(r), NEW s \in Subjects, CountOK(s)
    PROVE  CountOK(s)'
<1> DEFINE q == req[r]
           p == [q EXCEPT !.at = "count"]
<1>1. Sound(q) /\ Open(r) /\ q.at = "save" /\ r \notin aux_due
  BY DParts DEF Save, Open, DueOK
<1>2. Moves(r, p) BY MoveMoves DEF Save, DInv, DecisionsTypeOK
<1>3. Updated(q, p, "count", q.found, q.fresh) BY <1>1, Updates DEF Sound
<1>4. p.subject = q.subject /\ p.at = "count"
  <2> HIDE DEF p
  <2> QED BY <1>3 DEF Updated
<1>5. Passed(s)' \subseteq Passed(s)
  <2> HIDE DEF p
  <2>1. CASE q.subject = s
    <3>1. r \in Passed(s) BY <1>1, <2>1 DEF Passed
    <3>2. Passed(s)' = Passed(s) \union {r} BY <1>2, <1>4, <2>1, PassedNext
    <3> QED BY <3>1, <3>2
  <2>2. CASE q.subject # s BY <1>2, <1>4, <2>2, PassedNext
  <2> QED BY <2>1, <2>2
<1>6. Recorded(s)' = Recorded(s)
  <2> HIDE DEF p
  <2> QED BY <1>1, <1>2, RecordedMoves DEF Save
<1> QED BY <1>5, <1>6, CountStays DEF Save

\* The cooldown starts with a cleared counter, so it ends with one.
LEMMA CountCooldownEnds ==
    ASSUME DInv, NEW t \in Subjects, CooldownEnds(t), NEW s \in Subjects, CountOK(s)
    PROVE  CountOK(s)'
<1>1. CountersOK BY DParts
<1>2. CASE s = t
  <2>1. ~cooling'[s] /\ aux_new'[s] = 0 /\ aux_lost'[s] = 0
    BY <1>1, <1>2 DEF CooldownEnds, CountersOK
  <2>2. Pending(s)' = {} BY <1>2 DEF CooldownEnds, Pending
  <2>3. Cardinality(Pending(s)') = 0 BY <2>2, FS_EmptySet
  <2>4. Recorded(s)' = 0 BY <2>1, <2>3 DEF Recorded
  <2>5. shown'[s] = 0 BY <1>2 DEF CooldownEnds, CountOK
  <2> QED BY <2>1, <2>4, <2>5 DEF CountOK
<1>3. CASE s # t
  <2>1. /\ cooling'[s] = cooling[s] /\ aux_new'[s] = aux_new[s] /\ aux_lost'[s] = aux_lost[s]
        /\ shown' = shown
    BY <1>1, <1>3 DEF CooldownEnds, CountersOK
  <2>2. Passed(s)' = Passed(s) BY DEF CooldownEnds, Passed, Open
  <2>3. Pending(s)' = Pending(s) BY <1>3 DEF CooldownEnds, Pending
  <2>4. Recorded(s)' = Recorded(s) BY <2>1, <2>3 DEF Recorded
  <2> QED BY <2>1, <2>2, <2>4, CountStays
<1> QED BY <1>2, <1>3

\* A step that leaves the requests and the counters.
LEMMA CountQuiet ==
    ASSUME DInv, UNCHANGED <<shown, cooling, count_vars, req>>, NEW s \in Subjects, CountOK(s)
    PROVE  CountOK(s)'
<1>1. Passed(s)' = Passed(s) BY DEF Passed, Open
<1>2. Pending(s)' = Pending(s) /\ Recorded(s)' = Recorded(s)
  BY DEF Pending, Recorded, count_vars
<1> QED BY <1>1, <1>2, CountStays

LEMMA CountStep ==
    ASSUME CountInv, [DecisionsNext]_decision_vars, NEW s \in Subjects
    PROVE  CountOK(s)'
<1> USE DEF CountInv
<1>1. CASE \E f \in Flags, x \in Entries \union {None} : SetOnFlag(f, x)
  BY <1>1, CountQuiet DEF SetOnFlag, valkey_vars
<1>2. CASE \E f \in Flags : SetFlagDefault(f)
  BY <1>2, CountQuiet DEF SetFlagDefault, valkey_vars, aux_vars
<1>3. ASSUME NEW r \in Requests, NEW t \in Subjects, NEW a \in Attrs, NEW k \in KeyLists,
             Arrive(r, t, a, k)
      PROVE  CountOK(s)'
  <2> DEFINE p == [at |-> "load", subject |-> t, attr |-> a, keys |-> k,
                   seen |-> Restrict(cache, Range(k)), found |-> Nothing, fresh |-> Nothing]
  <2>1. Moves(r, p) BY <1>3, MoveMoves DEF Arrive, DInv, DecisionsTypeOK
  <2>2. p.at = "load" OBVIOUS
  <2> HIDE DEF p
  <2> QED BY <1>3, <2>1, <2>2, CountBefore DEF Arrive, valkey_vars, Open
<1>4. ASSUME NEW r \in Requests, Load(r) PROVE CountOK(s)'
  <2> DEFINE p == [req[r] EXCEPT !.at = "decide", !.found = Found(req[r])]
  <2>1. Sound(req[r]) BY <1>4, DParts DEF Load, Open
  <2>2. Updated(req[r], p, "decide", Found(req[r]), req[r].fresh) BY <2>1, Updates DEF Sound
  <2>3. Moves(r, p) BY <1>4, MoveMoves DEF Load, DInv, DecisionsTypeOK
  <2> HIDE DEF p
  <2>4. p.at = "decide" BY <2>2 DEF Updated
  <2> QED BY <1>4, <2>3, <2>4, CountBefore DEF Load, valkey_vars, aux_vars
<1>5. CASE \E r \in Requests : Rest(r) BY <1>5, CountTell DEF Rest, valkey_vars, Open
<1>6. CASE \E r \in Requests : Decide(r) BY <1>6, CountDecide
<1>7. CASE \E r \in Requests : Save(r) BY <1>7, CountSave
<1>8. CASE \E r \in Requests : Count(r) \/ Return(r)
  BY <1>8, CountCount, CountTell DEF Return, valkey_vars, Open
<1>9. CASE \E r \in Requests : Fail(r)
  BY <1>9, CountEnds DEF Fail, valkey_vars
<1>10. CASE \E t \in Subjects : Expire(t) BY <1>10, CountQuiet DEF Expire
<1>11. CASE \E t \in Subjects : CooldownEnds(t) BY <1>11, CountCooldownEnds
<1>12. CASE UNCHANGED decision_vars
  BY <1>12, CountQuiet DEF decision_vars, valkey_vars, aux_vars
<1> QED BY <1>1, <1>2, <1>3, <1>4, <1>5, <1>6, <1>7, <1>8, <1>9, <1>10, <1>11, <1>12
        DEF DecisionsNext

LEMMA CountInit == DecisionsInit => CountInv
<1> SUFFICES ASSUME DecisionsInit, NEW s \in Subjects PROVE CountOK(s)
  BY DInit DEF CountInv
<1>1. Pending(s) = {} BY DEF DecisionsInit, Pending
<1>2. Cardinality(Pending(s)) = 0 BY <1>1, FS_EmptySet
<1>3. Recorded(s) = 0 BY <1>2 DEF DecisionsInit, Recorded
<1> QED BY <1>3 DEF DecisionsInit, CountOK

LEMMA CountNext == ASSUME CountInv, [DecisionsNext]_decision_vars PROVE CountInv'
<1>1. DInv' BY DNext DEF CountInv
<1> QED BY <1>1, CountStep DEF CountInv

\* The counter of Valkey is the number of new decisions that were told, will be or were
\* lost after the script had run, however many requests of the subject overlap,
\* fail or finish in whichever order; and the bound on what a cooldown lets
\* through holds of any number of them.
THEOREM NewDecisionsAreCounted == DecisionsSpec => []ExperimentsAreCounted
<1>1. CountInv => ExperimentsAreCounted
  <2> SUFFICES ASSUME CountInv, NEW s \in Subjects, cooling[s]
               PROVE  Recorded(s) < Threshold + Cardinality(Requests) * Cardinality(Flags)
    BY DEF CountInv, CountOK, ExperimentsAreCounted
  <2> DEFINE F == Cardinality(Flags)
             P == Cardinality(Passed(s))
             R == Cardinality(Requests)
             W == Recorded(s)
  <2>1. F \in Nat /\ P \in Nat /\ R \in Nat BY PassedCount
  <2>2. W + F * P < Threshold + F * R BY DEF CountInv, CountOK
  <2>3. W \in Nat /\ Threshold \in Nat
    BY RecordedInNat, RequestParameters DEF CountInv
  <2>4. F * P \in Nat /\ F * R = R * F /\ F * R \in Nat
    <3> HIDE DEF F, P, R
    <3> QED BY <2>1
  <2> HIDE DEF F, P, R, W
  <2>5. W < Threshold + R * F BY <2>2, <2>3, <2>4
  <2> QED BY <2>5 DEF F, R, W
<1> QED BY <1>1, CountInit, CountNext, PTL DEF DecisionsSpec

-----------------------------------------------------------------------------
\* Conflicts.

\* A request enters its subject only into experiments that survived their conflicts.
Survivors ==
    \A r \in Requests : Open(r) =>
        \A f \in DOMAIN req[r].fresh : Survives(req[r], req[r].seen[f])

LEMMA SmallestOf == ASSUME NEW T \in SUBSET Nat, T # {} PROVE \E m \in T : \A n \in T : m <= n
<1>1. \E m \in T : \A n \in T : <<n, m>> \notin OpToRel(<, Nat) BY NatLessThanWellFounded, WFMin
<1>2. PICK m \in T : \A n \in T : <<n, m>> \notin OpToRel(<, Nat) BY <1>1
<1>3. ASSUME NEW n \in T PROVE m <= n
  <2>1. m \in Nat /\ n \in Nat OBVIOUS
  <2>2. ~(n < m) BY <1>2, <2>1 DEF OpToRel
  <2> QED BY <2>1, <2>2
<1> QED BY <1>3

\* Of finitely many one is unbeaten: one that the fewest beat.
LEMMA SomeoneUnbeaten ==
    ASSUME NEW P, IsFiniteSet(P), P # {}, NEW B,
           \A i \in P : <<i, i>> \notin B,
           \A i, j, k \in P : <<i, j>> \in B /\ <<j, k>> \in B => <<i, k>> \in B
    PROVE  \E i \in P : \A j \in P : <<j, i>> \notin B
<1> DEFINE beaters(i) == {j \in P : <<j, i>> \in B}
           T == {Cardinality(beaters(i)) : i \in P}
<1>1. \A i \in P : IsFiniteSet(beaters(i)) /\ Cardinality(beaters(i)) \in Nat
  BY FS_Subset, FS_CardinalityType
<1>2. T \in SUBSET Nat /\ T # {}
  <2> HIDE DEF beaters
  <2> QED BY <1>1
<1>3. PICK m \in T : \A n \in T : m <= n BY <1>2, SmallestOf
<1>4. PICK i \in P : Cardinality(beaters(i)) = m BY <1>3
<1>5. ASSUME NEW j \in P, <<j, i>> \in B PROVE FALSE
  <2>1. beaters(j) \in SUBSET beaters(i) BY <1>5
  <2>2. j \in beaters(i) /\ j \notin beaters(j) BY <1>5
  <2>3. Cardinality(beaters(j)) <= Cardinality(beaters(i))
        /\ Cardinality(beaters(j)) # Cardinality(beaters(i))
    <3> HIDE DEF beaters
    <3> QED BY <1>1, <2>1, <2>2, FS_Subset
  <2>4. m <= Cardinality(beaters(j))
    <3>1. Cardinality(beaters(j)) \in T OBVIOUS
    <3> HIDE DEF T
    <3> QED BY <1>3, <3>1
  <2> QED
    <3> HIDE DEF beaters, T
    <3> QED BY <1>1, <1>4, <2>3, <2>4
<1> QED BY <1>4, <1>5

\* What the positions of the rivals in a domain are.
LEMMA RivalsFacts ==
    ASSUME NEW q, RequestOK(q), NEW c \in Domains,
           \A f \in Keys(q) : q.seen[f] # None => q.seen[f].flag = f
    PROVE  /\ IsFiniteSet(Rivals(q, c)) /\ Cardinality(Rivals(q, c)) \in Nat
           /\ \A i \in Rivals(q, c) :
                 /\ At(q, i) \in Entries /\ At(q, i) \in EntryType
                 /\ At(q, i).domain = c
                 /\ q.keys[i] \in Keys(q) /\ At(q, i).flag = q.keys[i]
           /\ \A i \in Rivals(q, c) : i \in Nat
<1>1. q.keys \in Seq(Flags) BY RequestParameters DEF RequestOK
<1>2. DOMAIN q.keys = 1..Len(q.keys) /\ Len(q.keys) \in Nat BY <1>1
<1>3. Rivals(q, c) \in SUBSET (1..Len(q.keys)) BY <1>2 DEF Rivals, Candidates
<1>4. IsFiniteSet(1..Len(q.keys)) BY <1>2, FS_Interval
<1>5. IsFiniteSet(Rivals(q, c)) /\ Cardinality(Rivals(q, c)) \in Nat
  BY <1>3, <1>4, FS_Subset, FS_CardinalityType
<1>6. ASSUME NEW i \in Rivals(q, c)
      PROVE  /\ At(q, i) \in Entries /\ At(q, i) \in EntryType
             /\ At(q, i).domain = c
             /\ q.keys[i] \in Keys(q) /\ At(q, i).flag = q.keys[i]
  <2>1. i \in DOMAIN q.keys /\ q.seen[q.keys[i]] # None /\ At(q, i).domain = c
    BY DEF Rivals, Candidates
  <2>2. q.keys[i] \in Keys(q) BY <2>1 DEF Keys, Range
  <2>3. At(q, i) \in Entries BY <2>1, <2>2 DEF At, RequestOK
  <2> QED BY <2>1, <2>2, <2>3, EntriesAreExperiments DEF At
<1>7. \A i \in Rivals(q, c) : i \in Nat BY <1>2, <1>3
<1> QED BY <1>5, <1>6, <1>7

\* Beats of two entries at two positions.
Ahead(x, y, i, j) ==
    /\ x.priority # None
    /\ \/ y.priority = None
       \/ x.priority < y.priority
       \/ x.priority = y.priority /\ Tie(x) > Tie(y)
       \/ x.priority = y.priority /\ Tie(x) = Tie(y) /\ i <= j

\* The order of the policy on the positions of one conflict domain.
LEMMA BeatsIsAnOrder ==
    ASSUME NEW q, RequestOK(q), NEW c \in Domains,
           \A f \in Keys(q) : q.seen[f] # None => q.seen[f].flag = f,
           NEW i \in Rivals(q, c), NEW j \in Rivals(q, c), NEW k \in Rivals(q, c)
    PROVE  /\ Beats(q, i, j) /\ Beats(q, j, i) => i = j
           /\ Beats(q, i, j) /\ Beats(q, j, k) => Beats(q, i, k)
           /\ At(q, i).priority # None => Beats(q, i, j) \/ Beats(q, j, i)
           /\ Beats(q, i, j) => At(q, i).priority # None
<1>1. /\ i \in Nat /\ j \in Nat /\ k \in Nat
      /\ At(q, i) \in EntryType /\ At(q, j) \in EntryType /\ At(q, k) \in EntryType
      /\ At(q, i).domain = c /\ At(q, j).domain = c /\ At(q, k).domain = c
  BY RivalsFacts
<1> DEFINE x == At(q, i)
           y == At(q, j)
           z == At(q, k)
<1>2. /\ x.priority \in Nat \union {None} /\ y.priority \in Nat \union {None}
      /\ z.priority \in Nat \union {None} /\ None \notin Nat
      /\ x.exp \in Experiments /\ y.exp \in Experiments /\ z.exp \in Experiments
  BY <1>1, RequestParameters DEF EntryType
<1>3. Tie(x) \in Nat /\ Tie(y) \in Nat /\ Tie(z) \in Nat
  BY <1>1, <1>2, HashesAreHashes, Zenon DEF Tie
<1>4. /\ Beats(q, i, j) <=> Ahead(x, y, i, j)
      /\ Beats(q, j, i) <=> Ahead(y, x, j, i)
      /\ Beats(q, j, k) <=> Ahead(y, z, j, k)
      /\ Beats(q, i, k) <=> Ahead(x, z, i, k)
  BY DEF Beats, Ahead
<1> HIDE DEF x, y, z
<1>5. Ahead(x, y, i, j) /\ Ahead(y, x, j, i) => i = j BY <1>1, <1>2, <1>3 DEF Ahead
<1>6. Ahead(x, y, i, j) /\ Ahead(y, z, j, k) => Ahead(x, z, i, k)
  BY <1>1, <1>2, <1>3 DEF Ahead
<1>7. x.priority # None => Ahead(x, y, i, j) \/ Ahead(y, x, j, i)
  BY <1>1, <1>2, <1>3 DEF Ahead
<1>8. Ahead(x, y, i, j) => x.priority # None BY DEF Ahead
<1> QED BY <1>4, <1>5, <1>6, <1>7, <1>8 DEF x

\* Who survives in a domain has no rival that survives too.
LEMMA OneSurvives ==
    ASSUME NEW q, RequestOK(q), NEW c \in Domains,
           \A f \in Keys(q) : q.seen[f] # None => q.seen[f].flag = f,
           NEW i \in Rivals(q, c), NEW j \in Rivals(q, c),
           Survives(q, At(q, i)), Survives(q, At(q, j))
    PROVE  At(q, i) = At(q, j)
<1>1. /\ IsFiniteSet(Rivals(q, c)) /\ c # None
      /\ At(q, i).domain = c /\ At(q, j).domain = c
  BY RivalsFacts, RequestParameters
<1>2. CASE Cardinality(Rivals(q, c)) = 1
  <2>1. \E k : Rivals(q, c) = {k} BY <1>1, <1>2, FS_Singleton
  <2> QED BY <2>1
<1>3. CASE Cardinality(Rivals(q, c)) # 1
  <2>1. PICK a \in Rivals(q, c) : /\ At(q, a) = At(q, i)
                                  /\ \A b \in Rivals(q, c) : Beats(q, a, b)
    BY <1>1, <1>3 DEF Survives
  <2>2. PICK a2 \in Rivals(q, c) : /\ At(q, a2) = At(q, j)
                                   /\ \A b \in Rivals(q, c) : Beats(q, a2, b)
    BY <1>1, <1>3 DEF Survives
  <2>3. a = a2 BY <2>1, <2>2, BeatsIsAnOrder
  <2> QED BY <2>1, <2>2, <2>3
<1> QED BY <1>2, <1>3

\* If one has a priority, one beats all, itself too.
LEMMA OneBeatsAll ==
    ASSUME NEW q, RequestOK(q), NEW c \in Domains,
           \A f \in Keys(q) : q.seen[f] # None => q.seen[f].flag = f,
           \E i \in Rivals(q, c) : At(q, i).priority # None
    PROVE  \E i \in Rivals(q, c) : \A j \in Rivals(q, c) : Beats(q, i, j)
<1> DEFINE P == {i \in Rivals(q, c) : At(q, i).priority # None}
           B == {p \in P \X P : Beats(q, p[1], p[2]) /\ p[1] # p[2]}
<1>1. IsFiniteSet(P) /\ P # {}
  <2>1. P \in SUBSET Rivals(q, c) /\ P # {} OBVIOUS
  <2>2. IsFiniteSet(Rivals(q, c)) BY RivalsFacts
  <2> QED BY <2>1, <2>2, FS_Subset
<1>3. \A i, j \in P : <<i, j>> \in B <=> Beats(q, i, j) /\ i # j
  OBVIOUS
<1>4. \A i \in P : <<i, i>> \notin B BY <1>3
<1>5. ASSUME NEW i \in P, NEW j \in P, NEW k \in P, <<i, j>> \in B, <<j, k>> \in B
      PROVE  <<i, k>> \in B
  <2>1. Beats(q, i, j) /\ Beats(q, j, k) /\ i # j BY <1>3, <1>5
  <2>2. Beats(q, i, k) BY <2>1, BeatsIsAnOrder
  <2>3. i # k
    <3> SUFFICES ASSUME i = k PROVE FALSE OBVIOUS
    <3> QED BY <2>1, BeatsIsAnOrder
  <2> QED BY <1>3, <2>2, <2>3
<1>6. \E i \in P : \A j \in P : <<j, i>> \notin B
  <2> HIDE DEF P, B
  <2> QED BY <1>1, <1>4, <1>5, SomeoneUnbeaten
<1>7. PICK i \in P : \A j \in P : <<j, i>> \notin B BY <1>6
<1>8. ASSUME NEW j \in Rivals(q, c) PROVE Beats(q, i, j)
  <2>1. Beats(q, i, j) \/ Beats(q, j, i) BY BeatsIsAnOrder
  <2>2. Beats(q, j, i) => j \in P BY BeatsIsAnOrder
  <2>3. Beats(q, i, i) BY BeatsIsAnOrder
  <2> QED BY <1>3, <1>7, <2>1, <2>2, <2>3
<1> QED BY <1>8

\* The conflicts of one request.
LEMMA ConflictsOfRequest ==
    ASSUME DInv, Survivors, NEW r \in Requests, Open(r), NEW c \in Domains
    PROVE  LET q == req[r]
               rivals == {At(q, i) : i \in Rivals(q, c)}
               winners == {x \in rivals : Survives(q, x)}
           IN  /\ Cardinality({x \in rivals : x.flag \in DOMAIN q.fresh}) <= 1
               /\ Cardinality(Rivals(q, c)) > 1 =>
                     Cardinality(winners) =
                         IF /\ \A x \in rivals : ~x.strict
                            /\ \E x \in rivals : x.priority # None
                         THEN 1 ELSE 0
<1>1. PICK q : q = req[r] OBVIOUS
<1>2. RequestOK(q) /\ \A f \in Keys(q) : q.seen[f] # None => q.seen[f].flag = f
  BY <1>1 DEF DInv, DecisionsTypeOK, OnOwnFlags
<1> DEFINE rivals == {At(q, i) : i \in Rivals(q, c)}
           winners == {x \in rivals : Survives(q, x)}
           entered == {x \in rivals : x.flag \in DOMAIN q.fresh}
<1>3. \A x, y \in winners : x = y BY <1>2, OneSurvives
<1>4. entered \subseteq winners
  <2> SUFFICES ASSUME NEW i \in Rivals(q, c), At(q, i).flag \in DOMAIN q.fresh
               PROVE  Survives(q, At(q, i))
    OBVIOUS
  <2>1. At(q, i).flag = q.keys[i] BY <1>2, RivalsFacts
  <2> QED BY <1>1, <2>1 DEF Survivors, At
<1>5. Cardinality(entered) <= 1
  <2>1. entered = {} \/ \E x : entered = {x} BY <1>3, <1>4
  <2> QED
    <3> HIDE DEF entered
    <3> QED BY <2>1, FS_EmptySet, FS_Singleton
<1>6. ASSUME Cardinality(Rivals(q, c)) > 1
      PROVE  Cardinality(winners) = IF /\ \A x \in rivals : ~x.strict
                                       /\ \E x \in rivals : x.priority # None
                                    THEN 1 ELSE 0
  <2>1. /\ Cardinality(Rivals(q, c)) # 1 /\ c # None
        /\ \A i \in Rivals(q, c) : At(q, i).domain = c
    BY <1>2, <1>6, RivalsFacts, RequestParameters
  <2>2. \A i \in Rivals(q, c) :
           Survives(q, At(q, i)) <=>
               \E k \in Rivals(q, c) : At(q, k) = At(q, i) /\
                   \A j \in Rivals(q, c) : ~At(q, j).strict /\ Beats(q, k, j)
    BY <2>1 DEF Survives
  <2>3. CASE (\A x \in rivals : ~x.strict) /\ (\E x \in rivals : x.priority # None)
    <3>1. \E i \in Rivals(q, c) : At(q, i).priority # None BY <2>3
    <3>2. PICK i \in Rivals(q, c) : \A j \in Rivals(q, c) : Beats(q, i, j)
      BY <1>2, <3>1, OneBeatsAll
    <3>3. Survives(q, At(q, i)) BY <2>2, <2>3, <3>2
    <3>4. winners # {} BY <3>3
    <3>5. \E x : winners = {x} BY <1>3, <3>4
    <3>6. Cardinality(winners) = 1
      <4> HIDE DEF winners
      <4> QED BY <3>5, FS_Singleton
    <3> QED BY <2>3, <3>6
  <2>4. CASE ~((\A x \in rivals : ~x.strict) /\ (\E x \in rivals : x.priority # None))
    <3>1. winners = {}
      <4> SUFFICES ASSUME NEW i \in Rivals(q, c), Survives(q, At(q, i)) PROVE FALSE
        OBVIOUS
      <4>1. PICK k \in Rivals(q, c) :
                \A j \in Rivals(q, c) : ~At(q, j).strict /\ Beats(q, k, j)
        BY <2>2
      <4>2. Beats(q, k, k) /\ At(q, k) \in rivals BY <4>1
      <4>3. At(q, k).priority # None BY <4>2 DEF Beats
      <4> QED BY <2>4, <4>1, <4>2, <4>3
    <3>2. Cardinality(winners) = 0
      <4> HIDE DEF winners
      <4> QED BY <3>1, FS_EmptySet
    <3> QED BY <2>4, <3>2
  <2> QED BY <2>3, <2>4
<1> QED BY <1>1, <1>5, <1>6

\* Who survives depends on what was asked for and seen.
LEMMA SurvivesAlike ==
    ASSUME NEW p, NEW q, p.keys = q.keys, p.seen = q.seen, NEW x
    PROVE  Survives(p, x) <=> Survives(q, x)
<1>1. \A i : At(p, i) = At(q, i) BY DEF At
<1>2. \A c : Rivals(p, c) = Rivals(q, c) BY <1>1 DEF Rivals, Candidates
<1>3. \A i, j : Beats(p, i, j) <=> Beats(q, i, j) BY <1>1, Zenon DEF Beats
<1> DEFINE Wins(r, i) == At(r, i) = x /\ \A j \in Rivals(q, x.domain) :
                                            ~At(r, j).strict /\ Beats(r, i, j)
<1>4. \A i : Wins(p, i) <=> Wins(q, i) BY <1>1, <1>3
<1>5. Rivals(p, x.domain) = Rivals(q, x.domain) BY <1>2
<1>6. /\ Survives(p, x) <=> \/ x.domain = None \/ Cardinality(Rivals(q, x.domain)) = 1
                           \/ \E i \in Rivals(q, x.domain) : Wins(p, i)
      /\ Survives(q, x) <=> \/ x.domain = None \/ Cardinality(Rivals(q, x.domain)) = 1
                           \/ \E i \in Rivals(q, x.domain) : Wins(q, i)
  BY <1>5 DEF Survives
<1> HIDE DEF Wins
<1> QED BY <1>4, <1>6

LEMMA SurvivorsNext ==
    ASSUME DInv, Survivors, [DecisionsNext]_decision_vars PROVE Survivors'
<1>1. DOMAIN req = Requests BY DEF DInv, DecisionsTypeOK
<1>2. CASE req' = req BY <1>2 DEF Survivors, Open
<1>3. ASSUME NEW r \in Requests, NEW p, Move(r, p),
             p = Idle \/ \A f \in DOMAIN p.fresh : Survives(p, p.seen[f])
      PROVE  Survivors'
  <2>1. Moves(r, p) BY <1>1, <1>3, MoveMoves
  <2> QED BY <1>3, <2>1 DEF Survivors, Moves, Open, Idle
<1>4. ASSUME NEW r \in Requests, NEW p, Move(r, p), Open(r),
             p.keys = req[r].keys, p.seen = req[r].seen, p.fresh = req[r].fresh
      PROVE  Survivors'
  <2>1. \A f \in DOMAIN p.fresh : Survives(p, p.seen[f])
    BY <1>4, SurvivesAlike DEF Survivors
  <2> QED BY <1>3, <1>4, <2>1
<1>5. \A r \in Requests : Open(r) => RequestOK(req[r]) BY DEF DInv, DecisionsTypeOK
<1>6. ASSUME NEW r \in Requests, NEW s \in Subjects, NEW a \in Attrs, NEW k \in KeyLists,
             Arrive(r, s, a, k)
      PROVE  Survivors'
  <2> DEFINE p == [at |-> "load", subject |-> s, attr |-> a, keys |-> k,
                   seen |-> Restrict(cache, Range(k)), found |-> Nothing, fresh |-> Nothing]
  <2>1. Move(r, p) /\ p.fresh = Nothing BY <1>6 DEF Arrive
  <2>2. DOMAIN p.fresh = {} BY <2>1, NothingIsPartial
  <2> HIDE DEF p
  <2> QED BY <1>3, <2>1, <2>2
<1>7. ASSUME NEW r \in Requests, Load(r) PROVE Survivors'
  <2> DEFINE p == [req[r] EXCEPT !.at = "decide", !.found = Found(req[r])]
  <2>1. Move(r, p) /\ Open(r) BY <1>7 DEF Load, Open
  <2>2. p.keys = req[r].keys /\ p.seen = req[r].seen /\ p.fresh = req[r].fresh
    BY <1>5, <2>1 DEF RequestOK
  <2> HIDE DEF p
  <2> QED BY <1>4, <2>1, <2>2
<1>8. ASSUME NEW r \in Requests, Move(r, Idle) PROVE Survivors' BY <1>3, <1>8
<1>9. ASSUME NEW r \in Requests, Decide(r) PROVE Survivors'
  <2> DEFINE fresh == [f \in Assigned(req[r]) |->
                          assign_variant(req[r].subject, req[r].seen[f])]
             p == [req[r] EXCEPT !.at = "save", !.fresh = fresh]
  <2>1. Move(r, Idle) \/ Move(r, p) BY <1>9 DEF Decide, Tell, Ends
  <2>2. CASE Move(r, p)
    <3>1. RequestOK(req[r]) BY <1>5, <1>9 DEF Decide, Open
    <3>2. p.keys = req[r].keys /\ p.seen = req[r].seen /\ p.fresh = fresh
      BY <3>1 DEF RequestOK
    <3>3. \A f \in DOMAIN fresh : Survives(req[r], req[r].seen[f]) BY DEF Assigned
    <3> HIDE DEF p, fresh
    <3>4. \A f \in DOMAIN p.fresh : Survives(p, p.seen[f])
      BY <3>2, <3>3, SurvivesAlike
    <3> QED BY <1>3, <2>2, <3>4
  <2> QED BY <1>8, <2>1, <2>2
<1>10. ASSUME NEW r \in Requests, Save(r) PROVE Survivors'
  <2> DEFINE p == [req[r] EXCEPT !.at = "count"]
  <2>1. Move(r, p) /\ Open(r) BY <1>10 DEF Save, Open
  <2>2. p.keys = req[r].keys /\ p.seen = req[r].seen /\ p.fresh = req[r].fresh
    BY <1>5, <2>1 DEF RequestOK
  <2> HIDE DEF p
  <2> QED BY <1>4, <2>1, <2>2
<1>11. ASSUME NEW r \in Requests, Rest(r) \/ Return(r) \/ Fail(r) PROVE Survivors'
  BY <1>8, <1>11 DEF Rest, Return, Fail, Tell, Ends
<1>14. ASSUME NEW r \in Requests, Count(r) PROVE Survivors'
  <2> DEFINE p == [req[r] EXCEPT !.at = "return"]
  <2>1. Move(r, p) /\ Open(r) BY <1>14 DEF Count, Open
  <2>2. p.keys = req[r].keys /\ p.seen = req[r].seen /\ p.fresh = req[r].fresh
    BY <1>5, <2>1 DEF RequestOK
  <2> HIDE DEF p
  <2> QED BY <1>4, <2>1, <2>2
<1>12. ASSUME NEW f, NEW x, NEW s, SetOnFlag(f, x) \/ SetFlagDefault(f) \/ Expire(s) \/ CooldownEnds(s)
       PROVE  Survivors'
  BY <1>2, <1>12 DEF SetOnFlag, SetFlagDefault, Expire, CooldownEnds
<1>13. CASE UNCHANGED decision_vars BY <1>2, <1>13 DEF decision_vars
<1> QED BY <1>6, <1>7, <1>9, <1>10, <1>11, <1>12, <1>13, <1>14 DEF DecisionsNext

\* A conflict of experiments has one winner at most among the experiments of a request, and one
\* exactly when none of the rivals is strict and one has a priority; the subject enters none
\* that lost (_resolve_conflicts, _apply_policy).
THEOREM ConflictsHaveOneWinner == DecisionsSpec => []OneWinnerPerConflict
<1>1. DInv /\ Survivors => OneWinnerPerConflict
  BY ConflictsOfRequest DEF OneWinnerPerConflict
<1>2. DecisionsInit => Survivors BY DEF DecisionsInit, Survivors, Open, Idle
<1> QED BY <1>1, <1>2, DInit, DNext, SurvivorsNext, PTL DEF DecisionsSpec
=============================================================================
