-------------------------- MODULE ExperimentVersions --------------------------
(***************************************************************************)
(* What an experiment consists of, and its versions: the body of a request,*)
(* the aggregate it is checked by, the row of experiments_latest, and      *)
(* experiments_history, into which every save copies the row that it is    *)
(* about to overwrite. Requests that read the row without a lock overlap.  *)
(* One experiment; its life is reduced to two states (ExperimentLifecycle).*)
(***************************************************************************)
EXTENDS Integers, Sequences, FiniteSets, Functions

CONSTANTS
    Editors,    \* requests that may be open at once
    Creations,  \* the bodies of requests to create the experiment
    Edits,      \* the bodies of requests to update it, fields of which may be Missing
    Missing,    \* MISSING: a field that is left out
    Null,       \* None, null, and no row
    MaxVersion, \* bound of the model: how often the experiment is edited
    MaxKept     \* bound of the model: how many different rows the history gets

Percentages == 0..100
Variant == [audience : Percentages, control : BOOLEAN]
ConflictDomain == {"domain"}
ConflictPolicy == {"one_or_none", "higher_priority"}

\* The fields of a request that the aggregate is about.
CreateExperimentDTO ==
    [audience : Percentages, variants : Seq(Variant), priority : Nat \union {Null},
     domain : ConflictDomain \union {Null}, policy : ConflictPolicy \union {Null}]
UpdateExperimentDTO ==
    [audience : Percentages \union {Missing}, variants : Seq(Variant) \union {Missing},
     priority : Nat \union {Null, Missing}, domain : ConflictDomain \union {Null, Missing},
     policy : ConflictPolicy \union {Null, Missing}]

ASSUME VersionsAssumption ==
    /\ Creations \subseteq CreateExperimentDTO
    /\ Edits \subseteq UpdateExperimentDTO
    /\ MaxVersion \in Nat \ {0} /\ MaxKept \in Nat
    /\ Null # Missing
    /\ {Null, Missing} \intersect (Nat \union ConflictDomain \union ConflictPolicy) = {}

VARIABLES
    latest,     \* experiments_latest: the row, or Null
    history,    \* experiments_history: its rows, however often each is there
    edits,      \* the open requests
    aux_past,   \* history: the rows that were overwritten by who had copied them
    aux_clear,  \* history: up to which version no stale writer has confused them
    aux_half    \* history: an edit has set one of conflict domain and policy to null

versions_aux == <<aux_past, aux_clear, aux_half>>
versions_vars == <<latest, history, edits, versions_aux>>

-----------------------------------------------------------------------------
(* The aggregate.                                                          *)

\* _validate_audience_and_variants
ValidVariants(variants) ==
    /\ SumFunction([k \in DOMAIN variants |-> variants[k].audience]) = 100
    /\ \E k \in DOMAIN variants : \A j \in DOMAIN variants : variants[j].control <=> j = k

\* The controller of create takes a priority of 0 for none.
Posted(priority) == IF priority = 0 THEN Null ELSE priority

\* Experiment.new
NewExperiment(dto) ==
    [version |-> 1, state |-> "draft", audience |-> dto.audience, variants |-> dto.variants,
     priority |-> Posted(dto.priority), domain |-> dto.domain, policy |-> dto.policy]

MayBeNew(dto) == ValidVariants(dto.variants) /\ (dto.domain = Null <=> dto.policy = Null)

\* A field of the request replaces that of the experiment.
Given(field, old) == IF field = Missing THEN old ELSE field

\* UpdateExperiment: both are removed, or both are set, perhaps one of them to None; one
\* alone is ignored, which the comparison of conflict_policy with itself does not refuse.
GivesConflict(dto) == Missing \notin {dto.domain, dto.policy}

\* set_new_audience_variants, set_new_variants; an audience without variants is ignored.
Edited(exp, dto) ==
    [exp EXCEPT
        !.version = @ + 1,
        !.variants = Given(dto.variants, @),
        !.audience = IF dto.variants = Missing THEN @ ELSE Given(dto.audience, @),
        !.priority = Given(dto.priority, @),
        !.domain = IF GivesConflict(dto) THEN dto.domain ELSE @,
        !.policy = IF GivesConflict(dto) THEN dto.policy ELSE @]

\* Mutant of MayBeEdited: the variants are not checked against each other.
MayBeEditedUnchecked(dto) == TRUE

MayBeEdited(dto) == dto.variants # Missing => ValidVariants(dto.variants)

\* _row_to_experiment: a priority of 0 is read as None.
Loaded(row) == [row EXCEPT !.priority = Posted(@)]

-----------------------------------------------------------------------------
(* Requests.                                                               *)

NotEditing == [at |-> "idle", asked |-> Null, copy |-> Null, copied |-> Null]

VersionsInit ==
    /\ latest = Null /\ history = {}
    /\ edits = [s \in Editors |-> NotEditing]
    /\ aux_past = {} /\ aux_clear = MaxVersion /\ aux_half = FALSE

\* CreateExperiment
CreateVersion(dto) ==
    /\ latest = Null /\ MayBeNew(dto)
    /\ latest' = NewExperiment(dto)
    /\ UNCHANGED <<history, edits, versions_aux>>

\* get_latest_by_id, of an UpdateExperiment with this body, or of a request that moves the
\* experiment on, whose body is Null: SendToReview, RestoreFromRejected.
ReadVersion(s, asked) ==
    /\ edits[s] = NotEditing /\ latest # Null /\ Cardinality(history) < MaxKept
    /\ asked # Null => MayBeEdited(asked) /\ latest.version < MaxVersion
    /\ edits' = [edits EXCEPT
                    ![s] = [at |-> "read", asked |-> asked, copy |-> Loaded(latest), copied |-> Null]]
    /\ UNCHANGED <<latest, history, versions_aux>>

\* The first statement of save: INSERT INTO experiments_history SELECT. It copies the row as
\* it is now, and locks nothing that another save waits for.
CopyVersion(s) ==
    /\ edits[s].at = "read"
    /\ edits' = [edits EXCEPT ![s].at = "copied", ![s].copied = latest]
    /\ UNCHANGED <<latest, history, versions_aux>>

\* Only an edit makes a new version.
Moved(exp) == [exp EXCEPT !.state = IF @ = "draft" THEN "in_review" ELSE "draft"]
Saved(edit) == IF edit.asked = Null THEN Moved(edit.copy) ELSE Edited(edit.copy, edit.asked)

\* Mutant of Kept: the history keeps what the request had read.
KeptCopy(edit) == {edit.copy}

\* What save leaves in the history.
Kept(edit) == {edit.copied}

Content(row) == [Loaded(row) EXCEPT !.state = "any"]

\* A writer whose copy is out of date confuses the versions above the copy's: an edit makes
\* another row of the next one, a move goes back, so that the next edit does.
StillClear(edit) ==
    IF Content(edit.copy) # Content(latest) /\ edit.copy.version < aux_clear
    THEN edit.copy.version
    ELSE aux_clear

HalfSet(edit) == edit.asked # Null /\ (Saved(edit).domain = Null) # (Saved(edit).policy = Null)

\* The second statement of save, and COMMIT.
SaveVersion(s) ==
    LET edit == edits[s] IN
    /\ edit.at = "copied"
    /\ latest' = Saved(edit)
    /\ history' = history \union Kept(edit)
    /\ edits' = [edits EXCEPT ![s] = NotEditing]
    /\ aux_past' = IF edit.copied = latest THEN aux_past \union {latest} ELSE aux_past
    /\ aux_clear' = StillClear(edit)
    /\ aux_half' = (aux_half \/ HalfSet(edit))

\* A check or a statement raises, or the process dies.
DropVersion(s) ==
    /\ edits[s] # NotEditing
    /\ edits' = [edits EXCEPT ![s] = NotEditing]
    /\ UNCHANGED <<latest, history, versions_aux>>

VersionsNext ==
    \/ \E dto \in Creations : CreateVersion(dto)
    \/ \E s \in Editors :
          \/ \E asked \in Edits \union {Null} : ReadVersion(s, asked)
          \/ CopyVersion(s) \/ SaveVersion(s) \/ DropVersion(s)

VersionsSpec == VersionsInit /\ [][VersionsNext]_versions_vars

-----------------------------------------------------------------------------

Configuration ==
    [version : 1..MaxVersion, state : {"draft", "in_review"}, audience : Percentages,
     variants : Seq(Variant), priority : Nat \union {Null},
     domain : ConflictDomain \union {Null}, policy : ConflictPolicy \union {Null}]

ASSUME NullAssumption == Null \notin Configuration

\* The types of the variables.
VersionsTypeOK ==
    /\ latest \in Configuration \union {Null}
    /\ history \subseteq Configuration /\ aux_past \subseteq Configuration
    /\ edits \in [Editors ->
          [at : {"idle", "read", "copied"}, asked : Edits \union {Null},
           copy : Configuration \union {Null}, copied : Configuration \union {Null}]]
    /\ aux_clear \in 1..MaxVersion /\ aux_half \in BOOLEAN

AllVersions == history \union ({latest} \ {Null})

\* get_by_id_and_version: the first of these rows. That of experiments_latest is not
\* among them.
RowsOfVersion(v) == {row \in history : row.version = v}

\* Every version is kept, and what ReadExperimentVersion finds under a number is what the
\* experiment was: all rows are in the history when they are overwritten, and those of one
\* version differ at most in their state. The exceptions are exact: a row that came between
\* the two statements of another request's save is lost, and a stale save confuses the
\* versions above the one it was made from.
HistoryIsExact ==
    /\ aux_past \subseteq history
    /\ \A x, y \in AllVersions :
          x.version = y.version /\ x.version <= aux_clear => Content(x) = Content(y)
    /\ latest # Null => \A v \in 1..latest.version - 1 : v <= aux_clear => RowsOfVersion(v) # {}

\* Whatever edits were combined, an experiment can be distributed: its weights sum up and one
\* variant is the control (set_new_variants). Conflict domain and policy are both set or both
\* not, as 02-feature-flags-experiments.md asks, unless an edit set one of them to null, which
\* Experiment.new refuses and UpdateExperiment does not.
ConfigurationsAreSound ==
    \A row \in AllVersions :
        /\ ValidVariants(row.variants)
        /\ aux_half \/ (row.domain = Null <=> row.policy = Null)
=============================================================================
