---------------------- MODULE ExperimentVersions_proofs ----------------------
(***************************************************************************)
(* What the readers of versions may rely on, for every set of requests     *)
(* that overlap, whatever their bodies, and every bound.                   *)
(***************************************************************************)
EXTENDS ExperimentVersions, TLAPS

\* An open request has a copy, and a body that passes the checks; there are no requests
\* and no history before there is an experiment.
EditInv ==
    /\ \A s \in Editors :
          /\ edits[s].at # "idle" =>
                /\ edits[s].copy \in Configuration
                /\ edits[s].asked # Null =>
                      MayBeEdited(edits[s].asked) /\ edits[s].copy.version < MaxVersion
          /\ edits[s].at = "copied" => edits[s].copied \in Configuration
    /\ latest = Null => history = {} /\ \A s \in Editors : edits[s].at = "idle"

\* All rows there are: those that may be read, and those that requests hold.
AllRows ==
    AllVersions
      \union {edits[s].copy : s \in {t \in Editors : edits[t].at # "idle"}}
      \union {edits[s].copied : s \in {t \in Editors : edits[t].at = "copied"}}

SoundRow(row, half) == ValidVariants(row.variants) /\ (half \/ (row.domain = Null <=> row.policy = Null))

SoundInv == \A row \in AllRows : SoundRow(row, aux_half)

\* Up to the version that no stale writer has confused, versions are what they were, none is
\* above the latest, and all that came before a row are in the history.
ClearInv ==
    /\ \A x, y \in AllRows :
          x.version = y.version /\ x.version <= aux_clear => Content(x) = Content(y)
    /\ \A x \in AllRows : x.version <= aux_clear => x.version <= latest.version
    /\ \A x \in AllRows : \A v \in 1..x.version - 1 :
          v <= aux_clear => \E row \in history : row.version = v
    /\ \A s \in Editors :
          edits[s].at = "copied" /\ edits[s].copy.version <= aux_clear =>
              edits[s].copy.version <= edits[s].copied.version

VersionsInv == VersionsTypeOK /\ EditInv /\ SoundInv /\ ClearInv /\ aux_past \subseteq history

-----------------------------------------------------------------------------
(* The aggregate.                                                          *)

LEMMA LoadedFacts ==
    ASSUME NEW row \in Configuration
    PROVE  /\ Loaded(row) \in Configuration /\ Content(Loaded(row)) = Content(row)
           /\ Loaded(row).version = row.version /\ Loaded(row).variants = row.variants
           /\ Loaded(row).domain = row.domain /\ Loaded(row).policy = row.policy
<1>1. Null # 0
  BY VersionsAssumption
<1> QED
  BY <1>1 DEF Configuration, Loaded, Content, Posted

LEMMA ContentFacts ==
    ASSUME NEW x \in Configuration, NEW y \in Configuration, Content(x) = Content(y)
    PROVE  x.version = y.version
<1>1. Content(x).version = x.version /\ Content(y).version = y.version
  BY DEF Configuration, Content, Loaded
<1> QED
  BY <1>1

LEMMA MovedFacts ==
    ASSUME NEW exp \in Configuration
    PROVE  /\ Moved(exp) \in Configuration /\ Content(Moved(exp)) = Content(exp)
           /\ Moved(exp).version = exp.version /\ Moved(exp).variants = exp.variants
           /\ Moved(exp).domain = exp.domain /\ Moved(exp).policy = exp.policy
  BY DEF Configuration, Moved, Content, Loaded, Posted

LEMMA EditedFacts ==
    ASSUME NEW exp \in Configuration, NEW dto \in UpdateExperimentDTO, exp.version < MaxVersion
    PROVE  /\ Edited(exp, dto) \in Configuration /\ Edited(exp, dto).version = exp.version + 1
           /\ MayBeEdited(dto) /\ ValidVariants(exp.variants) =>
                  ValidVariants(Edited(exp, dto).variants)
<1> DEFINE new == Edited(exp, dto)
<1>1. /\ new.version = exp.version + 1 /\ new.state = exp.state
      /\ new.variants = Given(dto.variants, exp.variants)
      /\ new.audience = IF dto.variants = Missing THEN exp.audience
                        ELSE Given(dto.audience, exp.audience)
      /\ new.priority = Given(dto.priority, exp.priority)
      /\ new.domain = IF GivesConflict(dto) THEN dto.domain ELSE exp.domain
      /\ new.policy = IF GivesConflict(dto) THEN dto.policy ELSE exp.policy
  BY DEF Edited, Configuration
<1>2. new.version \in 1..MaxVersion
  BY <1>1, VersionsAssumption DEF Configuration
<1>3. /\ new.audience \in Percentages /\ new.variants \in Seq(Variant)
      /\ new.priority \in Nat \union {Null}
      /\ new.domain \in ConflictDomain \union {Null}
      /\ new.policy \in ConflictPolicy \union {Null}
  BY <1>1 DEF Configuration, UpdateExperimentDTO, Given, GivesConflict
<1>5. new \in Configuration
  BY <1>1, <1>2, <1>3 DEF Edited, Configuration
<1>6. MayBeEdited(dto) /\ ValidVariants(exp.variants) => ValidVariants(new.variants)
  BY <1>1 DEF Given, MayBeEdited
<1> QED
  BY <1>1, <1>5, <1>6

LEMMA NewFacts ==
    ASSUME NEW dto \in Creations, MayBeNew(dto)
    PROVE  /\ NewExperiment(dto) \in Configuration /\ NewExperiment(dto).version = 1
           /\ SoundRow(NewExperiment(dto), FALSE)
<1>1. dto \in CreateExperimentDTO /\ 1 \in 1..MaxVersion
  BY VersionsAssumption
<1> QED
  BY <1>1 DEF CreateExperimentDTO, NewExperiment, Configuration, Posted, MayBeNew, SoundRow

-----------------------------------------------------------------------------
(* The requests.                                                           *)

LEMMA RowsAreTyped ==
    ASSUME VersionsTypeOK, EditInv
    PROVE  AllRows \subseteq Configuration
  BY DEF VersionsTypeOK, EditInv, AllRows, AllVersions

LEMMA VersionsInitially == VersionsInit => VersionsInv
<1> SUFFICES ASSUME VersionsInit PROVE VersionsInv
  OBVIOUS
<1>1. /\ latest = Null /\ history = {} /\ edits = [s \in Editors |-> NotEditing]
      /\ aux_past = {} /\ aux_clear = MaxVersion /\ aux_half = FALSE
  BY DEF VersionsInit
<1>2. \A s \in Editors : edits[s].at = "idle"
  BY <1>1 DEF NotEditing
<1>3. VersionsTypeOK
  <2>1. MaxVersion \in 1..MaxVersion
    BY VersionsAssumption
  <2>2. NotEditing \in [at : {"idle", "read", "copied"}, asked : Edits \union {Null},
                        copy : Configuration \union {Null}, copied : Configuration \union {Null}]
    BY DEF NotEditing
  <2> QED
    BY <1>1, <2>1, <2>2 DEF VersionsTypeOK
<1>4. AllRows = {}
  BY <1>1, <1>2 DEF AllRows, AllVersions
<1>5. EditInv
  BY <1>1, <1>2 DEF EditInv
<1>6. SoundInv /\ ClearInv
  BY <1>2, <1>4 DEF SoundInv, ClearInv
<1> QED
  BY <1>1, <1>3, <1>5, <1>6 DEF VersionsInv

LEMMA CreateStep ==
    ASSUME VersionsInv, NEW dto \in Creations, CreateVersion(dto)
    PROVE  VersionsInv'
<1>1. /\ latest = Null /\ MayBeNew(dto) /\ latest' = NewExperiment(dto)
      /\ UNCHANGED <<history, edits, aux_past, aux_clear, aux_half>>
  BY DEF CreateVersion, versions_aux
<1>2. history = {} /\ \A s \in Editors : edits[s].at = "idle"
  BY <1>1 DEF VersionsInv, EditInv
<1>3. latest' \in Configuration /\ latest'.version = 1 /\ SoundRow(latest', FALSE)
  BY <1>1, NewFacts
<1>4. AllRows' = {latest'}
  BY <1>1, <1>2, <1>3, NullAssumption DEF AllRows, AllVersions
<1>5. VersionsTypeOK'
  BY <1>1, <1>3 DEF VersionsInv, VersionsTypeOK
<1>6. EditInv'
  BY <1>1, <1>2, <1>3, NullAssumption DEF EditInv
<1>7. SoundInv'
  BY <1>3, <1>4 DEF SoundInv, SoundRow
<1>8. ClearInv'
  BY <1>1, <1>2, <1>3, <1>4 DEF ClearInv
<1> QED
  BY <1>1, <1>5, <1>6, <1>7, <1>8 DEF VersionsInv

\* Steps that only move a request: the rows they add are like the latest.
LEMMA ClearStays ==
    ASSUME VersionsInv, UNCHANGED <<latest, history, versions_aux>>, VersionsTypeOK', EditInv',
           \A x \in AllRows' : x \in AllRows \/ (latest \in Configuration /\ x = Loaded(latest)),
           \A s \in Editors :
              edits'[s].at = "copied" /\ edits'[s].copy.version <= aux_clear =>
                  edits'[s].copy.version <= edits'[s].copied.version
    PROVE  VersionsInv'
<1>1. latest' = latest /\ history' = history /\ aux_past' = aux_past /\ aux_clear' = aux_clear
      /\ aux_half' = aux_half
  BY DEF versions_aux
<1>2. \A x \in AllRows' : \E y \in AllRows :
        /\ x.version = y.version /\ Content(x) = Content(y) /\ x.variants = y.variants
        /\ x.domain = y.domain /\ x.policy = y.policy
  <2> SUFFICES ASSUME NEW x \in AllRows', x \notin AllRows
      PROVE \E y \in AllRows :
              /\ x.version = y.version /\ Content(x) = Content(y) /\ x.variants = y.variants
              /\ x.domain = y.domain /\ x.policy = y.policy
    OBVIOUS
  <2>1. latest \in Configuration /\ x = Loaded(latest)
    OBVIOUS
  <2>2. latest \in AllRows
    BY <2>1, NullAssumption DEF AllRows, AllVersions
  <2> QED
    BY <2>1, <2>2, LoadedFacts
<1>3. SoundInv'
  BY <1>1, <1>2 DEF VersionsInv, SoundInv, SoundRow
<1>4. ClearInv'
  <2>1. \A x, y \in AllRows' :
          x.version = y.version /\ x.version <= aux_clear => Content(x) = Content(y)
    BY <1>2 DEF VersionsInv, ClearInv
  <2>2. \A x \in AllRows' : x.version <= aux_clear => x.version <= latest.version
    BY <1>2 DEF VersionsInv, ClearInv
  <2>3. \A x \in AllRows' : \A v \in 1..x.version - 1 :
          v <= aux_clear => \E row \in history : row.version = v
    BY <1>2 DEF VersionsInv, ClearInv
  <2> QED
    BY <1>1, <2>1, <2>2, <2>3 DEF ClearInv
<1> QED
  BY <1>1, <1>3, <1>4 DEF VersionsInv

LEMMA ReadStep ==
    ASSUME VersionsInv, NEW s \in Editors, NEW asked \in Edits \union {Null}, ReadVersion(s, asked)
    PROVE  VersionsInv'
<1> DEFINE edit == [at |-> "read", asked |-> asked, copy |-> Loaded(latest), copied |-> Null]
<1>1. /\ latest # Null /\ (asked # Null => MayBeEdited(asked) /\ latest.version < MaxVersion)
      /\ edits' = [edits EXCEPT ![s] = edit]
      /\ UNCHANGED <<latest, history, versions_aux>>
  BY DEF ReadVersion
<1>2. latest \in Configuration /\ DOMAIN edits = Editors
  BY <1>1 DEF VersionsInv, VersionsTypeOK
<1>3. Loaded(latest) \in Configuration /\ Loaded(latest).version = latest.version
  BY <1>2, LoadedFacts
<1>4. VersionsTypeOK'
  BY <1>1, <1>3 DEF VersionsInv, VersionsTypeOK, versions_aux
<1>5. EditInv'
  BY <1>1, <1>2, <1>3 DEF VersionsInv, EditInv
<1>6. \A x \in AllRows' : x \in AllRows \/ x = Loaded(latest)
  BY <1>1, <1>2 DEF AllRows, AllVersions
<1>7. \A t \in Editors :
        edits'[t].at = "copied" /\ edits'[t].copy.version <= aux_clear =>
            edits'[t].copy.version <= edits'[t].copied.version
  BY <1>1, <1>2 DEF VersionsInv, ClearInv
<1> QED
  BY <1>1, <1>2, <1>4, <1>5, <1>6, <1>7, ClearStays

LEMMA CopyStep ==
    ASSUME VersionsInv, NEW s \in Editors, CopyVersion(s)
    PROVE  VersionsInv'
<1>1. /\ edits[s].at = "read"
      /\ edits' = [edits EXCEPT ![s].at = "copied", ![s].copied = latest]
      /\ UNCHANGED <<latest, history, versions_aux>>
  BY DEF CopyVersion
<1>2. /\ edits \in [Editors ->
            [at : {"idle", "read", "copied"}, asked : Edits \union {Null},
             copy : Configuration \union {Null}, copied : Configuration \union {Null}]]
      /\ latest \in Configuration \union {Null}
  BY DEF VersionsInv, VersionsTypeOK
<1>3. latest \in Configuration /\ edits[s].copy \in Configuration
  BY <1>1, <1>2 DEF VersionsInv, EditInv
<1>4. /\ edits'[s].at = "copied" /\ edits'[s].copied = latest
      /\ edits'[s].copy = edits[s].copy /\ edits'[s].asked = edits[s].asked
      /\ \A t \in Editors \ {s} : edits'[t] = edits[t]
  BY <1>1, <1>2
<1>5. VersionsTypeOK'
  <2>1. edits' \in [Editors ->
            [at : {"idle", "read", "copied"}, asked : Edits \union {Null},
             copy : Configuration \union {Null}, copied : Configuration \union {Null}]]
    BY <1>1, <1>2
  <2> QED
    BY <1>1, <2>1 DEF VersionsInv, VersionsTypeOK, versions_aux
<1>6. EditInv'
  BY <1>1, <1>3, <1>4, NullAssumption DEF VersionsInv, EditInv
<1>7. edits[s].copy \in AllRows /\ latest \in AllRows
  BY <1>1, <1>3, NullAssumption DEF AllRows, AllVersions
<1>8. \A x \in AllRows' : x \in AllRows
  <2>1. AllVersions' = AllVersions
    BY <1>1 DEF AllVersions
  <2>2. \A t \in Editors : edits'[t].at # "idle" => edits'[t].copy \in AllRows
    BY <1>4, <1>7 DEF AllRows
  <2>3. \A t \in Editors : edits'[t].at = "copied" => edits'[t].copied \in AllRows
    BY <1>4, <1>7 DEF AllRows
  <2> QED
    BY <2>1, <2>2, <2>3 DEF AllRows
<1>9. \A t \in Editors :
        edits'[t].at = "copied" /\ edits'[t].copy.version <= aux_clear =>
            edits'[t].copy.version <= edits'[t].copied.version
  BY <1>4, <1>7 DEF VersionsInv, ClearInv
<1> QED
  BY <1>1, <1>5, <1>6, <1>8, <1>9, ClearStays

LEMMA DropStep ==
    ASSUME VersionsInv, NEW s \in Editors, DropVersion(s)
    PROVE  VersionsInv'
<1>1. edits' = [edits EXCEPT ![s] = NotEditing] /\ UNCHANGED <<latest, history, versions_aux>>
  BY DEF DropVersion
<1>2. /\ edits \in [Editors ->
            [at : {"idle", "read", "copied"}, asked : Edits \union {Null},
             copy : Configuration \union {Null}, copied : Configuration \union {Null}]]
  BY DEF VersionsInv, VersionsTypeOK
<1>3. edits'[s].at = "idle" /\ \A t \in Editors \ {s} : edits'[t] = edits[t]
  BY <1>1, <1>2 DEF NotEditing
<1>4. VersionsTypeOK'
  BY <1>1 DEF VersionsInv, VersionsTypeOK, versions_aux, NotEditing
<1>5. EditInv'
  BY <1>1, <1>3 DEF VersionsInv, EditInv
<1>6. \A x \in AllRows' : x \in AllRows
  BY <1>1, <1>3 DEF AllRows, AllVersions
<1>7. \A t \in Editors :
        edits'[t].at = "copied" /\ edits'[t].copy.version <= aux_clear =>
            edits'[t].copy.version <= edits'[t].copied.version
  BY <1>3 DEF VersionsInv, ClearInv
<1> QED
  BY <1>1, <1>4, <1>5, <1>6, <1>7, ClearStays

LEMMA SaveStep ==
    ASSUME VersionsInv, NEW s \in Editors, SaveVersion(s)
    PROVE  VersionsInv'
<1> DEFINE edit == edits[s]
           old == edit.copy
           new == Saved(edit)
<1>1. /\ edit.at = "copied" /\ latest' = new /\ history' = history \union {edit.copied}
      /\ edits' = [edits EXCEPT ![s] = NotEditing]
      /\ aux_past' = IF edit.copied = latest THEN aux_past \union {latest} ELSE aux_past
      /\ aux_clear' = StillClear(edit) /\ aux_half' = (aux_half \/ HalfSet(edit))
  BY DEF SaveVersion, Kept
<1>2. /\ edits \in [Editors ->
            [at : {"idle", "read", "copied"}, asked : Edits \union {Null},
             copy : Configuration \union {Null}, copied : Configuration \union {Null}]]
      /\ latest \in Configuration \union {Null} /\ history \subseteq Configuration
      /\ aux_past \subseteq Configuration /\ aux_clear \in 1..MaxVersion /\ aux_half \in BOOLEAN
      /\ MaxVersion \in Nat \ {0}
  BY VersionsAssumption DEF VersionsInv, VersionsTypeOK
<1>3. /\ old \in Configuration /\ edit.copied \in Configuration /\ latest \in Configuration
      /\ edit.asked # Null => MayBeEdited(edit.asked) /\ old.version < MaxVersion
  BY <1>1, <1>2 DEF VersionsInv, EditInv
<1>4. /\ old.version \in 1..MaxVersion /\ latest.version \in 1..MaxVersion
      /\ edit.copied.version \in 1..MaxVersion
  BY <1>3 DEF Configuration
<1>5. old \in AllRows /\ edit.copied \in AllRows /\ latest \in AllRows /\ AllRows \subseteq Configuration
  BY <1>1, <1>3, RowsAreTyped, NullAssumption DEF VersionsInv, AllRows, AllVersions
<1>6. /\ new \in Configuration
      /\ \/ new.version = old.version /\ Content(new) = Content(old) /\ edit.asked = Null
         \/ new.version = old.version + 1 /\ edit.asked # Null
      /\ ValidVariants(old.variants) => ValidVariants(new.variants)
      /\ edit.asked = Null => new.domain = old.domain /\ new.policy = old.policy
  <2>1. CASE edit.asked = Null
    BY <1>3, <2>1, MovedFacts DEF Saved
  <2>2. CASE edit.asked # Null
    <3>1. edit.asked \in UpdateExperimentDTO
      BY <1>2, <2>2, VersionsAssumption
    <3>2. new = Edited(old, edit.asked)
      BY <2>2 DEF Saved
    <3> QED
      BY <1>3, <2>2, <3>1, <3>2, EditedFacts
  <2> QED
    BY <2>1, <2>2
<1>7. /\ aux_clear' \in 1..MaxVersion /\ aux_clear' <= aux_clear
      /\ \/ old.version = latest.version /\ aux_clear' = aux_clear
         \/ aux_clear' <= old.version
  <2>1. CASE Content(old) = Content(latest)
    BY <1>1, <1>2, <1>3, <2>1, ContentFacts DEF StillClear
  <2>2. CASE Content(old) # Content(latest)
    BY <1>1, <1>2, <1>4, <2>2 DEF StillClear
  <2> QED
    BY <2>1, <2>2
<1> HIDE DEF old, new
<1>8. edits'[s].at = "idle" /\ \A t \in Editors \ {s} : edits'[t] = edits[t]
  BY <1>1, <1>2 DEF NotEditing
<1>9. \A x \in AllRows' : x \in AllRows \/ x = new
  <2>1. \A x \in AllVersions' : x \in AllRows \/ x = new
    BY <1>1, <1>5 DEF AllVersions, AllRows
  <2>2. \A t \in Editors : edits'[t].at # "idle" => edits'[t].copy \in AllRows
    BY <1>8 DEF AllRows
  <2>3. \A t \in Editors : edits'[t].at = "copied" => edits'[t].copied \in AllRows
    BY <1>8 DEF AllRows
  <2> QED
    BY <2>1, <2>2, <2>3 DEF AllRows
<1>10. VersionsTypeOK'
  <2>1. NotEditing \in [at : {"idle", "read", "copied"}, asked : Edits \union {Null},
                        copy : Configuration \union {Null}, copied : Configuration \union {Null}]
    BY DEF NotEditing
  <2>2. edits' \in [Editors ->
            [at : {"idle", "read", "copied"}, asked : Edits \union {Null},
             copy : Configuration \union {Null}, copied : Configuration \union {Null}]]
    BY <1>1, <1>2, <2>1
  <2>3. aux_half' \in BOOLEAN
    BY <1>1, <1>2 DEF HalfSet
  <2>4. history' \subseteq Configuration /\ aux_past' \subseteq Configuration
    BY <1>1, <1>2, <1>3
  <2> QED
    BY <1>1, <1>6, <1>7, <2>2, <2>3, <2>4 DEF VersionsTypeOK
<1>11. EditInv'
  BY <1>1, <1>6, <1>8, NullAssumption DEF VersionsInv, EditInv
<1>12. SoundInv'
  <2>1. \A x \in AllRows : SoundRow(x, aux_half)
    BY DEF VersionsInv, SoundInv
  <2>2. \A x \in AllRows : SoundRow(x, aux_half')
    BY <1>1, <1>2, <2>1 DEF SoundRow
  <2>3. SoundRow(new, aux_half')
    <3>1. ValidVariants(new.variants)
      BY <1>5, <1>6, <2>1 DEF SoundRow
    <3>2. CASE edit.asked = Null
      BY <1>5, <1>6, <2>2, <3>1, <3>2 DEF SoundRow
    <3>3. CASE edit.asked # Null
      BY <1>1, <3>1, <3>3 DEF SoundRow, HalfSet, new
    <3> QED
      BY <3>2, <3>3
  <2> QED
    BY <1>9, <2>2, <2>3 DEF SoundInv
<1>13. ClearInv'
  <2>1. /\ \A x, y \in AllRows :
              x.version = y.version /\ x.version <= aux_clear => Content(x) = Content(y)
        /\ \A x \in AllRows : x.version <= aux_clear => x.version <= latest.version
        /\ \A x \in AllRows : \A v \in 1..x.version - 1 :
              v <= aux_clear => \E row \in history : row.version = v
        /\ old.version <= aux_clear => old.version <= edit.copied.version
    BY <1>1 DEF VersionsInv, ClearInv, old
  <2>2. \A x \in AllRows : x.version \in 1..MaxVersion
    BY <1>5 DEF Configuration
  <2>3. \A y \in AllRows :
          new.version = y.version /\ new.version <= aux_clear' => Content(new) = Content(y)
    <3> TAKE y \in AllRows
    <3> HAVE new.version = y.version /\ new.version <= aux_clear'
    <3>1. new.version <= aux_clear /\ new.version = old.version
      BY <1>2, <1>4, <1>6, <1>7, <2>1, <2>2
    <3>2. Content(new) = Content(old)
      BY <1>4, <1>6, <3>1
    <3>3. Content(old) = Content(y)
      BY <1>5, <2>1, <3>1
    <3> QED
      BY <3>2, <3>3
  <2>4. \A x, y \in AllRows' :
          x.version = y.version /\ x.version <= aux_clear' => Content(x) = Content(y)
    <3>1. \A x, y \in AllRows :
            x.version = y.version /\ x.version <= aux_clear' => Content(x) = Content(y)
      BY <1>2, <1>7, <2>1, <2>2
    <3> QED
      BY <1>9, <2>3, <3>1
  <2>5. \A x \in AllRows' : x.version <= aux_clear' => x.version <= latest'.version
    <3>1. \A x \in AllRows : x.version <= aux_clear' => x.version <= new.version
      BY <1>2, <1>4, <1>6, <1>7, <2>1, <2>2
    <3> QED
      BY <1>1, <1>6, <1>9, <3>1 DEF new, Configuration
  <2>6. \A x \in AllRows' : \A v \in 1..x.version - 1 :
          v <= aux_clear' => \E row \in history' : row.version = v
    <3>1. \A x \in AllRows : \A v \in 1..x.version - 1 :
            v <= aux_clear' => \E row \in history' : row.version = v
      BY <1>1, <1>2, <1>7, <2>1, <2>2
    <3>2. \A v \in 1..new.version - 1 :
            v <= aux_clear' => \E row \in history' : row.version = v
      <4> TAKE v \in 1..new.version - 1
      <4> HAVE v <= aux_clear'
      <4>1. v \in 1..old.version - 1 \/ v = old.version
        BY <1>4, <1>6
      <4>2. CASE v \in 1..old.version - 1
        BY <1>5, <3>1, <4>2
      <4>3. CASE v = old.version
        <5>1. edit.copied.version = v \/ v \in 1..edit.copied.version - 1
          BY <1>2, <1>4, <1>7, <2>1, <4>3
        <5> QED
          BY <1>1, <1>5, <3>1, <5>1
      <4> QED
        BY <4>1, <4>2, <4>3
    <3> QED
      BY <1>9, <3>1, <3>2
  <2>7. \A t \in Editors :
          edits'[t].at = "copied" /\ edits'[t].copy.version <= aux_clear' =>
              edits'[t].copy.version <= edits'[t].copied.version
    <3>1. \A t \in Editors : edits[t].at = "copied" => edits[t].copy \in AllRows
      BY DEF AllRows
    <3>2. \A t \in Editors : edits[t].at = "copied" /\ edits[t].copy.version <= aux_clear' =>
              edits[t].copy.version <= edits[t].copied.version
      BY <1>2, <1>7, <2>2, <3>1 DEF VersionsInv, ClearInv
    <3> QED
      BY <1>8, <3>2
  <2> QED
    BY <2>4, <2>5, <2>6, <2>7 DEF ClearInv
<1>14. aux_past' \subseteq history'
  BY <1>1 DEF VersionsInv
<1> QED
  BY <1>10, <1>11, <1>12, <1>13, <1>14 DEF VersionsInv

LEMMA VersionsStep == VersionsInv /\ [VersionsNext]_versions_vars => VersionsInv'
<1> SUFFICES ASSUME VersionsInv, [VersionsNext]_versions_vars PROVE VersionsInv'
  OBVIOUS
<1>1. CASE VersionsNext
  BY <1>1, CreateStep, ReadStep, CopyStep, SaveStep, DropStep DEF VersionsNext
<1>2. CASE UNCHANGED versions_vars
  BY <1>2 DEF versions_vars, versions_aux, VersionsInv, VersionsTypeOK, EditInv, SoundInv,
              ClearInv, AllRows, AllVersions
<1> QED
  BY <1>1, <1>2

-----------------------------------------------------------------------------

\* Type correctness (Experiment and its rows).
THEOREM VersionsTypeCorrect == VersionsSpec => []VersionsTypeOK
<1>1. VersionsInv => VersionsTypeOK
  BY DEF VersionsInv
<1> QED
  BY <1>1, VersionsInitially, VersionsStep, PTL DEF VersionsSpec

\* However many edits overlap, what they leave can be distributed, and its conflicts be
\* resolved, unless one of them was given half a conflict configuration (UpdateExperiment).
THEOREM ConfigurationsStaySound == VersionsSpec => []ConfigurationsAreSound
<1>1. VersionsInv => ConfigurationsAreSound
  BY DEF VersionsInv, SoundInv, SoundRow, ConfigurationsAreSound, AllRows
<1> QED
  BY <1>1, VersionsInitially, VersionsStep, PTL DEF VersionsSpec

\* The history has every version that no stale writer confused, as it was, and every row
\* that was overwritten by who had copied it (SqlExperimentsRepository.save).
THEOREM HistoryStaysExact == VersionsSpec => []HistoryIsExact
<1>1. VersionsInv => HistoryIsExact
  <2> SUFFICES ASSUME VersionsInv PROVE HistoryIsExact
    OBVIOUS
  <2>1. \A x, y \in AllVersions :
          x.version = y.version /\ x.version <= aux_clear => Content(x) = Content(y)
    BY DEF VersionsInv, ClearInv, AllRows
  <2>2. latest # Null => \A v \in 1..latest.version - 1 : v <= aux_clear => RowsOfVersion(v) # {}
    BY DEF VersionsInv, ClearInv, AllRows, AllVersions, RowsOfVersion
  <2> QED
    BY <2>1, <2>2 DEF VersionsInv, HistoryIsExact
<1> QED
  BY <1>1, VersionsInitially, VersionsStep, PTL DEF VersionsSpec
=============================================================================
