SPECIFICATION ServerSpec
CONSTANTS
    None = None
    viewType = viewType
    viewId = viewId
    decided = decided
    Ids = {viewId}
    Types = {viewType}
    Decisions = {decided}
    Events <- MCEventSet
    Wants <- MCWants
    Known = {}
    Batches <- MCBatches
    Requests = {r1, r2}
    Size = 3
    MaxSent = 2
    FlagKeys = {f1}
    Defaults = {d1, d2}
    TypeIds = {t1}
    Schemas = {sc1, sc2}
    Writers = {w1, w2}
    Absent = Absent
    Visits = {v1, v2, v3}
    BatchSize = 2
    MaxRows = 2
    m1 = m1
    UserIds = {u1, u2}
    Emails = {m1, m2, m3}
    Persons = {p1, p2}
    EmailOf <- MCEmailOf
    Callers = {c1, c2}
    Nothing = Nothing
    Editors = {r1, r2}
    Creations <- MCCreations
    Edits <- MCEdits
    Missing = Missing
    Null = Null
    MaxVersion = 3
    MaxKept = 3
SYMMETRY ServerSymmetry
INVARIANTS
    ServerTypeOK
    NothingIsLost
    AcceptedOnce
    CopiesAreCurrent
    RecordsAreExact
    HistoryIsExact
    ConfigurationsAreSound
PROPERTIES
    ArchivedStays
    IdentityIsKept
