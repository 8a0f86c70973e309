SPECIFICATION FairWorkers
CONSTANTS
    None = None
    viewType = viewType
    clickType = clickType
    purchaseType = purchaseType
    decided = decided
    otherDecision = otherDecision
    viewEvt = viewEvt
    clickEvt = clickEvt
    purchaseEvt = purchaseEvt
    otherEvt = otherEvt
    Ids = {viewEvt, clickEvt, purchaseEvt, otherEvt}
    Types = {viewType, clickType, purchaseType}
    Decisions = {decided, otherDecision}
    Events <- MCEventSet
    Wants <- MCWants
    MaxCopies = 1
    exp = exp
    grd = grd
    started = started
    paused = paused
    record = record
    otherRecord = otherRecord
    telegram = telegram
    unknown = unknown
    RuleIds = {r1, r2}
    Resources = {exp, grd}
    Details = {started, paused, record, otherRecord}
    Happenings <- MCStates
    Channels = {telegram, unknown}
    Configured = {telegram}
    Rules <- MCAnyExperiment
    Longest = 1
    Publishers = {p1}
    MaxPublished = 2
    MaxFailures = 0
    Guarded = {e1}
    GuardIds = {g1, g2}
    CheckSessions = {s1, s2}
    MaxEdits = 0
    MaxCheckFailures = 1
PROPERTIES
    WaitingIsResolved
    PendingIsTaken
    HarmIsStopped
