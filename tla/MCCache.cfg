SPECIFICATION SceneSpec
CONSTANTS
    None = None
    author = author
    Experimenters <- MCExperimenters
    AuthorOf <- MCAuthorOf
    CheckOf <- MCCheckOf
    Experiments = {e1, e2}
    Flags = {f1}
    Admins = {u}
    Approvers = {}
    Sessions = {s1, s2, g}
    WorkerSessions = {g}
    Ops = {"create", "update", "send_to_review", "approve", "set_review_rules", "start", "manage", "archive", "guard"}
    MaxVersion = 2
    MaxVoteRows = 2
    MaxGroup = 2
INVARIANTS
    ServedWasReviewed
    RunningIsServed
    FinishedIsNotServed
    HaltedEntryIsHalted
PROPERTIES
    ChangesReachCache
CHECK_DEADLOCK FALSE
