SPECIFICATION SceneSpec
CONSTANTS
    None = None
    author = author
    Experimenters <- MCExperimenters
    AuthorOf <- MCAuthorOf
    CheckOf <- MCCheckOf
    Experiments = {e1}
    Flags = {f1}
    Admins = {u}
    Approvers = {}
    Sessions = {s1, g}
    WorkerSessions = {g}
    Ops = {"create", "send_to_review", "approve", "start", "manage", "guard"}
    MaxVersion = 1
    MaxVoteRows = 2
    MaxGroup = 2
INVARIANTS
    PausedIsNotServed
CHECK_DEADLOCK FALSE
