SPECIFICATION Spec
CONSTANTS
    None = None
    author = author
    Experimenters <- MCExperimenters
    AuthorOf <- MCAuthorOf
    CheckOf <- MCCheckOf
    Experiments = {e1, e2}
    Flags = {f1}
    Admins = {u}
    Approvers = {}
    Sessions = {s1, s2}
    Ops = {"create", "send_to_review", "approve", "start", "manage", "guard", "update"}
    MaxVersion = 2
    MaxVoteRows = 2
    MaxGroup = 2
INVARIANTS
    OneStartedPerFlag
CHECK_DEADLOCK FALSE
