SPECIFICATION FreshSpec
CONSTANTS
    None = None
    author = author
    Experimenters <- MCExperimenters
    AuthorOf <- MCAuthorOf
    CheckOf <- MCCheckOf
    Experiments = {e1, e2}
    Flags = {f1}
    Admins = {u}
    Approvers = {}
    Sessions = {s1, s2}
    Ops = {"create", "update", "send_to_review", "restore", "approve", "reject", "start", "manage", "archive", "guard"}
    MaxVersion = 2
    MaxVoteRows = 2
    MaxGroup = 2
SYMMETRY RunningSymmetry
INVARIANTS
    DecisionOnRecord
PROPERTIES
    ImplementsWorkflow
CHECK_DEADLOCK FALSE
