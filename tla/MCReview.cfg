SPECIFICATION SceneSpec
CONSTANTS
    None = None
    author = author
    Experimenters <- MCExperimenters
    AuthorOf <- MCAuthorOf
    CheckOf <- MCCheckOf
    Experiments = {e1, e2}
    Flags = {f1, f2}
    Admins = {u}
    Approvers = {v}
    Sessions = {s1, s2}
    Ops = {"create", "update", "send_to_review", "restore", "approve", "reject", "set_review_rules", "start", "manage", "archive", "guard"}
    MaxVersion = 2
    MaxVoteRows = 2
    MaxGroup = 2
SYMMETRY RunningSymmetry
INVARIANTS
    NoDoubleVote
    OneStartedPerFlagButResurrected
    LockedReadIsFresh
PROPERTIES
    AcceptedByQuorum
    FlagFixedAfterDraft
    OffTableOnlyWhenStale
