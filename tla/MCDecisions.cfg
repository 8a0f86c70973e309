SPECIFICATION SceneSpec
CONSTANTS
    None = None
    Outside = Outside
    HashSize = 1024
    flagF = flagF
    flagG = flagG
    expX = expX
    expY = expY
    expZ = expZ
    dom = dom
    attrA = attrA
    attrB = attrB
    user = user
    Subjects = {user}
    Unsplittable = {}
    Flags = {flagF, flagG}
    Experiments = {expX, expY, expZ}
    Domains = {dom}
    Attrs = {attrA, attrB}
    Entries <- MCEntries
    KeyLists <- MCKeyLists
    HashOf <- MCHashOf
    TieHash <- MCTieHash
    Requests = {r1, r2}
    WarmedUp = {flagF}
    Threshold = 2
SYMMETRY RequestSymmetry
INVARIANTS
    AnswersAreOfTheFlag
    ExperimentsAreCounted
    OneWinnerPerConflict
PROPERTIES
    AnswersStick
