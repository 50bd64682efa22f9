SPECIFICATION RecordsSpec
CONSTANTS
    p = p
    q = q
    f1 = f1
    f2 = f2
    l1 = l1
    l2 = l2
    main = main
    Lineages = {main}
    Lineage = main
    Lenses = {l1, l2}
    FindingIds = {f1, f2}
    Paths = {p, q}
    Contents = {0, 1, 2}
    DiffLines <- MCDiffLines
    ClassifiedRisk <- MCRisk
    MaxCorrectionChangedLines = 2
    withdrawn = withdrawn
    tests = tests
    Reasons = {withdrawn}
    EvidencePayloads = {tests}
    StartTargets <- ReviewTargets
    Forecasts = {0, 1, 2, 3}
    Starts <- V1Starts
    LedgerIds = {"f1", "f2"}
    DefectIds = {"g"}
    FixSnapshots <- V1Fixes
    Lines = {0, 1, 2}
    Clones = {"here", "there"}
    Sessions = {"s1", "s2"}
    MaxEvents = 3
    Reviews <- V1Reviews
    TreePaths = {"p", "q"}
    Edits <- V1Edits
    Remotes = {"origin", "fork"}
    Places = {"here", "there"}
    Url <- V1Url
    Branches <- V1Branches
    MaxCommits = 3
    MaxMoves = 2
CONSTRAINT ChainsAreOfLowRisk
INVARIANTS
    HandlersMeetValidate
    ApprovalIsEarned
    CorrectionStaysInScope
    HandlersAreReplayed
PROPERTIES
    ImplementsLifecycle
    ChainsOnlyGrow
    AllowIsReviewed
CHECK_DEADLOCK FALSE
