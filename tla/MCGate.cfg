SPECIFICATION GateSpec
CONSTANTS
    p = p
    q = q
    lens = lens
    f1 = f1
    v1 = v1
    a = a
    b = b
    withdrawn = withdrawn
    tests = tests
    Validators = {v1}
    Gates = {"pre-commit", "pre-pr", "pre-push", "release"}
    Edits <- LocalTrees
    Advances <- RemoteTrees
    ReleaseArtifacts = {1, 2}
    MaxCommits = 3
    Lineages = {a, b}
    Roots = {a}
    Lenses = {lens}
    FindingIds = {f1}
    Paths = {p, q}
    Contents = {0, 1}
    DiffLines <- MCDiffLines
    ClassifiedRisk <- MCRisk
    MaxCorrectionChangedLines = 200
    Reasons = {}
    EvidencePayloads = {tests}
    StartTargets <- Branches
    RecoveryGrants <- Rescope
    ReviewInputs <- CleanInputs
    Forecasts = {}
    FixedTrees = {}
    MaxGeneration = 2
INVARIANTS
    AllowIsBacked
PROPERTIES
    AllowedDeliveryIsReviewed
