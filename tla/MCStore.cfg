SPECIFICATION StoreSpec
CONSTANTS
    file = file
    lens = lens
    f1 = f1
    p1 = p1
    p2 = p2
    a = a
    b = b
    c = c
    withdrawn = withdrawn
    tests = tests
    Procs = {p1, p2}
    Lineages = {a, b, c}
    Roots = {a}
    Lenses = {lens}
    FindingIds = {f1}
    Paths = {file}
    Contents = {0, 1, 2}
    DiffLines <- MCDiffLines
    ClassifiedRisk <- MCRisk
    MaxCorrectionChangedLines = 200
    Reasons = {withdrawn}
    EvidencePayloads = {tests}
    StartTargets <- SmallBudget
    RecoveryGrants <- Withdrawals
    ReviewInputs <- StoreInputs
    Forecasts = {1, 2}
    FixedTrees <- Fixes
    MaxGeneration = 3
INVARIANTS
    GraphStaysValid
    RecoveryIsJustified
    ReceiptMatchesRecord
PROPERTIES
    ImplementsAuthority
    VerdictsImmutable
SYMMETRY Interchangeable
CHECK_DEADLOCK FALSE
CONSTRAINT CorrectionsAlone
