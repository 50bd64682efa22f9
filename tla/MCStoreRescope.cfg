SPECIFICATION FairStoreSpec
CONSTANTS
    file = file
    lens = lens
    f1 = f1
    p1 = p1
    p2 = p2
    a = a
    b = b
    c = c
    withdrawn = withdrawn
    tests = tests
    Procs = {p1, p2}
    Lineages = {a, b}
    Roots = {a}
    Lenses = {lens}
    FindingIds = {f1}
    Paths = {file}
    Contents = {0, 1, 2}
    DiffLines <- MCDiffLines
    ClassifiedRisk <- MCRisk
    MaxCorrectionChangedLines = 200
    Reasons = {withdrawn}
    EvidencePayloads = {tests}
    StartTargets <- TwoTargets
    RecoveryGrants <- Rescope
    ReviewInputs <- CleanInputs
    Forecasts = {}
    FixedTrees = {}
    MaxGeneration = 2
PROPERTIES
    CommandsEnd
CHECK_DEADLOCK FALSE
