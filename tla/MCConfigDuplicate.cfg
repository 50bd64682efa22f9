SPECIFICATION CommandSpec
CONSTANTS
    p1 = p1
    p2 = p2
    a = a
    b = b
    Step <- MCSteps
    Reversible <- MCReversible
    Plans <- MCPlans
    Policies <- MCPolicies
    OnApplyFailure = TRUE
    Path = {p1, p2}
    Content = {a, b}
    Retention = 1
    Kinds = {"install"}
    InstallPlan <- MCInstall
    SyncPlan <- MCSync
    TargetSets <- Everything
    GuidancePaths = {p2}
    Faults = {}
    TuiOperations = {}
    MaxBackups = 2
INVARIANTS
    FailedInstallIsUndone
SYMMETRY Contents
CHECK_DEADLOCK FALSE
