SPECIFICATION MaintenanceSpec
CONSTANTS
    p1 = p1
    p2 = p2
    a = a
    b = b
    Step <- MCSteps
    Reversible <- MCReversible
    Plans <- MCPlans
    Policies <- MCPolicies
    OnApplyFailure = TRUE
    Path = {p1, p2}
    Content = {a}
    Retention = 1
    Kinds = {"install", "tuiInstall", "sync", "upgrade", "uninstall"}
    InstallPlan <- MCInstall
    SyncPlan <- MCSync
    TargetSets <- Everything
    GuidancePaths = {p2}
    Faults = {"crash", "snapshot", "annotate", "prune", "restore"}
    TuiOperations = {"pin", "rename", "delete"}
    MaxBackups = 3
    Missing = Missing
    Corrupt = Corrupt
    Processes = {"p"}
    Machines <- MCMachines
    MaxReleases = 2
    MaxCommands = 2
INVARIANTS
    RollbackPathGuarded
    RollbackRestoresTargets
    RollbackComplete
    BinaryIsWhole
    BackIsReverse
    OfferIsCurrent
    ChangesAreBackedUp
    OthersKept
    UninstallRemoves
PROPERTIES
    PruneIsSafe
    UpgradesAreSound
CHECK_DEADLOCK FALSE
