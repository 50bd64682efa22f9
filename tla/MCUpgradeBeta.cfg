SPECIFICATION UpgradeSpec
CONSTANTS
    Missing = Missing
    Corrupt = Corrupt
    Processes = {"p"}
    Machines <- BetaComputer
    MaxReleases = 1
    MaxCommands = 2
INVARIANTS
    NewBinaryRunsNext
CHECK_DEADLOCK FALSE
