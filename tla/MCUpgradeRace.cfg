SPECIFICATION UpgradeSpec
CONSTANTS
    Missing = Missing
    Corrupt = Corrupt
    Processes = {"p", "q"}
    Machines <- OneComputer
    MaxReleases = 1
    MaxCommands = 2
INVARIANTS
    BinaryIsWhole
CHECK_DEADLOCK FALSE
