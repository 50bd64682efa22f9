SPECIFICATION AgentFilesSpec
CONSTANTS
    claude = claude
    windsurf = windsurf
    opencode = opencode
    gemini = gemini
    antigravity = antigravity
    Absent = Absent
    Broken = Broken
    TuiTexts <- MCTuiTexts
    PackageTexts <- MCPackageTexts
    NoFile = NoFile
    Children <- MCChildren
    InitialHomes <- Homes
    MaxPiEdits = 1
    MaxPiCommands = 2
    AgentOrder <- MCOrder
    Path <- MCPath
    Strategy <- MCStrategy
    Slim = {claude}
    Titled = {claude, windsurf, antigravity}
    Personas = {"gentleman", "sdet"}
    Selections <- MCSelections
    Removals <- MCRemovals
    InitialFiles <- LegacyFiles
    Machines <- MCMachines
    MaxCommands = 3
    MaxEdits = 1
    MaxTouches = 1
    MaxRuns = 2
    SyncModes <- MCSyncModes
CHECK_DEADLOCK FALSE
INVARIANTS
    SelectedIsCurrent
    UserTextKept
    SyncSettles
    UninstallCleans
    UserWorkKept
PROPERTIES
    RemovalIsClean
    LeavesAsFound
