SPECIFICATION Spec
CONSTANTS
    Missing = Missing
    Corrupt = Corrupt
    ExitRequests = {FALSE}
    MaxLaunches = 1
    InitialFiles <- NoFile
PROPERTIES
    MarkerSurvives
CHECK_DEADLOCK FALSE
