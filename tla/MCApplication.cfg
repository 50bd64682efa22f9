SPECIFICATION FairSpec
CONSTANTS
    Missing = Missing
    Corrupt = Corrupt
    ExitRequests = {TRUE, FALSE}
    MaxLaunches = 2
    InitialFiles <- AnyFile
INVARIANTS
    OperationsExclusive
    MarkerMeansOwed
PROPERTIES
    OperationEnds
CONSTRAINT RestoreWatched
CHECK_DEADLOCK FALSE
