CONSTANTS
    NItems = 4
    MaxVer = 2
    MaxTime = 12
    Skip = {3}
    Expired = {4}
    SyncErrors = FALSE
    APIFaults = FALSE
    Crashes = FALSE
SPECIFICATION FairSpec
PROPERTIES FixConverges
INVARIANTS FixNoneSkipped FixMarkedInv
