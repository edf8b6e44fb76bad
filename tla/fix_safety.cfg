CONSTANTS
    NItems = 4
    MaxVer = 2
    MaxTime = 5
    Skip = {3}
    Expired = {4}
    SyncErrors = TRUE
    APIFaults = TRUE
    Crashes = TRUE
SPECIFICATION Spec
INVARIANTS TypeOK NoRefix NoRefixInv
CONSTRAINT Bounds
