CONSTANTS
    MaxRate = 20
    MaxFail = 3
    ReqCap = 30
SPECIFICATION Spec
INVARIANTS TypeOK RequestsBounded
PROPERTIES GetRefines
CHECK_DEADLOCK FALSE
