CONSTANTS
    NKeys = 3
    Vals = {v1}
    None = None
    MaxOps = 3
    ApplyAt = 1
    Inverted = FALSE
SPECIFICATION Spec
INVARIANTS TypeOK
PROPERTIES StorageRefines
