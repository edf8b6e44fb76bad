CONSTANTS
    NIssues = 2
    MaxVer = 2
    MaxPosts = 2
    MaxTime = 8
    BatchSize = 1
    Similar <- MCSimilarAll
    Skip = {}
    SyncErrors = TRUE
    EmbedFaults = TRUE
    PostFaults = TRUE
    Crashes = TRUE
SPECIFICATION Spec
INVARIANTS TypeOK DocsMirrored VectorsCurrent
CONSTRAINT Bounds
