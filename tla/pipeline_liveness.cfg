CONSTANTS
    NIssues = 2
    MaxVer = 2
    MaxPosts = 2
    MaxTime = 12
    BatchSize = 2
    Similar <- MCSimilarAll
    Skip = {}
    SyncErrors = FALSE
    EmbedFaults = FALSE
    PostFaults = FALSE
    Crashes = FALSE
SPECIFICATION FairSpec
PROPERTIES PipelineConverges
INVARIANTS RelatedNoneSkipped NoDoublePost CorpusInv RelatedInv PostedOnce
