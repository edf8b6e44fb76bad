CONSTANTS
    c1 = c1
    NIssues = 2
    Comments <- MCComments
    CommentIssue <- MCCommentIssue
    MaxClock = 5
    PerPage <- MCPerPageWide
    MaxPages = 2
    Errors = TRUE
    BadItems = TRUE
    Crashes = FALSE
    Expiry = TRUE
SPECIFICATION Spec
INVARIANTS
    TypeOK
    EventsMirrored
    ItemsMirrored
    FullScanResumable
PROPERTIES
    EventIDNeverRegresses
