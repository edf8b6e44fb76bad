CONSTANTS
    c1 = c1
    NIssues = 2
    Comments <- MCComments
    CommentIssue <- MCCommentIssue
    MaxClock = 5
    PerPage <- MCPerPageWide
    MaxPages = 2
    Errors = TRUE
    BadItems = FALSE
    Crashes = TRUE
    Expiry = FALSE
SPECIFICATION Spec
INVARIANTS
    ItemsMirrored
    FullScanResumable
