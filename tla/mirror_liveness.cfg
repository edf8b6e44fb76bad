CONSTANTS
    c1 = c1
    NIssues = 2
    Comments <- MCComments
    CommentIssue <- MCCommentIssue
    MaxClock = 4
    PerPage <- MCPerPageWide
    MaxPages = 2
    Errors = FALSE
    BadItems = FALSE
    Crashes = FALSE
    Expiry = FALSE
SPECIFICATION FairSpec
PROPERTIES
    EventuallyMirrored
