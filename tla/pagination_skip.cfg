CONSTANTS
    c1 = c1
    NIssues = 2
    Comments <- MCComments
    CommentIssue <- MCCommentIssue
    MaxClock = 5
    PerPage <- MCPerPageOne
    MaxPages = 2
    Errors = FALSE
    BadItems = FALSE
    Crashes = FALSE
    Expiry = FALSE
SPECIFICATION Spec
INVARIANTS
    ItemsMirrored
