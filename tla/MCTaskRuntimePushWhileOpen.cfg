\* A push while a Review card is pending or open.
CONSTANTS
    t1 = t1
    x1 = x1
    MaxCommit = 12
    NoCommit = 0
    Task <- MCTask
    Commit <- MCCommit
    Text <- MCText
    Own = t1
    Selected = "build_review"
    MAX_FIXES = 1
    MAX_BRANCH_REFRESH_COUNT = 1
    MaxMoves = 1
    MaxCrashes = 0
    MovesWhen = "any"
    ForcePush = FALSE
    BuildPushes = FALSE
    Automatic = TRUE
    Stops = {}
SPECIFICATION Spec
INVARIANT ChainStaysReplayable
CHECK_DEADLOCK FALSE
