\* Moves only while the flow waits for its merge: the Task is always decided.
CONSTANTS
    t1 = t1
    x1 = x1
    MaxCommit = 12
    NoCommit = 0
    Task <- MCTask
    Commit <- MCCommit
    Text <- MCText
    Own = t1
    Selected = "build_review_deep_check"
    MAX_FIXES = 1
    MAX_BRANCH_REFRESH_COUNT = 1
    MaxMoves = 1
    MaxCrashes = 1
    MovesWhen = "ready"
    ForcePush = FALSE
    BuildPushes = FALSE
    Automatic = TRUE
    Stops = {}
SPECIFICATION FairSpec
PROPERTY
    EventuallyDecided
CHECK_DEADLOCK FALSE
INVARIANT
    ChainStaysReplayable
