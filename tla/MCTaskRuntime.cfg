\* Everything may move, return to an earlier commit, and stop at any time.
CONSTANTS
    t1 = t1
    x1 = x1
    MaxCommit = 4
    NoCommit = 0
    Task <- MCTask
    Commit <- MCCommit
    Text <- MCText
    Own = t1
    Selected = "build"
    MAX_FIXES = 1
    MAX_BRANCH_REFRESH_COUNT = 1
    MaxMoves = 2
    MaxCrashes = 1
    MovesWhen = "any"
    ForcePush = TRUE
    BuildPushes = TRUE
    Automatic = TRUE
    Stops = {"cancel", "expire", "human_merge"}
SPECIFICATION Spec
INVARIANTS
    TypeOK
    OnlyProvenIsMerged
    RefreshesAreReserved
PROPERTY
    NothingAfterEnd
CHECK_DEADLOCK FALSE
