\* Runs that overlap, die or lose answers stop a Task of two projects, one with a worker.
SPECIFICATION FairSpec
CONSTANTS
    p1 = p1
    p2 = p2
    Project = {p1, p2}
    Rows <- MCRows
    Staffed = {p1}
    Runs = 2
    Attempts = 3
    Rounds = 3
    Faults = {"overlap", "die", "fail", "lost", "late", "crash", "unstopped"}
    MaxFaults = 1
CHECK_DEADLOCK FALSE
INVARIANTS
    TypeOK
    NoWorkerSurvives
    IssueTellsResult
PROPERTIES
    NothingIsOverlooked
    EventuallyStopped
