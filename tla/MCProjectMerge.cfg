\* Two overlapping runs of three projects, one fault and one edit of any kind.
SPECIFICATION Spec
CONSTANTS
    p1 = p1
    p2 = p2
    p3 = p3
    Project = {p1, p2, p3}
    Order <- MCOrder3
    Rows <- MCRows3
    Worker = {w1, w2}
    NoWorker = NoWorker
    Automatic = TRUE
    Edits = {"early", "merge", "squash", "move", "review", "barrier"}
    MaxEdits = 1
    Faults = {"die", "fail", "late"}
    MaxFaults = 1
SYMMETRY Interchangeable
CHECK_DEADLOCK FALSE
INVARIANTS
    TypeOK
    OnePut
    InOrder
    StopsAtSafePoint
    RecordsAreTrue
