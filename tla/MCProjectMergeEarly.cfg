\* People merge by hand before any proof was stored.
SPECIFICATION FairSpec
CONSTANTS
    p1 = p1
    p2 = p2
    p3 = p3
    Project = {p1, p2}
    Order <- MCOrder
    Rows <- MCRows
    Worker = {w1}
    NoWorker = NoWorker
    Automatic = FALSE
    Edits = {"early"}
    MaxEdits = 2
    Faults = {}
    MaxFaults = 0
CHECK_DEADLOCK FALSE
PROPERTIES
    MergesAreRecorded
