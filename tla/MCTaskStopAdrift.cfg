\* One stop of a worker fails: the stop of the Task is completed without it.
SPECIFICATION FairSpec
CONSTANTS
    p1 = p1
    p2 = p2
    Project = {p1, p2}
    Rows <- MCRows
    Staffed = {p1}
    Runs = 1
    Attempts = 2
    Rounds = 3
    Faults = {"unstopped"}
    MaxFaults = 1
CHECK_DEADLOCK FALSE
INVARIANT
    NoDescendants
