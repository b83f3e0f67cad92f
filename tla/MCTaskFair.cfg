\* One part at a time.  The flow has two Tasks, one of them foreign; MCTaskFair
\* has the other instances.
CONSTANTS
    t1 = t1
    t2 = t2
    c1 = c1
    c2 = c2
    x1 = x1
    p1 = p1
    p2 = p2
    p3 = p3
    q1 = q1
    q2 = q2
    r1 = r1
    w1 = w1
    nobody = nobody
    Task = {t1, t2}
    Commit = {c1, c2}
    Text = {x1}
    MAX_FIXES = 3
SPECIFICATION FairSpec
INVARIANTS
    TypeOK
    ReadyIsProven
    EvidenceIsFresh
    ReadyIsComplete
    FixBudget
PROPERTIES
    FailedIsFinal
    EventuallyCreated
    EventuallyDelivered
    MergesAreRecorded
CHECK_DEADLOCK FALSE
