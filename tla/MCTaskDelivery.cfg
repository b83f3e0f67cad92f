\* Two plugin calls deliver two requests of one user; calls fail anywhere.
CONSTANTS
    p1 = p1
    p2 = p2
    d1 = d1
    r1 = r1
    r2 = r2
    NoCaller = NoCaller
    Request = {r1, r2}
    Caller = {p1, p2}
    Plugin = {p1, p2}
    Wants <- MCWants
    Ends = {"cancelled", "merged"}
    MaxIssues = 3
    MaxFaults = 2
    MaxEdits = 1
    DiesAt <- EveryStep
    LosesAt = {"create", "update", "label"}
    LateAt = {"label"}
SPECIFICATION Spec
INVARIANTS
    TypeOK
    OneIssue
    DatabasesAgree
PROPERTY
    KeepsPromise
CHECK_DEADLOCK FALSE
