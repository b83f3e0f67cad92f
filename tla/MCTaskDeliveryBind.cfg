\* One call fails between bind_issue and update_issue.
CONSTANTS
    p1 = p1
    p2 = p2
    d1 = d1
    r1 = r1
    r2 = r2
    NoCaller = NoCaller
    Request = {r1}
    Caller = {p1}
    Plugin = {p1}
    Wants <- MCWants
    Ends = {"cancelled", "merged"}
    MaxIssues = 2
    MaxFaults = 1
    MaxEdits = 0
    DiesAt <- EveryStep
    LosesAt = {"create", "update", "label"}
    LateAt = {}
SPECIFICATION FairSpec
PROPERTY
    EventuallyDelivered
CHECK_DEADLOCK FALSE
