SPECIFICATION Spec
CONSTANTS
    Tabs = {t1}
    Workers = {w1}
    Messages = {m1}
    Bodies = {plain, money}
    Flagged = {money}
    RequestKinds = {"reply", "promote"}
    FaultKinds = {}
    None = None
    MaxDrafts = 1
    MaxRequests = 2
    MaxFaults = 0
    ListLimit = 2
    SubCap = 4
    OutboxCap = 1
INVARIANTS
    FlaggedTextNeedsAHuman
CHECK_DEADLOCK FALSE
