SPECIFICATION Spec
CONSTANTS
    Tabs = {t1, t2}
    Workers = {w1}
    Messages = {m1}
    Bodies = {plain, money}
    Flagged = {money}
    RequestKinds = {"reply"}
    FaultKinds = {}
    None = None
    MaxDrafts = 1
    MaxRequests = 1
    MaxFaults = 0
    ListLimit = 2
    SubCap = 4
    OutboxCap = 1
INVARIANTS
    OneTabPerDraft
CHECK_DEADLOCK FALSE
