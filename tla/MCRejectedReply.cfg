SPECIFICATION Spec
CONSTANTS
    Tabs = {t1}
    Workers = {w1, w2}
    Messages = {m1}
    Bodies = {plain}
    Flagged = {}
    RequestKinds = {"reply", "reject"}
    FaultKinds = {}
    None = None
    MaxDrafts = 1
    MaxRequests = 3
    MaxFaults = 0
    ListLimit = 1
    SubCap = 4
    OutboxCap = 1
PROPERTIES
    RejectionStands
CHECK_DEADLOCK FALSE
