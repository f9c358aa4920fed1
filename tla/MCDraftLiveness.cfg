SPECIFICATION Spec
CONSTANTS
    Tabs = {t1}
    Workers = {w1}
    Messages = {m1}
    Bodies = {plain}
    Flagged = {}
    RequestKinds = {"reply", "reject", "patch"}
    FaultKinds = {"disconnect", "reload", "restart", "poll"}
    None = None
    MaxDrafts = 2
    MaxRequests = 3
    MaxFaults = 1
    ListLimit = 2
    SubCap = 4
    OutboxCap = 1
PROPERTIES
    ApprovedSettles
    ImplementsContract
CHECK_DEADLOCK FALSE
