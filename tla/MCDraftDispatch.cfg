SPECIFICATION Spec
CONSTANTS
    Tabs = {t1}
    Workers = {w1, w2}
    Messages = {m1}
    Bodies = {plain, money}
    Flagged = {money}
    RequestKinds = {"reply", "approve", "reject", "patch"}
    FaultKinds = {"abort", "statement", "disconnect", "reload", "restart", "poll"}
    None = None
    MaxDrafts = 1
    MaxRequests = 3
    MaxFaults = 1
    ListLimit = 2
    SubCap = 2
    OutboxCap = 1
INVARIANTS
    TypeOK
    OnlyApprovedTextIsPosted
    FlaggedTextNeedsAHuman
    SentWasPosted
SYMMETRY Symmetry
CHECK_DEADLOCK FALSE
