SPECIFICATION Spec
CONSTANTS
    Jobs = {j1}
    Tabs = {t1, t2}
    Slots = {s1, s2}
    Messages = {a, bad, late}
    FirstPages = {a, bad}
    Invalid = {bad}
    BatchSize = 2
    FaultKinds = {"skip", "scan", "lose", "statement", "reload"}
    MaxFaults = 2
    None = None
    Uncounted = Uncounted
INVARIANTS
    TypeOK
    InsertedIsExact
    ReadIsAccountedFor
PROPERTIES
    UndisturbedScanSettles
CHECK_DEADLOCK FALSE
