SPECIFICATION Spec
CONSTANTS
    Jobs = {j1}
    Tabs = {t1}
    Slots = {s1}
    Messages = {a, b}
    FirstPages = {a}
    Invalid = {}
    BatchSize = 1
    FaultKinds = {}
    MaxFaults = 0
    None = None
    Uncounted = Uncounted
INVARIANTS
    CompletedIsStored
CHECK_DEADLOCK FALSE
