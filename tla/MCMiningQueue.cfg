SPECIFICATION Spec
CONSTANTS
    Spaces = {s1, s2}
    Requests = {r1, r2}
    Miners = {m1}
    MaxTip = 2
INVARIANTS
    TypeOK
    EnqueueHonoured
PROPERTIES
    MinedNeverBack
