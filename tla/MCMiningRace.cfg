SPECIFICATION Spec
CONSTANTS
    Spaces = {s1}
    Requests = {r1, r2}
    Miners = {m1}
    MaxTip = 1
PROPERTIES
    RunningStays
