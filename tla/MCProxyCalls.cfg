SPECIFICATION FairSpec
CONSTANTS
    Calls = {c1, c2}
    Tabs = {t1, t2}
    HubCap = 1
    MaxFaults = 1
INVARIANTS
    TypeOK
    VerdictEarned
    NoWaiterLeft
    NoAnswerLost
PROPERTIES
    EveryCallReturns
    ReaderNeverStalls
