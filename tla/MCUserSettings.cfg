SPECIFICATION Spec
CONSTANTS
    Spaces = {s1}
    User = user
    Pages = {p1}
    Requests = {r1, r2}
    RequestKinds = {"settings", "safety", "auto", "space", "toggle", "reply", "mention"}
    Answers = {"flag", "clear", "error"}
    UICap = 2
    MaxRequests = 2
INVARIANTS
    TypeOK
    AckedWritesHold
    PageIsCurrent
    NothingRiskySlips
