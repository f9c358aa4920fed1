SPECIFICATION Spec
CONSTANTS
    Tabs = {t1}
    Ticker = ticker
    Messages = {"ask", "ask2", "echo", "echo2"}
    Replies = {"echo"}
    Blocked = {}
    People = {"me", "ann"}
    User = "me"
    Texts = {"ask", "echo"}
    Original <- MCOriginal
    Author <- MCAuthor
    Text <- MCText
    Mentions <- MCMentions
    Placeholder = "Local Extension User"
    Blank = ""
    None = "none"
    ConfigName = "Local Extension User"
    ConfigMail = "none"
    EventKinds = {"topics"}
    ChangeKinds = {"sync"}
    FaultKinds = {}
    RingCap = 1
    BatchSize = 1
    MaxPage = 2
    MaxEvents = 2
    MaxChanges = 1
    MaxFaults = 1
INVARIANTS
    EachAnsweredOnce
CHECK_DEADLOCK FALSE
