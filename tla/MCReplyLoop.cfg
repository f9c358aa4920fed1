SPECIFICATION Spec
CONSTANTS
    Tabs = {t1}
    Ticker = ticker
    Messages = {"ask", "echo"}
    Replies = {"echo"}
    Blocked = {}
    People = {"me", "ann"}
    User = "me"
    Texts = {"ask", "echo"}
    Original <- MCOriginal
    Author <- MCAuthor
    Text <- MCText
    Mentions <- MCMentions
    Placeholder = "Local Extension User"
    Blank = ""
    None = "none"
    ConfigName = "Local Extension User"
    ConfigMail = "none"
    EventKinds = {"frame"}
    ChangeKinds = {}
    FaultKinds = {}
    RingCap = 2
    BatchSize = 1
    MaxPage = 2
    MaxEvents = 2
    MaxChanges = 1
    MaxFaults = 1
INVARIANTS
    NoReplyLoop
CHECK_DEADLOCK FALSE
