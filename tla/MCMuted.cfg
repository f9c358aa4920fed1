SPECIFICATION Spec
CONSTANTS
    Tabs = {t1}
    Ticker = ticker
    Messages = {"ask", "memo"}
    Replies = {}
    Blocked = {}
    People = {"me", "ann"}
    User = "me"
    Texts = {"ask", "memo"}
    Original <- MCOriginal
    Author <- MCAuthor
    Text <- MCText
    Mentions <- MCMentions
    Placeholder = "Local Extension User"
    Blank = ""
    None = "none"
    ConfigName = "Local Extension User"
    ConfigMail = "me"
    EventKinds = {"topics", "frame"}
    ChangeKinds = {"mention"}
    FaultKinds = {}
    RingCap = 2
    BatchSize = 1
    MaxPage = 2
    MaxEvents = 3
    MaxChanges = 1
    MaxFaults = 1
PROPERTIES
    MentionsAreNotMuted
CHECK_DEADLOCK FALSE
