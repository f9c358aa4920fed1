SPECIFICATION Spec
CONSTANTS
    Tabs = {t1}
    Ticker = ticker
    Messages = {"ask", "echo", "echo2"}
    Replies = {"echo"}
    Blocked = {"ask"}
    People = {"me", "ann"}
    User = "me"
    Texts = {"ask", "echo"}
    Original <- MCOriginal
    Author <- MCAuthor
    Text <- MCText
    Mentions <- MCMentions
    Placeholder = "Local Extension User"
    Blank = ""
    None = "none"
    ConfigName = "Local Extension User"
    ConfigMail = "none"
    EventKinds = {"topics", "frame", "search"}
    ChangeKinds = {"mention", "skip", "unskip", "sync"}
    FaultKinds = {"statement", "abandon", "restart", "age"}
    RingCap = 1
    BatchSize = 1
    MaxPage = 2
    MaxEvents = 2
    MaxChanges = 1
    MaxFaults = 1
INVARIANTS
    TypeOK
    NothingPassedOver
    OnlyTheUserIsUs
    PunctualRepliesEndThere
    BlockedNeedsAClient
    UnskipStands
PROPERTIES
    Caught
CHECK_DEADLOCK FALSE
