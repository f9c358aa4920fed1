SPECIFICATION Spec
CONSTANTS
    Tabs = {t1, t2}
    Spaces = {"s1", "dm"}
    Prefixed = {"s1", "dm"}
    Nameless = {"dm"}
    MessageCount = 3
    SpaceOf <- MCSpaceOf
    PageSize = 1
    Cap = 3
    LocalMail = FALSE
    Session = FALSE
    Inclusive = TRUE
INVARIANTS
    TypeOK
    FrontierStored
