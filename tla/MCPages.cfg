SPECIFICATION Spec
CONSTANTS
    Limits = {1, 2}
    MaxRows = 3
    MaxTime = 2
    MaxChanges = 3
INVARIANTS
    TypeOK
    MessagesOnce
    SentLogMissesNothing
    OffsetMissesBounded
CHECK_DEADLOCK FALSE
