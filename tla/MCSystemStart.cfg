SPECIFICATION FairSpec
CONSTANTS
    thread_num = 2
    queue_size = 1
    LogCapacity = 1
    Unwinds = TRUE
INVARIANTS
    TypeOK
    NoUseAfterRelease
    CallbacksFindAll
    CleanUnwinding
PROPERTY StartSettles
CHECK_DEADLOCK FALSE
