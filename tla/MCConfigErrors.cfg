SPECIFICATION Spec
CONSTANTS
    thread_num = 2
    queue_size = 1
    LogCapacity = 1
    Unwinds = TRUE
INVARIANT ConfigErrorsLogged
CHECK_DEADLOCK FALSE
