SPECIFICATION FairSpec
CONSTANTS
    Contract = {c1, c2}
    MAX_RETRY = 3
    MaxConnections = 3
INVARIANTS
    TypeOK
    SilenceIsExplained
PROPERTY SessionSettles
CHECK_DEADLOCK FALSE
