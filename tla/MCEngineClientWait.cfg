CONSTANTS
    Var = {x}
    Blk = {b1, b2}
    Client = {c1, c2}
    None = None
    Opr <- All
    SyncOpr = {}
    AsyncOpr <- All
    BulkSizes = {}
    Deletable = {}
    MayThrow = FALSE
    MayShutDown = TRUE
SPECIFICATION FairSpec
PROPERTY WaitReturns
CHECK_DEADLOCK FALSE
