CONSTANTS
    Var = {x, y}
    Blk = {b1, b2, b3}
    Client = {c1}
    None = None
    Opr <- All
    SyncOpr = {}
    AsyncOpr <- All
    BulkSizes = {}
    Deletable = {x, y}
    MayThrow = TRUE
    MayShutDown = FALSE
SPECIFICATION Spec
PROPERTY DeletionRuns
