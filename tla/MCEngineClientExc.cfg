CONSTANTS
    Var = {x, y}
    Blk = {b1, b2, b3}
    Client = {c1}
    None = None
    Opr <- All
    SyncOpr = {}
    AsyncOpr <- All
    BulkSizes = {}
    Deletable = {}
    MayThrow = TRUE
    MayShutDown = FALSE
SYMMETRY Symmetry
SPECIFICATION Spec
INVARIANTS NothingSwallowed NoRunOnPoison ThrownOnce
