CONSTANTS
    Var = {x}
    Blk = {b1, b2, b3}
    Client = {c1, c2}
    None = None
    Opr <- All
    SyncOpr <- All
    AsyncOpr = {}
    BulkSizes = {0, 2}
    Deletable = {x}
    MayThrow = FALSE
    MayShutDown = FALSE
SYMMETRY Symmetry
SPECIFICATION Spec
INVARIANT TypeOK
PROPERTY WaitSeesOwnWrites
