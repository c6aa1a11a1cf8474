CONSTANTS
    Var = {x, y}
    Blk = {b1, b2, b3}
    Thread = {t1, t2}
    None = None
    Opr <- MCOpr
SYMMETRY Symmetry
SPECIFICATION Spec
INVARIANTS Exclusion PushOrder ChecksHold NoDangling IInv
PROPERTY KeepsPromise
CHECK_DEADLOCK FALSE
