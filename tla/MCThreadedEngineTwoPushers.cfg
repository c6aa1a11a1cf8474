CONSTANTS
    Var = {x, y}
    Blk = {1, 2}
    Thread = {t1, t2}
    None = None
    Opr <- CrossOpr
SPECIFICATION OrderedFairSpec
PROPERTY EveryPushCompletes
CHECK_DEADLOCK FALSE
