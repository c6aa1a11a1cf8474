CONSTANTS
    Var = {x, y}
    Blk = {1, 2, 3}
    Thread = {t1}
    None = None
    Opr <- LiveOpr
SPECIFICATION OrderedFairSpec
PROPERTY EveryPushCompletes
