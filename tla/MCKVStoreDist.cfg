SPECIFICATION FairSpec
CHECK_DEADLOCK FALSE
CONSTANTS
    Worker = {w0, w1}
    Server = {s1, s2}
    Key = {k}
    Rank0 = w0
    Shards <- AllShards
    Rounds = 2
    Confs <- MCConfs
    Cmd = Cmd
    NoValue = NoValue
INVARIANTS
    IInv
    RoundsExact
    PullSeesRound
    AnsweredIsApplied
    ChecksHold
    StopsLast
PROPERTIES
    OptimizerKept
    AllEnd
