SPECIFICATION ItersSpec
CHECK_DEADLOCK FALSE
CONSTANTS
    N = 2
    Size <- TwoThree
    Pad <- NoPad
    Faulty = {1}
    MaxResets = 2
    w1 = w1
    w2 = w2
    Confs <- SmallConfs
    ResizeConfs <- SmallResizeConfs
    Worker <- TwoWorkers
    Length = 3
    BatchSize = 2
    LastBatches = {"keep", "discard", "rollover"}
    Shuffle = TRUE
    Prefetch = 1
    Fields = 0
    Bad = {1}
    MaxIters = 2
INVARIANTS
    NoOverlap
    Aligned
    LabelsMatch
    NothingLost
    Cyclic
    DeliversInOrder
    EpochsAddUp
PROPERTIES
    InSequence
    CallReturns
    NextReturns
