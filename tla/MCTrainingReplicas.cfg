SPECIFICATION Spec
CHECK_DEADLOCK FALSE
CONSTANTS
    c1 = c1
    c2 = c2
    N = 2
    TrainerConfs <- TimedReplicas
    MaxBackward = 2
    MaxCalls = 4
    b1 = b1
    b2 = b2
    Bucket = {b1, b2}
    Default = b1
    ModuleConfs <- UsualModules
    Epochs = 3
    Batches = 2
    MaxUserCalls = 0
    MaxCrashes = 1
    None = None
    MaxBatch = 8
    MaxLoad = 3
    MaxDevices = 4
INVARIANTS
    ReplicasAgree
