SPECIFICATION Spec
CHECK_DEADLOCK FALSE
CONSTANTS
    c1 = c1
    c2 = c2
    N = 2
    TrainerConfs <- UsualTrainers
    MaxBackward = 0
    MaxCalls = 0
    b1 = b1
    b2 = b2
    Bucket = {b1, b2}
    Default = b1
    ModuleConfs <- SetOnKVStore
    Epochs = 3
    Batches = 2
    MaxUserCalls = 3
    MaxCrashes = 1
    None = None
    MaxBatch = 8
    MaxLoad = 3
    MaxDevices = 4
INVARIANTS
    DevicesCurrent
