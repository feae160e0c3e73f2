SPECIFICATION Spec
CONSTANTS
    Buffers = {"loaded", "data", "created", "weights", "rope", "sampler", "workspace", "batch", "kv"}
    TotalBytes = 100
    BlockSize = 2
    Utilization = 60
    WeightBytes = 20
    PositionBytes = 1
    SamplerBytes = 2
    WorkspaceBytes = 7
    BatchBytes = 5
    BlockBytes = 6
    MaxSteps = 3
    MaxModelLens = {2, 6, 13}
    OtherBytes = {0, 5, 12, 26, 40, 60, 64, 68, 75, 78, 85}
INVARIANTS
    ViewsLive
    NothingLeftOnDevice
    AdmittedRequestsFit
    StepsSeparated
CHECK_DEADLOCK FALSE
