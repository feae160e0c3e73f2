SPECIFICATION Spec
CONSTANTS
    GroupSize = 3
    WarpRows = 2
    TileRows = 4
    TileKeys = 3
    MaxReqs = 3
    QueryLens = {1, 2, 3, 5}
    PrefixLens = {0, 2, 3}
    Warps = {0, 1, 2}
    MaxKeySteps = 2
    MaxExponentGap = 1
    Lanes = 2
    StepKeys = 2
    Precision = 5
    Scores = {0, 1, 2, 5}
    MaxScores = 6
    WarpSize = 32
    Vec = 8
    AddThreads = 8
    MaxAddBlocks = 2
    LoopThreads = 2
    MaxTokens = 3
INVARIANTS
    CausalAttention
    SharedMemoryIntact
    SoftmaxExact
    RowKernelsExact
CHECK_DEADLOCK FALSE
