SPECIFICATION FairEngineSpec
CONSTANTS
    r1 = r1
    r2 = r2
    Ids <- MCIds
    NumBlocks = 3
    BlockSize = 2
    MaxModelLen = 6
    MaxNumSeqs = 2
    MaxNumScheduledTokens = 2
    PromptLens = {1, 4}
    OutputLens = {3}
    OutboxLimit = 2
INVARIANTS
    OneOutputPerToken
PROPERTIES
    ImplementsService
    EveryInputServed
CHECK_DEADLOCK FALSE
