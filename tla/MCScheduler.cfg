SPECIFICATION SchedSpec
CONSTANTS
    r1 = r1
    r2 = r2
    r3 = r3
    Ids <- MCIds
    NumBlocks = 4
    BlockSize = 2
    MaxModelLen = 7
    MaxNumSeqs = 3
    MaxNumScheduledTokens = 3
    PromptLens = {1, 3, 6}
    OutputLens = {3}
SYMMETRY MCSymmetry
INVARIANTS
    SchedTypeOK
    ExclusiveBlocks
    NoLeakedBlock
    BlocksMatchComputed
    AllocatesWithinContract
    ScheduledCurrent
    ChunkOnlyAtTail
    OldestScheduled
PROPERTIES
    FirstComeFirstServed
    TablesStable
