SPECIFICATION ExecSpec
CONSTANTS
    r1 = r1
    r2 = r2
    r3 = r3
    Ids <- MCIds
    NumBlocks = 4
    BlockSize = 2
    MaxModelLen = 7
    MaxNumSeqs = 3
    MaxNumScheduledTokens = 3
    PromptLens = {1, 3, 6}
    OutputLens = {3}
    GroupSize = 2
    WarpRows = 1
    TileRows = 4
    TileKeys = 2
    Alignment = 2
SYMMETRY MCSymmetry
INVARIANTS
    ReadsOwnTokens
    SamplesFromLastToken
    UploadFits
