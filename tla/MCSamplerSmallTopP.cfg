SPECIFICATION SamplerSpec
CONSTANTS
    VocabSize = 5
    NumThreads = 2
    LoadWidth = 1
    TileWidth = 2
    Radix = 4
    LogitCodes = {10, 8, 1}
    One = 4
    TopKs = {0, 1, 2, 3, 5}
    RequestTopPs = {1, 4, 12, 16}
    Coolings = {0, 1, 2}
PROPERTIES
    SamplingEnds
CHECK_DEADLOCK FALSE
