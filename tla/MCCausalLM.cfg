SPECIFICATION MCSpec
CONSTANTS
    VocabSize = 3
    HiddenSize = 2
    IntermediateSize = 3
    HeadDim = 1
    QSize = 2
    KVSize = 1
    NumLayers = 2
    WeightAlignment = 4
    UploadChunkSize = 4
    OtherNames = {"rotary_emb.inv_freq"}
    MaxTokens = 3
    MaxSamplingReqs = 2
    WorkspaceAlignment = 4
INVARIANTS
    WeightsWhole
    AliasingInvisible
CHECK_DEADLOCK FALSE
