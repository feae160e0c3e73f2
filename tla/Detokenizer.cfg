SPECIFICATION DetokenizerSpec
CONSTANTS
    ContextLen = 2
    MaxPrompt = 3
    MaxTokens = 5
INVARIANTS
    PiecesFaithful
CHECK_DEADLOCK FALSE
