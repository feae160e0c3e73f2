SPECIFICATION ClientSpec
CONSTANTS
    r1 = r1
    r2 = r2
    Ids <- MCIds
    MaxOutputs = 2
    InboxLimit = 1
SYMMETRY MCSymmetry
INVARIANTS
    NoOutputLost
    NobodyWaitsForTheDead
    NoOrphanRequest
PROPERTIES
    ImplementsGeneration
CHECK_DEADLOCK FALSE
