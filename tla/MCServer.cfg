SPECIFICATION FairServerSpec
CONSTANTS
    r1 = r1
    Ids <- MCIds
    MaxOutputs = 3
    InboxLimit = 1
INVARIANTS
    ResponseFaithful
    NothingLeftBehind
PROPERTIES
    ServeEnds
CHECK_DEADLOCK FALSE
