SPECIFICATION FairClientSpec
CONSTANTS
    r1 = r1
    r2 = r2
    Ids <- MCOneId
    MaxOutputs = 2
    InboxLimit = 1
PROPERTIES
    CloseCompletes
    EveryCallEnds
CHECK_DEADLOCK FALSE
