SPECIFICATION FairSpec
CONSTANTS
    NumSlots = 3
    Speedup = 1
    BufferSize = 1
    IsWrite = TRUE
    BranchMode = TRUE
    NoLatency = FALSE
    MaxReq = 5
INVARIANTS
    SendPtrConsistent
    AnswersFindInflight
    StoreValueMatches
PROPERTIES
    ImplementsPort
    HandedOn
