SPECIFICATION Spec
CONSTANTS
    NumSlots = 4
    Speedup = 2
    BufferSize = 1
    IsWrite = FALSE
    BranchMode = FALSE
    NoLatency = FALSE
    MaxReq = 6
INVARIANT AnswersFindInflight
