SPECIFICATION Spec
CONSTANTS
    MaxLevel = 2
    NumBlocks = 2
    NumSets <- Ones
    Ways <- Ones
    NumBanks <- Ones
    Latency <- Zeros
    ReqQueueSize <- Ones
    AckQueueSize <- Ones
    EntryNum <- TwoThenOne
    EntrySize <- Twos
    ReqQueue2MemSize = 1
    MemorySize = 1
    MaxReturn = 1
    Accesses = {"READ", "WRITE"}
    Reqs = {r1, r2}
    NoId = NoId
SYMMETRY Symmetry
INVARIANTS
    TypeOK
    EachRequestOnce
    FetchOnTheWay
\* the assertion in updateAckQueue stops the program
CHECK_DEADLOCK FALSE
