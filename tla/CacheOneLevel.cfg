SPECIFICATION Spec
CONSTANTS
    MaxLevel = 1
    NumBlocks = 4
    NumSets <- Ones
    Ways <- Twos
    NumBanks <- Twos
    Latency <- Ones
    ReqQueueSize <- Ones
    AckQueueSize <- Ones
    EntryNum <- Twos
    EntrySize <- Twos
    ReqQueue2MemSize = 2
    MemorySize = 1
    MaxReturn = 1
    Accesses = {"READ"}
    Reqs = {r1, r2}
    NoId = NoId
SYMMETRY Symmetry
INVARIANTS
    TypeOK
    EachRequestOnce
    FetchOnTheWay
    OneLinePerBlock
