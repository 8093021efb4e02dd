SPECIFICATION Spec
CONSTANTS
    MaxLevel = 1
    NumBlocks = 2
    NumSets <- Ones
    Ways <- Ones
    NumBanks <- Ones
    Latency <- Zeros
    ReqQueueSize <- Ones
    AckQueueSize <- Ones
    EntryNum <- Ones
    EntrySize <- Ones
    ReqQueue2MemSize = 2
    MemorySize = 1
    MaxReturn = 1
    Accesses = {"WRITE"}
    Reqs = {r1}
    NoId = NoId
PROPERTY DirtyIsWrittenBack
