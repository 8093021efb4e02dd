SPECIFICATION FairSpec
CONSTANTS
    MaxLevel = 1
    NumBlocks = 2
    NumSets <- Ones
    Ways <- Ones
    NumBanks <- Ones
    Latency <- Zeros
    ReqQueueSize <- Ones
    AckQueueSize <- Ones
    EntryNum <- Twos
    EntrySize <- Twos
    ReqQueue2MemSize = 2
    MemorySize = 1
    MaxReturn = 1
    Accesses = {"READ"}
    Reqs = {r1, r2}
    NoId = NoId
PROPERTY AcceptedIsAnswered
