SPECIFICATION FairSpec
CONSTANTS
    NumLse = 1
    StoreLses <- NoStores
    NumSlots = 2
    NumBanks = 4
    Blocks <- FarBlocks
    ReqQueueSize = 1
    AckQueueSize = 1
    EntryNum = 1
    EntrySize = 2
    CacheAllHit = TRUE
    NoReq = NoReq
PROPERTIES
    SentIsAnswered
    ImplementsPort
