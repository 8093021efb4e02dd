SPECIFICATION Spec
CONSTANTS
    NumLse = 3
    StoreLses <- LastStores
    NumSlots = 1
    NumBanks = 2
    Blocks <- ThreeBlocks
    ReqQueueSize = 1
    AckQueueSize = 1
    EntryNum = 1
    EntrySize = 2
    CacheAllHit = FALSE
    NoReq = NoReq
INVARIANTS
    TypeOK
    NoOverflow
    InflightExactlyOnce
    CoalescerMatchesTransactions
    CoalescerReservation
PROPERTY
    ImplementsPort
