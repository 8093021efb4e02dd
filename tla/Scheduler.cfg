SPECIFICATION SchedFairSpec
CONSTANTS
    Chans <- ChainChans
    Lses = {"st"}
    Upstream <- ChainUp
    Size <- TwoEach
    Cycle <- LateAD
    Speedup <- Ones
    KeepMode = {}
    DrainMode = {}
    LoopVars = {"i_var"}
    CondChans = {}
    TruePath = {}
    FalsePath = {}
    DGSF = {"a_D", "b_D", "c_D", "d_D"}
    Lcs = {"i"}
    OuterMost = {"i"}
    Bound <- Bound5
    Program <- ChainProgram
    Nest <- ChainNest
    loopVar <- ChainLoopVar
    outChan <- ChainOutChan
    getEnd <- ChainGetEnd
    sendEnd <- ChainSendEnd
    ChanEnd = "end"
    Producers <- ChainProducers
    Consumers <- ChainConsumers
    Divergence <- ChainDivergence
INVARIANTS InIterationOrder BufferWithinSize EndMeansDone OverMeansDone
PROPERTY Completes
CHECK_DEADLOCK FALSE
