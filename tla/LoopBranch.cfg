SPECIFICATION FairSpec
CONSTANTS
    DGSF = {}
    CondChans = {"cond"}
    TruePath = {"t"}
    FalsePath = {"f1", "f2"}
    Chans <- BranchChans
    Lses = {"lse", "st"}
    Upstream <- BranchUp
    Size <- OneInBody
    Cycle <- LatePaths
    Speedup <- SpeedPaths
    KeepMode = {}
    DrainMode = {}
    LoopVars = {"i_var"}
    Lcs = {"i"}
    OuterMost = {"i"}
    Bound <- Bound5
    Program <- BranchProgramBack
    Nest <- BranchNest
    loopVar <- MCloopVar
    outChan <- MCoutChan
    getEnd <- MCgetEnd
    sendEnd <- MCsendEnd
    ChanEnd = "end"
INVARIANTS InIterationOrder CondOfIteration BufferWithinSize EndMeansDone
PROPERTY Completes
CHECK_DEADLOCK FALSE
