SPECIFICATION FairSpec
CONSTANTS
    DGSF = {}
    CondChans = {}
    TruePath = {}
    FalsePath = {}
    Chans <- NestChans
    Lses = {"st"}
    Upstream <- NestUp
    Size <- TwoEach
    Cycle <- LateBody
    Speedup <- Ones
    KeepMode = {"i_lc"}
    DrainMode = {"sum"}
    LoopVars = {"i_var", "j_var"}
    Lcs = {"i", "j"}
    OuterMost = {"i"}
    Bound <- Bound3
    Program <- NestProgram
    Nest <- NestNest
    loopVar <- MCloopVar
    outChan <- MCoutChan
    getEnd <- MCgetEnd
    sendEnd <- MCsendEnd
    ChanEnd = "end"
INVARIANTS InIterationOrder KeptUntilLast KeptForOneLoop EndMeansDone
PROPERTY Completes
CHECK_DEADLOCK FALSE
