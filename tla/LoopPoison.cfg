SPECIFICATION Spec
CONSTANTS
    DGSF = {}
    CondChans = {}
    TruePath = {}
    FalsePath = {}
    Chans <- Nest2Chans
    Lses = {"st", "lse"}
    Upstream <- Nest2Up
    Size <- TwoEach
    Cycle <- Zeros
    Speedup <- Ones
    KeepMode = {"i_lc"}
    DrainMode = {"sum"}
    LoopVars = {"i_var", "j_var"}
    Lcs = {"i", "j"}
    OuterMost = {"i"}
    Bound <- Bound23
    Program <- Nest2Program
    Nest <- Nest2Nest
    loopVar <- MCloopVar
    outChan <- MCoutChan
    getEnd <- MCgetEnd
    sendEnd <- MCsendEnd
    ChanEnd = "end"
INVARIANT NoPoisonData
CHECK_DEADLOCK FALSE
