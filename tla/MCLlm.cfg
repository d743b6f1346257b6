SPECIFICATION Spec
CONSTANTS
    Config <- MCConfig
    ProvOf <- MCProvOf
    Priority <- MCPriority
    Cost <- MCCost
    Window <- MCWindow
    MaxEps = 2
    Wrap = 64
    FailMax = 2
    FailWindow = 3
    OpenMs = 2
    OpenMaxMs = 3
    MaxLevel = 1
    ProbeMs = 2
    ProbeMax = 2
    DeepEvery = 2
    Sweeper = {"s1"}
    Latency = {5}
    RClockStart = 1
    MaxLag = 1
    RMaxTick = 3
    RMaxOps = 3
    CPairs <- MCPairs
    MaxRows = 3
    MaxProvs = 2
    Boot <- MCBoot
    Slots <- MCSlots
    FoSet = {"transport", "auth"}
    MaxTried = 8
    DefDepth = 2
    RetiredMax = 1
    MaxRetries = 0
    SReq = {"t1", "t2"}
    SJobs <- MCSJobs
    SErr = {"ok", "transport"}
    SModel = {"m1"}
    Reloader = {"l1"}
    PJobs <- MCJobs
    PBody <- MCBody
    PMaxRetries = 2
    PRpm = 1
    PToolMax = 2
    PSlots = 2
    PFloor = 3
    PCap = 5
    PKeys = {"k1", "k2"}
    PMaxSpan = 1
    WMsg <- MCMsg
    WOpt <- MCOpt
    WCaps <- MCCaps
    WResp <- MCResp
    WMaxMsgs = 2
    WMsgTokens = 4
    LWorker = {"w1", "w2"}
    LModel = {"m"}
    LRules <- MCRules
    LFlushOps = 2
    LU32 = 2
    LMaxAdds = 2
    LMaxCrash = 1
INVARIANTS
    
    
    HeldRegistryAlive
    
    
    WireHolds
    NoOvercharge
\* a unit stops when its requests are served and its bounds are spent
CHECK_DEADLOCK FALSE
