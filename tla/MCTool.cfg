SPECIFICATION Spec
CONSTANTS
    TReqs <- MCReqs
    TCalls <- MCCalls
    TTool <- MCToolTab
    TWorkers = {w1, w2}
    TCap = 1
    TAcl <- MCAcl
    TRates = {0, 1}
    TBroken = {"gate", "sandbox", "cache"}
    GDirs <- MCDirs
    GLib <- MCLib
    GPerms = {"file_read"}
    GMaxPlugins = 1
    GThreads <- MCThreads
    GJobs <- MCJobs
    YBuiltin <- MCBuiltin
    YOffered <- MCOffered
    YSocks = {"maths", "mem"}
    YClients = {c1}
    YPolls = {q1, q2}
    YMaxLink = 3
    YMaxSock = 1
    YMaxStr = 3
    YMaxArr = 3
    YValues <- MCValues
    XWorkers = {"w1", "w2"}
    XJobs <- MCCmds
    XPipe = 1
    XCap = 2
    FWorkers = {"w1", "w2"}
    FTrees <- MCFsTrees
    FJobs <- MCFsJobs
    FNoise <- MCNoise
    FCap = 4
    FGlobMax = 3
    FGrepMax = 1
    FListMax = 2
    FMaxDepth = 1
    FMaxFile = 4
INVARIANTS
    DecisionHonoured
    HandedOver
    
    
    
CHECK_DEADLOCK FALSE
