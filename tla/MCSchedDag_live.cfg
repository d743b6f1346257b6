SPECIFICATION FairSpec
CONSTANTS
    MaxDags = 2
    Node <- Nodes3
    Blueprint <- BPsPlain
    BatchSize = 2
    FatalCascade = TRUE
    RetryDelay = 1
    Unlimited = Unlimited
    NoGraph = NoGraph
INVARIANTS GraphVerdict RunningIsOwned NoStuckGraph
PROPERTIES GraphConverges
