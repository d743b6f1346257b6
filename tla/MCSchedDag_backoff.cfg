SPECIFICATION FairSpec
CONSTANTS
    MaxDags = 1
    Node <- Nodes3
    Blueprint <- BPsJoin
    BatchSize = 0
    FatalCascade = TRUE
    RetryDelay = 1
    Unlimited = Unlimited
    NoGraph = NoGraph
PROPERTIES GraphConverges
