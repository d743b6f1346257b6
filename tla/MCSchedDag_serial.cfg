SPECIFICATION Spec
CONSTANTS
    MaxDags = 2
    Node <- Nodes3
    Blueprint <- BPsRetry
    BatchSize = 0
    FatalCascade = TRUE
    RetryDelay = 1
    Unlimited = Unlimited
    NoGraph = NoGraph
INVARIANTS StartedAfterDeps
PROPERTIES NoOutputAfterClose
