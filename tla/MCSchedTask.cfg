SPECIFICATION FairSpec
CONSTANTS
    Cap = 4
    Request <- Requests
    AgentInfo <- Agents
    MaxAgents = 2
    Strategies <- RR
    MaxSelections = 1
    None = None
INVARIANTS QueueIsPending HallTellsOneStory
PROPERTIES IsPriorityQueue TaskLeavesQueue
