SPECIFICATION FairSpec
CONSTANTS
    MaxAgents = 2
    MaxSpawn = 2
    MaxUnread = 1
    Spawner = {p1}
    Invoker = {i1, i2}
    Request = {r1}
    None = None
INVARIANTS  PipeIsClean TokenAlive RightChild
 
CHECK_DEADLOCK FALSE
