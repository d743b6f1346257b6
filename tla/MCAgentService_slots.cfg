SPECIFICATION Spec
CONSTANTS
    MaxAgents = 2
    MaxSpawn = 2
    MaxUnread = 1
    Spawner = {p1, p2}
    Invoker = {i1}
    Request = {r1}
    None = None
INVARIANT RunningIsRegistered
CHECK_DEADLOCK FALSE
