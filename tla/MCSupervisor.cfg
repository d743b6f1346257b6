SPECIFICATION FairSpec
CONSTANTS
    Daemon <- MCDaemon
    Core <- MCCore
    HasSock <- MCSock
    BackoffBase = 1
    BackoffMax = 2
    MaxAttempts = 2
    LivenessTicks = 2
    Grace = 1
INVARIANTS OneChildPerEntry NoRestartStorm ExitLeavesNoChild
PROPERTIES CoreIsRetried HungIsKilled ShutdownEnds
CHECK_DEADLOCK FALSE
