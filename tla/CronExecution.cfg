SPECIFICATION FairSpec
CONSTANTS
    Daemon = Daemon
    Server = Server
    MaxTries = 2
    MaxPid = 2
    MaxQueueings = 2
    MaxLoad = 3
    MaxStarts = 1
CHECK_DEADLOCK FALSE
INVARIANTS
    TypeOK
    OneExecutionPerQueueing
    ReaperAwaitsRuntime
PROPERTIES
    TaskSettles
