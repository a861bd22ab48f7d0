SPECIFICATION Spec
CONSTANTS
    Worker = {w1, w2}
    Publisher = {p1, p2}
    Key = {k1}
    NoKey = NoKey
    NoWorker = NoWorker
    HandlerCount = 1
    BatchSize = 2
    BacklogLimit = 1
    MaxAttempts = 2
    RetryDelay = 1
    ClaimLease = 3
    HeartbeatLease = 3
    StaleAfter = 4
    Timeout = 2
    MaxRows = 3
    MaxFaults = 1
CONSTRAINT UpToOverrun
SYMMETRY Symmetry
VIEW WithoutThreads
INVARIANTS
    ExclusiveDispatch
    IdempotentAppend
    

    
