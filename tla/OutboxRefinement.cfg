SPECIFICATION FairSpec
CONSTANTS
    Worker = {w1, w2}
    Publisher = {p1}
    Key = {}
    NoKey = NoKey
    NoWorker = NoWorker
    HandlerCount = 2
    BatchSize = 1
    BacklogLimit = 5
    MaxAttempts = 2
    RetryDelay = 1
    ClaimLease = 1
    HeartbeatLease = 1
    StaleAfter = 1
    Timeout = 1
    MaxRows = 1
    MaxFaults = 1
INVARIANTS
    TypeOK
    AckMeansHandled
    RetryBudget
PROPERTIES
    ImplementsAtLeastOnce
    
