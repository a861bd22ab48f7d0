SPECIFICATION FairSpec
CONSTANTS
    Process = {worker, h1}
    Worker = worker
    Never = Never
    Notice = 1
    Grace = 2
    Ahead = 1
    MaxRequests = 2
    MaxCrashes = 1
CHECK_DEADLOCK FALSE
INVARIANTS TypeOK DeletionIsDue
PROPERTY CancellationCompletes
