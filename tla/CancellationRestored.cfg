SPECIFICATION Spec
CONSTANTS
    Process = {worker}
    Worker = worker
    Never = Never
    Notice = 1
    Grace = 1
    Ahead = 1
    MaxRequests = 2
    MaxCrashes = 1
CHECK_DEADLOCK FALSE
INVARIANT RestoredIsKept
