SPECIFICATION FairSpec
CONSTANTS
    Process = {worker, h1}
    Worker = worker
    Event = {e1}
    Never = Never
    Paid = 2
    Month = 2
    Window = 1
    Grace = 2
    MaxDay = 4
    MaxFailed = 1
    MaxOps = 2
    MaxCrashes = 1
CHECK_DEADLOCK FALSE
INVARIANTS TypeOK EventAppliedOnce
PROPERTIES LimitsConverge PayerIsServed
