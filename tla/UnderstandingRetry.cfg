SPECIFICATION FairSpec
CONSTANTS
    Runner = {r1, r2}
    Streaming = FALSE
    Overlap = FALSE
    TimeLimited = FALSE
    AllowForce = FALSE
    PublishFails = FALSE
    MaxTries = 3
    MaxJobs = 2
    MaxRetries = 2
    MaxDeliveries = 4
    MaxFaults = 0
CHECK_DEADLOCK FALSE
PROPERTY ItemSettles
