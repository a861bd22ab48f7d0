SPECIFICATION Spec
CONSTANTS
    Runner = {r1}
    Streaming = FALSE
    Overlap = FALSE
    TimeLimited = TRUE
    AllowForce = TRUE
    PublishFails = TRUE
    MaxTries = 2
    MaxJobs = 3
    MaxRetries = 1
    MaxDeliveries = 4
    MaxFaults = 2
CHECK_DEADLOCK FALSE
INVARIANTS TypeOK SuccessAnnounced
