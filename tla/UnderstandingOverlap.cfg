SPECIFICATION Spec
CONSTANTS
    Runner = {r1, r2}
    Streaming = TRUE
    Overlap = TRUE
    TimeLimited = TRUE
    AllowForce = TRUE
    PublishFails = FALSE
    MaxTries = 2
    MaxJobs = 2
    MaxRetries = 1
    MaxDeliveries = 2
    MaxFaults = 1
CHECK_DEADLOCK FALSE
SYMMETRY Symmetry
INVARIANTS DiscoveryHasChunks SingleCopy
PROPERTY ChunkVersionGrows
