SPECIFICATION FairSpec
CONSTANTS
    Request = {q1, q2}
    None = None
    Daily = 1
    Concurrency = 1
    Ttl = 2
    Hold = 1
    MaxDay = 1
    MaxRequests = 4
    MaxFaults = 2
CHECK_DEADLOCK FALSE
INVARIANTS TypeOK QuotaKept ConcurrencyBounded Balanced
PROPERTY SharesReturn
