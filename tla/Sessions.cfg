SPECIFICATION FairSpec
CONSTANTS
    Request = {q1, q2}
    None = None
    MaxSessions = 2
    MaxVersion = 1
    MaxPending = 1
    MaxFaults = 1
CHECK_DEADLOCK FALSE
INVARIANTS TypeOK RotationBounded PendingBounded BarrenStale
PROPERTY RevocationTakesEffect
