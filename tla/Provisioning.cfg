SPECIFICATION FairSpec
CONSTANTS
    s1 = s1
    s2 = s2
    q1 = q1
    q2 = q2
    None = None
    Session = {s1, s2}
    Request = {q1, q2}
    MaxSlug = 2
    MaxFaults = 1
CHECK_DEADLOCK FALSE
INVARIANTS TypeOK SlugExclusive AllOrNothing ServedIsWhole
PROPERTY RetrySucceeds
