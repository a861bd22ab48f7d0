SPECIFICATION Spec
CONSTANTS
    Item = {i1}
    Part = {b1, b2}
    Runner = {r1, r2}
    MaxVersion = 2
    MaxDisc = 1
    MaxEmb = 2
    MaxIdx = 2
    MaxFaults = 1
CHECK_DEADLOCK FALSE
SYMMETRY Symmetry
INVARIANTS TypeOK ReadyMeansVerified ChainUnbroken
