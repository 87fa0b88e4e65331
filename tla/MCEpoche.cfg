SPECIFICATION Spec
CONSTANTS
    Threads = {t1, t2}
    Nodes = {n1, n2, n3}
    NoThread = none
    LabelSize = 2
    EpochPeriod = 2
    StartGC = 1
    MaxEpoch = 3
SYMMETRY Symmetry
INVARIANTS NoUseAfterFree QuietMeansReclaimable
