SPECIFICATION FairSpec
CONSTANTS
    t1 = t1  t2 = t2  t3 = t3  a = a  b = b  none = none
    Threads = {t1, t2, t3}
    Keys <- Keys5
    MaxKey = 5
    Vals = {a, b}
    NoVal = none
    MaxEntries = 2
    MaxNodes = 6
    CounterRange = 65536
    Scenarios <- SplitAndMerge
INVARIANTS TypeOK PrevIsLeft
PROPERTIES Linearizable CallsReturn
