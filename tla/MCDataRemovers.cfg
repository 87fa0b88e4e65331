SPECIFICATION FairSpec
CONSTANTS
    t1 = t1  t2 = t2  t3 = t3  a = a  b = b  none = none
    Threads = {t1, t2}
    Keys <- Keys7
    MaxKey = 7
    Vals = {a, b}
    NoVal = none
    MaxEntries = 4
    MaxNodes = 6
    CounterRange = 65536
    Scenarios <- TwoRemovers
PROPERTY CallsReturn
