SPECIFICATION ScanSpec
CONSTANTS
    t1 = t1  t2 = t2  s1 = s1  a = a  b = b  none = none
    Threads = {t1, t2}
    Scanners = {s1}
    StartKeys = {2}
    ScanRange = 6
    Keys <- MCKeys
    MaxKey = 10
    Vals = {a, b}
    NoVal = none
    MaxEntries = 4
    MaxNodes = 6
    CounterRange = 65536
    Scenarios <- Mixed
INVARIANTS RangesMeet BackLinks UnlockedAtRest ScanInOrder ScanMissesNothing
PROPERTY Linearizable
