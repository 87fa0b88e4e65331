SPECIFICATION Spec
CONSTANTS
    t1 = t1  t2 = t2  t3 = t3
    Threads = {t1, t2, t3}
    Words = {1, 2}
    Values = {0, 1}
    NotRead = none
    MaxVersion = 6
PROPERTIES NoTornRead ImplementsOptimisticLock
SYMMETRY Symmetry
