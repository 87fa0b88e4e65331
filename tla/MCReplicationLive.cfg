SPECIFICATION FairSpec
CONSTANTS
    n1 = n1
    n2 = n2
    t1 = t1
    t2 = t2
    NoNode = NoNode
    Nodes = {n1}
    Keys <- OneKey
    MaxKey = 9
    CounterRange = 65536
    MinOf <- OneMin
    Threads = {t1, t2}
    NumWorkers = 2
    QueueCapacity = 4
    FreeBatch = 1
    DrainRounds = 2
    MaxOps = 2
PROPERTIES
    EveryOpReachesReplicas
    ShutdownCompletes
