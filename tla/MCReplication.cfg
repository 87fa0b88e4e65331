\* Two threads log the insertion and removal of two nodes; two workers.
SPECIFICATION Spec
CONSTANTS
    n1 = n1
    n2 = n2
    t1 = t1
    t2 = t2
    NoNode = NoNode
    Nodes = {n1, n2}
    Keys <- OneKey
    MaxKey = 9
    CounterRange = 65536
    MinOf <- SameMin
    Threads = {t1, t2}
    NumWorkers = 2
    QueueCapacity = 4
    FreeBatch = 2
    DrainRounds = 2
    MaxOps = 3
SYMMETRY ThreadSymmetry
INVARIANTS
    TypeOK
    QueuedLogsAlive
    ExactlyOnce
    QueueIsBacklog
    ReplicasAgree
    StopMeansDrained
    NodesFreedLast
