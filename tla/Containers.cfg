SPECIFICATION Spec
CONSTANTS
    Threads = {t1, t2, t3}
    Pair = {t1, t2}
    Items = {a, b, c}
    Unlinkable = {a, b}
    Queues = {q1, q2, q3}
    Nothing = Nothing
    Capacity = 2
    MaxKey = 2
    MaxLevel = 1
    MaxInserts = 3
    MaxListCalls = 4
    FirstBucket = 1
    MaxVectorCalls = 5
    MaxCheckouts = 4
    Totals = {0, 1, 2, 3, 4, 5, 6, 7, 8, 9}
    Nums = {1, 2, 3, 4, 5}
INVARIANTS
    TypeOK
    SetContract
    ReclaimSafe
    ReclaimerContract
    PartitionContract
PROPERTIES
    QueueContract
    
SYMMETRY Symmetry
CHECK_DEADLOCK FALSE
