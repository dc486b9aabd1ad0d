SPECIFICATION Spec
CONSTANTS
    Workers = {1, 2}
    Only = 1
    Callers = {3, 4}
    Owner = 3
    Parties = {1, 2, 3}
    Tasks = {a, b}
    Nobody = Nobody
    JobCallers = {3}
    QueueLimit = 1
    ObjectLimit = 2
    JobKeys = {1, 2}
    JobDeps <- Chain
    MaxInvokes = 3
    InitialSize = 1
    Growth <- Double
    MaxCalls = 4
    Rounds = 2
INVARIANTS
    TypeOK
    ObjectInOrder
    MemorySafe
    BarrierSafe
PROPERTIES
    PoolSafe
    JobsSafe
    
CHECK_DEADLOCK FALSE
