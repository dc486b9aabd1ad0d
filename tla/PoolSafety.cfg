SPECIFICATION Spec
CONSTANTS
    NThreads = 2
    Clients = {c1}
    Uses = {"send", "parallel_for", "wait_or_work", "wait_for_all_tasks", "do_work", "destroy"}
    Tasks = {t1, t2}
    NoTask = NoTask
    Spawns <- Nested
    Joins = {t1}
    QCap = 1
    SpinLimit = 1
    WaitPolicy = "epoch"
    t1 = t1
    t2 = t2
    t3 = t3
    c1 = c1
    c2 = c2
INVARIANTS
    TypeOK
    
    CounterBalance
    NoLostWakeup
CHECK_DEADLOCK FALSE
