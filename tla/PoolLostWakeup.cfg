SPECIFICATION Spec
CONSTANTS
    NThreads = 1
    Clients = {c1}
    Uses = {"send"}
    Tasks = {t1, t2}
    NoTask = NoTask
    Spawns <- Flat
    Joins = {}
    QCap = 2
    SpinLimit = 1
    WaitPolicy = "cv"
    t1 = t1
    t2 = t2
    t3 = t3
    c1 = c1
    c2 = c2
INVARIANT
    NoLostWakeup
