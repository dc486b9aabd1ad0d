SPECIFICATION FairSpec
CONSTANTS
    NThreads = 2
    Clients = {c1}
    Uses = {"send", "destroy"}
    Tasks = {t1, t2}
    NoTask = NoTask
    Spawns <- Nested
    Joins = {t1}
    QCap = 1
    SpinLimit = 1
    WaitPolicy = "epoch"
    t1 = t1
    t2 = t2
    t3 = t3
    c1 = c1
    c2 = c2
INVARIANT JoinFindsAwake
PROPERTIES SentTaskRuns DestructorEnds
CHECK_DEADLOCK FALSE
