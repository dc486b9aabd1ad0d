SPECIFICATION FairSpec
CONSTANTS
    c1 = c1  w1 = w1  w2 = w2  a = a  b = b  j = j  k = k  n = n
    NoTask = NoTask
    Clients = {c1}
    Workers = {w1, w2}
    Tasks = {a, b, j, k, n}
    Prog <- ForkJoin
    After <- ForkJoinAfter
    InlineSends = TRUE
INVARIANTS TypeOK RefsHeld RunsOnce WaitSeesGraph NoLeak
PROPERTIES ImplementsTaskGraph WaitsReturn
CHECK_DEADLOCK FALSE
