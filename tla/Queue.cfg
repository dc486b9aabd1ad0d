SPECIFICATION FairSpec
CONSTANTS
    p1 = p1  p2 = p2  k1 = k1  k2 = k2  x1 = x1
    Producers = {p1, p2}
    Consumers = {k1}
    Pollers = {x1}
    MaxSize = 2
    MaxItems = 4
INVARIANTS TypeOK ProducersWake ConsumersWake
PROPERTIES PushReturns ItemsLeave
CHECK_DEADLOCK FALSE
