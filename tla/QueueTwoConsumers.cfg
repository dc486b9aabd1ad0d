SPECIFICATION Spec
CONSTANTS
    p1 = p1  p2 = p2  k1 = k1  k2 = k2  x1 = x1
    Producers = {p1, p2}
    Consumers = {k1, k2}
    Pollers = {}
    MaxSize = 2
    MaxItems = 3
INVARIANT ConsumersWake
CHECK_DEADLOCK FALSE
