SPECIFICATION FairSpec
CONSTANTS
    f1 = f1  f2 = f2  f3 = f3  f4 = f4
    NoFn = NoFn
    Fns = {f1, f2, f3, f4}
    Throws = {f2, f3, f4}
    Spawns <- Nested
INVARIANTS TypeOK ScopeOutlivesFns FailureReported UnreportedTerminates
PROPERTY OwnerReturns
CHECK_DEADLOCK FALSE
