SPECIFICATION Spec
CONSTANTS
    Keys = {1}
    Deps <- NoDeps
    Callers = {c}
    MaxInvokes = 2
    Nobody = Nobody
PROPERTY AssertNotStarted
CHECK_DEADLOCK FALSE
