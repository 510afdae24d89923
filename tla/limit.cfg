CONSTANTS
    q1 = q1
    q2 = q2
    q3 = q3
    q4 = q4
    Request <- FourRequests
    Limit = 2
    Window = 4
    Second = 2
    Patience = 1
    MaxTime = 8
SPECIFICATION Spec
INVARIANT WindowKept
PROPERTY RetryHonest
SYMMETRY Alike
CHECK_DEADLOCK FALSE
