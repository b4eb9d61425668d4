\* One call at a time, one outage: the circuit is tested with a presigned URL.
CONSTANTS
    c1 = c1
    c2 = c2
    c3 = c3
    Nil = Nil
    Callers = {c1}
    Threshold = 2
    MaxRetries = 1
    MaxMishaps = 1
SPECIFICATION Spec
PROPERTY ClosesOnRecovery
CHECK_DEADLOCK FALSE
