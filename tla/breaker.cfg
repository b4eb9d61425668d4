\* Three calls at a time; two mishaps: an outage, a missing object or a crash.
CONSTANTS
    c1 = c1
    c2 = c2
    c3 = c3
    Nil = Nil
    Callers = {c1, c2, c3}
    Threshold = 2
    MaxRetries = 1
    MaxMishaps = 2
SPECIFICATION FairSpec
INVARIANTS TypeOK ReadyMeansBuckets WaitersHaveATest OpensForCause
PROPERTIES OutageIsOvercome EveryCallReturns
CHECK_DEADLOCK FALSE
