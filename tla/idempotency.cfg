\* Three calls under one id, two processes, an error, a crash.
CONSTANTS
    c1 = c1
    c2 = c2
    c3 = c3
    k1 = k1
    k2 = k2
    api1 = api1
    api2 = api2
    Nil = Nil
    Calls = {c1, c2, c3}
    Ids = {k1}
    Hosts = {api1, api2}
    MaxErrors = 1
    MaxCrashes = 1
SPECIFICATION FairSpec
INVARIANTS OneHandler AnsweredIsRemembered
PROPERTIES RetriedIsAnswered
CHECK_DEADLOCK FALSE
