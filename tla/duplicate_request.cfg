\* Two calls of one client request, nothing fails.
CONSTANTS
    c1 = c1
    c2 = c2
    c3 = c3
    k1 = k1
    k2 = k2
    api1 = api1
    api2 = api2
    Nil = Nil
    Calls = {c1, c2}
    Ids = {k1}
    Hosts = {api1, api2}
    MaxErrors = 0
    MaxCrashes = 0
SPECIFICATION Spec
INVARIANTS HandledOnce
CHECK_DEADLOCK FALSE
