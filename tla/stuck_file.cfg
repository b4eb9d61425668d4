\* A crash in the last steps of an execution, and its retry.
CONSTANTS
    api = api
    worker = worker
    f1 = f1
    r1 = r1
    f2 = f2
    r2 = r2
    r3 = r3
    Nil = Nil
    Files = {f1}
    Procs = {api}
    ApiProcs = {api}
    Requests = {r1}
    Operations = {"upload"}
    Faulty = {}
    Outliving = {}
    MaxEntries = 2
    MaxAttempts = 3
    MaxStalls = 1
    LiveStalls = FALSE
    MaxCrashes = 1
    MaxRepairs = 0
SPECIFICATION Spec
INVARIANT SettledFileMatchesJob
CHECK_DEADLOCK FALSE
