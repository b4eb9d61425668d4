\* A deletion while the file is being processed.
CONSTANTS
    api = api
    worker = worker
    f1 = f1
    r1 = r1
    f2 = f2
    r2 = r2
    r3 = r3
    Nil = Nil
    Files = {f1}
    Procs = {api}
    ApiProcs = {api}
    Requests = {r1, r2}
    Operations = {"upload", "delete"}
    Faulty = {}
    Outliving = {}
    MaxEntries = 1
    MaxAttempts = 3
    MaxStalls = 1
    LiveStalls = FALSE
    MaxCrashes = 0
    MaxRepairs = 0
SPECIFICATION Spec
INVARIANT DeletedLeavesNothing
CHECK_DEADLOCK FALSE
