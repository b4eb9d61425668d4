\* Two crashes: of an execution, then inside the recovery while the entry runs again.
CONSTANTS
    api = api
    worker = worker
    f1 = f1
    r1 = r1
    f2 = f2
    r2 = r2
    r3 = r3
    Nil = Nil
    Files = {f1}
    Procs = {api}
    ApiProcs = {api}
    Requests = {r1}
    Operations = {"upload"}
    Faulty = {}
    Outliving = {}
    MaxEntries = 2
    MaxAttempts = 3
    MaxStalls = 1
    LiveStalls = FALSE
    MaxCrashes = 2
    MaxRepairs = 0
SPECIFICATION Spec
INVARIANT InterruptedJobsResume
CHECK_DEADLOCK FALSE
