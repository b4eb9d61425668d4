\* The worker process starts while the API processes a file.
CONSTANTS
    api = api
    worker = worker
    f1 = f1
    r1 = r1
    f2 = f2
    r2 = r2
    r3 = r3
    Nil = Nil
    Files = {f1}
    Procs = {api, worker}
    ApiProcs = {api}
    Requests = {r1}
    Operations = {"upload"}
    Faulty = {}
    Outliving = {}
    MaxEntries = 2
    MaxAttempts = 3
    MaxStalls = 1
    LiveStalls = FALSE
    MaxCrashes = 0
    MaxRepairs = 0
SPECIFICATION Spec
PROPERTY RecoverySparesLiveJobs
CHECK_DEADLOCK FALSE
