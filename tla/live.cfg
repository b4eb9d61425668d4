\* One process, one crash, expiry, faulty storage: no job is lost, and what waits is
\* decided, or deleted, in the end.
CONSTANTS
    api = api
    worker = worker
    f1 = f1
    r1 = r1
    f2 = f2
    r2 = r2
    r3 = r3
    Nil = Nil
    Files = {f1}
    Procs = {api}
    ApiProcs = {api}
    Requests = {r1}
    Operations = {"upload"}
    Faulty = {"storage"}
    Outliving = {f1}
    MaxEntries = 2
    MaxAttempts = 2
    MaxStalls = 1
    LiveStalls = FALSE
    MaxCrashes = 1
    MaxRepairs = 0
SPECIFICATION FairSpec
INVARIANTS CrashLosesNoJob
PROPERTIES QueuedJobSettles ExpiredFileIsDeleted
CHECK_DEADLOCK FALSE
