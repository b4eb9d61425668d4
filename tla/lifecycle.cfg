\* Presigned upload, completion (twice, perhaps), deletion and expiry, faulty storage, a crash.
CONSTANTS
    api = api
    worker = worker
    f1 = f1
    r1 = r1
    f2 = f2
    r2 = r2
    r3 = r3
    Nil = Nil
    Files = {f1}
    Procs = {api}
    ApiProcs = {api}
    Requests = {r1, r2, r3}
    Operations = {"presign", "complete", "delete"}
    Faulty = {"storage"}
    Outliving = {f1}
    MaxEntries = 2
    MaxAttempts = 2
    MaxStalls = 1
    LiveStalls = FALSE
    MaxCrashes = 1
    MaxRepairs = 0
SPECIFICATION Spec
INVARIANTS DownloadServesObject
PROPERTIES ImplementsLifecycle CleanupRemovesUpload
CHECK_DEADLOCK FALSE
