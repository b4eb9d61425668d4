\* One direct upload, two processes, locks that expire during an execution.
CONSTANTS
    api = api
    worker = worker
    f1 = f1
    r1 = r1
    f2 = f2
    r2 = r2
    r3 = r3
    Nil = Nil
    Files = {f1}
    Procs = {api, worker}
    ApiProcs = {api}
    Requests = {r1}
    Operations = {"upload"}
    Faulty = {}
    Outliving = {}
    MaxEntries = 2
    MaxAttempts = 3
    MaxStalls = 1
    LiveStalls = TRUE
    MaxCrashes = 0
    MaxRepairs = 0
SPECIFICATION Spec
INVARIANTS TypeOK CompletedIsPublished JobCompletedIsPublished CheckpointBacked
PROPERTIES ImplementsLifecycle
CHECK_DEADLOCK FALSE
