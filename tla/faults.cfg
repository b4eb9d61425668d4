\* One process; any call may fail or lose its reply; one crash, one manual operation.
CONSTANTS
    api = api
    worker = worker
    f1 = f1
    r1 = r1
    f2 = f2
    r2 = r2
    r3 = r3
    Nil = Nil
    Files = {f1}
    Procs = {api}
    ApiProcs = {api}
    Requests = {r1}
    Operations = {"upload"}
    Faulty = {"db", "storage", "queue"}
    Outliving = {}
    MaxEntries = 2
    MaxAttempts = 2
    MaxStalls = 1
    LiveStalls = FALSE
    MaxCrashes = 1
    MaxRepairs = 1
SPECIFICATION Spec
INVARIANTS CompletedIsPublished JobCompletedIsPublished CheckpointBacked FailedCanBeRetried
PROPERTIES ImplementsLifecycle SoloCheckpointMonotone
CHECK_DEADLOCK FALSE
