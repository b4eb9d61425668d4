----------------------------- MODULE VaporVault -----------------------------
(***************************************************************************)
(* The file pipeline: the components composed over the stores and the queue*)
(* they share, the processes that run them, and the crashes of those       *)
(* processes. No process installs shutdown hooks, so a stop is a crash.    *)
(***************************************************************************)
EXTENDS FileProcessor, JobRecovery, FileService, CleanupService

CONSTANT MaxCrashes  \* bound: crashes in a behaviour

ASSUME CrashAssumption == MaxCrashes \in Nat

VARIABLE crashes

platformVars == <<up, crashes>>

vars == <<storeVars, queue, exec, recoveryVars, serviceVars, cleanupVars,
          platformVars>>

\* All processes have just been started: each begins with its recovery scan.
Init ==
    /\ StoreInit
    /\ QueueInit
    /\ ExecInit
    /\ RecInit
    /\ ServiceInit
    /\ CleanupInit
    /\ up = Procs
    /\ crashes = 0

TypeOK ==
    /\ StoreTypeOK
    /\ QueueTypeOK
    /\ ExecTypeOK
    /\ RecTypeOK
    /\ ServiceTypeOK
    /\ CleanupTypeOK
    /\ up \in SUBSET Procs
    /\ crashes \in Nat

-----------------------------------------------------------------------------
\* Nest starts listening, and the scheduler its timers, after every
\* onModuleInit has returned.
Ready(p) == p \in ApiProcs /\ p \in up /\ rec[p].pc = "done"

Processing ==
    /\ ProcessorNext
    /\ UNCHANGED <<recoveryVars, serviceVars, cleanupVars, platformVars>>

Recovering ==
    /\ RecoveryNext
    /\ UNCHANGED <<exec, serviceVars, cleanupVars, platformVars>>

Serving ==
    /\ \/ \E p \in Procs : Ready(p) /\ Accept(p)
       \/ \E r \in Requests : ServiceStep(r)
       \/ \E f \in Files : ClientStep(f)
    /\ UNCHANGED <<exec, recoveryVars, cleanupVars, platformVars>>

\* A presigned URL is valid for one hour, a row for twenty-four.
Cleaning ==
    /\ \/ \E f \in Files \ urls : Expire(f)
       \/ \E p \in Procs : Ready(p) /\ HandleCleanup(p)
       \/ \E p \in Procs : CleanupStep(p)
    /\ UNCHANGED <<queue, exec, recoveryVars, serviceVars, platformVars>>

\* A process ends: what was in its memory is gone, the stores are not.
Stops(p) ==
    /\ p \in up
    /\ up' = up \ {p}
    /\ ExecCrash(p)
    /\ RecCrash(p)
    /\ ReqCrash(p)
    /\ PassCrash(p)
    /\ UNCHANGED <<storeVars, queue, repairs, known, urls, expired>>

Crash(p) ==
    /\ crashes < MaxCrashes
    /\ crashes' = crashes + 1
    /\ Stops(p)

\* The findMany of the recovery is outside its try: an error of the database
\* rejects onModuleInit, and Nest ends the process.
ScanFails(p) ==
    /\ rec[p].pc = "scan"
    /\ MayFail("db")
    /\ Stops(p)
    /\ UNCHANGED crashes

\* restart: unless-stopped (docker-compose.yml).
Restart(p) ==
    /\ p \in Procs \ up
    /\ up' = up \cup {p}
    /\ UNCHANGED <<storeVars, queue, exec, recoveryVars, serviceVars,
                   cleanupVars, crashes>>

Next ==
    \/ Processing
    \/ Recovering
    \/ Serving
    \/ Cleaning
    \/ \E p \in Procs : Crash(p) \/ ScanFails(p) \/ Restart(p)

Spec == Init /\ [][Next]_vars

-----------------------------------------------------------------------------
(* Fairness: what the runtime does by itself. Node resumes an await once it  *)
(* is settled, BullMQ hands waiting entries to idle workers and checks for   *)
(* stalled ones periodically, docker restarts a dead container, and the cron *)
(* job runs every hour. An outage of MinIO ends: a deletion that the passes  *)
(* try again and again succeeds some time, and no call of anybody else need. *)
(* Nothing is assumed of clients or of the operator.                         *)

\* The visit of file f gets past the deletion it is at.
Deletes(p, f, pc) ==
    /\ pass[p].pc = pc
    /\ pass[p].cur = f
    /\ CleanupStep(p)
    /\ pass'[p].cur = f

Fairness ==
    /\ \A p \in Procs :
           /\ WF_vars(Processing /\ ProcessStep(p))
           /\ WF_vars(Recovering /\ RecoveryStep(p))
           /\ WF_vars(Restart(p))
    /\ WF_vars(Processing /\ \E p \in Procs, e \in Entries : Take(p, e))
    /\ \A e \in Entries : WF_vars(Processing /\ Stall(e))
    /\ \A r \in Requests : WF_vars(Serving /\ ServiceStep(r))
    /\ \A p \in Procs :
           /\ WF_vars(Cleaning /\ Ready(p) /\ HandleCleanup(p))
           /\ WF_vars(Cleaning /\ CleanupStep(p))
           /\ \A f \in Files :
                  /\ SF_vars(Cleaning /\ Deletes(p, f, "delUpload"))
                  /\ SF_vars(Cleaning /\ Deletes(p, f, "delProcessed"))

FairSpec == Spec /\ Fairness

-----------------------------------------------------------------------------
(* Properties.                                                               *)

Stored(f) == f \in processed \/ f \in doomed

\* A file reported COMPLETED has a processed key, and the object that key
\* names is in the bucket, unless a deletion of the file has begun
\* (worker.processor.ts publishes only after putObject, on every path).
CompletedIsPublished ==
    \A f \in Files : file[f].status = "COMPLETED" =>
        file[f].key = "key" /\ Stored(f)

\* A job reported COMPLETED stands for a processed object that its File row
\* points to, even if the execution that completed it resumed from a
\* checkpoint of another execution, or two of them ran at once.
JobCompletedIsPublished ==
    \A f \in Files : job[f].status = "COMPLETED" =>
        file[f].key = "key" /\ Stored(f)

\* A checkpoint never promises more than is durably there: one that lets a
\* resumed execution skip putObject is backed by the object and (for
\* UPLOADED_TO_STORAGE) by the key in checkpointData; one that lets it skip
\* the update of the File row is backed by the key in that row.
CheckpointBacked ==
    \A f \in Files :
        /\ job[f].checkpoint \in StoredCheckpoints => Stored(f)
        /\ job[f].checkpoint = "UPLOADED_TO_STORAGE" => job[f].key = "key"
        /\ job[f].checkpoint \in PublishedCheckpoints => file[f].key = "key"

\* A file whose download URL getDownloadUrl would sign has its upload object,
\* and so does every file with work in the queue, unless a deletion of the
\* file has begun.
DownloadServesObject ==
    \A f \in Files :
        \/ file[f].status \in {"UPLOADED", "COMPLETED"}
        \/ \E e \in EntriesOf(f) : Live(e)
        => f \in uploads \/ f \in doomed

Before(c) == {d \in Checkpoints :
    LET rank == <<"INIT", "FILE_RETRIEVED", "FILE_PROCESSED",
                  "UPLOADED_TO_STORAGE", "METADATA_UPDATED", "COMPLETED">>
    IN \E i, j \in 1 .. 6 : i < j /\ rank[i] = d /\ rank[j] = c}

\* While a file has had a single queue entry, its checkpoint never goes back:
\* retries and resumed executions build on what earlier ones saved.
SoloCheckpointMonotone ==
    [][\A f \in Files :
        Cardinality(EntriesOf(f)) <= 1 /\ HasJob(f) /\ HasJob(f)'
        => job'[f].checkpoint \notin Before(job[f].checkpoint)]_vars

\* Nothing will happen to file f any more, unless someone asks for it.
Quiet(f) ==
    /\ \A e \in EntriesOf(f) : ~Live(e)
    /\ Executing(f) = {}
    /\ \A p \in Procs : p \in up /\ rec[p].pc = "done"
    /\ \A r \in Requests : req[r].file # f

\* One crash of a single-process deployment loses no job: once a file is quiet
\* its job is decided, by a retry of the stalled entry or by the entry that the
\* recovery added. (A file is also FAILED with its job PENDING if all attempts
\* were over before uploadFile came to create the Job row.)
CrashLosesNoJob ==
    \A f \in Files :
        Quiet(f) /\ HasJob(f) /\ file[f].status # "FAILED"
        => job[f].status \in {"COMPLETED", "FAILED"}

\* vaporvault_implementation.md: jobs that fail three times or more are in the
\* dead letter queue, from which they can be retried. So once a file is quiet
\* and it, or its job, is reported FAILED, an entry of the file is dead: the
\* report was not an attempt's that a later one should have corrected, nor that
\* of an execution beside one that did the work.
FailedCanBeRetried ==
    \A f \in Files :
        Quiet(f) /\ "FAILED" \in {file[f].status, job[f].status}
        => \E e \in EntriesOf(f) : queue[e].state \in {"failed", "removed"}

\* vaporvault_implementation.md: every step is idempotent, and jobs resume from
\* the last successful checkpoint; a client (test_flow.sh) waits for the file
\* to become COMPLETED. So once a file is quiet and its job is COMPLETED, the
\* file is.
SettledFileMatchesJob ==
    \A f \in Files :
        Quiet(f) /\ job[f].status = "COMPLETED" => file[f].status = "COMPLETED"

\* vaporvault_implementation.md: interrupted jobs resume automatically on
\* service restart. So the job of a file whose processing was interrupted is
\* not left PENDING once everything is quiet and every process has restarted
\* and run its recovery.
InterruptedJobsResume ==
    \A f \in Files :
        Quiet(f) /\ file[f].status = "PROCESSING" => job[f].status # "PENDING"

\* file.service.ts:226: a file is deleted with its data in storage and in the
\* database. So nothing is stored for a deleted file once it is quiet.
DeletedLeavesNothing ==
    \A f \in Files :
        Quiet(f) /\ file[f].status = "DELETED"
        => f \notin uploads \cup processed

\* What cleanup does guarantee: it deletes the row of an expired file only when
\* the upload object is gone, although storage may fail, processes may crash
\* and presigned URLs may still have been in use after the file was created.
CleanupRemovesUpload ==
    [][\A p \in Procs, f \in Files :
        /\ pass[p].pc = "deleteRow" /\ pass[p].cur = f /\ pass'[p] # pass[p]
        /\ HasFile(f) /\ ~HasFile(f)'
        => f \notin uploads]_vars

\* job-recovery.service.ts:31: recovery takes up the jobs that were interrupted
\* due to service crash. So it never resets one a live process is executing.
RecoverySparesLiveJobs ==
    [][\A p \in Procs : \A f \in Files :
        rec'[p].cur = f /\ rec[p].cur # f => Executing(f) = {}]_vars

\* A job with an entry waiting in the queue is eventually decided, or deleted.
QueuedJobSettles ==
    \A f \in Files :
        (HasJob(f) /\ \E e \in EntriesOf(f) : queue[e].state = "waiting")
        ~> (job[f].status \in {"COMPLETED", "FAILED"} \cup NoRow)

\* SRS.md FR-15: once a file has expired, some hourly pass removes it, even if
\* a pass is cut short by a crash.
ExpiredFileIsDeleted ==
    \A f \in Files : (f \in expired /\ HasFile(f)) ~> ~HasFile(f)
=============================================================================
