--------------------------- MODULE FileProcessor ---------------------------
(***************************************************************************)
(* FileProcessor.process (worker.processor.ts), run by the BullMQ worker   *)
(* of every process: the worker service, and the API too, whose AppModule  *)
(* imports WorkerModule. Concurrency is BullMQ's default, 1 per process.   *)
(*                                                                         *)
(* One step per await. "pc" names the call about to be made; a call that   *)
(* fails inside the try block goes to "failFile", the catch block.         *)
(* updateJobStatus reads the row and then updates it: the row can only     *)
(* vanish in between, and both calls then throw, so they are one step.     *)
(***************************************************************************)
EXTENDS JobQueue

CONSTANT LiveStalls  \* may a lock expire while its owner is still working?
                     \* (an event loop blocked longer than the lock lasts)

ASSUME LiveStallsAssumption == LiveStalls \in BOOLEAN

VARIABLE exec  \* per process: what its worker is executing

\* The calls inside the try block, in program order.
TryPcs == {"findJob", "startJob", "startFile", "getObject", "saveRetrieved",
           "process", "saveProcessed", "putObject", "saveUploaded", "publish",
           "saveMetadata", "completeJob", "saveCompleted"}
ExecPcs == TryPcs \cup {"ack", "failFile", "failJob", "nack"}

StorageCalls == {"getObject", "putObject"}
Service(pc) == IF pc \in StorageCalls THEN "storage" ELSE "db"

IdleExec == [pc |-> "idle", entry |-> Nil, file |-> Nil, from |-> "INIT",
             key |-> "null"]
Execs == {IdleExec} \cup
    [pc : ExecPcs, entry : Entries, file : Files, from : Checkpoints, key : Keys]

ExecInit == exec = [p \in Procs |-> IdleExec]
ExecTypeOK == exec \in [Procs -> Execs]

At(p, pc) == exec[p].pc = pc

\* Process p made the call its pc names; the reply may be lost.
Goto(p, next) ==
    \E pc \in After(Service(exec[p].pc), next, "failFile") :
        exec' = [exec EXCEPT ![p].pc = pc]

Executing(f) == {p \in Procs : exec[p].file = f}

-----------------------------------------------------------------------------
(* The worker takes an entry.                                                *)

Take(p, e) ==
    /\ p \in up
    /\ At(p, "idle")
    /\ TakeEntry(e, p)
    /\ exec' = [exec EXCEPT ![p] = [IdleExec EXCEPT !.pc = "findJob",
                                                    !.entry = e,
                                                    !.file = queue[e].file]]
    /\ UNCHANGED storeVars

-----------------------------------------------------------------------------
(* The try block.                                                            *)

\* Mutants: no default for a missing row; the saved checkpoint is ignored.
FindJobNoDefault(p) ==
    /\ At(p, "findJob")
    /\ exec' = [exec EXCEPT
           ![p].pc = "startJob",
           ![p].from = IF HasJob(exec[p].file) THEN job[exec[p].file].checkpoint
                       ELSE "undefined",
           ![p].key = job[exec[p].file].key]
    /\ UNCHANGED <<storeVars, queue>>

FindJobFromStart(p) ==
    /\ At(p, "findJob")
    /\ exec' = [exec EXCEPT ![p].pc = "startJob"]
    /\ UNCHANGED <<storeVars, queue>>

\* jobRecord?.checkpoint || INIT; the record is a snapshot, used until the end.
FindJob(p) ==
    LET f == exec[p].file IN
    /\ At(p, "findJob")
    /\ exec' = [exec EXCEPT ![p].pc = "startJob",
                            ![p].from = IF HasJob(f) THEN job[f].checkpoint
                                        ELSE "INIT",
                            ![p].key = job[f].key]
    /\ UNCHANGED <<storeVars, queue>>

StartJob(p) ==
    /\ At(p, "startJob")
    /\ SetJobStatus(exec[p].file, "PROCESSING")
    /\ Goto(p, "startFile")
    /\ UNCHANGED <<file, uploads, processed, doomed, queue>>

StartFile(p) ==
    /\ At(p, "startFile")
    /\ SetFileStatus(exec[p].file, "PROCESSING")
    /\ Goto(p, "getObject")
    /\ UNCHANGED <<job, uploads, processed, doomed, queue>>

GetObject(p) ==
    /\ At(p, "getObject")
    /\ exec[p].file \in uploads
    /\ exec' = [exec EXCEPT ![p].pc = IF exec[p].from = "INIT"
                                      THEN "saveRetrieved" ELSE "process"]
    /\ UNCHANGED <<storeVars, queue>>

\* saveCheckpoint: the checkpoint and its data are replaced together. Only the
\* data of UPLOADED_TO_STORAGE holds a processedKey.
SaveCheckpoint(p, pc, checkpoint, next) ==
    LET f == exec[p].file IN
    /\ At(p, pc)
    /\ HasJob(f)
    /\ job' = [job EXCEPT
           ![f].checkpoint = checkpoint,
           ![f].key = IF checkpoint = "UPLOADED_TO_STORAGE"
                      THEN exec[p].key ELSE "null"]
    /\ Goto(p, next)
    /\ UNCHANGED <<file, uploads, processed, doomed, queue>>

SaveRetrieved(p) ==
    SaveCheckpoint(p, "saveRetrieved", "FILE_RETRIEVED", "process")

\* Mutants: a resumed execution takes a step for done that is not.
AfterProcessSkipsPut(from) ==
    CASE from \in {"INIT", "FILE_RETRIEVED"} -> "saveProcessed"
      [] from \in {"FILE_PROCESSED", "UPLOADED_TO_STORAGE"} -> "publish"
      [] OTHER -> "completeJob"

AfterProcessSkipsPublish(from) ==
    CASE from \in {"INIT", "FILE_RETRIEVED"} -> "saveProcessed"
      [] from = "FILE_PROCESSED" -> "putObject"
      [] OTHER -> "completeJob"

\* Mutant: what is published is taken for completed.
AfterProcessReturns(from) ==
    CASE from \in {"INIT", "FILE_RETRIEVED"} -> "saveProcessed"
      [] from = "FILE_PROCESSED" -> "putObject"
      [] from = "UPLOADED_TO_STORAGE" -> "publish"
      [] OTHER -> "ack"

\* processFile runs whatever the checkpoint (its result is not stored) and
\* throws if the File row is gone. What follows depends on the checkpoint the
\* execution started from.
AfterProcess(from) ==
    CASE from \in {"INIT", "FILE_RETRIEVED"} -> "saveProcessed"
      [] from = "FILE_PROCESSED" -> "putObject"
      [] from = "UPLOADED_TO_STORAGE" -> "publish"
      [] OTHER -> "completeJob"

ProcessFile(p) ==
    /\ At(p, "process")
    /\ HasFile(exec[p].file)
    /\ exec' = [exec EXCEPT ![p].pc = AfterProcess(exec[p].from)]
    /\ UNCHANGED <<storeVars, queue>>

\* Mutant: the checkpoint of the next step is saved before that step.
SaveProcessedTooEarly(p) ==
    SaveCheckpoint(p, "saveProcessed", "UPLOADED_TO_STORAGE", "putObject")

SaveProcessed(p) ==
    SaveCheckpoint(p, "saveProcessed", "FILE_PROCESSED", "putObject")

\* Mutant: an error of the put is swallowed.
PutObjectSwallows(p) ==
    /\ At(p, "putObject")
    /\ \/ processed' = processed \cup {exec[p].file}
       \/ MayFail("storage") /\ processed' = processed
    /\ exec' = [exec EXCEPT ![p].pc = "saveUploaded", ![p].key = "key"]
    /\ UNCHANGED <<file, job, uploads, doomed, queue>>

\* The key is a function of the file, so a second put writes the same object.
PutObject(p) ==
    /\ At(p, "putObject")
    /\ processed' = processed \cup {exec[p].file}
    /\ \E pc \in After("storage", "saveUploaded", "failFile") :
           exec' = [exec EXCEPT ![p].pc = pc, ![p].key = "key"]
    /\ UNCHANGED <<file, job, uploads, doomed, queue>>

SaveUploaded(p) ==
    SaveCheckpoint(p, "saveUploaded", "UPLOADED_TO_STORAGE", "publish")

\* An undefined processedKey would leave the column as it is.
Publish(p) ==
    LET f == exec[p].file IN
    /\ At(p, "publish")
    /\ HasFile(f)
    /\ file' = [file EXCEPT
           ![f].status = "COMPLETED",
           ![f].key = IF exec[p].key = "key" THEN "key" ELSE file[f].key]
    /\ Goto(p, "saveMetadata")
    /\ UNCHANGED <<job, uploads, processed, doomed, queue>>

SaveMetadata(p) ==
    SaveCheckpoint(p, "saveMetadata", "METADATA_UPDATED", "completeJob")

CompleteJob(p) ==
    /\ At(p, "completeJob")
    /\ SetJobStatus(exec[p].file, "COMPLETED")
    /\ Goto(p, "saveCompleted")
    /\ UNCHANGED <<file, uploads, processed, doomed, queue>>

SaveCompleted(p) ==
    SaveCheckpoint(p, "saveCompleted", "COMPLETED", "ack")

\* A call of the try block fails: a row or the object is missing, or the
\* service is at fault.
Refused(p) ==
    LET f == exec[p].file IN
    CASE exec[p].pc \in {"startFile", "process", "publish"} -> ~HasFile(f)
      [] exec[p].pc = "getObject" -> f \notin uploads
      [] exec[p].pc \in {"findJob", "putObject"} -> FALSE
      [] OTHER -> ~HasJob(f)

Throw(p) ==
    /\ exec[p].pc \in TryPcs
    /\ Refused(p) \/ MayFail(Service(exec[p].pc))
    /\ exec' = [exec EXCEPT ![p].pc = "failFile"]
    /\ UNCHANGED <<storeVars, queue>>

-----------------------------------------------------------------------------
(* The catch block. An error inside it skips the rest of it; either way the  *)
(* processor's promise is rejected.                                          *)

FailFile(p) ==
    /\ At(p, "failFile")
    /\ SetFileStatus(exec[p].file, "FAILED")
    /\ \E pc \in After("db", "failJob", "nack") :
           exec' = [exec EXCEPT ![p].pc = pc]
    /\ UNCHANGED <<job, uploads, processed, doomed, queue>>

FailJob(p) ==
    /\ At(p, "failJob")
    /\ SetJobStatus(exec[p].file, "FAILED")
    /\ exec' = [exec EXCEPT ![p].pc = "nack"]
    /\ UNCHANGED <<file, uploads, processed, doomed, queue>>

CatchThrows(p) ==
    /\ \/ At(p, "failFile") /\ (~HasFile(exec[p].file) \/ MayFail("db"))
       \/ At(p, "failJob") /\ (~HasJob(exec[p].file) \/ MayFail("db"))
    /\ exec' = [exec EXCEPT ![p].pc = "nack"]
    /\ UNCHANGED <<storeVars, queue>>

-----------------------------------------------------------------------------
(* The worker reports the outcome to BullMQ. If its lock is gone, or Redis   *)
(* cannot be reached, the report has no effect and is only logged.           *)

Ack(p) ==
    /\ At(p, "ack")
    /\ Holds(p, exec[p].entry)
    /\ CompleteEntry(exec[p].entry)
    /\ exec' = [exec EXCEPT ![p] = IdleExec]
    /\ UNCHANGED storeVars

\* Mutant: the catch block does not throw the error again.
NackSwallows(p) ==
    /\ At(p, "nack")
    /\ Holds(p, exec[p].entry)
    /\ CompleteEntry(exec[p].entry)
    /\ exec' = [exec EXCEPT ![p] = IdleExec]
    /\ UNCHANGED storeVars

Nack(p) ==
    /\ At(p, "nack")
    /\ Holds(p, exec[p].entry)
    /\ FailEntry(exec[p].entry)
    /\ exec' = [exec EXCEPT ![p] = IdleExec]
    /\ UNCHANGED storeVars

ReportLost(p) ==
    /\ exec[p].pc \in {"ack", "nack"}
    /\ ~Holds(p, exec[p].entry) \/ MayFail("queue")
    /\ exec' = [exec EXCEPT ![p] = IdleExec]
    /\ UNCHANGED <<storeVars, queue>>

\* The stalled-job checker of any running worker. A lock is renewed while its
\* owner is executing the entry, unless the owner's event loop is blocked.
Stall(e) ==
    /\ up # {}
    /\ StallEntry(e)
    /\ LiveStalls \/ exec[queue[e].owner].entry # e
    /\ UNCHANGED <<storeVars, exec>>

-----------------------------------------------------------------------------
ProcessStep(p) ==
    \/ FindJob(p) \/ StartJob(p) \/ StartFile(p) \/ GetObject(p)
    \/ SaveRetrieved(p) \/ ProcessFile(p) \/ SaveProcessed(p) \/ PutObject(p)
    \/ SaveUploaded(p) \/ Publish(p) \/ SaveMetadata(p) \/ CompleteJob(p)
    \/ SaveCompleted(p) \/ Throw(p)
    \/ FailFile(p) \/ FailJob(p) \/ CatchThrows(p)
    \/ Ack(p) \/ Nack(p) \/ ReportLost(p)

ProcessorNext ==
    \/ \E p \in Procs : ProcessStep(p)
    \/ \E p \in Procs, e \in Entries : Take(p, e)
    \/ \E e \in Entries : Stall(e)

\* The process dies: its execution is gone, the entry stays active in Redis.
ExecCrash(p) == exec' = [exec EXCEPT ![p] = IdleExec]
=============================================================================
