--------------------------- MODULE LifecycleProofs ---------------------------
(***************************************************************************)
(* The pipeline implements FileLifecycle, for every value of the constants.*)
(* The inductive invariant of VaporVaultSafety gives each step the guard of*)
(* the abstract step it maps to; steps that change no table and no bucket, *)
(* or only a checkpoint, stutter.                                          *)
(***************************************************************************)
EXTENDS VaporVaultSafety, VaporVaultLifecycle

Allowed == [Lifecycle!Next]_(Lifecycle!vars)

LEMMA AllowedStep ==
    ASSUME NEW f \in Files, Lifecycle!Step(f)
    PROVE  Allowed
BY DEF Allowed, Lifecycle!Next

-----------------------------------------------------------------------------
(* One kind of statement at a time.                                          *)

LEMMA StoreSameAllowed ==
    ASSUME UNCHANGED storeVars
    PROVE  Allowed
BY DEF storeVars, Allowed, Lifecycle!vars

LEMMA UploadStored ==
    ASSUME NEW f \in Files, uploads' = uploads \cup {f},
           UNCHANGED <<file, job, processed, doomed>>
    PROVE  Allowed
<1>1. Lifecycle!StoreContent(f)
  BY DEF Lifecycle!StoreContent
<1> QED BY <1>1, AllowedStep DEF Lifecycle!Step

LEMMA ResultStored ==
    ASSUME NEW f \in Files, processed' = processed \cup {f},
           UNCHANGED <<file, job, uploads, doomed>>
    PROVE  Allowed
<1>1. Lifecycle!StoreResult(f)
  BY DEF Lifecycle!StoreResult
<1> QED BY <1>1, AllowedStep DEF Lifecycle!Step

LEMMA ClosingBegun ==
    ASSUME NEW f \in Files, uploads' \in {uploads, uploads \ {f}},
           doomed' = doomed \cup {f}, UNCHANGED <<file, job, processed>>
    PROVE  Allowed
<1>1. Lifecycle!Close(f)
  BY DEF Lifecycle!Close
<1> QED BY <1>1, AllowedStep DEF Lifecycle!Step

LEMMA ResultRemoved ==
    ASSUME NEW f \in Files, f \in doomed,
           processed' \in {processed, processed \ {f}},
           UNCHANGED <<file, job, uploads, doomed>>
    PROVE  Allowed
<1>1. CASE processed' = processed
  BY <1>1, StoreSameAllowed DEF storeVars
<1>2. CASE processed' = processed \ {f}
  <2>1. Lifecycle!RemoveResult(f)
    BY <1>2 DEF Lifecycle!RemoveResult
  <2> QED BY <2>1, AllowedStep DEF Lifecycle!Step
<1> QED BY <1>1, <1>2

\* A statement on a File row that leaves its key alone.
LEMMA FileStatusAllowed ==
    ASSUME StoreTypeOK, NEW f \in Files, NEW status \in FileStatus \ {"COMPLETED"},
           file' = [file EXCEPT ![f].status = status], file[f].status # "DELETED",
           status = "UPLOADED" => Uploaded(f),
           UNCHANGED <<job, uploads, processed, doomed>>
    PROVE  Allowed
<1>1. \A g \in Files : /\ file'[g].key = file[g].key
                       /\ file'[g].status = IF g = f THEN status ELSE file[g].status
  BY DEF StoreTypeOK, FileRows
<1>2. {g \in Files : file'[g].key = "key"} = {g \in Files : file[g].key = "key"}
  BY <1>1
<1>3. [g \in Files |-> Listing(file'[g])] =
          [[g \in Files |-> Listing(file[g])] EXCEPT
              ![f] = IF status = "UPLOADED" THEN "listed" ELSE "held"]
  <2>1. \A g \in Files \ {f} : Listing(file'[g]) = Listing(file[g])
    BY <1>1 DEF Listing
  <2>2. Listing(file'[f]) = IF status = "UPLOADED" THEN "listed" ELSE "held"
    BY <1>1 DEF Listing, FileStatus
  <2> QED BY <2>1, <2>2
<1>4. Listing(file[f]) # "gone"
  BY DEF Listing
<1>5. CASE status = "UPLOADED"
  <2>1. Lifecycle!List(f)
    BY <1>2, <1>3, <1>4, <1>5
       DEF Lifecycle!List, Lifecycle!Available, Lifecycle!Show, Uploaded
  <2> QED BY <2>1, AllowedStep DEF Lifecycle!Step
<1>6. CASE status # "UPLOADED"
  <2>1. Lifecycle!Hold(f)
    BY <1>2, <1>3, <1>4, <1>6 DEF Lifecycle!Hold, Lifecycle!Show
  <2> QED BY <2>1, AllowedStep DEF Lifecycle!Step
<1> QED BY <1>5, <1>6

LEMMA PublishAllowed ==
    ASSUME StoreTypeOK, NEW f \in Files, NEW row \in FileRows,
           file' = [file EXCEPT ![f] = row], row.status = "COMPLETED",
           row.key = "key", HasFile(f), Uploaded(f), Stored(f),
           UNCHANGED <<job, uploads, processed, doomed>>
    PROVE  Allowed
<1>1. \A g \in Files : file'[g] = IF g = f THEN row ELSE file[g]
  BY DEF StoreTypeOK
<1>2. {g \in Files : file'[g].key = "key"} = {g \in Files : file[g].key = "key"} \cup {f}
  BY <1>1
<1>3. [g \in Files |-> Listing(file'[g])] =
          [[g \in Files |-> Listing(file[g])] EXCEPT ![f] = "listed"]
  BY <1>1 DEF Listing
<1>4. Listing(file[f]) \in {"held", "listed"}
  BY DEF Listing, HasFile, NoRow
<1>5. Lifecycle!Publish(f)
  BY <1>2, <1>3, <1>4 DEF Lifecycle!Publish, Lifecycle!Exists,
     Lifecycle!Available, Lifecycle!Show, Uploaded, Stored
<1> QED BY <1>5, AllowedStep DEF Lifecycle!Step

LEMMA RowDeletedAllowed ==
    ASSUME StoreTypeOK, NEW f \in Files, DeleteFileRow(f), f \in doomed,
           UNCHANGED <<uploads, processed, doomed>>
    PROVE  Allowed
<1>1. \A g \in Files : /\ file'[g] = IF g = f THEN DeletedFile ELSE file[g]
                       /\ job'[g] = IF g = f THEN NoJob ELSE job[g]
  BY DEF StoreTypeOK, DeleteFileRow
<1>2. {g \in Files : file'[g].key = "key"} = {g \in Files : file[g].key = "key"} \ {f}
  BY <1>1 DEF DeletedFile
<1>3. {g \in Files : job'[g].status = "COMPLETED"} =
          {g \in Files : job[g].status = "COMPLETED"} \ {f}
  BY <1>1 DEF NoJob
<1>4. [g \in Files |-> Listing(file'[g])] =
          [[g \in Files |-> Listing(file[g])] EXCEPT ![f] = "gone"]
  <2>1. \A g \in Files \ {f} : Listing(file'[g]) = Listing(file[g])
    BY <1>1
  <2>2. Listing(file'[f]) = "gone"
    BY <1>1 DEF Listing, DeletedFile
  <2> QED BY <2>1, <2>2
<1>5. Listing(file[f]) \in {"held", "listed"}
  BY DEF Listing, DeleteFileRow, HasFile, NoRow
<1>6. Lifecycle!Delete(f)
  BY <1>2, <1>3, <1>4, <1>5
     DEF Lifecycle!Delete, Lifecycle!Exists, Lifecycle!Show
<1> QED BY <1>6, AllowedStep DEF Lifecycle!Step

\* A statement on a Job row; a row is COMPLETED only if its file is published.
LEMMA JobAllowed ==
    ASSUME StoreTypeOK, NEW f \in Files, NEW row, job' = [job EXCEPT ![f] = row],
           row.status = "COMPLETED" => file[f].key = "key" \/ job[f].status = "COMPLETED",
           UNCHANGED <<file, uploads, processed, doomed>>
    PROVE  Allowed
<1>1. \A g \in Files : job'[g] = IF g = f THEN row ELSE job[g]
  BY DEF StoreTypeOK
<1>2. CASE row.status = "COMPLETED" /\ job[f].status = "COMPLETED"
  <2>1. {g \in Files : job'[g].status = "COMPLETED"} =
            {g \in Files : job[g].status = "COMPLETED"}
    BY <1>1, <1>2
  <2> QED BY <2>1 DEF Allowed, Lifecycle!vars
<1>3. CASE row.status = "COMPLETED" /\ file[f].key = "key"
  <2>1. {g \in Files : job'[g].status = "COMPLETED"} =
            {g \in Files : job[g].status = "COMPLETED"} \cup {f}
    BY <1>1, <1>3
  <2>2. Lifecycle!Complete(f)
    BY <1>3, <2>1 DEF Lifecycle!Complete
  <2> QED BY <2>2, AllowedStep DEF Lifecycle!Step
<1>4. CASE row.status # "COMPLETED"
  <2>1. {g \in Files : job'[g].status = "COMPLETED"} =
            {g \in Files : job[g].status = "COMPLETED"} \ {f}
    BY <1>1, <1>4
  <2>2. Lifecycle!Reopen(f)
    BY <2>1 DEF Lifecycle!Reopen
  <2> QED BY <2>2, AllowedStep DEF Lifecycle!Step
<1> QED BY <1>2, <1>3, <1>4

-----------------------------------------------------------------------------
(* The components.                                                           *)

LEMMA CheckpointAllowed ==
    ASSUME StoreTypeOK, NEW p \in Procs, exec[p].file \in Files, NEW pc,
           NEW checkpoint, NEW next, SaveCheckpoint(p, pc, checkpoint, next)
    PROVE  Allowed
<1> DEFINE f == exec[p].file
           row == [job[f] EXCEPT !.checkpoint = checkpoint,
                                 !.key = IF checkpoint = "UPLOADED_TO_STORAGE"
                                         THEN exec[p].key ELSE "null"]
<1>1. job' = [job EXCEPT ![f] = row]
  BY DEF SaveCheckpoint, StoreTypeOK
<1>2. row.status = job[f].status
  BY DEF StoreTypeOK, JobRows
<1>3. UNCHANGED <<file, uploads, processed, doomed>>
  BY DEF SaveCheckpoint
<1> HIDE DEF row
<1> QED BY <1>1, <1>2, <1>3, JobAllowed

LEMMA JobStatusAllowed ==
    ASSUME StoreTypeOK, NEW f \in Files, NEW status, SetJobStatus(f, status),
           status = "COMPLETED" => file[f].key = "key",
           UNCHANGED <<file, uploads, processed, doomed>>
    PROVE  Allowed
<1> DEFINE row == [job[f] EXCEPT !.status = status]
<1>1. job' = [job EXCEPT ![f] = row]
  BY DEF SetJobStatus, StoreTypeOK
<1>2. row.status = status
  BY DEF StoreTypeOK, JobRows
<1> HIDE DEF row
<1> QED BY <1>1, <1>2, JobAllowed

LEMMA SetFileStatusAllowed ==
    ASSUME StoreTypeOK, NEW f \in Files, NEW status \in FileStatus \ {"COMPLETED"},
           SetFileStatus(f, status), status = "UPLOADED" => Uploaded(f),
           UNCHANGED <<job, uploads, processed, doomed>>
    PROVE  Allowed
<1>1. file[f].status # "DELETED"
  BY DEF SetFileStatus, HasFile, NoRow
<1> QED BY <1>1, FileStatusAllowed DEF SetFileStatus

LEMMA ProcessStepAllowed ==
    ASSUME Inv, NEW p \in Procs, ProcessStep(p)
    PROVE  Allowed
<1> DEFINE f == exec[p].file
<1> USE DEF Inv, TypeOK
<1>1. exec[p].pc # "idle" => f \in Files /\ ReliesOn(exec[p])
  BY Busy DEF BusyExecs, ExecOK
<1>2. CASE StartJob(p)
  BY <1>1, <1>2, JobStatusAllowed DEF StartJob, At
<1>3. CASE StartFile(p)
  BY <1>1, <1>3, SetFileStatusAllowed, Names DEF StartFile, At
<1>4. CASE SaveRetrieved(p)
  <2>1. SaveCheckpoint(p, "saveRetrieved", "FILE_RETRIEVED", "process")
    BY <1>4 DEF SaveRetrieved
  <2>2. f \in Files
    BY <1>1, <2>1 DEF SaveCheckpoint, At
  <2> QED BY <2>1, <2>2, CheckpointAllowed
<1>5. CASE SaveProcessed(p)
  <2>1. SaveCheckpoint(p, "saveProcessed", "FILE_PROCESSED", "putObject")
    BY <1>5 DEF SaveProcessed
  <2>2. f \in Files
    BY <1>1, <2>1 DEF SaveCheckpoint, At
  <2> QED BY <2>1, <2>2, CheckpointAllowed
<1>6. CASE PutObject(p)
  BY <1>1, <1>6, ResultStored DEF PutObject, At
<1>7. CASE SaveUploaded(p)
  <2>1. SaveCheckpoint(p, "saveUploaded", "UPLOADED_TO_STORAGE", "publish")
    BY <1>7 DEF SaveUploaded
  <2>2. f \in Files
    BY <1>1, <2>1 DEF SaveCheckpoint, At
  <2> QED BY <2>1, <2>2, CheckpointAllowed
<1>8. CASE Publish(p)
  <2> DEFINE row == [file[f] EXCEPT
                        !.status = "COMPLETED",
                        !.key = IF exec[p].key = "key" THEN "key" ELSE file[f].key]
  <2>1. f \in Files /\ exec[p].key = "key" /\ Uploaded(f) /\ Stored(f)
    BY <1>1, <1>8 DEF Publish, At, ReliesOn, Accepted
  <2>2. file' = [file EXCEPT ![f] = row]
    BY <1>8, <2>1 DEF Publish, StoreTypeOK
  <2>3. row \in FileRows /\ row.status = "COMPLETED" /\ row.key = "key"
    BY <2>1, Names DEF StoreTypeOK, FileRows
  <2>4. HasFile(f) /\ UNCHANGED <<job, uploads, processed, doomed>>
    BY <1>8 DEF Publish
  <2> HIDE DEF row
  <2> QED BY <2>1, <2>2, <2>3, <2>4, PublishAllowed
<1>9. CASE SaveMetadata(p)
  <2>1. SaveCheckpoint(p, "saveMetadata", "METADATA_UPDATED", "completeJob")
    BY <1>9 DEF SaveMetadata
  <2>2. f \in Files
    BY <1>1, <2>1 DEF SaveCheckpoint, At
  <2> QED BY <2>1, <2>2, CheckpointAllowed
<1>10. CASE CompleteJob(p)
  <2>1. f \in Files /\ Published(f) /\ HasJob(f)
    BY <1>1, <1>10 DEF CompleteJob, At, ReliesOn, PublishedPcs, SetJobStatus
  <2>2. file[f].key = "key"
    BY <2>1, JobHasFile DEF StoreOK, Published, HasFile, NoRow
  <2> QED BY <1>10, <2>1, <2>2, JobStatusAllowed DEF CompleteJob
<1>11. CASE SaveCompleted(p)
  <2>1. SaveCheckpoint(p, "saveCompleted", "COMPLETED", "ack")
    BY <1>11 DEF SaveCompleted
  <2>2. f \in Files
    BY <1>1, <2>1 DEF SaveCheckpoint, At
  <2> QED BY <2>1, <2>2, CheckpointAllowed
<1>12. CASE FailFile(p)
  BY <1>1, <1>12, SetFileStatusAllowed, Names DEF FailFile, At
<1>13. CASE FailJob(p)
  BY <1>1, <1>13, JobStatusAllowed DEF FailJob, At
<1>14. CASE \/ FindJob(p) \/ GetObject(p) \/ ProcessFile(p) \/ Throw(p)
            \/ CatchThrows(p) \/ Ack(p) \/ Nack(p) \/ ReportLost(p)
  <2>1. UNCHANGED storeVars
    BY <1>14 DEF FindJob, GetObject, ProcessFile, Throw, CatchThrows, Ack, Nack,
       ReportLost
  <2> QED BY <2>1, StoreSameAllowed
<1> QED
  BY <1>2, <1>3, <1>4, <1>5, <1>6, <1>7, <1>8, <1>9, <1>10, <1>11, <1>12, <1>13,
     <1>14 DEF ProcessStep

LEMMA RecoveringAllowed ==
    ASSUME Inv, Recovering
    PROVE  Allowed
<1>1. CASE \E p \in Procs : ResetJob(p)
  <2>1. PICK p \in Procs : ResetJob(p)
    BY <1>1
  <2>2. PICK f \in rec[p].todo : SetJobStatus(f, "PENDING")
    BY <2>1 DEF ResetJob
  <2>3. f \in Files
    BY <2>2 DEF Inv, TypeOK, RecTypeOK, Recs
  <2> QED BY <2>1, <2>2, <2>3, JobStatusAllowed DEF ResetJob, Inv, TypeOK
<1>2. CASE ~ \E p \in Procs : ResetJob(p)
  <2>1. UNCHANGED storeVars
    BY <1>2 DEF Recovering, RecoveryNext, RecoveryStep, Scan, SkipJob, Reenqueue,
       ReenqueueFails, RecoveryDone, RetryFailedJob, RemoveFailedJob
  <2> QED BY <2>1, StoreSameAllowed
<1> QED BY <1>1, <1>2

LEMMA ServiceStepAllowed ==
    ASSUME Inv, NEW r \in Requests, ServiceStep(r)
    PROVE  Allowed
<1> USE DEF Inv, TypeOK
<1>1. req[r].pc \notin {"new", "end"}
  BY DEF ServiceStep, PutUpload, CreateFile, AddJob, CreateJob, StatObject,
     MarkUploaded, DelUpload, DelProcessed, DeleteRow, ReqFails, At_
<1>2. PICK f \in Files : f = req[r].file
  BY <1>1, BusyRequest
<1>3. Warranted(req[r])
  BY DEF ReqOK
<1>4. CASE PutUpload(r)
  BY <1>2, <1>4, UploadStored DEF PutUpload
<1>5. CASE CreateFile(r)
  <2>1. Uploaded(f) /\ file[f].status # "DELETED"
    BY <1>2, <1>3, <1>5 DEF CreateFile, At_, Warranted, NoFile
  <2>2. file' = [file EXCEPT ![f].status = "UPLOADED"]
        /\ UNCHANGED <<job, uploads, processed, doomed>>
    BY <1>2, <1>5 DEF CreateFile
  <2>3. "UPLOADED" \in FileStatus \ {"COMPLETED"}
    BY Names
  <2> QED BY <2>1, <2>2, <2>3, FileStatusAllowed
<1>6. CASE CreateJob(r)
  <2>1. job' = [job EXCEPT ![f] = NewJob] /\ NewJob.status # "COMPLETED"
        /\ UNCHANGED <<file, uploads, processed, doomed>>
    BY <1>2, <1>6 DEF CreateJob, NewJob
  <2> QED BY <2>1, JobAllowed
<1>7. CASE MarkUploaded(r)
  <2>1. Uploaded(f) /\ SetFileStatus(f, "UPLOADED")
        /\ UNCHANGED <<job, uploads, processed, doomed>>
    BY <1>2, <1>3, <1>7 DEF MarkUploaded, At_, Warranted
  <2> QED BY <2>1, SetFileStatusAllowed, Names
<1>8. CASE DelUpload(r)
  BY <1>2, <1>8, ClosingBegun DEF DelUpload
<1>9. CASE DelProcessed(r)
  BY <1>2, <1>3, <1>9, ResultRemoved DEF DelProcessed, At_, Warranted
<1>10. CASE DeleteRow(r)
  BY <1>2, <1>3, <1>10, RowDeletedAllowed DEF DeleteRow, At_, Warranted
<1>11. CASE AddJob(r) \/ StatObject(r) \/ ReqFails(r)
  <2>1. UNCHANGED storeVars
    BY <1>11 DEF AddJob, StatObject, ReqFails
  <2> QED BY <2>1, StoreSameAllowed
<1> QED
  BY <1>4, <1>5, <1>6, <1>7, <1>8, <1>9, <1>10, <1>11 DEF ServiceStep

LEMMA ServingAllowed ==
    ASSUME Inv, Serving
    PROVE  Allowed
<1>1. ASSUME NEW p \in Procs, Accept(p)
      PROVE  Allowed
  <2>1. ASSUME NEW r \in Requests, PresignUpload(r, p)
        PROVE  Allowed
    <3>1. PICK f \in Files : /\ file[f] = NoFile
                             /\ file' = [file EXCEPT ![f].status = "PENDING"]
                             /\ UNCHANGED <<job, uploads, processed, doomed>>
      BY <2>1 DEF PresignUpload
    <3>2. file[f].status # "DELETED"
      BY <3>1 DEF NoFile
    <3>3. "PENDING" \in FileStatus \ {"COMPLETED"}
      BY Names
    <3> QED BY <3>1, <3>2, <3>3, FileStatusAllowed DEF Inv, TypeOK
  <2>2. CASE \E r \in Requests :
                 BeginUpload(r, p) \/ BeginComplete(r, p) \/ BeginDelete(r, p)
    <3>1. UNCHANGED storeVars
      BY <2>2 DEF BeginUpload, BeginComplete, BeginDelete
    <3> QED BY <3>1, StoreSameAllowed
  <2> QED BY <1>1, <2>1, <2>2 DEF Accept
<1>2. ASSUME NEW f \in Files, ClientStep(f)
      PROVE  Allowed
  BY <1>2, UploadStored, StoreSameAllowed DEF ClientStep, ClientPut, ExpireUrl
<1> QED BY <1>1, <1>2, ServiceStepAllowed DEF Serving

LEMMA CleaningAllowed ==
    ASSUME Inv, Cleaning
    PROVE  Allowed
<1> USE DEF Inv, TypeOK
<1>1. ASSUME NEW p \in Procs, CleanupStep(p), pass[p].pc \in DeletePcs
      PROVE  Allowed
  <2>1. PICK f \in Files : f = pass[p].cur
    BY <1>1, BusyPass, Names
  <2>2. CASE DelExpiredUpload(p)
    BY <2>1, <2>2, ClosingBegun DEF DelExpiredUpload
  <2>3. CASE DelExpiredProcessed(p)
    BY <2>1, <2>3, ResultRemoved DEF DelExpiredProcessed, PassOK
  <2>4. CASE DeleteExpiredRow(p)
    BY <2>1, <2>4, RowDeletedAllowed DEF DeleteExpiredRow, PassOK
  <2>5. CASE NextExpired(p) \/ VisitFails(p) \/ CleanupDone(p)
    BY <2>5, StoreSameAllowed DEF NextExpired, VisitFails, CleanupDone
  <2> QED BY <1>1, <2>2, <2>3, <2>4, <2>5 DEF CleanupStep
<1>2. CASE UNCHANGED storeVars
  BY <1>2, StoreSameAllowed
<1>3. ASSUME NEW p \in Procs, CleanupStep(p), pass[p].pc \notin DeletePcs
      PROVE  UNCHANGED storeVars
  BY <1>3, Names DEF CleanupStep, NextExpired, DelExpiredUpload,
     DelExpiredProcessed, DeleteExpiredRow, VisitFails, CleanupDone
<1> QED BY <1>1, <1>2, <1>3 DEF Cleaning, Expire, HandleCleanup

LEMMA StepAllowed == Inv /\ [Next]_vars => Allowed
<1> SUFFICES ASSUME Inv, [Next]_vars
             PROVE  Allowed
  OBVIOUS
<1>1. CASE Processing
  <2>1. CASE \E p \in Procs, e \in Entries : Take(p, e)
    BY <2>1, StoreSameAllowed DEF Take
  <2>2. CASE \E e \in Entries : Stall(e)
    BY <2>2, StoreSameAllowed DEF Stall
  <2> QED BY <1>1, <2>1, <2>2, ProcessStepAllowed DEF Processing, ProcessorNext
<1>2. CASE \E p \in Procs : Crash(p) \/ ScanFails(p) \/ Restart(p)
  BY <1>2, StoreSameAllowed DEF Crash, ScanFails, Stops, Restart
<1>3. CASE UNCHANGED vars
  BY <1>3, StoreSameAllowed DEF vars
<1> QED
  BY <1>1, <1>2, <1>3, RecoveringAllowed, ServingAllowed, CleaningAllowed DEF Next

-----------------------------------------------------------------------------
\* The pipeline implements the life of a file as FileLifecycle promises it,
\* with any number of processes, queue entries, crashes, lost replies,
\* overlapping executions and repairs.
THEOREM PipelineImplementsLifecycle == Spec => ImplementsLifecycle
<1>1. Init => Lifecycle!Init
  <2> SUFFICES ASSUME Init
               PROVE  Lifecycle!Init
    OBVIOUS
  <2>1. /\ \A f \in Files : file[f] = NoFile /\ job[f] = NoJob
        /\ uploads = {} /\ processed = {} /\ doomed = {}
    BY DEF Init, StoreInit
  <2> QED BY <2>1 DEF Lifecycle!Init, Listing, NoFile, NoJob
<1>2. Inv /\ [Next]_vars => [Lifecycle!Next]_(Lifecycle!vars)
  BY StepAllowed DEF Allowed
<1> QED
  BY <1>1, <1>2, Invariance, PTL DEF Spec, ImplementsLifecycle, Lifecycle!Spec
=============================================================================
