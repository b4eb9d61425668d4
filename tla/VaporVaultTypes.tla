-------------------------- MODULE VaporVaultTypes --------------------------
(***************************************************************************)
(* Type correctness of the pipeline: TypeOK is inductive. Lemmas on the    *)
(* statements and the queue operations come first; the actions follow,     *)
(* component by component.                                                 *)
(***************************************************************************)
EXTENDS VaporVault, TLAPS

-----------------------------------------------------------------------------
(* Enumerated sets, so that later steps need not expand them.                *)

BusyExecs ==
    [pc : ExecPcs, entry : Entries, file : Files, from : Checkpoints, key : Keys]

BusyReqs == [pc : ReqPcs, file : Files, host : Procs, key : Keys]

\* The strings the actions assign are members of the enumerated types.
LEMMA Names ==
    /\ "idle" \notin ExecPcs
    /\ TryPcs \subseteq ExecPcs
    /\ {"ack", "failFile", "failJob", "nack"} \subseteq ExecPcs
    /\ {"findJob", "startJob", "startFile", "getObject", "saveRetrieved",
        "process", "saveProcessed", "putObject", "saveUploaded", "publish",
        "saveMetadata", "completeJob", "saveCompleted"} \subseteq ExecPcs
    /\ {"INIT", "FILE_RETRIEVED", "FILE_PROCESSED", "UPLOADED_TO_STORAGE",
        "METADATA_UPDATED", "COMPLETED"} \subseteq Checkpoints
    /\ {"null", "key"} \subseteq Keys
    /\ {"PENDING", "UPLOADED", "PROCESSING", "COMPLETED", "FAILED"}
       \subseteq FileStatus
    /\ {"PENDING", "PROCESSING", "COMPLETED", "FAILED"} \subseteq JobStatus
    /\ {"NONE", "DELETED"} \subseteq NoRow
    /\ "none" \notin EntryStates
    /\ {"waiting", "active", "completed", "failed", "removed"}
       \subseteq EntryStates
    /\ {"new", "end"} \cap ReqPcs = {}
    /\ {"putUpload", "createFile", "addJob", "createJob", "statObject",
        "markUploaded", "delUpload", "delProcessed", "deleteRow"}
       \subseteq ReqPcs
    /\ {"delUpload", "delProcessed", "deleteRow"} \subseteq DeletePcs
    /\ {"idle", "loop"} \cap DeletePcs = {}
BY DEF ExecPcs, TryPcs, Checkpoints, Keys, FileStatus, JobStatus, NoRow,
   EntryStates, ReqPcs, DeletePcs

-----------------------------------------------------------------------------
(* Statements and queue operations.                                          *)

LEMMA SetFileStatusType ==
    ASSUME StoreTypeOK, NEW f \in Files, NEW status \in FileStatus,
           SetFileStatus(f, status)
    PROVE  file' \in [Files -> FileRows]
BY DEF StoreTypeOK, SetFileStatus, FileRows

LEMMA SetJobStatusType ==
    ASSUME StoreTypeOK, NEW f \in Files, NEW status \in JobStatus,
           SetJobStatus(f, status)
    PROVE  job' \in [Files -> JobRows]
BY DEF StoreTypeOK, SetJobStatus, JobRows

LEMMA DeleteFileRowType ==
    ASSUME StoreTypeOK, NEW f \in Files, DeleteFileRow(f)
    PROVE  file' \in [Files -> FileRows] /\ job' \in [Files -> JobRows]
BY Names DEF StoreTypeOK, DeleteFileRow, FileRows, JobRows, DeletedFile, NoJob

LEMMA AddEntryType ==
    ASSUME QueueTypeOK, NEW e \in Entries, NEW f \in Files, AddEntry(e, f)
    PROVE  QueueTypeOK'
BY Names DEF QueueTypeOK, AddEntry, NoEntry, QueueEntries

\* An entry that was added names a file.
LEMMA EntryFile ==
    ASSUME QueueTypeOK, NEW e \in Entries, queue[e].state # "none"
    PROVE  queue[e] \in [state : EntryStates, file : Files, attempts : Nat,
                         stalls : Nat, owner : Procs \cup {Nil}]
BY DEF QueueTypeOK, QueueEntries, NoEntry

LEMMA TakeEntryType ==
    ASSUME QueueTypeOK, NEW e \in Entries, NEW p \in Procs, TakeEntry(e, p)
    PROVE  QueueTypeOK'
<1>1. queue[e] \in [state : EntryStates, file : Files, attempts : Nat,
                    stalls : Nat, owner : Procs \cup {Nil}]
  BY EntryFile DEF TakeEntry
<1> QED
  BY <1>1, Names DEF QueueTypeOK, QueueEntries, TakeEntry

LEMMA CompleteEntryType ==
    ASSUME QueueTypeOK, NEW e \in Entries, queue[e].state = "active",
           CompleteEntry(e)
    PROVE  QueueTypeOK'
<1>1. queue[e] \in [state : EntryStates, file : Files, attempts : Nat,
                    stalls : Nat, owner : Procs \cup {Nil}]
  BY EntryFile
<1> QED
  BY <1>1, Names DEF QueueTypeOK, QueueEntries, CompleteEntry

LEMMA FailEntryType ==
    ASSUME QueueTypeOK, NEW e \in Entries, queue[e].state = "active",
           FailEntry(e)
    PROVE  QueueTypeOK'
<1>1. queue[e] \in [state : EntryStates, file : Files, attempts : Nat,
                    stalls : Nat, owner : Procs \cup {Nil}]
  BY EntryFile
<1> QED
  BY <1>1, Names DEF QueueTypeOK, QueueEntries, FailEntry

LEMMA StallEntryType ==
    ASSUME QueueTypeOK, NEW e \in Entries, StallEntry(e)
    PROVE  QueueTypeOK'
<1>1. queue[e] \in [state : EntryStates, file : Files, attempts : Nat,
                    stalls : Nat, owner : Procs \cup {Nil}]
  BY EntryFile DEF StallEntry
<1> QED
  BY <1>1, Names DEF QueueTypeOK, QueueEntries, StallEntry

LEMMA StoreUnchanged ==
    ASSUME StoreTypeOK, UNCHANGED storeVars
    PROVE  StoreTypeOK'
BY DEF StoreTypeOK, storeVars

LEMMA QueueUnchanged ==
    ASSUME QueueTypeOK, UNCHANGED queue
    PROVE  QueueTypeOK'
BY DEF QueueTypeOK

-----------------------------------------------------------------------------
(* The processor.                                                            *)

\* A process that executes has an entry and a file.
LEMMA Busy ==
    ASSUME ExecTypeOK, NEW p \in Procs, exec[p].pc # "idle"
    PROVE  exec[p] \in BusyExecs
BY DEF ExecTypeOK, Execs, IdleExec, BusyExecs

LEMMA ExecPcType ==
    ASSUME ExecTypeOK, NEW p \in Procs, exec[p].pc # "idle",
           NEW pc \in ExecPcs, exec' = [exec EXCEPT ![p].pc = pc]
    PROVE  ExecTypeOK'
BY Busy DEF ExecTypeOK, Execs, BusyExecs

LEMMA GotoType ==
    ASSUME ExecTypeOK, NEW p \in Procs, exec[p].pc # "idle",
           NEW next \in ExecPcs, Goto(p, next)
    PROVE  ExecTypeOK'
<1>1. PICK pc \in ExecPcs : exec' = [exec EXCEPT ![p].pc = pc]
  BY Names DEF Goto, After
<1> QED
  BY <1>1, ExecPcType

LEMMA ExecIdleType ==
    ASSUME ExecTypeOK, NEW p \in Procs, exec' = [exec EXCEPT ![p] = IdleExec]
    PROVE  ExecTypeOK'
BY DEF ExecTypeOK, Execs

LEMMA SaveCheckpointType ==
    ASSUME StoreTypeOK, QueueTypeOK, ExecTypeOK, NEW p \in Procs,
           NEW pc \in ExecPcs, NEW c \in Checkpoints, NEW next \in ExecPcs,
           SaveCheckpoint(p, pc, c, next)
    PROVE  StoreTypeOK' /\ QueueTypeOK' /\ ExecTypeOK'
<1>1. exec[p] \in BusyExecs
  BY Busy, Names DEF SaveCheckpoint, At
<1>2. job' \in [Files -> JobRows]
  BY <1>1, Names DEF SaveCheckpoint, StoreTypeOK, JobRows, BusyExecs
<1>3. StoreTypeOK' /\ QueueTypeOK'
  BY <1>2 DEF SaveCheckpoint, StoreTypeOK, QueueTypeOK
<1>4. ExecTypeOK'
  BY GotoType, Names DEF SaveCheckpoint, At
<1> QED
  BY <1>3, <1>4

\* Every step of a worker keeps the tables, the queue and the workers' own
\* state well typed.
LEMMA ProcessStepType ==
    ASSUME StoreTypeOK, QueueTypeOK, ExecTypeOK, NEW p \in Procs,
           ProcessStep(p)
    PROVE  StoreTypeOK' /\ QueueTypeOK' /\ ExecTypeOK'
<1> DEFINE f == exec[p].file
<1>0. exec[p].pc # "idle" => /\ exec[p] \in BusyExecs
                             /\ f \in Files
                             /\ exec[p].entry \in Entries
                             /\ job[f] \in JobRows
                             /\ file[f] \in FileRows
  BY Busy DEF BusyExecs, StoreTypeOK
<1>1. CASE FindJob(p)
  <2>1. ExecTypeOK'
    BY <1>0, <1>1, Names DEF FindJob, At, ExecTypeOK, Execs, BusyExecs, JobRows
  <2> QED
    BY <1>1, <2>1, StoreUnchanged, QueueUnchanged DEF FindJob
<1>2. CASE StartJob(p)
  <2>1. ExecTypeOK'
    BY <1>2, GotoType, Names DEF StartJob, At
  <2>2. job' \in [Files -> JobRows]
    BY <1>0, <1>2, SetJobStatusType, Names DEF StartJob, At
  <2> QED
    BY <1>2, <2>1, <2>2, QueueUnchanged DEF StartJob, StoreTypeOK
<1>3. CASE StartFile(p)
  <2>1. ExecTypeOK'
    BY <1>3, GotoType, Names DEF StartFile, At
  <2>2. file' \in [Files -> FileRows]
    BY <1>0, <1>3, SetFileStatusType, Names DEF StartFile, At
  <2> QED
    BY <1>3, <2>1, <2>2, QueueUnchanged DEF StartFile, StoreTypeOK
<1>4. CASE GetObject(p)
  <2>1. ExecTypeOK'
    BY <1>4, ExecPcType, Names DEF GetObject, At
  <2> QED
    BY <1>4, <2>1, StoreUnchanged, QueueUnchanged DEF GetObject
<1>5. CASE ProcessFile(p)
  <2>1. AfterProcess(exec[p].from) \in ExecPcs
    BY Names DEF AfterProcess
  <2>2. ExecTypeOK'
    BY <1>5, <2>1, ExecPcType, Names DEF ProcessFile, At
  <2> QED
    BY <1>5, <2>2, StoreUnchanged, QueueUnchanged DEF ProcessFile
<1>6. CASE PutObject(p)
  <2>1. PICK pc \in ExecPcs :
            exec' = [exec EXCEPT ![p].pc = pc, ![p].key = "key"]
    BY <1>6, Names DEF PutObject, After
  <2>2. ExecTypeOK'
    BY <1>0, <1>6, <2>1, Names DEF PutObject, At, ExecTypeOK, Execs, BusyExecs
  <2> QED
    BY <1>0, <1>6, <2>2, QueueUnchanged, Names DEF PutObject, At, StoreTypeOK
<1>7. CASE SaveRetrieved(p) \/ SaveProcessed(p) \/ SaveUploaded(p)
           \/ SaveMetadata(p) \/ SaveCompleted(p)
  BY <1>7, SaveCheckpointType, Names DEF SaveRetrieved, SaveProcessed,
     SaveUploaded, SaveMetadata, SaveCompleted
<1>8. CASE Publish(p)
  <2>1. ExecTypeOK'
    BY <1>8, GotoType, Names DEF Publish, At
  <2>2. file' \in [Files -> FileRows]
    BY <1>0, <1>8, Names DEF Publish, At, StoreTypeOK, FileRows
  <2> QED
    BY <1>8, <2>1, <2>2, QueueUnchanged DEF Publish, StoreTypeOK
<1>9. CASE CompleteJob(p)
  <2>1. ExecTypeOK'
    BY <1>9, GotoType, Names DEF CompleteJob, At
  <2>2. job' \in [Files -> JobRows]
    BY <1>0, <1>9, SetJobStatusType, Names DEF CompleteJob, At
  <2> QED
    BY <1>9, <2>1, <2>2, QueueUnchanged DEF CompleteJob, StoreTypeOK
<1>10. CASE Throw(p) \/ CatchThrows(p)
  <2>1. ExecTypeOK'
    BY <1>10, ExecPcType, Names DEF Throw, CatchThrows, At
  <2> QED
    BY <1>10, <2>1, StoreUnchanged, QueueUnchanged DEF Throw, CatchThrows
<1>11. CASE FailFile(p)
  <2>1. PICK pc \in ExecPcs : exec' = [exec EXCEPT ![p].pc = pc]
    BY <1>11, Names DEF FailFile, After
  <2>2. ExecTypeOK'
    BY <1>11, <2>1, ExecPcType, Names DEF FailFile, At
  <2>3. file' \in [Files -> FileRows]
    BY <1>0, <1>11, SetFileStatusType, Names DEF FailFile, At
  <2> QED
    BY <1>11, <2>2, <2>3, QueueUnchanged DEF FailFile, StoreTypeOK
<1>12. CASE FailJob(p)
  <2>1. ExecTypeOK'
    BY <1>12, ExecPcType, Names DEF FailJob, At
  <2>2. job' \in [Files -> JobRows]
    BY <1>0, <1>12, SetJobStatusType, Names DEF FailJob, At
  <2> QED
    BY <1>12, <2>1, <2>2, QueueUnchanged DEF FailJob, StoreTypeOK
<1>13. CASE Ack(p)
  <2>1. QueueTypeOK'
    BY <1>0, <1>13, CompleteEntryType DEF Ack, At, Holds
  <2> QED
    BY <1>13, <2>1, StoreUnchanged, ExecIdleType DEF Ack
<1>14. CASE Nack(p)
  <2>1. QueueTypeOK'
    BY <1>0, <1>14, FailEntryType DEF Nack, At, Holds
  <2> QED
    BY <1>14, <2>1, StoreUnchanged, ExecIdleType DEF Nack
<1>15. CASE ReportLost(p)
  BY <1>15, StoreUnchanged, QueueUnchanged, ExecIdleType DEF ReportLost
<1> QED
  BY <1>1, <1>2, <1>3, <1>4, <1>5, <1>6, <1>7, <1>8, <1>9, <1>10, <1>11,
     <1>12, <1>13, <1>14, <1>15 DEF ProcessStep

LEMMA ProcessorType ==
    ASSUME StoreTypeOK, QueueTypeOK, ExecTypeOK, ProcessorNext
    PROVE  StoreTypeOK' /\ QueueTypeOK' /\ ExecTypeOK'
<1>1. ASSUME NEW p \in Procs, NEW e \in Entries, Take(p, e)
      PROVE  StoreTypeOK' /\ QueueTypeOK' /\ ExecTypeOK'
  <2>1. QueueTypeOK'
    BY <1>1, TakeEntryType DEF Take
  <2>2. queue[e].file \in Files
    BY <1>1, EntryFile DEF Take, TakeEntry
  <2>3. ExecTypeOK'
    BY <1>1, <2>2, Names DEF Take, ExecTypeOK, Execs, IdleExec
  <2> QED
    BY <1>1, <2>1, <2>3, StoreUnchanged DEF Take
<1>2. ASSUME NEW e \in Entries, Stall(e)
      PROVE  StoreTypeOK' /\ QueueTypeOK' /\ ExecTypeOK'
  BY <1>2, StallEntryType, StoreUnchanged DEF Stall, ExecTypeOK
<1> QED
  BY <1>1, <1>2, ProcessStepType DEF ProcessorNext

-----------------------------------------------------------------------------
(* The recovery.                                                             *)

LEMMA RecoveryStepType ==
    ASSUME StoreTypeOK, QueueTypeOK, RecTypeOK, NEW p \in Procs,
           RecoveryStep(p)
    PROVE  StoreTypeOK' /\ QueueTypeOK' /\ RecTypeOK'
<1>1. CASE Scan(p)
  <2>1. rec[p] \in Recs /\ rec[p].pc = "scan"
    BY <1>1 DEF Scan, RecTypeOK
  <2>2. rec[p].cur = Nil
    BY <2>1 DEF Recs
  <2>3. RecTypeOK'
    BY <1>1, <2>1, <2>2 DEF Scan, RecTypeOK, Recs
  <2> QED
    BY <1>1, <2>3, StoreUnchanged, QueueUnchanged DEF Scan
<1>2. CASE ResetJob(p)
  <2>1. rec[p] \in Recs /\ rec[p].todo \in SUBSET Files
    BY DEF RecTypeOK, Recs
  <2>2. PICK f \in rec[p].todo :
            /\ SetJobStatus(f, "PENDING")
            /\ \E pc \in After("db", "enqueue", "loop") :
                   rec' = [rec EXCEPT
                       ![p] = [pc |-> pc, todo |-> @.todo \ {f},
                               cur |-> IF pc = "enqueue" THEN f ELSE Nil]]
    BY <1>2 DEF ResetJob
  <2>3. PICK pc \in {"enqueue", "loop"} :
            rec' = [rec EXCEPT
                ![p] = [pc |-> pc, todo |-> rec[p].todo \ {f},
                        cur |-> IF pc = "enqueue" THEN f ELSE Nil]]
    BY <2>2 DEF After
  <2>4. [pc |-> pc, todo |-> rec[p].todo \ {f},
         cur |-> IF pc = "enqueue" THEN f ELSE Nil] \in Recs
    BY <2>1, <2>2 DEF Recs
  <2>5. RecTypeOK'
    BY <1>2, <2>3, <2>4 DEF ResetJob, RecTypeOK
  <2>6. job' \in [Files -> JobRows]
    BY <2>1, <2>2, SetJobStatusType, Names
  <2> QED
    BY <1>2, <2>5, <2>6, QueueUnchanged DEF ResetJob, StoreTypeOK
<1>3. CASE SkipJob(p)
  <2>1. rec[p] \in Recs /\ rec[p].pc = "loop"
    BY <1>3 DEF SkipJob, RecTypeOK
  <2>2. PICK f \in rec[p].todo : rec' = [rec EXCEPT ![p].todo = @ \ {f}]
    BY <1>3 DEF SkipJob
  <2>3. RecTypeOK'
    BY <1>3, <2>1, <2>2 DEF SkipJob, RecTypeOK, Recs
  <2> QED
    BY <1>3, <2>3, StoreUnchanged, QueueUnchanged DEF SkipJob
<1>4. CASE Reenqueue(p) \/ ReenqueueFails(p)
  <2>1. rec[p] \in Recs /\ rec[p].pc = "enqueue"
    BY <1>4 DEF Reenqueue, ReenqueueFails, RecTypeOK
  <2>2. rec[p].cur \in Files /\ rec[p].todo \in SUBSET Files
    BY <2>1 DEF Recs
  <2>3. RecTypeOK'
    BY <1>4, <2>1, <2>2 DEF Reenqueue, ReenqueueFails, RecTypeOK, Recs
  <2>4. QueueTypeOK'
    BY <1>4, <2>2, AddEntryType, QueueUnchanged DEF Reenqueue, ReenqueueFails
  <2> QED
    BY <1>4, <2>3, <2>4, StoreUnchanged DEF Reenqueue, ReenqueueFails
<1>5. CASE RecoveryDone(p)
  <2>1. rec[p] \in Recs /\ rec[p].pc = "loop"
    BY <1>5 DEF RecoveryDone, RecTypeOK
  <2>2. RecTypeOK'
    BY <1>5, <2>1 DEF RecoveryDone, RecTypeOK, Recs
  <2> QED
    BY <1>5, <2>2, StoreUnchanged, QueueUnchanged DEF RecoveryDone
<1> QED
  BY <1>1, <1>2, <1>3, <1>4, <1>5 DEF RecoveryStep

LEMMA RecoveryType ==
    ASSUME StoreTypeOK, QueueTypeOK, RecTypeOK, RecoveryNext
    PROVE  StoreTypeOK' /\ QueueTypeOK' /\ RecTypeOK'
<1>1. ASSUME NEW e \in Entries, RetryFailedJob(e) \/ RemoveFailedJob(e)
      PROVE  StoreTypeOK' /\ QueueTypeOK' /\ RecTypeOK'
  <2>1. queue[e] \in [state : EntryStates, file : Files, attempts : Nat,
                      stalls : Nat, owner : Procs \cup {Nil}]
    BY <1>1, EntryFile DEF RetryFailedJob, RemoveFailedJob
  <2>2. QueueTypeOK'
    BY <1>1, <2>1, Names DEF RetryFailedJob, RemoveFailedJob, QueueTypeOK,
       QueueEntries
  <2>3. RecTypeOK'
    BY <1>1 DEF RetryFailedJob, RemoveFailedJob, RecTypeOK
  <2> QED
    BY <1>1, <2>2, <2>3, StoreUnchanged DEF RetryFailedJob, RemoveFailedJob
<1> QED
  BY <1>1, RecoveryStepType DEF RecoveryNext

-----------------------------------------------------------------------------
(* The API.                                                                  *)

\* A request under way has a file and a host.
LEMMA BusyRequest ==
    ASSUME ServiceTypeOK, NEW r \in Requests, req[r].pc \notin {"new", "end"}
    PROVE  req[r] \in BusyReqs /\ req[r].file \in Files
BY DEF ServiceTypeOK, Reqs, BusyReqs, NewReq, EndedReq

LEMMA BeginType ==
    ASSUME ServiceTypeOK, NEW r \in Requests, NEW p \in Procs,
           NEW f \in Files, NEW op, NEW pc \in ReqPcs, NEW key \in Keys,
           Begin(r, p, f, op, pc, key)
    PROVE  req' \in [Requests -> Reqs]
BY DEF ServiceTypeOK, Begin, Reqs

LEMMA EndReqType ==
    ASSUME ServiceTypeOK, NEW r \in Requests, EndReq(r)
    PROVE  req' \in [Requests -> Reqs]
BY DEF ServiceTypeOK, EndReq, Reqs

LEMMA ReqPcType ==
    ASSUME ServiceTypeOK, NEW r \in Requests, NEW pc \in ReqPcs,
           req[r].pc \notin {"new", "end"}, req' = [req EXCEPT ![r].pc = pc]
    PROVE  req' \in [Requests -> Reqs]
BY BusyRequest DEF ServiceTypeOK, BusyReqs, Reqs

LEMMA ReqGotoType ==
    ASSUME ServiceTypeOK, NEW r \in Requests, NEW service, NEW next \in ReqPcs,
           req[r].pc \notin {"new", "end"}, ReqGoto(r, service, next)
    PROVE  req' \in [Requests -> Reqs]
<1>1. EndReq(r) \/ req' = [req EXCEPT ![r].pc = next]
  BY DEF ReqGoto, After
<1> QED
  BY <1>1, EndReqType, ReqPcType

LEMMA AcceptType ==
    ASSUME StoreTypeOK, QueueTypeOK, ServiceTypeOK, NEW p \in Procs, Accept(p)
    PROVE  StoreTypeOK' /\ QueueTypeOK' /\ ServiceTypeOK'
<1> SUFFICES ASSUME NEW r \in Requests,
                    \/ BeginUpload(r, p) \/ PresignUpload(r, p)
                    \/ BeginComplete(r, p) \/ BeginDelete(r, p)
             PROVE  StoreTypeOK' /\ QueueTypeOK' /\ ServiceTypeOK'
  BY DEF Accept
<1>1. CASE BeginUpload(r, p)
  <2>1. PICK f \in Files \ known :
            /\ Begin(r, p, f, "upload", "putUpload", "null")
            /\ known' = known \cup {f}
            /\ UNCHANGED <<storeVars, queue, urls>>
    BY <1>1 DEF BeginUpload
  <2>2. req' \in [Requests -> Reqs]
    BY <2>1, BeginType, Names
  <2> QED
    BY <2>1, <2>2, StoreUnchanged, QueueUnchanged DEF ServiceTypeOK
<1>2. CASE PresignUpload(r, p)
  <2>1. PICK f \in Files \ known :
            /\ EndReq(r)
            /\ file' = [file EXCEPT ![f].status = "PENDING"]
            /\ known' = known \cup {f}
            /\ urls' = urls \cup {f}
            /\ UNCHANGED <<job, uploads, processed, doomed, queue>>
    BY <1>2 DEF PresignUpload
  <2>2. file' \in [Files -> FileRows]
    BY <2>1, Names DEF StoreTypeOK, FileRows
  <2> QED
    BY <2>1, <2>2, EndReqType, QueueUnchanged DEF ServiceTypeOK, StoreTypeOK
<1>3. CASE BeginComplete(r, p)
  <2>1. PICK f \in Files :
            /\ Begin(r, p, f, "complete", "statObject", "null")
            /\ UNCHANGED <<storeVars, queue, known, urls>>
    BY <1>3 DEF BeginComplete
  <2>2. req' \in [Requests -> Reqs]
    BY <2>1, BeginType, Names
  <2> QED
    BY <2>1, <2>2, StoreUnchanged, QueueUnchanged DEF ServiceTypeOK
<1>4. CASE BeginDelete(r, p)
  <2>1. PICK f \in Files :
            /\ Begin(r, p, f, "delete", "delUpload", file[f].key)
            /\ UNCHANGED <<storeVars, queue, known, urls>>
    BY <1>4 DEF BeginDelete
  <2>2. file[f].key \in Keys
    BY DEF StoreTypeOK, FileRows
  <2>3. req' \in [Requests -> Reqs]
    BY <2>1, <2>2, BeginType, Names
  <2> QED
    BY <2>1, <2>3, StoreUnchanged, QueueUnchanged DEF ServiceTypeOK
<1> QED
  BY <1>1, <1>2, <1>3, <1>4

LEMMA ServiceStepType ==
    ASSUME StoreTypeOK, QueueTypeOK, ServiceTypeOK, NEW r \in Requests,
           ServiceStep(r)
    PROVE  StoreTypeOK' /\ QueueTypeOK' /\ ServiceTypeOK'
<1> DEFINE f == req[r].file
<1>0. req[r].pc \notin {"new", "end"} => f \in Files
  BY BusyRequest
<1>1. CASE PutUpload(r)
  <2>1. req' \in [Requests -> Reqs]
    BY <1>1, ReqGotoType, Names DEF PutUpload, At_
  <2> QED
    BY <1>0, <1>1, <2>1, QueueUnchanged DEF PutUpload, At_, StoreTypeOK,
       ServiceTypeOK
<1>2. CASE CreateFile(r)
  <2>1. req' \in [Requests -> Reqs]
    BY <1>2, ReqGotoType, Names DEF CreateFile, At_
  <2>2. file' \in [Files -> FileRows]
    BY <1>0, <1>2, Names DEF CreateFile, At_, StoreTypeOK, FileRows
  <2> QED
    BY <1>2, <2>1, <2>2, QueueUnchanged DEF CreateFile, StoreTypeOK,
       ServiceTypeOK
<1>3. CASE AddJob(r)
  <2>1. req' \in [Requests -> Reqs]
    BY <1>3, ReqGotoType, Names DEF AddJob, At_
  <2>2. QueueTypeOK'
    BY <1>0, <1>3, AddEntryType DEF AddJob, At_
  <2> QED
    BY <1>3, <2>1, <2>2, StoreUnchanged DEF AddJob, ServiceTypeOK
<1>4. CASE CreateJob(r)
  <2>1. job' \in [Files -> JobRows]
    BY <1>4, Names DEF CreateJob, StoreTypeOK, JobRows, NewJob
  <2> QED
    BY <1>4, <2>1, EndReqType, QueueUnchanged DEF CreateJob, StoreTypeOK,
       ServiceTypeOK
<1>5. CASE StatObject(r)
  <2>1. req' \in [Requests -> Reqs]
    BY <1>5, ReqPcType, Names DEF StatObject, At_
  <2> QED
    BY <1>5, <2>1, StoreUnchanged, QueueUnchanged DEF StatObject, ServiceTypeOK
<1>6. CASE MarkUploaded(r)
  <2>1. req' \in [Requests -> Reqs]
    BY <1>6, ReqGotoType, Names DEF MarkUploaded, At_
  <2>2. file' \in [Files -> FileRows]
    BY <1>0, <1>6, SetFileStatusType, Names DEF MarkUploaded, At_
  <2> QED
    BY <1>6, <2>1, <2>2, QueueUnchanged DEF MarkUploaded, StoreTypeOK,
       ServiceTypeOK
<1>7. CASE DelUpload(r)
  <2>1. req' \in [Requests -> Reqs]
    BY <1>7, ReqPcType, Names DEF DelUpload, AfterDelUpload, At_
  <2> QED
    BY <1>0, <1>7, <2>1, QueueUnchanged DEF DelUpload, At_, StoreTypeOK,
       ServiceTypeOK
<1>8. CASE DelProcessed(r)
  <2>1. req' \in [Requests -> Reqs]
    BY <1>8, ReqPcType, Names DEF DelProcessed, At_
  <2> QED
    BY <1>8, <2>1, QueueUnchanged DEF DelProcessed, StoreTypeOK, ServiceTypeOK
<1>9. CASE DeleteRow(r)
  <2>1. file' \in [Files -> FileRows] /\ job' \in [Files -> JobRows]
    BY <1>0, <1>9, DeleteFileRowType DEF DeleteRow, At_
  <2> QED
    BY <1>9, <2>1, EndReqType, QueueUnchanged DEF DeleteRow, StoreTypeOK,
       ServiceTypeOK
<1>10. CASE ReqFails(r)
  BY <1>10, EndReqType, StoreUnchanged, QueueUnchanged DEF ReqFails,
     ServiceTypeOK
<1> QED
  BY <1>1, <1>2, <1>3, <1>4, <1>5, <1>6, <1>7, <1>8, <1>9, <1>10
     DEF ServiceStep

LEMMA ClientStepType ==
    ASSUME StoreTypeOK, QueueTypeOK, ServiceTypeOK, NEW f \in Files,
           ClientStep(f)
    PROVE  StoreTypeOK' /\ QueueTypeOK' /\ ServiceTypeOK'
BY StoreUnchanged, QueueUnchanged DEF ClientStep, ClientPut, ExpireUrl,
   StoreTypeOK, ServiceTypeOK, serviceVars

-----------------------------------------------------------------------------
(* The cleanup.                                                              *)

LEMMA BusyPass ==
    ASSUME CleanupTypeOK, NEW p \in Procs, pass[p].pc # "idle"
    PROVE  /\ pass[p] \in [pc : {"loop"} \cup DeletePcs, todo : SUBSET Files,
                           keyed : SUBSET Files, cur : Files \cup {Nil}]
           /\ pass[p].pc \in DeletePcs => pass[p].cur \in Files
BY Names DEF CleanupTypeOK, Passes, NoPass

LEMMA PassLoopType ==
    ASSUME CleanupTypeOK, NEW p \in Procs, pass[p].pc # "idle",
           PassTo(p, "loop", Nil)
    PROVE  pass' \in [Procs -> Passes]
<1>1. [pass[p] EXCEPT !.pc = "loop", !.cur = Nil] \in Passes
  BY BusyPass DEF Passes
<1> QED
  BY <1>1 DEF PassTo, CleanupTypeOK

LEMMA PassDeleteType ==
    ASSUME CleanupTypeOK, NEW p \in Procs, pass[p].pc # "idle",
           NEW pc \in DeletePcs, NEW cur \in Files, PassTo(p, pc, cur)
    PROVE  pass' \in [Procs -> Passes]
<1>1. [pass[p] EXCEPT !.pc = pc, !.cur = cur] \in Passes
  BY BusyPass DEF Passes
<1> QED
  BY <1>1 DEF PassTo, CleanupTypeOK

LEMMA PassGotoType ==
    ASSUME CleanupTypeOK, NEW p \in Procs, pass[p].pc \in DeletePcs,
           NEW service, NEW next \in DeletePcs, PassGoto(p, service, next)
    PROVE  pass' \in [Procs -> Passes]
<1>1. pass[p].pc # "idle" /\ pass[p].cur \in Files
  BY BusyPass, Names
<1>2. CASE PassTo(p, next, pass[p].cur)
  BY <1>1, <1>2, PassDeleteType
<1>3. CASE PassTo(p, "loop", Nil)
  BY <1>1, <1>3, PassLoopType
<1> QED
  BY <1>2, <1>3 DEF PassGoto

LEMMA CleanupStepType ==
    ASSUME StoreTypeOK, CleanupTypeOK, NEW p \in Procs, CleanupStep(p)
    PROVE  StoreTypeOK' /\ CleanupTypeOK'
<1>1. CASE NextExpired(p)
  <2>1. PICK f \in pass[p].todo :
            pass' = [pass EXCEPT ![p].pc = "delUpload", ![p].cur = f,
                                 ![p].todo = @ \ {f}]
    BY <1>1 DEF NextExpired
  <2>2. pass' \in [Procs -> Passes]
    BY <1>1, <2>1, BusyPass, Names DEF NextExpired, CleanupTypeOK, Passes
  <2> QED
    BY <1>1, <2>2, StoreUnchanged DEF NextExpired, CleanupTypeOK
<1>2. CASE DelExpiredUpload(p)
  <2>1. pass' \in [Procs -> Passes]
    BY <1>2, PassGotoType, Names DEF DelExpiredUpload
  <2>2. pass[p].cur \in Files
    BY <1>2, BusyPass, Names DEF DelExpiredUpload
  <2> QED
    BY <1>2, <2>1, <2>2 DEF DelExpiredUpload, StoreTypeOK, CleanupTypeOK
<1>3. CASE DelExpiredProcessed(p)
  <2>1. pass' \in [Procs -> Passes]
    BY <1>3, PassGotoType, Names DEF DelExpiredProcessed
  <2> QED
    BY <1>3, <2>1 DEF DelExpiredProcessed, StoreTypeOK, CleanupTypeOK
<1>4. CASE DeleteExpiredRow(p)
  <2>1. pass' \in [Procs -> Passes]
    BY <1>4, PassLoopType, Names DEF DeleteExpiredRow
  <2>2. file' \in [Files -> FileRows] /\ job' \in [Files -> JobRows]
    BY <1>4, DeleteFileRowType, BusyPass, Names DEF DeleteExpiredRow
  <2> QED
    BY <1>4, <2>1, <2>2 DEF DeleteExpiredRow, StoreTypeOK, CleanupTypeOK
<1>5. CASE VisitFails(p)
  <2>1. pass' \in [Procs -> Passes]
    BY <1>5, PassLoopType, Names DEF VisitFails
  <2> QED
    BY <1>5, <2>1, StoreUnchanged DEF VisitFails, CleanupTypeOK
<1>6. CASE CleanupDone(p)
  BY <1>6, StoreUnchanged DEF CleanupDone, CleanupTypeOK, Passes
<1> QED
  BY <1>1, <1>2, <1>3, <1>4, <1>5, <1>6 DEF CleanupStep

LEMMA CleaningType ==
    ASSUME TypeOK, Cleaning
    PROVE  StoreTypeOK' /\ CleanupTypeOK'
<1> USE DEF TypeOK
<1>1. ASSUME NEW f \in Files, Expire(f)
      PROVE  StoreTypeOK' /\ CleanupTypeOK'
  BY <1>1, StoreUnchanged DEF Expire, CleanupTypeOK
<1>2. ASSUME NEW p \in Procs, HandleCleanup(p)
      PROVE  StoreTypeOK' /\ CleanupTypeOK'
  BY <1>2, StoreUnchanged DEF HandleCleanup, CleanupTypeOK, Passes
<1> QED
  BY <1>1, <1>2, CleanupStepType DEF Cleaning

-----------------------------------------------------------------------------
(* The whole system.                                                         *)

LEMMA StopType ==
    ASSUME TypeOK, NEW p \in Procs, Crash(p) \/ ScanFails(p)
    PROVE  TypeOK'
<1> USE DEF TypeOK, Crash, ScanFails, Stops
<1>1. StoreTypeOK' /\ QueueTypeOK'
  BY StoreUnchanged, QueueUnchanged
<1>2. ExecTypeOK'
  BY ExecIdleType DEF ExecCrash
<1>3. RecTypeOK'
  BY DEF RecCrash, RecTypeOK, Recs, StartedRec
<1>4. ServiceTypeOK'
  BY DEF ReqCrash, ServiceTypeOK, Reqs
<1>5. CleanupTypeOK'
  BY DEF PassCrash, CleanupTypeOK, Passes
<1>6. up' \in SUBSET Procs /\ crashes' \in Nat
  OBVIOUS
<1> QED
  BY <1>1, <1>2, <1>3, <1>4, <1>5, <1>6

LEMMA TypeStep ==
    ASSUME TypeOK, [Next]_vars
    PROVE  TypeOK'
<1> USE DEF TypeOK
<1>1. CASE Processing
  BY <1>1, ProcessorType DEF Processing, recoveryVars, serviceVars,
     cleanupVars, platformVars, RecTypeOK, ServiceTypeOK, CleanupTypeOK
<1>2. CASE Recovering
  BY <1>2, RecoveryType DEF Recovering, serviceVars, cleanupVars,
     platformVars, ExecTypeOK, ServiceTypeOK, CleanupTypeOK
<1>3. CASE Serving
  <2>1. StoreTypeOK' /\ QueueTypeOK' /\ ServiceTypeOK'
    BY <1>3, AcceptType, ServiceStepType, ClientStepType DEF Serving
  <2> QED
    BY <1>3, <2>1 DEF Serving, recoveryVars, cleanupVars, platformVars,
       ExecTypeOK, RecTypeOK, CleanupTypeOK
<1>4. CASE Cleaning
  BY <1>4, CleaningType DEF Cleaning, recoveryVars, serviceVars, platformVars,
     QueueTypeOK, ExecTypeOK, RecTypeOK, ServiceTypeOK
<1>5. ASSUME NEW p \in Procs, Crash(p) \/ ScanFails(p)
      PROVE  TypeOK'
  BY <1>5, StopType
<1>6. ASSUME NEW p \in Procs, Restart(p)
      PROVE  TypeOK'
  BY <1>6, StoreUnchanged DEF Restart, recoveryVars, serviceVars, cleanupVars,
     QueueTypeOK, ExecTypeOK, RecTypeOK, ServiceTypeOK, CleanupTypeOK
<1>7. CASE UNCHANGED vars
  BY <1>7, StoreUnchanged DEF vars, recoveryVars, serviceVars, cleanupVars,
     platformVars, QueueTypeOK, ExecTypeOK, RecTypeOK, ServiceTypeOK,
     CleanupTypeOK
<1> QED
  BY <1>1, <1>2, <1>3, <1>4, <1>5, <1>6, <1>7 DEF Next

LEMMA TypeInit == Init => TypeOK
BY Names DEF Init, TypeOK, StoreInit, StoreTypeOK, NoFile, NoJob, FileRows,
   JobRows, QueueInit, QueueTypeOK, QueueEntries, ExecInit, ExecTypeOK, Execs,
   RecInit, RecTypeOK, Recs, StartedRec, ServiceInit, ServiceTypeOK, Reqs,
   CleanupInit, CleanupTypeOK, Passes

\* Every variable of the pipeline keeps its type: in particular a worker that
\* executes, a request under way and a deletion under way always name a file.
THEOREM TypeCorrect == Spec => []TypeOK
<1>1. Init => TypeOK
  BY TypeInit
<1>2. TypeOK /\ [Next]_vars => TypeOK'
  BY TypeStep
<1> QED
  BY <1>1, <1>2, PTL DEF Spec

=============================================================================
