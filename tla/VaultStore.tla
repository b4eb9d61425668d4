----------------------------- MODULE VaultStore -----------------------------
(***************************************************************************)
(* What the API process and the worker process of VapourVault share: the   *)
(* PostgreSQL tables File and Job and the two MinIO buckets.               *)
(*                                                                         *)
(* A row is abstracted to the columns some other part of the system reads. *)
(* The id of a Job row (its BullMQ id), the timestamps, the error message, *)
(* the metadata and retryCount are written and never read by the pipeline. *)
(* File ids are fresh uuids, so an id is never used again once its row is  *)
(* gone: "DELETED" tells that case from a row not yet created ("NONE").    *)
(***************************************************************************)
EXTENDS Naturals, FiniteSets

CONSTANTS
    Files,      \* file ids (one uuid per upload)
    Procs,      \* operating-system processes running the application
    ApiProcs,   \* those of them that serve HTTP and run the cron job
    Nil,        \* "no file", "no process", "no queue entry"
    Faulty      \* the services a call to may fail: "db", "storage", "queue"

ASSUME ProcsAssumption == ApiProcs \subseteq Procs
ASSUME NilAssumption == Nil \notin Files /\ Nil \notin Procs
ASSUME FaultyAssumption == Faulty \subseteq {"db", "storage", "queue"}

VARIABLES
    file,       \* the File table: status and processedKey
    job,        \* the Job table: status, checkpoint, and the processedKey that
                \* checkpointData carries
    uploads,    \* bucket "uploads": the files whose object it holds
    processed,  \* bucket "processed": likewise
    doomed,     \* history: files some delete or cleanup began to destroy
    up          \* the processes that are running

storeVars == <<file, job, uploads, processed, doomed>>

-----------------------------------------------------------------------------
Keys == {"null", "key"}

FileStatus == {"PENDING", "UPLOADED", "PROCESSING", "COMPLETED", "FAILED"}
NoRow == {"NONE", "DELETED"}

JobStatus == {"PENDING", "PROCESSING", "COMPLETED", "FAILED"}
Checkpoints == {"INIT", "FILE_RETRIEVED", "FILE_PROCESSED",
                "UPLOADED_TO_STORAGE", "METADATA_UPDATED", "COMPLETED"}

\* The checkpoints from which the processed object need not be written again,
\* and those from which the File row need not be updated again.
StoredCheckpoints == {"UPLOADED_TO_STORAGE", "METADATA_UPDATED", "COMPLETED"}
PublishedCheckpoints == {"METADATA_UPDATED", "COMPLETED"}

FileRows == [status : FileStatus \cup NoRow, key : Keys]
JobRows == [status : JobStatus \cup NoRow, checkpoint : Checkpoints, key : Keys]

NoFile == [status |-> "NONE", key |-> "null"]
DeletedFile == [status |-> "DELETED", key |-> "null"]
NoJob == [status |-> "NONE", checkpoint |-> "INIT", key |-> "null"]
NewJob == [status |-> "PENDING", checkpoint |-> "INIT", key |-> "null"]

HasFile(f) == file[f].status \notin NoRow
HasJob(f) == job[f].status \notin NoRow

StoreInit ==
    /\ file = [f \in Files |-> NoFile]
    /\ job = [f \in Files |-> NoJob]
    /\ uploads = {}
    /\ processed = {}
    /\ doomed = {}

-----------------------------------------------------------------------------
(* Statements on the two tables. Each is one SQL statement, atomic.          *)

SetFileStatus(f, status) ==
    /\ HasFile(f)
    /\ file' = [file EXCEPT ![f].status = status]

SetJobStatus(f, status) ==
    /\ HasJob(f)
    /\ job' = [job EXCEPT ![f].status = status]

\* Deleting a File row deletes its Job row (onDelete: Cascade).
DeleteFileRow(f) ==
    /\ HasFile(f)
    /\ file' = [file EXCEPT ![f] = DeletedFile]
    /\ job' = [job EXCEPT ![f] = NoJob]

(* A call to a service that may fail either has its effect and returns, or   *)
(* has its effect and its reply is lost, or fails without effect. After is   *)
(* where the caller can be when the call had its effect.                     *)
MayFail(service) == service \in Faulty

After(service, next, onError) ==
    {next} \cup (IF MayFail(service) THEN {onError} ELSE {})

StoreTypeOK ==
    /\ file \in [Files -> FileRows]
    /\ job \in [Files -> JobRows]
    /\ uploads \in SUBSET Files
    /\ processed \in SUBSET Files
    /\ doomed \in SUBSET Files
=============================================================================
