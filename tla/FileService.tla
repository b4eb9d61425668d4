---------------------------- MODULE FileService ----------------------------
(***************************************************************************)
(* The operations of FileService (file.service.ts) that change state, one  *)
(* step per await, and the client that uses a presigned URL. A request is  *)
(* served by one API process and is issued once. Requests that change      *)
(* nothing (status, download URL, list, every 404 and 400 before the first *)
(* effect) are not steps.                                                  *)
(***************************************************************************)
EXTENDS JobQueue

CONSTANTS
    Requests,   \* bound: the HTTP requests of a behaviour
    Operations  \* which operations the clients use

ASSUME ServiceAssumption ==
    /\ Nil \notin Requests
    /\ Operations \subseteq {"upload", "presign", "complete", "delete"}

VARIABLES
    req,    \* per request: the next call to make, and what it has read
    known,  \* uuids handed out
    urls    \* files with a presigned PUT URL still valid

serviceVars == <<req, known, urls>>

ReqPcs == {"putUpload", "createFile", "addJob", "createJob", "statObject",
           "markUploaded", "delUpload", "delProcessed", "deleteRow"}

NewReq == [pc |-> "new", file |-> Nil, host |-> Nil, key |-> "null"]
EndedReq == [NewReq EXCEPT !.pc = "end"]
Reqs == {NewReq, EndedReq} \cup
    [pc : ReqPcs, file : Files, host : Procs, key : Keys]

ServiceInit ==
    /\ req = [r \in Requests |-> NewReq]
    /\ known = {}
    /\ urls = {}

ServiceTypeOK ==
    /\ req \in [Requests -> Reqs]
    /\ known \in SUBSET Files
    /\ urls \in SUBSET Files

\* Request r, served by process p, starts an operation on file f.
Begin(r, p, f, op, pc, key) ==
    /\ op \in Operations
    /\ req[r].pc = "new"
    /\ req' = [req EXCEPT ![r] = [pc |-> pc, file |-> f, host |-> p,
                                  key |-> key]]

At_(r, pc) == req[r].pc = pc

EndReq(r) == req' = [req EXCEPT ![r] = EndedReq]

\* The call has its effect; r goes on at next, or ends if the reply is lost.
ReqGoto(r, service, next) ==
    \E pc \in After(service, next, "end") :
        IF pc = "end" THEN EndReq(r) ELSE req' = [req EXCEPT ![r].pc = pc]

-----------------------------------------------------------------------------
(* uploadFile: object, File row, queue entry, Job row.                       *)

BeginUpload(r, p) ==
    \E f \in Files \ known :
        /\ Begin(r, p, f, "upload", "putUpload", "null")
        /\ known' = known \cup {f}
        /\ UNCHANGED <<storeVars, queue, urls>>

PutUpload(r) ==
    /\ At_(r, "putUpload")
    /\ uploads' = uploads \cup {req[r].file}
    /\ ReqGoto(r, "storage", "createFile")
    /\ UNCHANGED <<file, job, processed, doomed, queue, known, urls>>

CreateFile(r) ==
    LET f == req[r].file IN
    /\ At_(r, "createFile")
    /\ file[f] = NoFile
    /\ file' = [file EXCEPT ![f].status = "UPLOADED"]
    /\ ReqGoto(r, "db", "addJob")
    /\ UNCHANGED <<job, uploads, processed, doomed, queue, known, urls>>

AddJob(r) ==
    /\ At_(r, "addJob")
    /\ \E e \in Entries : AddEntry(e, req[r].file)
    /\ ReqGoto(r, "queue", "createJob")
    /\ UNCHANGED <<storeVars, known, urls>>

\* Job.fileId is unique and references an existing File row.
CreateJob(r) ==
    LET f == req[r].file IN
    /\ At_(r, "createJob")
    /\ HasFile(f)
    /\ ~HasJob(f)
    /\ job' = [job EXCEPT ![f] = NewJob]
    /\ EndReq(r)
    /\ UNCHANGED <<file, uploads, processed, doomed, queue, known, urls>>

-----------------------------------------------------------------------------
(* presignUpload: signing the URL is local, so one statement in all; the     *)
(* client then PUTs the object directly, as often as it likes until the URL  *)
(* expires.                                                                  *)

PresignUpload(r, p) ==
    \E f \in Files \ known :
        /\ "presign" \in Operations
        /\ At_(r, "new")
        /\ EndReq(r)
        /\ file[f] = NoFile
        /\ file' = [file EXCEPT ![f].status = "PENDING"]
        /\ known' = known \cup {f}
        /\ urls' = urls \cup {f}
        /\ UNCHANGED <<job, uploads, processed, doomed, queue>>

ClientPut(f) ==
    /\ f \in urls
    /\ uploads' = uploads \cup {f}
    /\ UNCHANGED <<file, job, processed, doomed, queue, serviceVars>>

ExpireUrl(f) ==
    /\ f \in urls
    /\ urls' = urls \ {f}
    /\ UNCHANGED <<storeVars, queue, req, known>>

-----------------------------------------------------------------------------
(* completeUpload: the row, the object, then the status whatever it was, a   *)
(* queue entry and the Job row.                                              *)

BeginComplete(r, p) ==
    \E f \in Files :
        /\ HasFile(f)
        /\ Begin(r, p, f, "complete", "statObject", "null")
        /\ UNCHANGED <<storeVars, queue, known, urls>>

\* Mutant: the client is believed.
StatObjectSkipped(r) ==
    /\ At_(r, "statObject")
    /\ req' = [req EXCEPT ![r].pc = "markUploaded"]
    /\ UNCHANGED <<storeVars, queue, known, urls>>

StatObject(r) ==
    /\ At_(r, "statObject")
    /\ req[r].file \in uploads
    /\ req' = [req EXCEPT ![r].pc = "markUploaded"]
    /\ UNCHANGED <<storeVars, queue, known, urls>>

MarkUploaded(r) ==
    /\ At_(r, "markUploaded")
    /\ SetFileStatus(req[r].file, "UPLOADED")
    /\ ReqGoto(r, "db", "addJob")
    /\ UNCHANGED <<job, uploads, processed, doomed, queue, known, urls>>

-----------------------------------------------------------------------------
(* deleteFile: errors of the two object deletions are swallowed. The second  *)
(* deletion depends on the processedKey the row had when it was read.        *)

\* Mutant: the row is deleted first.
BeginDeleteRowFirst(r, p) ==
    \E f \in Files :
        /\ HasFile(f)
        /\ Begin(r, p, f, "delete", "deleteRow", file[f].key)
        /\ UNCHANGED <<storeVars, queue, known, urls>>

BeginDelete(r, p) ==
    \E f \in Files :
        /\ HasFile(f)
        /\ Begin(r, p, f, "delete", "delUpload", file[f].key)
        /\ UNCHANGED <<storeVars, queue, known, urls>>

AfterDelUpload(r) ==
    req' = [req EXCEPT ![r].pc = IF req[r].key = "key" THEN "delProcessed"
                                 ELSE "deleteRow"]

DelUpload(r) ==
    LET f == req[r].file IN
    /\ At_(r, "delUpload")
    /\ \/ uploads' = uploads \ {f}
       \/ MayFail("storage") /\ uploads' = uploads
    /\ doomed' = doomed \cup {f}
    /\ AfterDelUpload(r)
    /\ UNCHANGED <<file, job, processed, queue, known, urls>>

DelProcessed(r) ==
    /\ At_(r, "delProcessed")
    /\ \/ processed' = processed \ {req[r].file}
       \/ MayFail("storage") /\ processed' = processed
    /\ req' = [req EXCEPT ![r].pc = "deleteRow"]
    /\ UNCHANGED <<file, job, uploads, doomed, queue, known, urls>>

DeleteRow(r) ==
    /\ At_(r, "deleteRow")
    /\ DeleteFileRow(req[r].file)
    /\ EndReq(r)
    /\ UNCHANGED <<uploads, processed, doomed, queue, known, urls>>

-----------------------------------------------------------------------------
\* A call is refused by the row or object it needs, or its service is at
\* fault: the request ends with an error and what it did so far stays.
ReqFails(r) ==
    LET f == req[r].file IN
    /\ \/ At_(r, "putUpload") /\ MayFail("storage")
       \/ At_(r, "createFile") /\ MayFail("db")
       \/ At_(r, "addJob") /\ MayFail("queue")
       \/ At_(r, "createJob") /\ (~HasFile(f) \/ HasJob(f) \/ MayFail("db"))
       \/ At_(r, "statObject") /\ (f \notin uploads \/ MayFail("storage"))
       \/ At_(r, "markUploaded") /\ (~HasFile(f) \/ MayFail("db"))
       \/ At_(r, "deleteRow") /\ (~HasFile(f) \/ MayFail("db"))
    /\ EndReq(r)
    /\ UNCHANGED <<storeVars, queue, known, urls>>

\* An API process accepts a request.
Accept(p) ==
    \E r \in Requests :
        \/ BeginUpload(r, p) \/ PresignUpload(r, p)
        \/ BeginComplete(r, p) \/ BeginDelete(r, p)

ServiceStep(r) ==
    \/ PutUpload(r) \/ CreateFile(r) \/ AddJob(r) \/ CreateJob(r)
    \/ StatObject(r) \/ MarkUploaded(r)
    \/ DelUpload(r) \/ DelProcessed(r) \/ DeleteRow(r)
    \/ ReqFails(r)

ClientStep(f) == ClientPut(f) \/ ExpireUrl(f)

\* The requests p was serving are cut off.
ReqCrash(p) ==
    req' = [r \in Requests |-> IF req[r].host = p THEN EndedReq ELSE req[r]]
=============================================================================
