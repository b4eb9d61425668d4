---------------------------- MODULE CleanupProofs ----------------------------
(***************************************************************************)
(* CleanupRemovesUpload for any number of files, processes and requests.   *)
(*                                                                         *)
(* Cleanup deletes the upload object and then the row, in two calls, and   *)
(* nothing locks the file in between. What keeps the object away is that   *)
(* whoever could write it has lost the right to: a presigned URL is over   *)
(* long before its file expires, and a direct upload writes the object     *)
(* before it creates the row, which is the row that has expired.           *)
(***************************************************************************)
EXTENDS VaporVaultSafety

\* Request x is writing the object of a file whose row it has still to create.
Creating(x) == x.pc \in {"putUpload", "createFile"}

KnownOK == \A f \in Files : Created(f) => f \in known

CreatingOK ==
    \A r \in Requests :
        Creating(req[r]) => req[r].file \in known /\ ~Created(req[r].file)

AloneOK ==
    \A r, s \in Requests :
        Creating(req[r]) /\ Creating(req[s]) /\ req[r].file = req[s].file => r = s

ExpiredOK == \A f \in expired : Created(f) /\ f \notin urls

\* What pass x relies on.
Visits(x) ==
    /\ x.todo \subseteq expired
    /\ x.pc \in DeletePcs => x.cur \in expired
    /\ x.pc \in {"delProcessed", "deleteRow"} => x.cur \notin uploads

PassesOK == \A p \in Procs : Visits(pass[p])

WritersOK == KnownOK /\ CreatingOK /\ AloneOK /\ ExpiredOK

SameCreated == \A f \in Files : Created(f)' <=> Created(f)

-----------------------------------------------------------------------------
(* The tables: only presignUpload and uploadFile create a row.               *)

LEMMA RowKept ==
    ASSUME StoreTypeOK, NEW f \in Files, HasFile(f), NEW row,
           file' = [file EXCEPT ![f] = row], row.status # "NONE"
    PROVE  SameCreated
BY DEF SameCreated, Created, StoreTypeOK, HasFile, NoRow

LEMMA StatusKept ==
    ASSUME StoreTypeOK, NEW f \in Files, NEW status \in FileStatus,
           SetFileStatus(f, status)
    PROVE  SameCreated
<1>1. \A g \in Files : g # f => file'[g] = file[g]
  BY DEF SetFileStatus, StoreTypeOK
<1>2. file'[f].status = status
  BY DEF SetFileStatus, StoreTypeOK, FileRows
<1>3. status # "NONE" /\ file[f].status # "NONE"
  BY DEF FileStatus, SetFileStatus, HasFile, NoRow
<1> QED
  BY <1>1, <1>2, <1>3 DEF SameCreated, Created

LEMMA RowGone ==
    ASSUME StoreTypeOK, NEW f \in Files, DeleteFileRow(f)
    PROVE  SameCreated
<1>1. DeletedFile.status # "NONE"
  BY DEF DeletedFile
<1> QED
  BY <1>1, RowKept DEF DeleteFileRow

LEMMA ProcessorCreatesNone ==
    ASSUME TypeOK, NEW p \in Procs, ProcessStep(p)
    PROVE  SameCreated
<1> USE DEF TypeOK
<1> DEFINE f == exec[p].file
<1>1. exec[p].pc # "idle" => f \in Files
  BY Busy DEF BusyExecs
<1>2. CASE StartFile(p)
  BY <1>1, <1>2, StatusKept, Names DEF StartFile, At
<1>3. CASE FailFile(p)
  BY <1>1, <1>3, StatusKept, Names DEF FailFile, At
<1>4. CASE Publish(p)
  <2> DEFINE row == [file[f] EXCEPT
                        !.status = "COMPLETED",
                        !.key = IF exec[p].key = "key" THEN "key" ELSE file[f].key]
  <2>1. f \in Files /\ HasFile(f)
    BY <1>1, <1>4 DEF Publish, At
  <2>2. file' = [file EXCEPT ![f] = row]
    BY <1>4, <2>1 DEF Publish, StoreTypeOK
  <2>3. row.status # "NONE"
    BY <2>1 DEF StoreTypeOK, FileRows
  <2> HIDE DEF row
  <2> QED BY <2>1, <2>2, <2>3, RowKept
<1>5. CASE file' = file
  BY <1>5 DEF SameCreated, Created
<1>6. \/ StartFile(p) \/ FailFile(p) \/ Publish(p) \/ file' = file
  BY DEF ProcessStep, FindJob, StartJob, GetObject, SaveRetrieved,
     ProcessFile, SaveProcessed, PutObject, SaveUploaded, SaveMetadata,
     CompleteJob, SaveCompleted, SaveCheckpoint, Throw, FailJob, CatchThrows,
     Ack, Nack, ReportLost, storeVars
<1> QED
  BY <1>2, <1>3, <1>4, <1>5, <1>6

-----------------------------------------------------------------------------
(* The writers of an object.                                                 *)

\* No row is created, and nobody starts to write.
LEMMA WritersStay ==
    ASSUME ServiceTypeOK, CleanupTypeOK, WritersOK, SameCreated,
           known \subseteq known', urls' \subseteq urls, expired' = expired,
           \A r \in Requests : Creating(req'[r]) =>
               Creating(req[r]) /\ req'[r].file = req[r].file
    PROVE  WritersOK'
<1> USE DEF WritersOK
<1>1. KnownOK'
  BY DEF KnownOK, SameCreated
<1>2. CreatingOK'
  <2> SUFFICES ASSUME NEW r \in Requests, Creating(req'[r])
               PROVE  (req[r].file \in known /\ ~Created(req[r].file))'
    BY DEF CreatingOK, Creating
  <2>1. Creating(req[r]) /\ req'[r].file = req[r].file
    OBVIOUS
  <2>2. req[r].file \in Files
    BY <2>1, BusyRequest DEF Creating
  <2>3. req[r].file \in known /\ ~Created(req[r].file)
    BY <2>1 DEF CreatingOK
  <2> QED
    BY <2>1, <2>2, <2>3 DEF SameCreated, Created
<1>3. AloneOK'
  BY DEF AloneOK, Creating
<1>4. ExpiredOK'
  BY DEF ExpiredOK, SameCreated, CleanupTypeOK
<1> QED
  BY <1>1, <1>2, <1>3, <1>4

\* The passes under way keep what they rely on: an object that comes back
\* belongs to a file that has not expired.
LEMMA PassesStay ==
    ASSUME PassesOK, UNCHANGED <<expired, pass>>,
           \A f \in expired : f \in uploads' => f \in uploads
    PROVE  PassesOK'
BY DEF PassesOK, Visits, DeletePcs

LEMMA PassMoves ==
    ASSUME CleanupTypeOK, PassesOK, NEW p \in Procs, NEW x,
           pass' = [pass EXCEPT ![p] = x], expired' = expired,
           uploads' \subseteq uploads,
           x.todo \subseteq expired,
           x.pc \in DeletePcs => x.cur \in expired,
           x.pc \in {"delProcessed", "deleteRow"} => x.cur \notin uploads'
    PROVE  PassesOK'
<1>1. \A q \in Procs : pass'[q] = IF q = p THEN x ELSE pass[q]
  BY DEF CleanupTypeOK
<1> QED
  BY <1>1 DEF PassesOK, Visits

-----------------------------------------------------------------------------
(* The operations of the API.                                                *)

LEMMA FileSame ==
    ASSUME file' = file
    PROVE  SameCreated
BY DEF SameCreated, Created

\* A request only goes on, to a call other than the two of Creating, or ends.
LEMMA RequestMoves ==
    ASSUME ServiceTypeOK, NEW r \in Requests, NEW x,
           req' = [req EXCEPT ![r] = x],
           Creating(x) => Creating(req[r]) /\ x.file = req[r].file
    PROVE  \A s \in Requests : Creating(req'[s]) =>
               Creating(req[s]) /\ req'[s].file = req[s].file
BY DEF ServiceTypeOK

LEMMA RequestEnds ==
    ASSUME ServiceTypeOK, NEW r \in Requests, EndReq(r)
    PROVE  \A s \in Requests : Creating(req'[s]) =>
               Creating(req[s]) /\ req'[s].file = req[s].file
<1>1. ~Creating(EndedReq)
  BY DEF Creating, EndedReq, NewReq
<1> QED
  BY <1>1, RequestMoves DEF EndReq

LEMMA RequestGoes ==
    ASSUME ServiceTypeOK, NEW r \in Requests, NEW pc,
           req[r].pc \notin {"new", "end"}, req' = [req EXCEPT ![r].pc = pc],
           pc \in {"putUpload", "createFile"} => Creating(req[r])
    PROVE  \A s \in Requests : Creating(req'[s]) =>
               Creating(req[s]) /\ req'[s].file = req[s].file
<1> DEFINE x == [req[r] EXCEPT !.pc = pc]
<1>1. req' = [req EXCEPT ![r] = x]
  BY DEF ServiceTypeOK
<1>2. x.pc = pc /\ x.file = req[r].file
  BY BusyRequest DEF BusyReqs
<1> HIDE DEF x
<1> QED
  BY <1>1, <1>2, RequestMoves DEF Creating

\* A row appears: its file is known, was not created before, and nobody else
\* is creating it.
LEMMA RowAppears ==
    ASSUME StoreTypeOK, ServiceTypeOK, CleanupTypeOK, WritersOK,
           NEW f \in Files, file[f] = NoFile, NEW status \in FileStatus,
           file' = [file EXCEPT ![f].status = status],
           f \in known', known \subseteq known', urls' \subseteq urls \cup {f},
           expired' = expired,
           \A r \in Requests : Creating(req'[r]) =>
               /\ Creating(req[r])
               /\ req'[r].file = req[r].file
               /\ req[r].file # f
    PROVE  WritersOK'
<1> USE DEF WritersOK
<1>1. \A g \in Files : g # f => file'[g] = file[g]
  BY DEF StoreTypeOK
<1>2. ~Created(f)
  BY DEF Created, NoFile
<1>3. KnownOK'
  BY <1>1 DEF KnownOK, Created
<1>4. CreatingOK'
  <2> SUFFICES ASSUME NEW r \in Requests, Creating(req'[r])
               PROVE  (req[r].file \in known /\ ~Created(req[r].file))'
    BY DEF CreatingOK, Creating
  <2>1. Creating(req[r]) /\ req'[r].file = req[r].file /\ req[r].file # f
    OBVIOUS
  <2>2. req[r].file \in Files
    BY <2>1, BusyRequest DEF Creating
  <2> QED
    BY <1>1, <2>1, <2>2 DEF CreatingOK, Created
<1>5. AloneOK'
  BY DEF AloneOK, Creating
<1>6. ExpiredOK'
  BY <1>1, <1>2 DEF ExpiredOK, Created, CleanupTypeOK
<1> QED
  BY <1>3, <1>4, <1>5, <1>6

\* uploadFile takes a fresh uuid.
LEMMA UploadBegins ==
    ASSUME ServiceTypeOK, CleanupTypeOK, WritersOK, NEW r \in Requests,
           NEW p \in Procs, BeginUpload(r, p), UNCHANGED expired
    PROVE  WritersOK'
<1> USE DEF WritersOK
<1>1. PICK f \in Files \ known :
          /\ req' = [req EXCEPT ![r] = [pc |-> "putUpload", file |-> f,
                                        host |-> p, key |-> "null"]]
          /\ known' = known \cup {f}
          /\ UNCHANGED <<file, urls>>
  BY DEF BeginUpload, Begin, storeVars
<1>2. req'[r].file = f
  BY <1>1 DEF ServiceTypeOK
<1>3. \A s \in Requests : s # r => req'[s] = req[s]
  BY <1>1 DEF ServiceTypeOK
<1>4. KnownOK'
  BY <1>1 DEF KnownOK, Created
<1>5. CreatingOK'
  BY <1>1, <1>2, <1>3 DEF CreatingOK, KnownOK, Creating, Created
<1>6. \A s \in Requests : Creating(req[s]) => req[s].file # f
  BY <1>1 DEF CreatingOK
<1>7. AloneOK'
  BY <1>2, <1>3, <1>6 DEF AloneOK, Creating
<1>8. ExpiredOK'
  BY <1>1 DEF ExpiredOK, Created
<1> QED
  BY <1>4, <1>5, <1>7, <1>8

LEMMA PresignCreates ==
    ASSUME StoreTypeOK, ServiceTypeOK, CleanupTypeOK, WritersOK,
           NEW r \in Requests, NEW p \in Procs, PresignUpload(r, p),
           UNCHANGED expired
    PROVE  WritersOK'
<1>1. PICK f \in Files \ known :
          /\ file[f] = NoFile
          /\ file' = [file EXCEPT ![f].status = "PENDING"]
          /\ known' = known \cup {f}
          /\ urls' = urls \cup {f}
          /\ EndReq(r)
  BY DEF PresignUpload
<1>2. \A s \in Requests : Creating(req'[s]) =>
          Creating(req[s]) /\ req'[s].file = req[s].file
  BY <1>1, RequestEnds
<1>3. \A s \in Requests : Creating(req[s]) => req[s].file # f
  BY <1>1 DEF WritersOK, CreatingOK
<1>4. "PENDING" \in FileStatus
  BY DEF FileStatus
<1> QED
  BY <1>1, <1>2, <1>3, <1>4, RowAppears

LEMMA AcceptWrites ==
    ASSUME TypeOK, WritersOK, PassesOK, NEW p \in Procs, Accept(p),
           UNCHANGED cleanupVars
    PROVE  WritersOK' /\ PassesOK'
<1> USE DEF TypeOK
<1>1. PICK r \in Requests :
          \/ BeginUpload(r, p) \/ PresignUpload(r, p)
          \/ BeginComplete(r, p) \/ BeginDelete(r, p)
  BY DEF Accept
<1>2. UNCHANGED <<expired, pass, uploads>>
  BY <1>1 DEF cleanupVars, BeginUpload, PresignUpload, BeginComplete,
     BeginDelete, storeVars
<1>3. PassesOK'
  BY <1>2, PassesStay
<1>4. ASSUME NEW f, NEW op, NEW key, NEW pc \in {"statObject", "delUpload"},
             Begin(r, p, f, op, pc, key),
             UNCHANGED <<storeVars, queue, known, urls>>
      PROVE  WritersOK'
  <2> DEFINE x == [pc |-> pc, file |-> f, host |-> p, key |-> key]
  <2>1. req' = [req EXCEPT ![r] = x]
    BY <1>4 DEF Begin
  <2>2. ~Creating(x)
    BY <1>4 DEF Creating
  <2> HIDE DEF x
  <2>3. \A s \in Requests : Creating(req'[s]) =>
            Creating(req[s]) /\ req'[s].file = req[s].file
    BY <2>1, <2>2, RequestMoves
  <2>4. SameCreated
    BY <1>4, FileSame DEF storeVars
  <2> QED
    BY <1>2, <1>4, <2>3, <2>4, WritersStay
<1>5. CASE BeginUpload(r, p)
  BY <1>2, <1>3, <1>5, UploadBegins
<1>6. CASE PresignUpload(r, p)
  BY <1>2, <1>3, <1>6, PresignCreates
<1>7. CASE BeginComplete(r, p)
  BY <1>3, <1>4, <1>7 DEF BeginComplete
<1>8. CASE BeginDelete(r, p)
  BY <1>3, <1>4, <1>8 DEF BeginDelete
<1> QED
  BY <1>1, <1>3, <1>5, <1>6, <1>7, <1>8

LEMMA RequestCalls ==
    ASSUME ServiceTypeOK, NEW r \in Requests, NEW service, NEW next,
           req[r].pc \notin {"new", "end"}, ReqGoto(r, service, next),
           next \in {"putUpload", "createFile"} => Creating(req[r])
    PROVE  \A s \in Requests : Creating(req'[s]) =>
               Creating(req[s]) /\ req'[s].file = req[s].file
<1>1. PICK pc \in After(service, next, "end") :
          IF pc = "end" THEN EndReq(r) ELSE req' = [req EXCEPT ![r].pc = pc]
  BY DEF ReqGoto
<1>2. pc = "end" \/ pc = next
  BY <1>1 DEF After
<1>3. CASE pc = "end"
  BY <1>1, <1>3, RequestEnds
<1>4. CASE pc # "end"
  BY <1>1, <1>2, <1>4, RequestGoes
<1> QED
  BY <1>3, <1>4

\* An object is put by a request that has still to create the row, so its file
\* has not expired.
LEMMA PutUploadWrites ==
    ASSUME TypeOK, WritersOK, PassesOK, NEW r \in Requests, PutUpload(r),
           UNCHANGED cleanupVars
    PROVE  WritersOK' /\ PassesOK'
<1> USE DEF TypeOK
<1>1. Creating(req[r])
  BY DEF PutUpload, At_, Creating
<1>2. req[r].file \notin expired
  BY <1>1 DEF WritersOK, CreatingOK, ExpiredOK
<1>3. UNCHANGED <<file, known, urls, expired, pass>>
  BY DEF PutUpload, cleanupVars
<1>4. uploads' = uploads \cup {req[r].file}
  BY DEF PutUpload
<1>5. PassesOK'
  BY <1>2, <1>3, <1>4, PassesStay
<1>6. \A s \in Requests : Creating(req'[s]) =>
          Creating(req[s]) /\ req'[s].file = req[s].file
  BY <1>1, RequestCalls DEF PutUpload, At_
<1> QED
  BY <1>3, <1>5, <1>6, FileSame, WritersStay

LEMMA CreateFileWrites ==
    ASSUME TypeOK, WritersOK, PassesOK, NEW r \in Requests, CreateFile(r),
           UNCHANGED cleanupVars
    PROVE  WritersOK' /\ PassesOK'
<1> USE DEF TypeOK
<1> DEFINE f == req[r].file
<1>1. Creating(req[r]) /\ f \in Files
  BY BusyRequest DEF CreateFile, At_, Creating
<1>2. UNCHANGED <<uploads, known, urls, expired, pass>>
  BY DEF CreateFile, cleanupVars
<1>3. PassesOK'
  BY <1>2, PassesStay
<1>4. PICK pc \in After("db", "addJob", "end") :
          IF pc = "end" THEN EndReq(r) ELSE req' = [req EXCEPT ![r].pc = pc]
  BY DEF CreateFile, ReqGoto
<1>5. pc \in {"addJob", "end"}
  BY <1>4 DEF After
<1>6. ~Creating(req'[r])
  BY <1>1, <1>4, <1>5 DEF EndReq, EndedReq, NewReq, Creating, ServiceTypeOK,
     Reqs
<1>7. \A s \in Requests : s # r => req'[s] = req[s]
  BY <1>4 DEF EndReq, ServiceTypeOK
<1>8. \A s \in Requests : Creating(req'[s]) =>
          Creating(req[s]) /\ req'[s].file = req[s].file /\ req[s].file # f
  BY <1>1, <1>6, <1>7 DEF WritersOK, AloneOK
<1>9. f \in known
  BY <1>1 DEF WritersOK, CreatingOK
<1>10. file[f] = NoFile /\ file' = [file EXCEPT ![f].status = "UPLOADED"]
  BY DEF CreateFile
<1>11. "UPLOADED" \in FileStatus
  BY DEF FileStatus
<1> QED
  BY <1>1, <1>2, <1>3, <1>8, <1>9, <1>10, <1>11, RowAppears

LEMMA ServiceWrites ==
    ASSUME TypeOK, WritersOK, PassesOK, NEW r \in Requests, ServiceStep(r),
           UNCHANGED cleanupVars
    PROVE  WritersOK' /\ PassesOK'
<1> USE DEF TypeOK
<1> DEFINE Goes == \A s \in Requests : Creating(req'[s]) =>
                       Creating(req[s]) /\ req'[s].file = req[s].file
           Quiet_ == /\ UNCHANGED <<known, urls>>
                     /\ uploads' \subseteq uploads
                     /\ SameCreated
<1>1. CASE PutUpload(r)
  BY <1>1, PutUploadWrites
<1>2. CASE CreateFile(r)
  BY <1>2, CreateFileWrites
<1>3. ASSUME Quiet_, Goes
      PROVE  WritersOK' /\ PassesOK'
  <2>1. UNCHANGED <<expired, pass>>
    BY DEF cleanupVars
  <2> QED
    BY <1>3, <2>1, WritersStay, PassesStay
<1> HIDE DEF Goes, Quiet_
<1>0. ASSUME NEW pc \in {"markUploaded", "delProcessed", "deleteRow"},
             req[r].pc \notin {"new", "end"}, req' = [req EXCEPT ![r].pc = pc]
      PROVE  Goes
  <2>1. pc \notin {"putUpload", "createFile"}
    BY <1>0
  <2> QED
    BY <1>0, <2>1, RequestGoes DEF Goes
<1> USE DEF Quiet_
<1>4. CASE AddJob(r)
  <2>1. Quiet_
    BY <1>4, FileSame DEF AddJob, storeVars
  <2>2. Goes
    BY <1>4, RequestCalls DEF AddJob, At_, Goes
  <2> QED BY <1>3, <2>1, <2>2
<1>5. CASE CreateJob(r)
  <2>1. Quiet_
    BY <1>5, FileSame DEF CreateJob
  <2>2. Goes
    BY <1>5, RequestEnds DEF CreateJob, Goes
  <2> QED BY <1>3, <2>1, <2>2
<1>6. CASE StatObject(r)
  <2>1. Quiet_
    BY <1>6, FileSame DEF StatObject, storeVars
  <2>2. Goes
    BY <1>6, <1>0 DEF StatObject, At_
  <2> QED BY <1>3, <2>1, <2>2
<1>7. CASE MarkUploaded(r)
  <2>1. req[r].file \in Files
    BY <1>7, BusyRequest DEF MarkUploaded, At_
  <2>2. "UPLOADED" \in FileStatus
    BY DEF FileStatus
  <2>3. Quiet_
    BY <1>7, <2>1, <2>2, StatusKept DEF MarkUploaded
  <2>4. Goes
    BY <1>7, RequestCalls DEF MarkUploaded, At_, Goes
  <2> QED BY <1>3, <2>3, <2>4
<1>8. CASE DelUpload(r)
  <2>1. Quiet_
    BY <1>8, FileSame DEF DelUpload
  <2>2. Goes
    <3>1. /\ req[r].pc = "delUpload"
          /\ req' = [req EXCEPT ![r].pc = IF req[r].key = "key"
                                          THEN "delProcessed" ELSE "deleteRow"]
      BY <1>8 DEF DelUpload, At_, AfterDelUpload
    <3> QED BY <1>0, <3>1
  <2> QED BY <1>3, <2>1, <2>2
<1>9. CASE DelProcessed(r)
  <2>1. Quiet_
    BY <1>9, FileSame DEF DelProcessed
  <2>2. Goes
    BY <1>9, <1>0 DEF DelProcessed, At_
  <2> QED BY <1>3, <2>1, <2>2
<1>10. CASE DeleteRow(r)
  <2>1. req[r].file \in Files
    BY <1>10, BusyRequest DEF DeleteRow, At_
  <2>2. Quiet_
    BY <1>10, <2>1, RowGone DEF DeleteRow
  <2>3. Goes
    BY <1>10, RequestEnds DEF DeleteRow, Goes
  <2> QED BY <1>3, <2>2, <2>3
<1>11. CASE ReqFails(r)
  <2>1. Quiet_
    BY <1>11, FileSame DEF ReqFails, storeVars
  <2>2. Goes
    BY <1>11, RequestEnds DEF ReqFails, Goes
  <2> QED BY <1>3, <2>1, <2>2
<1> QED
  BY <1>1, <1>2, <1>4, <1>5, <1>6, <1>7, <1>8, <1>9, <1>10, <1>11
     DEF ServiceStep

\* A client writes the object only while its URL is valid, and then the file
\* has not expired.
LEMMA ClientWrites ==
    ASSUME TypeOK, WritersOK, PassesOK, NEW f \in Files, ClientStep(f),
           UNCHANGED cleanupVars
    PROVE  WritersOK' /\ PassesOK'
<1> USE DEF TypeOK
<1>1. UNCHANGED <<file, req, known, expired, pass>> /\ urls' \subseteq urls
  BY DEF ClientStep, ClientPut, ExpireUrl, storeVars, serviceVars, cleanupVars
<1>2. \A g \in expired : g \in uploads' => g \in uploads
  BY DEF ClientStep, ClientPut, ExpireUrl, storeVars, WritersOK, ExpiredOK
<1> QED
  BY <1>1, <1>2, FileSame, WritersStay, PassesStay

-----------------------------------------------------------------------------
(* The passes.                                                               *)

LEMMA CleaningMoves ==
    ASSUME TypeOK, WritersOK, PassesOK, NEW p \in Procs,
           HandleCleanup(p) \/ CleanupStep(p)
    PROVE  PassesOK' /\ SameCreated /\ expired' = expired
<1> USE DEF TypeOK
<1> DEFINE f == pass[p].cur
<1>1. Visits(pass[p])
  BY DEF PassesOK
<1>2. pass[p].pc # "idle" =>
          /\ pass[p].pc \in {"loop"} \cup DeletePcs
          /\ pass[p].todo \subseteq expired
          /\ pass[p].pc \in DeletePcs => f \in Files /\ f \in expired
  BY <1>1, BusyPass DEF Visits
<1>3. ASSUME NEW pc \in {"loop"} \cup DeletePcs, NEW cur, PassTo(p, pc, cur),
             pass[p].pc # "idle", expired' = expired, uploads' \subseteq uploads,
             pc \in DeletePcs => cur \in expired,
             pc \in {"delProcessed", "deleteRow"} => cur \notin uploads'
      PROVE  PassesOK'
  <2> DEFINE x == [pass[p] EXCEPT !.pc = pc, !.cur = cur]
  <2>1. pass' = [pass EXCEPT ![p] = x]
    BY <1>3 DEF PassTo, CleanupTypeOK
  <2>2. x.pc = pc /\ x.cur = cur /\ x.todo = pass[p].todo
    BY <1>3, BusyPass
  <2> HIDE DEF x
  <2> QED
    BY <1>2, <1>3, <2>1, <2>2, PassMoves
<1>4. CASE HandleCleanup(p)
  <2> DEFINE found == {g \in expired : HasFile(g)}
             x == [pc |-> "loop", todo |-> found, cur |-> Nil,
                   keyed |-> {g \in found : file[g].key = "key"}]
  <2>1. pass' = [pass EXCEPT ![p] = x] /\ UNCHANGED <<file, uploads, expired>>
    BY <1>4 DEF HandleCleanup, storeVars
  <2>2. x.pc = "loop" /\ x.pc \notin DeletePcs /\ x.todo \subseteq expired
    BY DEF DeletePcs
  <2> HIDE DEF x
  <2>3. x.pc \notin {"delProcessed", "deleteRow"}
    BY <2>2
  <2> QED
    BY <2>1, <2>2, <2>3, PassMoves, FileSame
<1>5. CASE NextExpired(p)
  <2>1. PICK g \in pass[p].todo :
            pass' = [pass EXCEPT ![p].pc = "delUpload", ![p].cur = g,
                                 ![p].todo = @ \ {g}]
    BY <1>5 DEF NextExpired
  <2> DEFINE x == [pass[p] EXCEPT !.pc = "delUpload", !.cur = g,
                                  !.todo = @ \ {g}]
  <2>2. pass' = [pass EXCEPT ![p] = x]
    BY <2>1 DEF CleanupTypeOK
  <2>3. x.pc = "delUpload" /\ x.cur = g /\ x.todo \subseteq pass[p].todo
    BY <1>5, BusyPass DEF NextExpired
  <2>4. UNCHANGED <<file, uploads, expired>>
    BY <1>5 DEF NextExpired, storeVars
  <2> HIDE DEF x
  <2>5. pass[p].todo \subseteq expired
    BY <1>1 DEF Visits
  <2> QED
    BY <2>1, <2>2, <2>3, <2>4, <2>5, PassMoves, FileSame
<1>6. CASE DelExpiredUpload(p)
  <2>1. /\ pass[p].pc = "delUpload"
        /\ uploads' = uploads \ {f}
        /\ UNCHANGED <<file, expired>>
    BY <1>6 DEF DelExpiredUpload
  <2>2. \/ PassTo(p, "delProcessed", f)
        \/ PassTo(p, "deleteRow", f)
        \/ PassTo(p, "loop", Nil)
    BY <1>6 DEF DelExpiredUpload, PassGoto
  <2>3. f \in expired
    BY <1>2, <2>1 DEF DeletePcs
  <2>4. PassesOK'
    BY <1>3, <2>1, <2>2, <2>3 DEF DeletePcs
  <2> QED
    BY <2>1, <2>4, FileSame
<1>7. CASE DelExpiredProcessed(p)
  <2>1. /\ pass[p].pc = "delProcessed"
        /\ UNCHANGED <<file, uploads, expired>>
    BY <1>7 DEF DelExpiredProcessed
  <2>2. PassTo(p, "deleteRow", f) \/ PassTo(p, "loop", Nil)
    BY <1>7 DEF DelExpiredProcessed, PassGoto
  <2>3. f \in expired /\ f \notin uploads
    BY <1>1, <1>2, <2>1 DEF DeletePcs, Visits
  <2>4. PassesOK'
    BY <1>3, <2>1, <2>2, <2>3 DEF DeletePcs
  <2> QED
    BY <2>1, <2>4, FileSame
<1>8. CASE DeleteExpiredRow(p)
  <2>1. /\ pass[p].pc = "deleteRow"
        /\ UNCHANGED <<uploads, expired>>
        /\ DeleteFileRow(f)
        /\ PassTo(p, "loop", Nil)
    BY <1>8 DEF DeleteExpiredRow
  <2>2. f \in Files
    BY <1>2, <2>1 DEF DeletePcs
  <2>3. PassesOK'
    BY <1>3, <2>1 DEF DeletePcs
  <2> QED
    BY <2>1, <2>2, <2>3, RowGone
<1>9. CASE VisitFails(p)
  <2>1. /\ pass[p].pc # "idle"
        /\ UNCHANGED <<file, uploads, expired>>
        /\ PassTo(p, "loop", Nil)
    BY <1>9 DEF VisitFails, storeVars
  <2>2. PassesOK'
    BY <1>3, <2>1 DEF DeletePcs
  <2> QED
    BY <2>1, <2>2, FileSame
<1>10. CASE CleanupDone(p)
  <2>1. pass' = [pass EXCEPT ![p] = NoPass] /\ UNCHANGED <<file, uploads, expired>>
    BY <1>10 DEF CleanupDone, storeVars
  <2>2. NoPass.todo = {} /\ NoPass.pc = "idle" /\ "idle" \notin DeletePcs
    BY DEF NoPass, DeletePcs
  <2> QED
    BY <2>1, <2>2, PassMoves, FileSame
<1> QED
  BY <1>4, <1>5, <1>6, <1>7, <1>8, <1>9, <1>10 DEF CleanupStep

-----------------------------------------------------------------------------
(* All steps.                                                                *)

LEMMA NobodyWrites ==
    ASSUME TypeOK, WritersOK, PassesOK, SameCreated,
           UNCHANGED <<uploads, serviceVars, cleanupVars>>
    PROVE  WritersOK' /\ PassesOK'
<1> USE DEF TypeOK
<1>1. UNCHANGED <<uploads, req, known, urls, expired, pass>>
  BY DEF serviceVars, cleanupVars
<1> QED
  BY <1>1, WritersStay, PassesStay

LEMMA StopWrites ==
    ASSUME TypeOK, WritersOK, PassesOK, NEW p \in Procs, Stops(p)
    PROVE  WritersOK' /\ PassesOK'
<1> USE DEF TypeOK
<1>1. UNCHANGED <<file, uploads, known, urls, expired>>
  BY DEF Stops, storeVars
<1>2. \A r \in Requests : Creating(req'[r]) =>
          Creating(req[r]) /\ req'[r].file = req[r].file
  BY DEF Stops, ReqCrash, Creating, EndedReq, NewReq
<1>3. pass' = [pass EXCEPT ![p] = NoPass]
  BY DEF Stops, PassCrash
<1>4. NoPass.todo = {} /\ NoPass.pc = "idle" /\ "idle" \notin DeletePcs
  BY DEF NoPass, DeletePcs
<1>5. PassesOK'
  BY <1>1, <1>3, <1>4, PassMoves
<1> QED
  BY <1>1, <1>2, <1>5, FileSame, WritersStay

LEMMA CleaningWrites ==
    ASSUME TypeOK, WritersOK, PassesOK, Cleaning
    PROVE  WritersOK' /\ PassesOK'
<1> USE DEF TypeOK
<1>1. UNCHANGED <<req, known, urls>>
  BY DEF Cleaning, serviceVars
<1>2. ASSUME NEW f \in Files \ urls, Expire(f)
      PROVE  WritersOK' /\ PassesOK'
  <2>1. /\ HasFile(f)
        /\ expired' = expired \cup {f}
        /\ UNCHANGED <<file, uploads, pass>>
    BY <1>2 DEF Expire, storeVars
  <2>2. KnownOK' /\ CreatingOK' /\ AloneOK'
    BY <1>1, <2>1 DEF WritersOK, KnownOK, CreatingOK, AloneOK, Creating, Created
  <2>3. ExpiredOK'
    BY <1>1, <1>2, <2>1 DEF WritersOK, ExpiredOK, Created, HasFile, NoRow
  <2>4. PassesOK'
    BY <2>1 DEF PassesOK, Visits
  <2> QED
    BY <2>2, <2>3, <2>4 DEF WritersOK
<1>3. ASSUME NEW p \in Procs, HandleCleanup(p) \/ CleanupStep(p)
      PROVE  WritersOK' /\ PassesOK'
  <2>1. PassesOK' /\ SameCreated /\ expired' = expired
    BY <1>3, CleaningMoves
  <2> QED
    BY <1>1, <2>1, WritersStay
<1> QED
  BY <1>2, <1>3 DEF Cleaning

LEMMA WritersStep ==
    ASSUME TypeOK, WritersOK, PassesOK, [Next]_vars
    PROVE  WritersOK' /\ PassesOK'
<1>1. CASE Processing
  <2>1. UNCHANGED <<serviceVars, cleanupVars>>
    BY <1>1 DEF Processing
  <2>2. ASSUME NEW p \in Procs, ProcessStep(p)
        PROVE  SameCreated /\ uploads' = uploads
    <3>1. uploads' = uploads
      BY <2>2 DEF ProcessStep, FindJob, StartJob, StartFile, GetObject,
         SaveRetrieved, ProcessFile, SaveProcessed, PutObject, SaveUploaded,
         Publish, SaveMetadata, CompleteJob, SaveCompleted, SaveCheckpoint,
         Throw, FailFile, FailJob, CatchThrows, Ack, Nack, ReportLost, storeVars
    <3> QED
      BY <2>2, <3>1, ProcessorCreatesNone
  <2>3. ASSUME UNCHANGED storeVars
        PROVE  SameCreated /\ uploads' = uploads
    BY <2>3, FileSame DEF storeVars
  <2>4. SameCreated /\ uploads' = uploads
    BY <1>1, <2>2, <2>3 DEF Processing, ProcessorNext, Take, Stall
  <2> QED
    BY <2>1, <2>4, NobodyWrites
<1>2. CASE Recovering
  <2>1. UNCHANGED <<file, uploads, serviceVars, cleanupVars>>
    BY <1>2 DEF Recovering, RecoveryNext, RecoveryStep, Scan, ResetJob,
       SkipJob, Reenqueue, ReenqueueFails, RecoveryDone, RetryFailedJob,
       RemoveFailedJob, storeVars
  <2> QED
    BY <2>1, FileSame, NobodyWrites
<1>3. CASE Serving
  BY <1>3, AcceptWrites, ServiceWrites, ClientWrites DEF Serving
<1>4. CASE Cleaning
  BY <1>4, CleaningWrites
<1>5. ASSUME NEW p \in Procs, Crash(p) \/ ScanFails(p)
      PROVE  WritersOK' /\ PassesOK'
  BY <1>5, StopWrites DEF Crash, ScanFails
<1>6. CASE (\E p \in Procs : Restart(p)) \/ UNCHANGED vars
  <2>1. UNCHANGED <<storeVars, serviceVars, cleanupVars>>
    BY <1>6 DEF Restart, vars
  <2> QED
    BY <2>1, FileSame, NobodyWrites DEF storeVars
<1> QED
  BY <1>1, <1>2, <1>3, <1>4, <1>5, <1>6 DEF Next

LEMMA WritersInit == Init => WritersOK /\ PassesOK
<1> SUFFICES ASSUME Init PROVE WritersOK /\ PassesOK
  OBVIOUS
<1>1. \A f \in Files : ~Created(f)
  BY DEF Init, StoreInit, Created, NoFile
<1>2. \A r \in Requests : ~Creating(req[r])
  BY DEF Init, ServiceInit, Creating, NewReq
<1>3. WritersOK
  BY <1>1, <1>2 DEF Init, CleanupInit, WritersOK, KnownOK, CreatingOK,
     AloneOK, ExpiredOK
<1>4. PassesOK
  BY DEF Init, CleanupInit, PassesOK, Visits, NoPass, DeletePcs
<1> QED
  BY <1>3, <1>4

\* A cleanup pass deletes the row of an expired file only when its upload
\* object is gone, whatever storage does, whoever else deletes the file, and
\* however many processes run their passes at once.
THEOREM CleanupRemovesUploadHolds == Spec => CleanupRemovesUpload
<1> DEFINE Removes ==
      \A p \in Procs, f \in Files :
          /\ pass[p].pc = "deleteRow" /\ pass[p].cur = f /\ pass'[p] # pass[p]
          /\ HasFile(f) /\ ~HasFile(f)'
          => f \notin uploads
<1>1. Init => WritersOK /\ PassesOK
  BY WritersInit
<1>2. TypeOK /\ (WritersOK /\ PassesOK) /\ [Next]_vars
      => (WritersOK /\ PassesOK)'
  BY WritersStep
<1>3. WritersOK /\ PassesOK /\ [Next]_vars => [Removes]_vars
  BY DEF PassesOK, Visits
<1> QED
  BY <1>1, <1>2, <1>3, TypeCorrect, PTL DEF Spec, CleanupRemovesUpload
=============================================================================
