-------------------------- MODULE VaporVaultSafety --------------------------
(***************************************************************************)
(* The safety of the pipeline for any number of files, processes, requests,*)
(* queue entries, crashes and manual repairs, and whatever services fail.  *)
(*                                                                         *)
(* Nothing synchronizes the components, so the inductive invariant rests   *)
(* on facts about a file that no step of any of them ever makes false      *)
(* again: its row was created, its upload object was there, its processed  *)
(* object was there, its key was published. Each such fact also counts as  *)
(* kept when a deletion of the file has begun or has removed its row.      *)
(***************************************************************************)
EXTENDS VaporVaultTypes

Created(f) == file[f].status # "NONE"
Uploaded(f) == f \in uploads \/ f \in doomed
Published(f) == file[f].key = "key" \/ file[f].status = "DELETED"

\* What the queue and everyone who works on a file may rely on.
Accepted(f) == Created(f) /\ Uploaded(f)

\* Without a File row there is no Job row and no key.
RowsOK ==
    \A f \in Files : ~HasFile(f) => file[f].key = "null" /\ job[f] = NoJob

FilesOK ==
    \A f \in Files :
        /\ file[f].key = "key" => Stored(f)
        /\ file[f].status = "COMPLETED" => file[f].key = "key"
        /\ file[f].status \in FileStatus \ {"PENDING"} => Uploaded(f)

JobsOK ==
    \A f \in Files :
        /\ HasJob(f) => Uploaded(f)
        /\ job[f].key = "key" => Stored(f)
        /\ job[f].checkpoint = "UPLOADED_TO_STORAGE" => job[f].key = "key"
        /\ job[f].checkpoint \in PublishedCheckpoints => Published(f)
        /\ job[f].status = "COMPLETED" => Published(f)

QueueOK ==
    \A e \in Entries : queue[e].state # "none" => Accepted(queue[e].file)

PublishedPcs == {"saveMetadata", "completeJob", "saveCompleted"}

\* What execution x relies on: the key is in its memory, and from is the
\* checkpoint it resumed from.
ReliesOn(x) ==
    /\ Accepted(x.file)
    /\ x.key = "key" => Stored(x.file)
    /\ x.pc \in {"saveUploaded", "publish"} => x.key = "key"
    /\ x.from = "UPLOADED_TO_STORAGE" => x.key = "key"
    /\ x.from \in PublishedCheckpoints => Published(x.file)
    /\ x.pc \in PublishedPcs => Published(x.file)

ExecOK == \A p \in Procs : exec[p].pc # "idle" => ReliesOn(exec[p])

RecOK == \A p \in Procs : rec[p].pc = "enqueue" => Accepted(rec[p].cur)

\* What request x relies on: the calls it has made.
Warranted(x) ==
    /\ x.pc \in {"createFile", "markUploaded"} => Uploaded(x.file)
    /\ x.pc \in {"addJob", "createJob"} => Accepted(x.file)
    /\ x.pc \in {"delProcessed", "deleteRow"} => x.file \in doomed

ReqOK == \A r \in Requests : Warranted(req[r])

PassOK ==
    \A p \in Procs :
        pass[p].pc \in {"delProcessed", "deleteRow"} => pass[p].cur \in doomed

StoreOK == RowsOK /\ FilesOK /\ JobsOK

Inv ==
    /\ TypeOK
    /\ StoreOK
    /\ QueueOK
    /\ ExecOK
    /\ RecOK
    /\ ReqOK
    /\ PassOK

\* What no step makes false again.
Grow ==
    \A f \in Files :
        /\ Created(f) => Created(f)'
        /\ Uploaded(f) => Uploaded(f)'
        /\ Stored(f) => Stored(f)'
        /\ Created(f) /\ Published(f) => Published(f)'
        /\ f \in doomed => f \in doomed'

-----------------------------------------------------------------------------
(* Grow, one kind of statement at a time.                                    *)

LEMMA GrowBuckets ==
    ASSUME file' = file, uploads \subseteq uploads' \cup doomed',
           processed \subseteq processed' \cup doomed', doomed \subseteq doomed'
    PROVE  Grow
BY DEF Grow, Created, Uploaded, Stored, Published

LEMMA GrowRow ==
    ASSUME StoreTypeOK, NEW f \in Files, NEW row,
           file' = [file EXCEPT ![f] = row], row.status # "NONE",
           Created(f) /\ Published(f)
           => row.key = "key" \/ row.status = "DELETED",
           UNCHANGED <<uploads, processed, doomed>>
    PROVE  Grow
<1> SUFFICES ASSUME NEW g \in Files
             PROVE  /\ Created(g) => Created(g)'
                    /\ Uploaded(g) => Uploaded(g)'
                    /\ Stored(g) => Stored(g)'
                    /\ Created(g) /\ Published(g) => Published(g)'
                    /\ g \in doomed => g \in doomed'
  BY DEF Grow
<1>1. file'[g] = IF g = f THEN row ELSE file[g]
  BY DEF StoreTypeOK
<1> QED
  BY <1>1 DEF Created, Uploaded, Stored, Published

-----------------------------------------------------------------------------
(* The tables, one kind of statement at a time.                              *)

\* A Job row that says anything has a File row.
LEMMA JobHasFile ==
    ASSUME RowsOK, NEW f \in Files,
           \/ HasJob(f)
           \/ job[f].status = "COMPLETED"
           \/ job[f].checkpoint \in PublishedCheckpoints
    PROVE  HasFile(f) /\ Created(f)
BY DEF RowsOK, HasFile, HasJob, Created, NoJob, NoRow, PublishedCheckpoints

LEMMA TablesSame ==
    ASSUME StoreOK, UNCHANGED <<file, job>>, Grow
    PROVE  StoreOK'
<1>1. RowsOK'
  BY DEF StoreOK, RowsOK, HasFile
<1>2. FilesOK'
  BY DEF StoreOK, FilesOK, Grow
<1>3. JobsOK'
  BY DEF StoreOK, JobsOK, Grow, HasJob, Published
<1> QED
  BY <1>1, <1>2, <1>3 DEF StoreOK

LEMMA JobChanges ==
    ASSUME StoreTypeOK, StoreOK, NEW f \in Files, NEW row, HasFile(f),
           job' = [job EXCEPT ![f] = row], file' = file, Grow,
           Uploaded(f),
           row.key = "key" => Stored(f),
           row.checkpoint = "UPLOADED_TO_STORAGE" => row.key = "key",
           row.checkpoint \in PublishedCheckpoints => Published(f),
           row.status = "COMPLETED" => Published(f)
    PROVE  StoreOK'
<1>1. \A g \in Files : job'[g] = IF g = f THEN row ELSE job[g]
  BY DEF StoreTypeOK
<1>2. RowsOK'
  BY <1>1 DEF StoreOK, RowsOK, HasFile
<1>3. FilesOK'
  BY DEF StoreOK, FilesOK, Grow
<1>4. JobsOK'
  BY <1>1 DEF StoreOK, JobsOK, Grow, HasJob, Published
<1> QED
  BY <1>2, <1>3, <1>4 DEF StoreOK

LEMMA FileChanges ==
    ASSUME StoreTypeOK, StoreOK, NEW f \in Files, NEW row,
           file' = [file EXCEPT ![f] = row], job' = job, Grow,
           row.status \in FileStatus,
           row.key = "key" => Stored(f)',
           row.status = "COMPLETED" => row.key = "key",
           row.status # "PENDING" => Uploaded(f)'
    PROVE  StoreOK'
<1>1. \A g \in Files : file'[g] = IF g = f THEN row ELSE file[g]
  BY DEF StoreTypeOK
<1>2. row.status \notin NoRow
  BY DEF FileStatus, NoRow
<1>3. RowsOK'
  BY <1>1, <1>2 DEF StoreOK, RowsOK, HasFile
<1>4. FilesOK'
  BY <1>1 DEF StoreOK, FilesOK, Grow
<1>5. JobsOK'
  <2> SUFFICES ASSUME NEW g \in Files
               PROVE  /\ HasJob(g) => Uploaded(g)'
                      /\ job[g].key = "key" => Stored(g)'
                      /\ job[g].checkpoint = "UPLOADED_TO_STORAGE"
                         => job[g].key = "key"
                      /\ \/ job[g].checkpoint \in PublishedCheckpoints
                         \/ job[g].status = "COMPLETED"
                         => Published(g)'
    BY DEF JobsOK, HasJob
  <2>1. HasJob(g) => Uploaded(g)'
    BY DEF StoreOK, JobsOK, Grow
  <2>2. job[g].key = "key" => Stored(g)'
    BY DEF StoreOK, JobsOK, Grow
  <2>3. ASSUME \/ job[g].checkpoint \in PublishedCheckpoints
               \/ job[g].status = "COMPLETED"
        PROVE  Published(g)'
    BY <2>3, JobHasFile DEF StoreOK, JobsOK, Grow
  <2> QED
    BY <2>1, <2>2, <2>3 DEF StoreOK, JobsOK
<1> QED
  BY <1>3, <1>4, <1>5 DEF StoreOK

LEMMA RowDeleted ==
    ASSUME StoreTypeOK, StoreOK, NEW f \in Files, DeleteFileRow(f),
           UNCHANGED <<uploads, processed, doomed>>
    PROVE  Grow /\ StoreOK'
<1>1. \A g \in Files : file'[g] = IF g = f THEN DeletedFile ELSE file[g]
  BY DEF StoreTypeOK, DeleteFileRow
<1>2. \A g \in Files : job'[g] = IF g = f THEN NoJob ELSE job[g]
  BY DEF StoreTypeOK, DeleteFileRow
<1>3. Grow
  <2>1. file' = [file EXCEPT ![f] = DeletedFile]
    BY DEF DeleteFileRow
  <2>2. DeletedFile.status = "DELETED"
    BY DEF DeletedFile
  <2> QED
    BY <2>1, <2>2, GrowRow
<1>4. RowsOK'
  BY <1>1, <1>2 DEF StoreOK, RowsOK, HasFile, DeletedFile
<1>5. FilesOK'
  BY <1>1, <1>3 DEF StoreOK, FilesOK, Grow, DeletedFile, FileStatus
<1>6. JobsOK'
  <2> SUFFICES ASSUME NEW g \in Files, g # f
               PROVE  /\ HasJob(g) => Uploaded(g)'
                      /\ job[g].key = "key" => Stored(g)'
                      /\ job[g].checkpoint = "UPLOADED_TO_STORAGE"
                         => job[g].key = "key"
                      /\ \/ job[g].checkpoint \in PublishedCheckpoints
                         \/ job[g].status = "COMPLETED"
                         => Published(g)'
    BY <1>2 DEF JobsOK, HasJob, NoJob, NoRow, PublishedCheckpoints
  <2>1. HasJob(g) => Uploaded(g)'
    BY <1>3 DEF StoreOK, JobsOK, Grow
  <2>2. job[g].key = "key" => Stored(g)'
    BY <1>3 DEF StoreOK, JobsOK, Grow
  <2>3. ASSUME \/ job[g].checkpoint \in PublishedCheckpoints
               \/ job[g].status = "COMPLETED"
        PROVE  Published(g)'
    BY <1>3, <2>3, JobHasFile DEF StoreOK, JobsOK, Grow
  <2> QED
    BY <2>1, <2>2, <2>3 DEF StoreOK, JobsOK
<1> QED
  BY <1>3, <1>4, <1>5, <1>6 DEF StoreOK

-----------------------------------------------------------------------------
(* The processor.                                                            *)

LEMMA QueueSame ==
    ASSUME QueueTypeOK, QueueOK, Grow,
           \A e \in Entries :
               queue'[e].state # "none" =>
                   /\ queue[e].state # "none"
                   /\ queue'[e].file = queue[e].file
    PROVE  QueueOK'
<1> SUFFICES ASSUME NEW e \in Entries, queue'[e].state # "none"
             PROVE  Accepted(queue[e].file)'
  BY DEF QueueOK
<1>1. queue[e].file \in Files /\ Accepted(queue[e].file)
  BY EntryFile DEF QueueOK
<1> QED
  BY <1>1 DEF Grow, Accepted, Created, Uploaded

\* What an execution relies on stays true while it does nothing.
LEMMA ExecWaits ==
    ASSUME ExecTypeOK, ExecOK, Grow, NEW p \in Procs, exec[p].pc # "idle",
           exec'[p] = exec[p]
    PROVE  ReliesOn(exec[p])'
<1>1. exec[p].file \in Files /\ ReliesOn(exec[p])
  BY Busy DEF BusyExecs, ExecOK
<1> QED
  BY <1>1 DEF ReliesOn, Accepted, Grow

LEMMA ExecSame ==
    ASSUME ExecTypeOK, ExecOK, Grow, UNCHANGED exec
    PROVE  ExecOK'
BY ExecWaits DEF ExecOK

LEMMA ExecOne ==
    ASSUME ExecTypeOK, ExecOK, Grow, NEW p \in Procs, NEW x,
           exec' = [exec EXCEPT ![p] = x],
           x.pc # "idle" => ReliesOn(exec[p])'
    PROVE  ExecOK'
<1>1. exec'[p] = x
  BY DEF ExecTypeOK
<1>2. \A q \in Procs \ {p} : exec'[q] = exec[q]
  BY DEF ExecTypeOK
<1> QED
  BY <1>1, <1>2, ExecWaits DEF ExecOK

\* An execution that only moves to pc must know what pc relies on.
LEMMA ExecGoes ==
    ASSUME ExecTypeOK, ExecOK, Grow, NEW p \in Procs, exec[p].pc # "idle",
           NEW pc, exec' = [exec EXCEPT ![p].pc = pc],
           pc \in {"saveUploaded", "publish"} => exec[p].key = "key",
           pc \in PublishedPcs => Published(exec[p].file)'
    PROVE  ExecOK'
<1> DEFINE x == [exec[p] EXCEPT !.pc = pc]
<1>1. exec[p] \in BusyExecs /\ exec[p].file \in Files
  BY Busy DEF BusyExecs
<1>2. exec' = [exec EXCEPT ![p] = x]
  BY DEF ExecTypeOK
<1>3. /\ x.pc = pc
      /\ x.file = exec[p].file
      /\ x.key = exec[p].key
      /\ x.from = exec[p].from
  BY <1>1 DEF BusyExecs
<1>4. ReliesOn(exec[p])
  BY DEF ExecOK
<1>5. exec'[p] = x
  BY <1>2 DEF ExecTypeOK
<1>6. ReliesOn(exec[p])'
  BY <1>1, <1>3, <1>4, <1>5 DEF ReliesOn, Accepted, Grow
<1> QED
  BY <1>2, <1>6, ExecOne

\* saveCheckpoint: what the new checkpoint promises must already be there.
LEMMA SaveCheckpointSafe ==
    ASSUME StoreTypeOK, QueueTypeOK, ExecTypeOK, StoreOK, QueueOK, ExecOK,
           NEW p \in Procs, NEW pc \in TryPcs, NEW c, NEW next,
           SaveCheckpoint(p, pc, c, next),
           c = "UPLOADED_TO_STORAGE" => exec[p].key = "key",
           c \in PublishedCheckpoints => Published(exec[p].file),
           next = "publish" => exec[p].key = "key",
           next \in PublishedPcs => Published(exec[p].file),
           next # "saveUploaded"
    PROVE  Grow /\ StoreOK' /\ QueueOK' /\ ExecOK'
<1> DEFINE f == exec[p].file
           row == [job[f] EXCEPT
                       !.checkpoint = c,
                       !.key = IF c = "UPLOADED_TO_STORAGE"
                               THEN exec[p].key ELSE "null"]
<1>1. exec[p].pc # "idle" /\ exec[p].pc = pc
  BY Names DEF SaveCheckpoint, At, TryPcs
<1>2. exec[p] \in BusyExecs /\ f \in Files /\ job[f] \in JobRows
  BY <1>1, Busy DEF BusyExecs, StoreTypeOK
<1>3. ReliesOn(exec[p])
  BY <1>1 DEF ExecOK
<1>4. Grow
  BY GrowBuckets DEF SaveCheckpoint
<1>5. job' = [job EXCEPT ![f] = row]
  BY <1>2 DEF SaveCheckpoint, StoreTypeOK, JobRows
<1>6. /\ row.status = job[f].status
      /\ row.checkpoint = c
      /\ row.key = "key" => c = "UPLOADED_TO_STORAGE" /\ exec[p].key = "key"
      /\ c = "UPLOADED_TO_STORAGE" => row.key = exec[p].key
  BY <1>2 DEF JobRows
<1>7. HasFile(f)
  BY <1>2, JobHasFile DEF SaveCheckpoint, StoreOK
<1>8. /\ Uploaded(f)
      /\ row.key = "key" => Stored(f)
      /\ row.status = "COMPLETED" => Published(f)
  BY <1>2, <1>3, <1>6 DEF ReliesOn, Accepted, StoreOK, JobsOK
<1>9. file' = file
  BY DEF SaveCheckpoint
<1>10. StoreOK'
  <2> HIDE DEF row
  <2> QED
    BY <1>2, <1>4, <1>5, <1>6, <1>7, <1>8, <1>9, JobChanges
<1>11. PICK q \in {next, "failFile"} : exec' = [exec EXCEPT ![p].pc = q]
  BY DEF SaveCheckpoint, Goto, After
<1>12. /\ q \in {"saveUploaded", "publish"} => exec[p].key = "key"
       /\ q \in PublishedPcs => Published(f)'
  BY <1>9, <1>11 DEF Published, PublishedPcs
<1>13. ExecOK'
  BY <1>1, <1>4, <1>11, <1>12, ExecGoes
<1> QED
  BY <1>4, <1>10, <1>13, QueueSame DEF SaveCheckpoint

\* A status is written to the File row; COMPLETED only by Publish.
LEMMA FileStatusSafe ==
    ASSUME StoreTypeOK, StoreOK, NEW f \in Files,
           NEW status \in FileStatus \ {"COMPLETED"},
           SetFileStatus(f, status), Uploaded(f),
           UNCHANGED <<job, uploads, processed, doomed>>
    PROVE  Grow /\ StoreOK'
<1> DEFINE row == [file[f] EXCEPT !.status = status]
<1>1. file[f] \in FileRows
  BY DEF StoreTypeOK
<1>2. file' = [file EXCEPT ![f] = row]
  BY <1>1 DEF SetFileStatus, FileRows, StoreTypeOK
<1>3. row.status = status /\ row.key = file[f].key
  BY <1>1 DEF FileRows
<1>4. HasFile(f) /\ status \notin NoRow
  BY DEF SetFileStatus, FileStatus, NoRow
<1>5. /\ row.status # "NONE"
      /\ Created(f) /\ Published(f) => row.key = "key" \/ row.status = "DELETED"
  BY <1>3, <1>4 DEF Published, HasFile, NoRow
<1>6. Grow
  <2> HIDE DEF row
  <2> QED
    BY <1>2, <1>5, GrowRow
<1>7. row.key = "key" => Stored(f)'
  BY <1>3, <1>6 DEF StoreOK, FilesOK, Grow
<1>8. Uploaded(f)'
  BY <1>6 DEF Grow
<1>9. StoreOK'
  <2> HIDE DEF row
  <2> QED
    BY <1>2, <1>3, <1>6, <1>7, <1>8, FileChanges
<1> QED
  BY <1>6, <1>9

LEMMA JobStatusSafe ==
    ASSUME StoreTypeOK, StoreOK, NEW f \in Files, NEW status \in JobStatus,
           SetJobStatus(f, status), status = "COMPLETED" => Published(f),
           UNCHANGED <<file, uploads, processed, doomed>>
    PROVE  Grow /\ StoreOK'
<1> DEFINE row == [job[f] EXCEPT !.status = status]
<1>1. job[f] \in JobRows
  BY DEF StoreTypeOK
<1>2. job' = [job EXCEPT ![f] = row]
  BY <1>1 DEF SetJobStatus, JobRows, StoreTypeOK
<1>3. /\ row.status = status
      /\ row.key = job[f].key
      /\ row.checkpoint = job[f].checkpoint
  BY <1>1 DEF JobRows
<1>4. Grow
  BY GrowBuckets
<1>5. HasJob(f) /\ HasFile(f) /\ Uploaded(f)
  BY JobHasFile DEF SetJobStatus, StoreOK, JobsOK
<1>6. /\ row.key = "key" => Stored(f)
      /\ row.checkpoint = "UPLOADED_TO_STORAGE" => row.key = "key"
      /\ row.checkpoint \in PublishedCheckpoints => Published(f)
  BY <1>3 DEF StoreOK, JobsOK
<1>7. StoreOK'
  <2> HIDE DEF row
  <2> QED
    BY <1>2, <1>3, <1>4, <1>5, <1>6, JobChanges
<1> QED
  BY <1>4, <1>7

\* FindJob reads the checkpoint and the key that JobsOK speaks of.
LEMMA FindJobSafe ==
    ASSUME StoreTypeOK, ExecTypeOK, StoreOK, ExecOK, NEW p \in Procs,
           FindJob(p)
    PROVE  Grow /\ ExecOK'
<1> DEFINE f == exec[p].file
           from == IF HasJob(f) THEN job[f].checkpoint ELSE "INIT"
           x == [exec[p] EXCEPT !.pc = "startJob", !.from = from,
                                !.key = job[f].key]
<1>1. exec[p].pc # "idle"
  BY DEF FindJob, At
<1>2. exec[p] \in BusyExecs /\ f \in Files
  BY <1>1, Busy DEF BusyExecs
<1>3. Grow
  BY GrowBuckets DEF FindJob, storeVars
<1>4. exec' = [exec EXCEPT ![p] = x]
  BY <1>2 DEF FindJob, BusyExecs, ExecTypeOK
<1>5. /\ exec'[p].pc = "startJob"
      /\ exec'[p].file = f
      /\ exec'[p].from = from
      /\ exec'[p].key = job[f].key
  BY <1>2, <1>4 DEF ExecTypeOK, BusyExecs
<1>6. Accepted(f)
  BY <1>1 DEF ExecOK, ReliesOn
<1>7. /\ job[f].key = "key" => Stored(f)
      /\ from = "UPLOADED_TO_STORAGE" => job[f].key = "key"
      /\ from \in PublishedCheckpoints => Published(f)
  BY <1>2 DEF StoreOK, JobsOK, PublishedCheckpoints
<1>8. ReliesOn(exec[p])'
  BY <1>2, <1>3, <1>5, <1>6, <1>7 DEF ReliesOn, Accepted, Grow, PublishedPcs
<1> QED
  BY <1>3, <1>4, <1>8, ExecOne

LEMMA PutObjectSafe ==
    ASSUME ExecTypeOK, StoreOK, ExecOK, NEW p \in Procs, PutObject(p)
    PROVE  Grow /\ StoreOK' /\ ExecOK'
<1> DEFINE f == exec[p].file
<1>1. exec[p].pc # "idle"
  BY DEF PutObject, At
<1>2. exec[p] \in BusyExecs /\ f \in Files
  BY <1>1, Busy DEF BusyExecs
<1>3. Grow
  BY GrowBuckets DEF PutObject
<1>4. PICK q \in {"saveUploaded", "failFile"} :
          exec' = [exec EXCEPT ![p].pc = q, ![p].key = "key"]
  BY DEF PutObject, After
<1> DEFINE x == [exec[p] EXCEPT !.pc = q, !.key = "key"]
<1>5. exec' = [exec EXCEPT ![p] = x]
  BY <1>2, <1>4 DEF BusyExecs, ExecTypeOK
<1>6. /\ exec'[p].pc = q
      /\ exec'[p].file = f
      /\ exec'[p].from = exec[p].from
      /\ exec'[p].key = "key"
  BY <1>2, <1>5 DEF ExecTypeOK, BusyExecs
<1>7. Stored(f)'
  BY <1>6 DEF PutObject, Stored
<1>8. ReliesOn(exec[p])
  BY <1>1 DEF ExecOK
<1>9. ReliesOn(exec[p])'
  BY <1>2, <1>3, <1>6, <1>7, <1>8 DEF ReliesOn, Accepted, Grow, PublishedPcs
<1>10. ExecOK'
  BY <1>3, <1>5, <1>9, ExecOne
<1> QED
  BY <1>3, <1>10, TablesSame DEF PutObject

LEMMA PublishSafe ==
    ASSUME StoreTypeOK, ExecTypeOK, StoreOK, ExecOK, NEW p \in Procs,
           Publish(p)
    PROVE  Grow /\ StoreOK' /\ ExecOK'
<1>1. exec[p].pc = "publish"
  BY DEF Publish, At
<1>2. exec[p] \in BusyExecs
  BY <1>1, Busy
<1>3. PICK f \in Files : f = exec[p].file
  BY <1>2 DEF BusyExecs
<1>4. exec[p].key = "key" /\ Stored(f) /\ Uploaded(f)
  BY <1>1, <1>3 DEF ExecOK, ReliesOn, Accepted
<1>5. PICK row : row = [file[f] EXCEPT !.status = "COMPLETED", !.key = "key"]
  OBVIOUS
<1>6. row.status = "COMPLETED" /\ row.key = "key"
  BY <1>5 DEF StoreTypeOK, FileRows
<1>7. file' = [file EXCEPT ![f] = row]
  BY <1>3, <1>4, <1>5 DEF Publish, FileRows, StoreTypeOK
<1>8. Grow
  BY <1>6, <1>7, GrowRow DEF Publish
<1>9. Stored(f)' /\ Uploaded(f)'
  BY <1>4, <1>8 DEF Grow
<1>10. StoreOK'
  <2>1. row.status \in FileStatus /\ job' = job
    BY <1>6, Names DEF Publish
  <2> QED
    BY <1>6, <1>7, <1>8, <1>9, <2>1, FileChanges
<1>11. PICK q \in {"saveMetadata", "failFile"} :
           exec' = [exec EXCEPT ![p].pc = q]
  BY DEF Publish, Goto, After
<1>12. exec'[p].file = f /\ Published(f)'
  BY <1>2, <1>3, <1>6, <1>7, <1>11
     DEF Published, StoreTypeOK, ExecTypeOK, BusyExecs
<1>13. Published(exec[p].file)'
  BY <1>12 DEF Published
<1>14. ExecOK'
  BY <1>1, <1>8, <1>11, <1>13, ExecGoes
<1> QED
  BY <1>8, <1>10, <1>14

\* Every step of a worker is safe, whatever checkpoint it resumed from and
\* whoever else works on the file.
LEMMA ProcessStepSafe ==
    ASSUME StoreTypeOK, QueueTypeOK, ExecTypeOK, StoreOK, QueueOK, ExecOK,
           NEW p \in Procs, ProcessStep(p)
    PROVE  Grow /\ StoreOK' /\ QueueOK' /\ ExecOK'
<1> DEFINE f == exec[p].file
<1>0. exec[p].pc # "idle" => /\ f \in Files
                             /\ exec[p].entry \in Entries
                             /\ ReliesOn(exec[p])
                             /\ Uploaded(f)
  BY Busy DEF BusyExecs, ExecOK, ReliesOn, Accepted
<1>1. CASE FindJob(p)
  BY <1>1, FindJobSafe, TablesSame, QueueSame DEF FindJob, storeVars
<1>2. CASE StartJob(p)
  <2>1. Grow /\ StoreOK'
    BY <1>0, <1>2, JobStatusSafe, Names DEF StartJob, At
  <2>2. PICK q \in {"startFile", "failFile"} :
            exec' = [exec EXCEPT ![p].pc = q]
    BY <1>2 DEF StartJob, Goto, After
  <2>3. ExecOK'
    BY <1>2, <2>1, <2>2, ExecGoes DEF StartJob, At, PublishedPcs
  <2> QED
    BY <1>2, <2>1, <2>3, QueueSame DEF StartJob
<1>3. CASE StartFile(p)
  <2>1. Grow /\ StoreOK'
    BY <1>0, <1>3, FileStatusSafe, Names DEF StartFile, At
  <2>2. PICK q \in {"getObject", "failFile"} :
            exec' = [exec EXCEPT ![p].pc = q]
    BY <1>3 DEF StartFile, Goto, After
  <2>3. ExecOK'
    BY <1>3, <2>1, <2>2, ExecGoes DEF StartFile, At, PublishedPcs
  <2> QED
    BY <1>3, <2>1, <2>3, QueueSame DEF StartFile
<1>4. CASE GetObject(p)
  <2>1. Grow
    BY <1>4, GrowBuckets DEF GetObject, storeVars
  <2>2. PICK q \in {"saveRetrieved", "process"} :
            exec' = [exec EXCEPT ![p].pc = q]
    BY <1>4 DEF GetObject
  <2>3. ExecOK'
    BY <1>4, <2>1, <2>2, ExecGoes DEF GetObject, At, PublishedPcs
  <2> QED
    BY <1>4, <2>1, <2>3, TablesSame, QueueSame DEF GetObject, storeVars
<1>5. CASE ProcessFile(p)
  <2>1. Grow
    BY <1>5, GrowBuckets DEF ProcessFile, storeVars
  <2>2. exec[p].from \in Checkpoints
    BY <1>5, Busy DEF ProcessFile, At, BusyExecs
  <2>3. CASE exec[p].from = "UPLOADED_TO_STORAGE"
    <3>1. exec' = [exec EXCEPT ![p].pc = "publish"] /\ exec[p].key = "key"
      BY <1>0, <1>5, <2>3 DEF ProcessFile, At, AfterProcess, ReliesOn
    <3> QED
      BY <1>5, <2>1, <3>1, ExecGoes, TablesSame, QueueSame
         DEF ProcessFile, At, PublishedPcs, storeVars
  <2>4. CASE exec[p].from \in PublishedCheckpoints
    <3>1. exec' = [exec EXCEPT ![p].pc = "completeJob"] /\ Published(f)
      BY <1>0, <1>5, <2>4 DEF ProcessFile, At, AfterProcess, ReliesOn,
         PublishedCheckpoints
    <3>2. Published(f)'
      BY <1>5, <3>1 DEF ProcessFile, Published, storeVars
    <3> QED
      BY <1>5, <2>1, <3>1, <3>2, ExecGoes, TablesSame, QueueSame
         DEF ProcessFile, At, storeVars
  <2>5. CASE exec[p].from \in {"INIT", "FILE_RETRIEVED", "FILE_PROCESSED"}
    <3>1. PICK q \in {"saveProcessed", "putObject"} :
              exec' = [exec EXCEPT ![p].pc = q]
      BY <1>5, <2>5 DEF ProcessFile, AfterProcess
    <3> QED
      BY <1>5, <2>1, <3>1, ExecGoes, TablesSame, QueueSame
         DEF ProcessFile, At, PublishedPcs, storeVars
  <2> QED
    BY <2>2, <2>3, <2>4, <2>5 DEF Checkpoints, PublishedCheckpoints
<1>6. CASE PutObject(p)
  BY <1>6, PutObjectSafe, QueueSame DEF PutObject
<1>7. CASE SaveRetrieved(p)
  BY <1>7, SaveCheckpointSafe DEF SaveRetrieved, TryPcs,
     PublishedCheckpoints, PublishedPcs
<1>8. CASE SaveProcessed(p)
  BY <1>8, SaveCheckpointSafe DEF SaveProcessed, TryPcs,
     PublishedCheckpoints, PublishedPcs
<1>9. CASE SaveUploaded(p)
  <2>1. exec[p].pc = "saveUploaded"
    BY <1>9 DEF SaveUploaded, SaveCheckpoint, At
  <2>2. exec[p].key = "key"
    BY <1>0, <2>1 DEF ReliesOn
  <2> QED
    BY <1>9, <2>2, SaveCheckpointSafe DEF SaveUploaded, TryPcs,
       PublishedCheckpoints, PublishedPcs
<1>10. CASE SaveMetadata(p)
  <2>1. exec[p].pc = "saveMetadata"
    BY <1>10 DEF SaveMetadata, SaveCheckpoint, At
  <2>2. Published(f)
    BY <1>0, <2>1 DEF ReliesOn, PublishedPcs
  <2> QED
    BY <1>10, <2>2, SaveCheckpointSafe DEF SaveMetadata, TryPcs
<1>11. CASE SaveCompleted(p)
  <2>1. exec[p].pc = "saveCompleted"
    BY <1>11 DEF SaveCompleted, SaveCheckpoint, At
  <2>2. Published(f)
    BY <1>0, <2>1 DEF ReliesOn, PublishedPcs
  <2> QED
    BY <1>11, <2>2, SaveCheckpointSafe DEF SaveCompleted, TryPcs
<1>12. CASE Publish(p)
  BY <1>12, PublishSafe, QueueSame DEF Publish
<1>13. CASE CompleteJob(p)
  <2>1. Published(f)
    BY <1>0, <1>13 DEF CompleteJob, At, ReliesOn, PublishedPcs
  <2>2. Grow /\ StoreOK'
    BY <1>0, <1>13, <2>1, JobStatusSafe, Names DEF CompleteJob, At
  <2>3. PICK q \in {"saveCompleted", "failFile"} :
            exec' = [exec EXCEPT ![p].pc = q]
    BY <1>13 DEF CompleteJob, Goto, After
  <2>4. Published(f)'
    BY <1>13, <2>1, <2>3, Busy DEF CompleteJob, At, Published
  <2>5. ExecOK'
    BY <1>13, <2>2, <2>3, <2>4, ExecGoes DEF CompleteJob, At
  <2> QED
    BY <1>13, <2>2, <2>5, QueueSame DEF CompleteJob
<1>14. CASE Throw(p) \/ CatchThrows(p)
  <2>1. Grow
    BY <1>14, GrowBuckets DEF Throw, CatchThrows, storeVars
  <2>2. PICK q \in {"failFile", "nack"} : exec' = [exec EXCEPT ![p].pc = q]
    BY <1>14 DEF Throw, CatchThrows
  <2>3. exec[p].pc # "idle"
    BY <1>14, Names DEF Throw, CatchThrows, At
  <2>4. ExecOK'
    BY <2>1, <2>2, <2>3, ExecGoes DEF PublishedPcs
  <2> QED
    BY <1>14, <2>1, <2>4, TablesSame, QueueSame DEF Throw, CatchThrows,
       storeVars
<1>15. CASE FailFile(p)
  <2>1. Grow /\ StoreOK'
    BY <1>0, <1>15, FileStatusSafe, Names DEF FailFile, At
  <2>2. PICK q \in {"failJob", "nack"} : exec' = [exec EXCEPT ![p].pc = q]
    BY <1>15 DEF FailFile, After
  <2>3. ExecOK'
    BY <1>15, <2>1, <2>2, ExecGoes DEF FailFile, At, PublishedPcs
  <2> QED
    BY <1>15, <2>1, <2>3, QueueSame DEF FailFile
<1>16. CASE FailJob(p)
  <2>1. Grow /\ StoreOK'
    BY <1>0, <1>16, JobStatusSafe, Names DEF FailJob, At
  <2>2. ExecOK'
    BY <1>16, <2>1, ExecGoes DEF FailJob, At, PublishedPcs
  <2> QED
    BY <1>16, <2>1, <2>2, QueueSame DEF FailJob
<1>17. CASE Ack(p) \/ Nack(p) \/ ReportLost(p)
  <2>1. Grow
    BY <1>17, GrowBuckets DEF Ack, Nack, ReportLost, storeVars
  <2>2. exec' = [exec EXCEPT ![p] = IdleExec] /\ IdleExec.pc = "idle"
    BY <1>17 DEF Ack, Nack, ReportLost, IdleExec
  <2>3. ExecOK'
    BY <2>1, <2>2, ExecOne
  <2>4. QueueOK'
    <3>1. CASE Ack(p)
      <4>1. exec[p].pc # "idle" /\ queue[exec[p].entry].state = "active"
        BY <3>1 DEF Ack, At, Holds
      <4> QED
        BY <1>0, <2>1, <3>1, <4>1, QueueSame, EntryFile
           DEF Ack, CompleteEntry, QueueTypeOK
    <3>2. CASE Nack(p)
      <4>1. exec[p].pc # "idle" /\ queue[exec[p].entry].state = "active"
        BY <3>2 DEF Nack, At, Holds
      <4> QED
        BY <1>0, <2>1, <3>2, <4>1, QueueSame, EntryFile
           DEF Nack, FailEntry, QueueTypeOK
    <3>3. CASE ReportLost(p)
      BY <2>1, <3>3, QueueSame DEF ReportLost
    <3> QED
      BY <1>17, <3>1, <3>2, <3>3
  <2> QED
    BY <1>17, <2>1, <2>3, <2>4, TablesSame DEF Ack, Nack, ReportLost, storeVars
<1> QED
  BY <1>1, <1>2, <1>3, <1>4, <1>5, <1>6, <1>7, <1>8, <1>9, <1>10, <1>11,
     <1>12, <1>13, <1>14, <1>15, <1>16, <1>17 DEF ProcessStep

LEMMA ProcessorSafe ==
    ASSUME StoreTypeOK, QueueTypeOK, ExecTypeOK, StoreOK, QueueOK, ExecOK,
           ProcessorNext
    PROVE  Grow /\ StoreOK' /\ QueueOK' /\ ExecOK'
<1>1. ASSUME NEW p \in Procs, NEW e \in Entries, Take(p, e)
      PROVE  Grow /\ StoreOK' /\ QueueOK' /\ ExecOK'
  <2>1. Grow
    BY <1>1, GrowBuckets DEF Take, storeVars
  <2>2. queue[e].state = "waiting"
    BY <1>1 DEF Take, TakeEntry
  <2>3. PICK f \in Files : f = queue[e].file /\ Accepted(f)
    BY <2>2, EntryFile DEF QueueOK
  <2>4. PICK x : /\ exec' = [exec EXCEPT ![p] = x]
                 /\ x = [IdleExec EXCEPT !.pc = "findJob", !.entry = e,
                                         !.file = f]
    BY <1>1, <2>3 DEF Take
  <2>5. exec'[p] = x
    BY <2>4 DEF ExecTypeOK
  <2>6. /\ exec'[p].pc = "findJob"
        /\ exec'[p].file = f
        /\ exec'[p].from = "INIT"
        /\ exec'[p].key = "null"
    BY <2>4, <2>5 DEF IdleExec
  <2>7. ReliesOn(exec[p])'
    BY <2>1, <2>3, <2>6 DEF ReliesOn, Accepted, Grow, PublishedPcs,
       PublishedCheckpoints
  <2>8. ExecOK'
    BY <2>1, <2>4, <2>7, ExecOne
  <2>9. QueueOK'
    BY <1>1, <2>1, <2>2, EntryFile, QueueSame DEF Take, TakeEntry, QueueTypeOK
  <2> QED
    BY <1>1, <2>1, <2>8, <2>9, TablesSame DEF Take, storeVars
<1>2. ASSUME NEW e \in Entries, Stall(e)
      PROVE  Grow /\ StoreOK' /\ QueueOK' /\ ExecOK'
  <2>1. Grow
    BY <1>2, GrowBuckets DEF Stall, storeVars
  <2>2. queue[e].state = "active"
    BY <1>2 DEF Stall, StallEntry
  <2>3. QueueOK'
    BY <1>2, <2>1, <2>2, EntryFile, QueueSame DEF Stall, StallEntry, QueueTypeOK
  <2> QED
    BY <1>2, <2>1, <2>3, ExecSame, TablesSame DEF Stall, storeVars
<1> QED
  BY <1>1, <1>2, ProcessStepSafe DEF ProcessorNext

-----------------------------------------------------------------------------
(* The recovery.                                                             *)

LEMMA RecSame ==
    ASSUME RecTypeOK, RecOK, Grow, UNCHANGED rec
    PROVE  RecOK'
<1> SUFFICES ASSUME NEW p \in Procs, rec[p].pc = "enqueue"
             PROVE  Accepted(rec[p].cur)'
  BY DEF RecOK
<1>1. rec[p].cur \in Files /\ Accepted(rec[p].cur)
  BY DEF RecTypeOK, Recs, RecOK
<1> QED
  BY <1>1 DEF Grow, Accepted

LEMMA RecOne ==
    ASSUME RecTypeOK, RecOK, Grow, NEW p \in Procs,
           \A q \in Procs \ {p} : rec'[q] = rec[q],
           rec'[p].pc = "enqueue" => Accepted(rec[p].cur)'
    PROVE  RecOK'
<1>1. ASSUME NEW q \in Procs \ {p}, rec'[q].pc = "enqueue"
      PROVE  Accepted(rec[q].cur)'
  <2>1. rec[q].cur \in Files /\ Accepted(rec[q].cur)
    BY <1>1 DEF RecTypeOK, Recs, RecOK
  <2> QED
    BY <2>1 DEF Grow, Accepted
<1> QED
  BY <1>1 DEF RecOK

\* A new entry is for a file that the worker may rely on.
LEMMA AddEntrySafe ==
    ASSUME QueueTypeOK, QueueOK, Grow, NEW f \in Files, Accepted(f),
           NEW e \in Entries, AddEntry(e, f)
    PROVE  QueueOK'
<1> SUFFICES ASSUME NEW d \in Entries, queue'[d].state # "none"
             PROVE  Accepted(queue[d].file)'
  BY DEF QueueOK
<1>1. CASE d = e
  <2>1. queue'[d].file = f
    BY <1>1 DEF AddEntry, QueueTypeOK, NoEntry
  <2> QED
    BY <2>1 DEF Grow, Accepted
<1>2. CASE d # e
  <2>1. queue'[d] = queue[d]
    BY <1>2 DEF AddEntry, QueueTypeOK
  <2>2. queue[d].file \in Files /\ Accepted(queue[d].file)
    BY <2>1, EntryFile DEF QueueOK
  <2> QED
    BY <2>1, <2>2 DEF Grow, Accepted
<1> QED
  BY <1>1, <1>2

LEMMA RecoveryStepSafe ==
    ASSUME StoreTypeOK, QueueTypeOK, RecTypeOK, StoreOK, QueueOK, RecOK,
           NEW p \in Procs, RecoveryStep(p)
    PROVE  Grow /\ StoreOK' /\ QueueOK' /\ RecOK'
<1>1. CASE Scan(p) \/ SkipJob(p) \/ ReenqueueFails(p) \/ RecoveryDone(p)
  <2>1. Grow
    BY <1>1, GrowBuckets DEF Scan, SkipJob, ReenqueueFails, RecoveryDone,
       storeVars
  <2>2. rec[p] \in Recs /\ rec[p] \in [pc : {"scan", "loop", "done", "enqueue"},
                                       todo : SUBSET Files,
                                       cur : Files \cup {Nil}]
    BY DEF RecTypeOK, Recs
  <2>3. \A q \in Procs \ {p} : rec'[q] = rec[q]
    BY <1>1 DEF Scan, SkipJob, ReenqueueFails, RecoveryDone, RecTypeOK
  <2>4. rec'[p].pc # "enqueue"
    BY <1>1, <2>2 DEF Scan, SkipJob, ReenqueueFails, RecoveryDone, RecTypeOK
  <2>5. RecOK'
    BY <2>1, <2>3, <2>4, RecOne
  <2> QED
    BY <1>1, <2>1, <2>5, TablesSame, QueueSame
       DEF Scan, SkipJob, ReenqueueFails, RecoveryDone, storeVars
<1>2. CASE ResetJob(p)
  <2>1. rec[p].todo \in SUBSET Files
    BY DEF RecTypeOK, Recs
  <2>2. PICK f \in rec[p].todo :
            /\ SetJobStatus(f, "PENDING")
            /\ \E pc \in After("db", "enqueue", "loop") :
                   rec' = [rec EXCEPT
                       ![p] = [pc |-> pc, todo |-> @.todo \ {f},
                               cur |-> IF pc = "enqueue" THEN f ELSE Nil]]
    BY <1>2 DEF ResetJob
  <2>3. /\ \A q \in Procs \ {p} : rec'[q] = rec[q]
        /\ rec'[p].pc = "enqueue" => rec'[p].cur = f
    BY <2>2 DEF RecTypeOK
  <2>4. f \in Files /\ Grow /\ StoreOK'
    BY <1>2, <2>1, <2>2, JobStatusSafe, Names DEF ResetJob
  <2>5. HasJob(f) /\ Accepted(f)
    BY <2>2, <2>4, JobHasFile DEF SetJobStatus, StoreOK, JobsOK, Accepted
  <2>6. rec'[p].pc = "enqueue" => Accepted(rec[p].cur)'
    BY <2>3, <2>4, <2>5 DEF Grow, Accepted
  <2>7. RecOK'
    BY <2>3, <2>4, <2>6, RecOne
  <2> QED
    BY <1>2, <2>4, <2>7, QueueSame DEF ResetJob
<1>3. CASE Reenqueue(p)
  <2>1. Grow
    BY <1>3, GrowBuckets DEF Reenqueue, storeVars
  <2>2. rec[p].cur \in Files /\ Accepted(rec[p].cur)
    BY <1>3 DEF Reenqueue, RecTypeOK, Recs, RecOK
  <2>3. QueueOK'
    BY <1>3, <2>1, <2>2, AddEntrySafe DEF Reenqueue
  <2>4. /\ \A q \in Procs \ {p} : rec'[q] = rec[q]
        /\ rec'[p].pc = "loop"
    BY <1>3 DEF Reenqueue, RecTypeOK, Recs
  <2>5. RecOK'
    BY <2>1, <2>4, RecOne
  <2> QED
    BY <1>3, <2>1, <2>3, <2>5, TablesSame DEF Reenqueue, storeVars
<1> QED
  BY <1>1, <1>2, <1>3 DEF RecoveryStep

LEMMA RecoverySafe ==
    ASSUME StoreTypeOK, QueueTypeOK, RecTypeOK, StoreOK, QueueOK, RecOK,
           RecoveryNext
    PROVE  Grow /\ StoreOK' /\ QueueOK' /\ RecOK'
<1>1. ASSUME NEW e \in Entries, RetryFailedJob(e) \/ RemoveFailedJob(e)
      PROVE  Grow /\ StoreOK' /\ QueueOK' /\ RecOK'
  <2>1. Grow
    BY <1>1, GrowBuckets DEF RetryFailedJob, RemoveFailedJob, storeVars
  <2>2. queue[e].state # "none"
    BY <1>1 DEF RetryFailedJob, RemoveFailedJob
  <2>3. QueueOK'
    BY <1>1, <2>1, <2>2, EntryFile, QueueSame
       DEF RetryFailedJob, RemoveFailedJob, QueueTypeOK
  <2> QED
    BY <1>1, <2>1, <2>3, TablesSame, RecSame
       DEF RetryFailedJob, RemoveFailedJob, storeVars
<1> QED
  BY <1>1, RecoveryStepSafe DEF RecoveryNext

-----------------------------------------------------------------------------
(* The API.                                                                  *)

LEMMA ReqWaits ==
    ASSUME ServiceTypeOK, ReqOK, Grow, NEW r \in Requests, req'[r] = req[r]
    PROVE  Warranted(req[r])'
<1>1. Warranted(req[r])
  BY DEF ReqOK
<1>2. CASE req[r].pc \in {"new", "end"}
  BY <1>2 DEF Warranted
<1>3. CASE req[r].pc \notin {"new", "end"}
  <2>1. req[r].file \in Files
    BY <1>3, BusyRequest
  <2> QED
    BY <1>1, <2>1 DEF Warranted, Accepted, Grow
<1> QED
  BY <1>2, <1>3

LEMMA ReqSame ==
    ASSUME ServiceTypeOK, ReqOK, Grow, UNCHANGED req
    PROVE  ReqOK'
BY ReqWaits DEF ReqOK

LEMMA ReqOne ==
    ASSUME ServiceTypeOK, ReqOK, Grow, NEW r \in Requests,
           \A q \in Requests \ {r} : req'[q] = req[q], Warranted(req[r])'
    PROVE  ReqOK'
BY ReqWaits DEF ReqOK

LEMMA ReqEnds ==
    ASSUME ServiceTypeOK, ReqOK, Grow, NEW r \in Requests, EndReq(r)
    PROVE  ReqOK'
<1>1. req'[r].pc = "end"
  BY DEF EndReq, EndedReq, NewReq, ServiceTypeOK
<1>2. \A q \in Requests \ {r} : req'[q] = req[q]
  BY DEF EndReq, ServiceTypeOK
<1> QED
  BY <1>1, <1>2, ReqOne DEF Warranted

LEMMA ReqBegins ==
    ASSUME ServiceTypeOK, ReqOK, Grow, NEW r \in Requests, NEW p, NEW f,
           NEW op, NEW pc \in {"putUpload", "statObject", "delUpload"}, NEW key,
           Begin(r, p, f, op, pc, key)
    PROVE  ReqOK'
<1>1. req'[r].pc = pc
  BY DEF Begin, ServiceTypeOK
<1>2. \A q \in Requests \ {r} : req'[q] = req[q]
  BY DEF Begin, ServiceTypeOK
<1> QED
  BY <1>1, <1>2, ReqOne DEF Warranted

\* A request that goes on must have what the next call relies on.
LEMMA ReqGoes ==
    ASSUME ServiceTypeOK, ReqOK, Grow, NEW r \in Requests, NEW f \in Files,
           NEW next, req[r].file = f, req[r].pc \notin {"new", "end"},
           EndReq(r) \/ req' = [req EXCEPT ![r].pc = next],
           next \in {"createFile", "markUploaded"} => Uploaded(f)',
           next \in {"addJob", "createJob"} => Accepted(f)',
           next \in {"delProcessed", "deleteRow"} => f \in doomed'
    PROVE  ReqOK'
<1>1. CASE EndReq(r)
  BY <1>1, ReqEnds
<1>2. CASE req' = [req EXCEPT ![r].pc = next]
  <2>1. /\ \A q \in Requests \ {r} : req'[q] = req[q]
        /\ req'[r].pc = next
        /\ req'[r].file = f
    BY <1>2, BusyRequest DEF ServiceTypeOK, BusyReqs
  <2>2. Warranted(req[r])'
    BY <2>1 DEF Warranted, Accepted
  <2> QED
    BY <2>1, <2>2, ReqOne
<1> QED
  BY <1>1, <1>2

LEMMA AcceptSafe ==
    ASSUME StoreTypeOK, QueueTypeOK, ServiceTypeOK, StoreOK, QueueOK, ReqOK,
           NEW p \in Procs, Accept(p)
    PROVE  Grow /\ StoreOK' /\ QueueOK' /\ ReqOK'
<1> SUFFICES ASSUME NEW r \in Requests,
                    \/ BeginUpload(r, p) \/ PresignUpload(r, p)
                    \/ BeginComplete(r, p) \/ BeginDelete(r, p)
             PROVE  Grow /\ StoreOK' /\ QueueOK' /\ ReqOK'
  BY DEF Accept
<1>1. CASE BeginUpload(r, p) \/ BeginComplete(r, p) \/ BeginDelete(r, p)
  <2>1. UNCHANGED storeVars /\ UNCHANGED queue
    BY <1>1 DEF BeginUpload, BeginComplete, BeginDelete
  <2>2. Grow
    BY <2>1, GrowBuckets DEF storeVars
  <2>3. ReqOK'
    BY <1>1, <2>2, ReqBegins DEF BeginUpload, BeginComplete, BeginDelete
  <2> QED
    BY <2>1, <2>2, <2>3, TablesSame, QueueSame DEF storeVars
<1>2. CASE PresignUpload(r, p)
  <2>1. PICK f \in Files :
            /\ EndReq(r)
            /\ file[f] = NoFile
            /\ file' = [file EXCEPT ![f].status = "PENDING"]
            /\ UNCHANGED <<job, uploads, processed, doomed, queue>>
    BY <1>2 DEF PresignUpload
  <2>2. PICK row : row = [NoFile EXCEPT !.status = "PENDING"]
    OBVIOUS
  <2>3. row.status = "PENDING" /\ row.key = "null"
    BY <2>2 DEF NoFile
  <2>4. file' = [file EXCEPT ![f] = row]
    BY <2>1, <2>2 DEF StoreTypeOK
  <2>5. Grow
    <3>1. ~Created(f) /\ row.status # "NONE"
      BY <2>1, <2>3 DEF NoFile, Created
    <3> QED
      BY <2>1, <2>4, <3>1, GrowRow
  <2>6. StoreOK'
    <3>1. job' = job /\ row.status \in FileStatus
      BY <2>1, <2>3, Names
    <3> QED
      BY <2>3, <2>4, <2>5, <3>1, FileChanges
  <2> QED
    BY <2>1, <2>5, <2>6, QueueSame, ReqEnds
<1> QED
  BY <1>1, <1>2

LEMMA ServiceStepSafe ==
    ASSUME StoreTypeOK, QueueTypeOK, ServiceTypeOK, StoreOK, QueueOK, ReqOK,
           NEW r \in Requests, ServiceStep(r)
    PROVE  Grow /\ StoreOK' /\ QueueOK' /\ ReqOK'
<1>1. req[r].pc \notin {"new", "end"}
  BY DEF ServiceStep, PutUpload, CreateFile, AddJob, CreateJob, StatObject,
     MarkUploaded, DelUpload, DelProcessed, DeleteRow, ReqFails, At_
<1>2. PICK f \in Files : f = req[r].file
  BY <1>1, BusyRequest
<1>3. Warranted(req[r])
  BY DEF ReqOK
<1>4. CASE PutUpload(r)
  <2>1. Grow
    BY <1>4, GrowBuckets DEF PutUpload
  <2>2. Uploaded(f)'
    BY <1>2, <1>4 DEF PutUpload, Uploaded
  <2>3. EndReq(r) \/ req' = [req EXCEPT ![r].pc = "createFile"]
    BY <1>4 DEF PutUpload, ReqGoto, After
  <2>4. ReqOK'
    BY <1>1, <1>2, <2>1, <2>2, <2>3, ReqGoes
  <2> QED
    BY <1>4, <2>1, <2>4, TablesSame, QueueSame DEF PutUpload
<1>5. CASE CreateFile(r)
  <2>1. Uploaded(f)
    BY <1>2, <1>3, <1>5 DEF CreateFile, At_, Warranted
  <2>2. PICK row : row = [NoFile EXCEPT !.status = "UPLOADED"]
    OBVIOUS
  <2>3. row.status = "UPLOADED" /\ row.key = "null"
    BY <2>2 DEF NoFile
  <2>4. file[f] = NoFile /\ file' = [file EXCEPT ![f] = row]
    BY <1>2, <1>5, <2>2 DEF CreateFile, StoreTypeOK
  <2>5. Grow
    <3>1. /\ ~Created(f) /\ row.status # "NONE"
          /\ UNCHANGED <<uploads, processed, doomed>>
      BY <1>5, <2>3, <2>4 DEF NoFile, Created, CreateFile
    <3> QED
      BY <2>4, <3>1, GrowRow
  <2>6. Accepted(f)'
    BY <2>1, <2>3, <2>4, <2>5 DEF Grow, Accepted, Created, StoreTypeOK
  <2>7. StoreOK'
    <3>1. job' = job /\ row.status \in FileStatus /\ Uploaded(f)'
      BY <1>5, <2>3, <2>6, Names DEF CreateFile, Accepted
    <3> QED
      BY <2>3, <2>4, <2>5, <3>1, FileChanges
  <2>8. EndReq(r) \/ req' = [req EXCEPT ![r].pc = "addJob"]
    BY <1>5 DEF CreateFile, ReqGoto, After
  <2>9. ReqOK'
    BY <1>1, <1>2, <2>5, <2>6, <2>8, ReqGoes
  <2> QED
    BY <1>5, <2>5, <2>7, <2>9, QueueSame DEF CreateFile
<1>6. CASE AddJob(r)
  <2>1. Accepted(f)
    BY <1>2, <1>3, <1>6 DEF AddJob, At_, Warranted
  <2>2. Grow
    BY <1>6, GrowBuckets DEF AddJob, storeVars
  <2>3. QueueOK'
    BY <1>2, <1>6, <2>1, <2>2, AddEntrySafe DEF AddJob
  <2>4. EndReq(r) \/ req' = [req EXCEPT ![r].pc = "createJob"]
    BY <1>6 DEF AddJob, ReqGoto, After
  <2>5. Accepted(f)'
    BY <2>1, <2>2 DEF Grow, Accepted
  <2>6. ReqOK'
    BY <1>1, <1>2, <2>2, <2>4, <2>5, ReqGoes
  <2> QED
    BY <1>6, <2>2, <2>3, <2>6, TablesSame DEF AddJob, storeVars
<1>7. CASE CreateJob(r)
  <2>1. Uploaded(f) /\ HasFile(f)
    BY <1>2, <1>3, <1>7 DEF CreateJob, At_, Warranted, Accepted
  <2>2. Grow
    BY <1>7, GrowBuckets DEF CreateJob
  <2>3. /\ NewJob.key = "null"
        /\ NewJob.checkpoint = "INIT"
        /\ NewJob.status = "PENDING"
    BY DEF NewJob
  <2>4. job' = [job EXCEPT ![f] = NewJob] /\ file' = file
    BY <1>2, <1>7 DEF CreateJob
  <2>5. StoreOK'
    BY <2>1, <2>2, <2>3, <2>4, JobChanges DEF PublishedCheckpoints
  <2> QED
    BY <1>7, <2>2, <2>5, QueueSame, ReqEnds DEF CreateJob
<1>8. CASE StatObject(r)
  <2>1. Grow
    BY <1>8, GrowBuckets DEF StatObject, storeVars
  <2>2. Uploaded(f)'
    BY <1>2, <1>8 DEF StatObject, Uploaded, storeVars
  <2>3. EndReq(r) \/ req' = [req EXCEPT ![r].pc = "markUploaded"]
    BY <1>8 DEF StatObject
  <2>4. ReqOK'
    BY <1>1, <1>2, <2>1, <2>2, <2>3, ReqGoes
  <2> QED
    BY <1>8, <2>1, <2>4, TablesSame, QueueSame DEF StatObject, storeVars
<1>9. CASE MarkUploaded(r)
  <2>1. Uploaded(f)
    BY <1>2, <1>3, <1>9 DEF MarkUploaded, At_, Warranted
  <2>2. Grow /\ StoreOK'
    BY <1>2, <1>9, <2>1, FileStatusSafe, Names DEF MarkUploaded
  <2>3. Created(f)
    BY <1>2, <1>9 DEF MarkUploaded, SetFileStatus, HasFile, Created, NoRow
  <2>4. Accepted(f)'
    BY <2>1, <2>2, <2>3 DEF Grow, Accepted
  <2>5. EndReq(r) \/ req' = [req EXCEPT ![r].pc = "addJob"]
    BY <1>9 DEF MarkUploaded, ReqGoto, After
  <2>6. ReqOK'
    BY <1>1, <1>2, <2>2, <2>4, <2>5, ReqGoes
  <2> QED
    BY <1>9, <2>2, <2>6, QueueSame DEF MarkUploaded
<1>10. CASE DelUpload(r)
  <2>1. Grow
    BY <1>10, GrowBuckets DEF DelUpload
  <2>2. f \in doomed'
    BY <1>2, <1>10 DEF DelUpload
  <2>3. PICK next \in {"delProcessed", "deleteRow"} :
            req' = [req EXCEPT ![r].pc = next]
    BY <1>10 DEF DelUpload, AfterDelUpload
  <2>4. ReqOK'
    BY <1>1, <1>2, <2>1, <2>2, <2>3, ReqGoes
  <2> QED
    BY <1>10, <2>1, <2>4, TablesSame, QueueSame DEF DelUpload
<1>11. CASE DelProcessed(r)
  <2>1. f \in doomed /\ doomed' = doomed
    BY <1>2, <1>3, <1>11 DEF DelProcessed, At_, Warranted
  <2>2. Grow
    BY <1>2, <1>11, <2>1, GrowBuckets DEF DelProcessed
  <2>3. EndReq(r) \/ req' = [req EXCEPT ![r].pc = "deleteRow"]
    BY <1>11 DEF DelProcessed
  <2>4. ReqOK'
    BY <1>1, <1>2, <2>1, <2>2, <2>3, ReqGoes
  <2> QED
    BY <1>11, <2>2, <2>4, TablesSame, QueueSame DEF DelProcessed
<1>12. CASE DeleteRow(r)
  <2>1. Grow /\ StoreOK'
    BY <1>2, <1>12, RowDeleted DEF DeleteRow
  <2> QED
    BY <1>12, <2>1, ReqEnds, QueueSame DEF DeleteRow
<1>13. CASE ReqFails(r)
  <2>1. Grow
    BY <1>13, GrowBuckets DEF ReqFails, storeVars
  <2> QED
    BY <1>13, <2>1, ReqEnds, TablesSame, QueueSame DEF ReqFails, storeVars
<1> QED
  BY <1>4, <1>5, <1>6, <1>7, <1>8, <1>9, <1>10, <1>11, <1>12, <1>13
     DEF ServiceStep

LEMMA ClientStepSafe ==
    ASSUME QueueTypeOK, ServiceTypeOK, StoreOK, QueueOK, ReqOK,
           NEW f \in Files, ClientStep(f)
    PROVE  Grow /\ StoreOK' /\ QueueOK' /\ ReqOK'
<1>1. Grow
  BY GrowBuckets DEF ClientStep, ClientPut, ExpireUrl, storeVars
<1> QED
  BY <1>1, TablesSame, QueueSame, ReqSame
     DEF ClientStep, ClientPut, ExpireUrl, storeVars, serviceVars

-----------------------------------------------------------------------------
(* The cleanup.                                                              *)

LEMMA PassSame ==
    ASSUME CleanupTypeOK, PassOK, Grow, UNCHANGED pass
    PROVE  PassOK'
BY BusyPass, Names DEF PassOK, Grow

LEMMA PassOne ==
    ASSUME CleanupTypeOK, PassOK, Grow, NEW p \in Procs,
           \A q \in Procs \ {p} : pass'[q] = pass[q],
           pass'[p].pc \in {"delProcessed", "deleteRow"}
           => pass'[p].cur \in doomed'
    PROVE  PassOK'
<1>1. ASSUME NEW q \in Procs \ {p}, pass[q].pc \in {"delProcessed", "deleteRow"}
      PROVE  pass[q].cur \in doomed'
  <2>1. pass[q].cur \in Files /\ pass[q].cur \in doomed
    BY <1>1, BusyPass, Names DEF PassOK
  <2> QED
    BY <2>1 DEF Grow
<1> QED
  BY <1>1 DEF PassOK

LEMMA PassGoes ==
    ASSUME CleanupTypeOK, PassOK, Grow, NEW p \in Procs, pass[p].pc # "idle",
           NEW pc, NEW cur, PassTo(p, pc, cur),
           pc \in {"delProcessed", "deleteRow"} => cur \in doomed'
    PROVE  PassOK'
<1>1. \A q \in Procs \ {p} : pass'[q] = pass[q]
  BY DEF PassTo, CleanupTypeOK
<1>2. pass'[p].pc = pc /\ pass'[p].cur = cur
  BY BusyPass DEF PassTo, CleanupTypeOK
<1> QED
  BY <1>1, <1>2, PassOne

LEMMA CleanupStepSafe ==
    ASSUME StoreTypeOK, CleanupTypeOK, StoreOK, PassOK, NEW p \in Procs,
           CleanupStep(p)
    PROVE  Grow /\ StoreOK' /\ PassOK'
<1>1. pass[p].pc # "idle"
  BY DEF CleanupStep, NextExpired, DelExpiredUpload, DelExpiredProcessed,
     DeleteExpiredRow, VisitFails, CleanupDone
<1>2. CASE NextExpired(p)
  <2>1. Grow
    BY <1>2, GrowBuckets DEF NextExpired, storeVars
  <2>2. PICK f : pass' = [pass EXCEPT ![p].pc = "delUpload", ![p].cur = f,
                                      ![p].todo = @ \ {f}]
    BY <1>2 DEF NextExpired
  <2>3. \A q \in Procs \ {p} : pass'[q] = pass[q]
    BY <2>2 DEF CleanupTypeOK
  <2>4. pass'[p].pc = "delUpload"
    BY <1>1, <2>2, BusyPass DEF CleanupTypeOK
  <2> QED
    BY <1>2, <2>1, <2>3, <2>4, PassOne, TablesSame DEF NextExpired, storeVars
<1>3. CASE DelExpiredUpload(p)
  <2>1. Grow
    BY <1>3, GrowBuckets DEF DelExpiredUpload
  <2>2. pass[p].cur \in doomed'
    BY <1>3 DEF DelExpiredUpload
  <2>3. PICK next \in {"delProcessed", "deleteRow"} :
            PassGoto(p, "storage", next)
    BY <1>3 DEF DelExpiredUpload
  <2>4. PassTo(p, next, pass[p].cur) \/ PassTo(p, "loop", Nil)
    BY <2>3 DEF PassGoto
  <2>5. PassOK'
    BY <1>1, <2>1, <2>2, <2>4, PassGoes
  <2> QED
    BY <1>3, <2>1, <2>5, TablesSame DEF DelExpiredUpload
<1>4. CASE DelExpiredProcessed(p)
  <2>1. pass[p].cur \in doomed /\ doomed' = doomed
    BY <1>4 DEF DelExpiredProcessed, PassOK
  <2>2. Grow
    BY <1>4, <2>1, GrowBuckets DEF DelExpiredProcessed
  <2>3. PassTo(p, "deleteRow", pass[p].cur) \/ PassTo(p, "loop", Nil)
    BY <1>4 DEF DelExpiredProcessed, PassGoto
  <2>4. PassOK'
    BY <1>1, <2>1, <2>2, <2>3, PassGoes
  <2> QED
    BY <1>4, <2>2, <2>4, TablesSame DEF DelExpiredProcessed
<1>5. CASE DeleteExpiredRow(p)
  <2>1. pass[p].cur \in Files
    BY <1>5, BusyPass, Names DEF DeleteExpiredRow
  <2>2. Grow /\ StoreOK'
    BY <1>5, <2>1, RowDeleted DEF DeleteExpiredRow
  <2>3. PassTo(p, "loop", Nil)
    BY <1>5 DEF DeleteExpiredRow
  <2> QED
    BY <1>1, <2>2, <2>3, PassGoes
<1>6. CASE VisitFails(p)
  <2>1. Grow
    BY <1>6, GrowBuckets DEF VisitFails, storeVars
  <2>2. PassTo(p, "loop", Nil)
    BY <1>6 DEF VisitFails
  <2> QED
    BY <1>1, <1>6, <2>1, <2>2, PassGoes, TablesSame DEF VisitFails, storeVars
<1>7. CASE CleanupDone(p)
  <2>1. Grow
    BY <1>7, GrowBuckets DEF CleanupDone, storeVars
  <2>2. \A q \in Procs \ {p} : pass'[q] = pass[q]
    BY <1>7 DEF CleanupDone, CleanupTypeOK
  <2>3. pass'[p].pc = "idle"
    BY <1>7 DEF CleanupDone, CleanupTypeOK, NoPass
  <2> QED
    BY <1>7, <2>1, <2>2, <2>3, PassOne, TablesSame DEF CleanupDone, storeVars
<1> QED
  BY <1>2, <1>3, <1>4, <1>5, <1>6, <1>7 DEF CleanupStep

LEMMA CleaningSafe ==
    ASSUME Inv, Cleaning
    PROVE  Grow /\ StoreOK' /\ PassOK'
<1> USE DEF Inv, TypeOK
<1>1. ASSUME NEW f \in Files, Expire(f)
      PROVE  Grow /\ StoreOK' /\ PassOK'
  <2>1. Grow
    BY <1>1, GrowBuckets DEF Expire, storeVars
  <2> QED
    BY <1>1, <2>1, TablesSame, PassSame DEF Expire, storeVars
<1>2. ASSUME NEW p \in Procs, HandleCleanup(p)
      PROVE  Grow /\ StoreOK' /\ PassOK'
  <2>1. Grow
    BY <1>2, GrowBuckets DEF HandleCleanup, storeVars
  <2>2. \A q \in Procs \ {p} : pass'[q] = pass[q]
    BY <1>2 DEF HandleCleanup, CleanupTypeOK
  <2>3. pass'[p].pc = "loop"
    BY <1>2 DEF HandleCleanup, CleanupTypeOK
  <2> QED
    BY <1>2, <2>1, <2>2, <2>3, TablesSame, PassOne DEF HandleCleanup, storeVars
<1> QED
  BY <1>1, <1>2, CleanupStepSafe DEF Cleaning

-----------------------------------------------------------------------------
(* The whole system.                                                         *)

LEMMA StopSafe ==
    ASSUME Inv, NEW p \in Procs, Stops(p)
    PROVE  StoreOK' /\ QueueOK' /\ ExecOK' /\ RecOK' /\ ReqOK' /\ PassOK'
<1> USE DEF Inv, TypeOK
<1>1. Grow
  BY GrowBuckets DEF Stops, storeVars
<1>2. StoreOK' /\ QueueOK'
  BY <1>1, TablesSame, QueueSame DEF Stops, storeVars
<1>3. ExecOK'
  <2>1. exec' = [exec EXCEPT ![p] = IdleExec] /\ IdleExec.pc = "idle"
    BY DEF Stops, ExecCrash, IdleExec
  <2> QED
    BY <1>1, <2>1, ExecOne
<1>4. RecOK'
  <2>1. /\ \A q \in Procs \ {p} : rec'[q] = rec[q]
        /\ rec'[p].pc = "scan"
    BY DEF Stops, RecCrash, StartedRec, RecTypeOK
  <2> QED
    BY <1>1, <2>1, RecOne
<1>5. ReqOK'
  <2> SUFFICES ASSUME NEW r \in Requests
               PROVE  Warranted(req[r])'
    BY DEF ReqOK
  <2>1. CASE req[r].host = p
    <3>1. req'[r].pc = "end"
      BY <2>1 DEF Stops, ReqCrash, EndedReq, NewReq
    <3> QED
      BY <3>1 DEF Warranted
  <2>2. CASE req[r].host # p
    <3>1. req'[r] = req[r]
      BY <2>2 DEF Stops, ReqCrash
    <3> QED
      BY <1>1, <3>1, ReqWaits
  <2> QED
    BY <2>1, <2>2
<1>6. PassOK'
  <2>1. /\ \A q \in Procs \ {p} : pass'[q] = pass[q]
        /\ pass'[p].pc = "idle"
    BY DEF Stops, PassCrash, NoPass, CleanupTypeOK
  <2> QED
    BY <1>1, <2>1, PassOne
<1> QED
  BY <1>2, <1>3, <1>4, <1>5, <1>6

LEMMA InvStep ==
    ASSUME Inv, [Next]_vars
    PROVE  Inv'
<1> USE DEF Inv
<1>1. TypeOK'
  BY TypeStep
<1>2. CASE Processing
  <2>1. Grow /\ StoreOK' /\ QueueOK' /\ ExecOK'
    BY <1>2, ProcessorSafe DEF Processing, TypeOK
  <2>2. RecOK' /\ ReqOK' /\ PassOK'
    BY <1>2, <2>1, RecSame, ReqSame, PassSame
       DEF Processing, TypeOK, recoveryVars, serviceVars, cleanupVars
  <2> QED
    BY <1>1, <2>1, <2>2
<1>3. CASE Recovering
  <2>1. Grow /\ StoreOK' /\ QueueOK' /\ RecOK'
    BY <1>3, RecoverySafe DEF Recovering, TypeOK
  <2>2. ExecOK' /\ ReqOK' /\ PassOK'
    BY <1>3, <2>1, ExecSame, ReqSame, PassSame
       DEF Recovering, TypeOK, serviceVars, cleanupVars
  <2> QED
    BY <1>1, <2>1, <2>2
<1>4. CASE Serving
  <2>1. Grow /\ StoreOK' /\ QueueOK' /\ ReqOK'
    BY <1>4, AcceptSafe, ServiceStepSafe, ClientStepSafe DEF Serving, TypeOK
  <2>2. ExecOK' /\ RecOK' /\ PassOK'
    BY <1>4, <2>1, ExecSame, RecSame, PassSame
       DEF Serving, TypeOK, recoveryVars, cleanupVars
  <2> QED
    BY <1>1, <2>1, <2>2
<1>5. CASE Cleaning
  <2>1. Grow /\ StoreOK' /\ PassOK'
    BY <1>5, CleaningSafe
  <2>2. QueueOK' /\ ExecOK' /\ RecOK' /\ ReqOK'
    BY <1>5, <2>1, QueueSame, ExecSame, RecSame, ReqSame
       DEF Cleaning, TypeOK, recoveryVars, serviceVars
  <2> QED
    BY <1>1, <2>1, <2>2
<1>6. ASSUME NEW p \in Procs, Crash(p) \/ ScanFails(p)
      PROVE  Inv'
  BY <1>1, <1>6, StopSafe DEF Crash, ScanFails
<1>7. CASE \/ \E p \in Procs : Restart(p)
           \/ UNCHANGED vars
  <2>1. UNCHANGED <<storeVars, queue, exec, recoveryVars, serviceVars,
                    cleanupVars>>
    BY <1>7 DEF Restart, vars
  <2>2. Grow
    BY <2>1, GrowBuckets DEF storeVars
  <2> QED
    BY <1>1, <2>1, <2>2, TablesSame, QueueSame, ExecSame, RecSame, ReqSame,
       PassSame DEF TypeOK, storeVars, recoveryVars, serviceVars, cleanupVars
<1> QED
  BY <1>2, <1>3, <1>4, <1>5, <1>6, <1>7 DEF Next

LEMMA InvInit == Init => Inv
<1> SUFFICES ASSUME Init PROVE Inv
  OBVIOUS
<1>1. StoreOK
  BY DEF Init, StoreInit, StoreOK, RowsOK, FilesOK, JobsOK, HasFile, HasJob,
     NoFile, NoJob, NoRow, FileStatus, PublishedCheckpoints
<1>2. QueueOK /\ ExecOK /\ RecOK
  BY DEF Init, QueueInit, ExecInit, RecInit, NoEntry, IdleExec, StartedRec,
     QueueOK, ExecOK, RecOK
<1>3. ReqOK /\ PassOK
  BY DEF Init, ServiceInit, CleanupInit, NewReq, NoPass, ReqOK, Warranted,
     PassOK
<1> QED
  BY <1>1, <1>2, <1>3, TypeInit DEF Inv

THEOREM Invariance == Spec => []Inv
<1>1. Init => Inv
  BY InvInit
<1>2. Inv /\ [Next]_vars => Inv'
  BY InvStep
<1> QED
  BY <1>1, <1>2, PTL DEF Spec

-----------------------------------------------------------------------------
(* What the runs check, for every value of the constants.                    *)

\* A file reported COMPLETED points to a processed object that is there,
\* unless a deletion has begun: whichever checkpoint an execution resumed
\* from, however many executions overlap, and whatever crashes and fails.
THEOREM CompletedIsPublishedHolds == Spec => []CompletedIsPublished
<1>1. Inv => CompletedIsPublished
  BY DEF Inv, StoreOK, FilesOK, CompletedIsPublished
<1> QED
  BY <1>1, Invariance, PTL

\* A job reported COMPLETED stands for such an object too.
THEOREM JobCompletedIsPublishedHolds == Spec => []JobCompletedIsPublished
<1>1. Inv => JobCompletedIsPublished
  <2> SUFFICES ASSUME Inv, NEW f \in Files, job[f].status = "COMPLETED"
               PROVE  file[f].key = "key" /\ Stored(f)
    BY DEF JobCompletedIsPublished
  <2>1. HasFile(f) /\ Published(f)
    BY JobHasFile DEF Inv, StoreOK, JobsOK
  <2>2. file[f].key = "key"
    BY <2>1 DEF Published, HasFile, NoRow
  <2> QED
    BY <2>2 DEF Inv, StoreOK, FilesOK
<1> QED
  BY <1>1, Invariance, PTL

\* A checkpoint never promises more than is durably there.
THEOREM CheckpointBackedHolds == Spec => []CheckpointBacked
<1>1. Inv => CheckpointBacked
  <2> SUFFICES ASSUME Inv, NEW f \in Files
               PROVE  /\ job[f].checkpoint \in StoredCheckpoints => Stored(f)
                      /\ job[f].checkpoint = "UPLOADED_TO_STORAGE"
                         => job[f].key = "key"
                      /\ job[f].checkpoint \in PublishedCheckpoints
                         => file[f].key = "key"
    BY DEF CheckpointBacked
  <2>1. ASSUME job[f].checkpoint \in PublishedCheckpoints
        PROVE  file[f].key = "key" /\ Stored(f)
    <3>1. HasFile(f) /\ Published(f)
      BY <2>1, JobHasFile DEF Inv, StoreOK, JobsOK
    <3>2. file[f].key = "key"
      BY <3>1 DEF Published, HasFile, NoRow
    <3> QED
      BY <3>2 DEF Inv, StoreOK, FilesOK
  <2>2. job[f].checkpoint = "UPLOADED_TO_STORAGE"
        => job[f].key = "key" /\ Stored(f)
    BY DEF Inv, StoreOK, JobsOK
  <2> QED
    BY <2>1, <2>2 DEF StoredCheckpoints, PublishedCheckpoints
<1> QED
  BY <1>1, Invariance, PTL

\* A file that can be downloaded, or has work in the queue, has its upload
\* object, unless a deletion of the file has begun.
THEOREM DownloadServesObjectHolds == Spec => []DownloadServesObject
<1>1. Inv => DownloadServesObject
  <2> SUFFICES ASSUME Inv, NEW f \in Files,
                      \/ file[f].status \in {"UPLOADED", "COMPLETED"}
                      \/ \E e \in EntriesOf(f) : Live(e)
               PROVE  Uploaded(f)
    BY DEF DownloadServesObject, Uploaded
  <2>1. CASE file[f].status \in {"UPLOADED", "COMPLETED"}
    BY <2>1 DEF Inv, StoreOK, FilesOK, FileStatus
  <2>2. CASE \E e \in EntriesOf(f) : Live(e)
    BY <2>2 DEF EntriesOf, Live, Inv, QueueOK, Accepted
  <2> QED
    BY <2>1, <2>2
<1> QED
  BY <1>1, Invariance, PTL

-----------------------------------------------------------------------------
(* One execution per entry. An executing process holds the lock of its entry *)
(* for as long as locks do not expire under a live owner.                    *)

LockOK ==
    \A p \in Procs :
        exec[p].entry # Nil => exec[p].entry \in Entries /\ Holds(p, exec[p].entry)

LEMMA LockKept ==
    ASSUME LockOK,
           \A p \in Procs : exec'[p].entry # Nil =>
               /\ exec'[p].entry = exec[p].entry
               /\ queue'[exec[p].entry].state = queue[exec[p].entry].state
               /\ queue'[exec[p].entry].owner = queue[exec[p].entry].owner
    PROVE  LockOK'
BY DEF LockOK, Holds

\* Steps that touch only entries nobody holds.
LEMMA LockOther ==
    ASSUME QueueTypeOK, LockOK, NEW e \in Entries, queue[e].state # "active",
           NEW x, queue' = [queue EXCEPT ![e] = x], UNCHANGED exec
    PROVE  LockOK'
<1>1. \A p \in Procs : exec[p].entry # Nil => exec[p].entry # e
  BY DEF LockOK, Holds
<1> QED
  BY <1>1, LockKept DEF LockOK, QueueTypeOK

\* Until it reports, an execution keeps its entry, and leaves the queue alone.
LEMMA ProcessStepEntry ==
    ASSUME ExecTypeOK, NEW p \in Procs, ProcessStep(p),
           ~(Ack(p) \/ Nack(p) \/ ReportLost(p))
    PROVE  queue' = queue /\ \A q \in Procs : exec'[q].entry = exec[q].entry
<1>1. exec[p].pc # "idle"
  BY Names DEF ProcessStep, FindJob, StartJob, StartFile, GetObject,
     SaveRetrieved, ProcessFile, SaveProcessed, PutObject, SaveUploaded,
     Publish, SaveMetadata, CompleteJob, SaveCompleted, SaveCheckpoint,
     Throw, FailFile, FailJob, CatchThrows, At
<1>2. exec[p] \in BusyExecs
  BY <1>1, Busy
<1>3. queue' = queue
  BY DEF ProcessStep, FindJob, StartJob, StartFile, GetObject,
     SaveRetrieved, ProcessFile, SaveProcessed, PutObject, SaveUploaded,
     Publish, SaveMetadata, CompleteJob, SaveCompleted, SaveCheckpoint,
     Throw, FailFile, FailJob, CatchThrows
<1>4. \A q \in Procs : exec'[q].entry = exec[q].entry
  <2>1. CASE FindJob(p)
    BY <1>2, <2>1 DEF FindJob, ExecTypeOK, BusyExecs
  <2>2. CASE PutObject(p)
    BY <1>2, <2>2 DEF PutObject, ExecTypeOK, BusyExecs
  <2>3. CASE ~FindJob(p) /\ ~PutObject(p)
    <3>1. PICK pc : exec' = [exec EXCEPT ![p].pc = pc]
      BY <2>3 DEF ProcessStep, StartJob, StartFile, GetObject,
         SaveRetrieved, ProcessFile, SaveProcessed, SaveUploaded,
         Publish, SaveMetadata, CompleteJob, SaveCompleted, SaveCheckpoint,
         Throw, FailFile, FailJob, CatchThrows, Goto
    <3> QED
      BY <1>2, <3>1 DEF ExecTypeOK, BusyExecs
  <2> QED
    BY <2>1, <2>2, <2>3
<1> QED
  BY <1>3, <1>4

LEMMA ProcessStepLock ==
    ASSUME TypeOK, LockOK, NEW p \in Procs, ProcessStep(p)
    PROVE  LockOK'
<1> USE DEF TypeOK
<1>1. CASE Ack(p) \/ Nack(p) \/ ReportLost(p)
  <2>1. \A q \in Procs : exec'[q].entry # Nil => q # p /\ exec'[q] = exec[q]
    BY <1>1 DEF Ack, Nack, ReportLost, IdleExec, ExecTypeOK
  <2>2. ASSUME Holds(p, exec[p].entry), NEW q \in Procs \ {p},
               exec[q].entry # Nil
        PROVE  exec[q].entry # exec[p].entry
    BY <2>2 DEF LockOK, Holds
  <2>3. \A q \in Procs \ {p} : exec[q].entry # Nil =>
            queue'[exec[q].entry] = queue[exec[q].entry]
    BY <1>1, <2>2 DEF Ack, Nack, ReportLost, CompleteEntry, FailEntry, LockOK,
       QueueTypeOK
  <2> QED
    BY <2>1, <2>3, LockKept
<1>2. CASE ~(Ack(p) \/ Nack(p) \/ ReportLost(p))
  BY <1>2, ProcessStepEntry, LockKept
<1> QED
  BY <1>1, <1>2

LEMMA LockStep ==
    ASSUME LiveStalls = FALSE, TypeOK, LockOK, [Next]_vars
    PROVE  LockOK'
<1> USE DEF TypeOK
<1>1. ASSUME NEW p \in Procs, NEW e \in Entries, Take(p, e)
      PROVE  LockOK'
  <2>1. queue[e].state = "waiting"
    BY <1>1 DEF Take, TakeEntry
  <2>2. \A q \in Procs \ {p} : exec'[q] = exec[q]
    BY <1>1 DEF Take, ExecTypeOK
  <2>3. exec'[p].entry = e
    BY <1>1 DEF Take, IdleExec, ExecTypeOK
  <2>4. queue'[e].state = "active" /\ queue'[e].owner = p
    BY <1>1, <2>1, EntryFile DEF Take, TakeEntry, QueueTypeOK
  <2>5. \A d \in Entries \ {e} : queue'[d] = queue[d]
    BY <1>1 DEF Take, TakeEntry, QueueTypeOK
  <2>6. \A q \in Procs : exec[q].entry # Nil => exec[q].entry # e
    BY <2>1 DEF LockOK, Holds
  <2> QED
    BY <2>2, <2>3, <2>4, <2>5, <2>6 DEF LockOK, Holds
<1>2. ASSUME NEW e \in Entries, Stall(e)
      PROVE  LockOK'
  <2>1. exec' = exec /\ exec[queue[e].owner].entry # e
    BY <1>2 DEF Stall
  <2>2. \A q \in Procs : exec[q].entry # Nil => exec[q].entry # e
    BY <2>1 DEF LockOK, Holds
  <2>3. \A d \in Entries \ {e} : queue'[d] = queue[d]
    BY <1>2 DEF Stall, StallEntry, QueueTypeOK
  <2> QED
    BY <2>1, <2>2, <2>3, LockKept DEF LockOK
<1>3. ASSUME NEW e \in Entries, NEW f, AddEntry(e, f), UNCHANGED exec
      PROVE  LockOK'
  BY <1>3, LockOther DEF AddEntry, NextEntry
<1>4. ASSUME NEW e \in Entries, RetryFailedJob(e) \/ RemoveFailedJob(e),
             UNCHANGED exec
      PROVE  LockOK'
  <2>1. queue[e].state # "active"
    BY <1>4 DEF RetryFailedJob, RemoveFailedJob
  <2>2. \A d \in Entries \ {e} : queue'[d] = queue[d]
    BY <1>4 DEF RetryFailedJob, RemoveFailedJob, QueueTypeOK
  <2>3. \A q \in Procs : exec[q].entry # Nil => exec[q].entry # e
    BY <2>1 DEF LockOK, Holds
  <2> QED
    BY <1>4, <2>2, <2>3, LockKept DEF LockOK
<1>5. ASSUME UNCHANGED <<queue, exec>>
      PROVE  LockOK'
  BY <1>5, LockKept
<1>6. ASSUME NEW p \in Procs, Crash(p) \/ ScanFails(p)
      PROVE  LockOK'
  <2> USE DEF Crash, ScanFails, Stops
  <2>1. \A q \in Procs : exec'[q].entry # Nil => exec'[q] = exec[q]
    BY <1>6 DEF ExecCrash, IdleExec, ExecTypeOK
  <2> QED
    BY <1>6, <2>1, LockKept
<1>7. CASE Processing
  BY <1>1, <1>2, <1>7, ProcessStepLock DEF Processing, ProcessorNext
<1>8. CASE Recovering
  <2>1. exec' = exec
    BY <1>8 DEF Recovering
  <2>2. ASSUME NEW p \in Procs, RecoveryStep(p)
        PROVE  LockOK'
    BY <1>3, <1>5, <2>1, <2>2 DEF RecoveryStep, Scan, ResetJob, SkipJob,
       Reenqueue, ReenqueueFails, RecoveryDone
  <2> QED
    BY <1>4, <1>8, <2>1, <2>2 DEF Recovering, RecoveryNext
<1>9. CASE Serving
  <2>1. exec' = exec
    BY <1>9 DEF Serving
  <2>2. ASSUME NEW r \in Requests, ServiceStep(r)
        PROVE  LockOK'
    BY <1>3, <1>5, <2>1, <2>2 DEF ServiceStep, PutUpload, CreateFile, AddJob,
       CreateJob, StatObject, MarkUploaded, DelUpload, DelProcessed,
       DeleteRow, ReqFails
  <2>3. ASSUME NEW p \in Procs, Accept(p)
        PROVE  LockOK'
    BY <1>5, <2>1, <2>3 DEF Accept, BeginUpload, PresignUpload, BeginComplete,
       BeginDelete
  <2>4. ASSUME NEW f \in Files, ClientStep(f)
        PROVE  LockOK'
    BY <1>5, <2>1, <2>4 DEF ClientStep, ClientPut, ExpireUrl
  <2> QED
    BY <1>9, <2>2, <2>3, <2>4 DEF Serving
<1>10. CASE Cleaning
  BY <1>5, <1>10 DEF Cleaning
<1>11. CASE \E p \in Procs : Restart(p)
  BY <1>5, <1>11 DEF Restart
<1>12. CASE UNCHANGED vars
  BY <1>5, <1>12 DEF vars
<1> QED
  BY <1>6, <1>7, <1>8, <1>9, <1>10, <1>11, <1>12 DEF Next

=============================================================================
