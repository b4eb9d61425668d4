-------------------------- MODULE CheckpointProofs --------------------------
(***************************************************************************)
(* SoloCheckpointMonotone for any number of files, processes and requests, *)
(* provided that a worker renews its lock while it executes.               *)
(*                                                                         *)
(* An execution saves checkpoints without reading the current one; it only *)
(* read, at its start, the one it resumes from. While its file has had one *)
(* queue entry nobody else executes the file, so what it is about to save  *)
(* is known to be no earlier than what is there: the invariant says, for   *)
(* every call it may be about to make, which checkpoints the row can hold. *)
(***************************************************************************)
EXTENDS VaporVaultSafety, FiniteSetTheorems

\* The file has had one entry.
Solo(f) == \A d, e \in EntriesOf(f) : d = e

Early == {"INIT", "FILE_RETRIEVED"}
Unstored == Early \cup {"FILE_PROCESSED"}

\* The checkpoints the row may hold while its only execution is x. A Job row
\* deleted or not yet created counts as INIT.
MayFind(x, c) ==
    \/ c = "INIT"
    \/ x.pc \in {"startJob", "startFile", "getObject"} /\ c = x.from
    \/ x.pc = "process" /\ (c = x.from \/ c = "FILE_RETRIEVED")
    \/ x.pc = "saveProcessed" /\ c \in Early
    \/ x.pc \in {"putObject", "saveUploaded"} /\ c \in Unstored
    \/ /\ x.pc \in {"publish", "saveMetadata"}
       /\ c \in Unstored \cup {"UPLOADED_TO_STORAGE"}
    \/ x.pc \in {"findJob", "completeJob", "saveCompleted", "ack", "failFile",
                 "failJob", "nack"}

AbsentOK == \A f \in Files : ~HasJob(f) => job[f].checkpoint = "INIT"

TakenOK ==
    \A p \in Procs : exec[p].pc # "idle" =>
        /\ exec[p].entry \in Entries
        /\ exec[p].file \in Files
        /\ queue[exec[p].entry].file = exec[p].file

FoundOK ==
    \A p \in Procs : exec[p].pc # "idle" /\ Solo(exec[p].file) =>
        MayFind(exec[p], job[exec[p].file].checkpoint)

\* Entries keep their file.
QueueGrows ==
    \A e \in Entries : queue[e].file \in Files => queue'[e].file = queue[e].file

\* No checkpoint is saved.
Unsaved ==
    \A f \in Files :
        /\ \/ job'[f].checkpoint = job[f].checkpoint
           \/ job'[f].checkpoint = "INIT"
        /\ HasJob(f) /\ HasJob(f)' => job'[f].checkpoint = job[f].checkpoint
        /\ ~HasJob(f)' => job'[f].checkpoint = "INIT"

Monotone ==
    \A f \in Files :
        Solo(f) /\ HasJob(f) /\ HasJob(f)'
        => job'[f].checkpoint \notin Before(job[f].checkpoint)

-----------------------------------------------------------------------------
(* The order of the checkpoints.                                             *)

LEMMA Order ==
    /\ Before("INIT") = {}
    /\ Before("FILE_RETRIEVED") = {"INIT"}
    /\ Before("FILE_PROCESSED") = {"INIT", "FILE_RETRIEVED"}
    /\ Before("UPLOADED_TO_STORAGE") = {"INIT", "FILE_RETRIEVED", "FILE_PROCESSED"}
    /\ \A c \in Checkpoints : c \notin Before(c)
<1> DEFINE rank == <<"INIT", "FILE_RETRIEVED", "FILE_PROCESSED",
                     "UPLOADED_TO_STORAGE", "METADATA_UPDATED", "COMPLETED">>
<1>1. \A c : Before(c) =
          {d \in Checkpoints : \E i, j \in 1 .. 6 : i < j /\ rank[i] = d /\ rank[j] = c}
  BY DEF Before
<1>2. /\ rank[1] = "INIT" /\ rank[2] = "FILE_RETRIEVED"
      /\ rank[3] = "FILE_PROCESSED" /\ rank[4] = "UPLOADED_TO_STORAGE"
      /\ rank[5] = "METADATA_UPDATED" /\ rank[6] = "COMPLETED"
  OBVIOUS
<1> HIDE DEF rank
<1>3. \A i \in 1 .. 6 : i \in {1, 2, 3, 4, 5, 6}
  OBVIOUS
<1>4. Before("INIT") = {}
  BY <1>1, <1>2, <1>3
<1>5. Before("FILE_RETRIEVED") = {"INIT"}
  BY <1>1, <1>2, <1>3 DEF Checkpoints
<1>6. Before("FILE_PROCESSED") = {"INIT", "FILE_RETRIEVED"}
  BY <1>1, <1>2, <1>3 DEF Checkpoints
<1>7. Before("UPLOADED_TO_STORAGE") = {"INIT", "FILE_RETRIEVED", "FILE_PROCESSED"}
  BY <1>1, <1>2, <1>3 DEF Checkpoints
<1>8. \A c \in Checkpoints : c \notin Before(c)
  BY <1>1, <1>2, <1>3 DEF Checkpoints
<1> QED
  BY <1>4, <1>5, <1>6, <1>7, <1>8 DEF Checkpoints

LEMMA Latest == \A c : "COMPLETED" \notin Before(c)
<1> DEFINE rank == <<"INIT", "FILE_RETRIEVED", "FILE_PROCESSED",
                     "UPLOADED_TO_STORAGE", "METADATA_UPDATED", "COMPLETED">>
<1>1. \A c : Before(c) =
          {d \in Checkpoints : \E i, j \in 1 .. 6 : i < j /\ rank[i] = d /\ rank[j] = c}
  BY DEF Before
<1>2. /\ rank[1] = "INIT" /\ rank[2] = "FILE_RETRIEVED"
      /\ rank[3] = "FILE_PROCESSED" /\ rank[4] = "UPLOADED_TO_STORAGE"
      /\ rank[5] = "METADATA_UPDATED"
  OBVIOUS
<1> HIDE DEF rank
<1>3. \A i, j \in 1 .. 6 : i < j => i \in {1, 2, 3, 4, 5}
  OBVIOUS
<1> QED
  BY <1>1, <1>2, <1>3

\* One entry: the cardinality in the property and its first-order form.
LEMMA SoloIsOne ==
    ASSUME NEW f \in Files, Cardinality(EntriesOf(f)) <= 1
    PROVE  Solo(f)
<1>1. IsFiniteSet(Entries)
  BY QueueAssumption, FS_Interval DEF Entries
<1>2. EntriesOf(f) \in SUBSET Entries
  BY DEF EntriesOf
<1>3. IsFiniteSet(EntriesOf(f))
  BY <1>1, <1>2, FS_Subset
<1>4. Cardinality(EntriesOf(f)) \in {0, 1}
  BY <1>3, FS_CardinalityType
<1>5. EntriesOf(f) = {} \/ \E e : EntriesOf(f) = {e}
  BY <1>3, <1>4, FS_EmptySet, FS_Singleton
<1> QED
  BY <1>5 DEF Solo

LEMMA SoloBackwards ==
    ASSUME QueueGrows, NEW f \in Files, Solo(f)'
    PROVE  Solo(f)
<1>1. EntriesOf(f) \subseteq EntriesOf(f)'
  BY DEF QueueGrows, EntriesOf
<1> QED
  BY <1>1 DEF Solo

\* While a file has had one entry, one process executes it.
LEMMA SoloExecutor ==
    ASSUME LockOK, TakenOK, NEW p \in Procs, NEW q \in Procs,
           exec[p].pc # "idle", exec[q].pc # "idle",
           exec[p].file = exec[q].file, Solo(exec[p].file)
    PROVE  p = q
<1>1. exec[p].entry = exec[q].entry
  BY DEF TakenOK, Solo, EntriesOf
<1>2. exec[p].entry \in Entries /\ exec[p].entry # Nil
  BY QueueAssumption DEF TakenOK, Entries
<1> QED
  BY <1>1, <1>2 DEF LockOK, Holds

-----------------------------------------------------------------------------
(* Steps that save no checkpoint.                                            *)

LEMMA JobsSame ==
    ASSUME AbsentOK, job' = job
    PROVE  Unsaved
BY DEF AbsentOK, Unsaved, HasJob

LEMMA JobStatusUnsaved ==
    ASSUME StoreTypeOK, AbsentOK, NEW f \in Files, NEW status \in JobStatus,
           SetJobStatus(f, status)
    PROVE  Unsaved
<1>1. \A g \in Files : job'[g].checkpoint = job[g].checkpoint
  BY DEF SetJobStatus, StoreTypeOK, JobRows
<1>2. \A g \in Files : HasJob(g)' => HasJob(g)
  BY DEF SetJobStatus, StoreTypeOK, HasJob
<1>3. \A g \in Files : g # f => job'[g] = job[g]
  BY DEF SetJobStatus, StoreTypeOK
<1>4. HasJob(f)'
  <2>1. job'[f].status = status
    BY DEF SetJobStatus, StoreTypeOK, JobRows
  <2> QED BY <2>1 DEF HasJob, JobStatus, NoRow
<1> QED
  BY <1>1, <1>3, <1>4 DEF Unsaved, AbsentOK, HasJob

LEMMA RowDeletedUnsaved ==
    ASSUME StoreTypeOK, AbsentOK, NEW f \in Files, DeleteFileRow(f)
    PROVE  Unsaved
<1>1. \A g \in Files : job'[g] = IF g = f THEN NoJob ELSE job[g]
  BY DEF DeleteFileRow, StoreTypeOK
<1> QED
  BY <1>1 DEF Unsaved, AbsentOK, HasJob, NoJob, NoRow

LEMMA JobCreatedUnsaved ==
    ASSUME StoreTypeOK, AbsentOK, NEW f \in Files, ~HasJob(f),
           job' = [job EXCEPT ![f] = NewJob]
    PROVE  Unsaved
<1>1. \A g \in Files : job'[g] = IF g = f THEN NewJob ELSE job[g]
  BY DEF StoreTypeOK
<1> QED
  BY <1>1 DEF Unsaved, AbsentOK, HasJob, NewJob

LEMMA UnsavedMonotone ==
    ASSUME StoreTypeOK, AbsentOK, Unsaved
    PROVE  AbsentOK' /\ Monotone
<1>1. \A f \in Files : job[f].checkpoint \in Checkpoints
  BY DEF StoreTypeOK, JobRows
<1> QED
  BY <1>1, Order DEF Unsaved, AbsentOK, HasJob, Monotone

-----------------------------------------------------------------------------
(* Executions.                                                               *)

\* No execution begins or goes on, and no checkpoint is saved.
LEMMA FoundStays ==
    ASSUME ExecTypeOK, TakenOK, FoundOK, QueueGrows, Unsaved,
           \A p \in Procs : exec'[p].pc # "idle" => exec'[p] = exec[p]
    PROVE  TakenOK' /\ FoundOK'
<1>1. TakenOK'
  BY DEF TakenOK, QueueGrows
<1>2. FoundOK'
  <2> SUFFICES ASSUME NEW p \in Procs, exec'[p].pc # "idle",
                      Solo(exec[p].file)'
               PROVE  MayFind(exec[p], job'[exec[p].file].checkpoint)
    BY DEF FoundOK, MayFind, Solo, EntriesOf
  <2>1. exec[p].pc # "idle" /\ exec[p].file \in Files /\ exec'[p].file = exec[p].file
    BY DEF TakenOK
  <2>2. Solo(exec[p].file)
    BY <2>1, SoloBackwards DEF Solo, EntriesOf
  <2>3. MayFind(exec[p], job[exec[p].file].checkpoint)
    BY <2>1, <2>2 DEF FoundOK
  <2> QED
    BY <2>1, <2>3 DEF Unsaved, MayFind
<1> QED
  BY <1>1, <1>2

\* Process p goes on with x, which finds whatever p could have found.
LEMMA FoundMoves ==
    ASSUME ExecTypeOK, TakenOK, FoundOK, NEW p \in Procs, NEW x,
           exec[p].pc # "idle", exec' = [exec EXCEPT ![p] = x],
           x.pc # "idle", x.entry = exec[p].entry, x.file = exec[p].file,
           queue' = queue, Unsaved,
           MayFind(exec[p], job[exec[p].file].checkpoint)
           => MayFind(x, job[exec[p].file].checkpoint)
    PROVE  TakenOK' /\ FoundOK'
<1>1. \A q \in Procs : exec'[q] = IF q = p THEN x ELSE exec[q]
  BY DEF ExecTypeOK
<1>2. TakenOK'
  BY <1>1 DEF TakenOK
<1>3. FoundOK'
  <2> SUFFICES ASSUME NEW q \in Procs, exec'[q].pc # "idle",
                      Solo(exec[q].file)
               PROVE  MayFind(exec'[q], job'[exec[q].file].checkpoint)
    BY <1>1 DEF FoundOK, MayFind, Solo, EntriesOf
  <2>1. exec[q].pc # "idle" /\ exec[q].file \in Files
    BY <1>1 DEF TakenOK
  <2>2. MayFind(exec[q], job[exec[q].file].checkpoint)
    BY <2>1 DEF FoundOK
  <2>3. MayFind(exec'[q], job[exec[q].file].checkpoint)
    BY <1>1, <2>2
  <2> QED
    BY <2>1, <2>3 DEF Unsaved, MayFind
<1> QED
  BY <1>2, <1>3

LEMMA FoundGoes ==
    ASSUME ExecTypeOK, TakenOK, FoundOK, NEW p \in Procs, NEW pc \in ExecPcs,
           exec[p].pc # "idle", exec' = [exec EXCEPT ![p].pc = pc],
           queue' = queue, Unsaved,
           \A c : MayFind(exec[p], c) => MayFind([exec[p] EXCEPT !.pc = pc], c)
    PROVE  TakenOK' /\ FoundOK'
<1> DEFINE x == [exec[p] EXCEPT !.pc = pc]
<1>1. exec' = [exec EXCEPT ![p] = x]
  BY DEF ExecTypeOK
<1>2. x.pc = pc /\ x.entry = exec[p].entry /\ x.file = exec[p].file
  BY Busy DEF BusyExecs
<1>3. x.pc # "idle"
  BY <1>2, Names
<1> HIDE DEF x
<1> QED
  BY <1>1, <1>2, <1>3, FoundMoves DEF x

\* saveCheckpoint: what p saves is no earlier than what it can find, and p is
\* the only one that executes the file.
LEMMA SaveMonotone ==
    ASSUME TypeOK, LockOK, AbsentOK, TakenOK, FoundOK,
           NEW p \in Procs, NEW pc \in TryPcs, NEW c \in Checkpoints,
           NEW next \in ExecPcs, SaveCheckpoint(p, pc, c, next),
           \A d : MayFind(exec[p], d) => c \notin Before(d),
           \A x : x.pc \in {next, "failFile"} => MayFind(x, c)
    PROVE  AbsentOK' /\ TakenOK' /\ FoundOK' /\ Monotone
<1> USE DEF TypeOK
<1> DEFINE f == exec[p].file
<1>1. exec[p].pc = pc /\ exec[p].pc # "idle" /\ f \in Files /\ HasJob(f)
  BY Names DEF SaveCheckpoint, At, TakenOK
<1>2. \A g \in Files : g # f => job'[g] = job[g]
  BY DEF SaveCheckpoint, StoreTypeOK
<1>3. job'[f].checkpoint = c /\ job'[f].status = job[f].status
  BY <1>1 DEF SaveCheckpoint, StoreTypeOK, JobRows
<1>4. PICK to \in {next, "failFile"} : exec' = [exec EXCEPT ![p].pc = to]
  BY DEF SaveCheckpoint, Goto, After
<1>5. to \in ExecPcs /\ to # "idle"
  BY <1>4, Names
<1>6. /\ exec'[p].pc = to
      /\ exec'[p].file = f
      /\ exec'[p].entry = exec[p].entry
  BY <1>1, <1>4, Busy DEF ExecTypeOK, BusyExecs
<1>7. \A q \in Procs : q # p => exec'[q] = exec[q]
  BY <1>4 DEF ExecTypeOK
<1>8. queue' = queue
  BY DEF SaveCheckpoint
<1>9. AbsentOK'
  BY <1>1, <1>2, <1>3 DEF AbsentOK, HasJob
<1>10. TakenOK'
  BY <1>1, <1>6, <1>7, <1>8 DEF TakenOK
<1>11. FoundOK'
  <2> SUFFICES ASSUME NEW q \in Procs, exec'[q].pc # "idle",
                      Solo(exec'[q].file)
               PROVE  MayFind(exec'[q], job'[exec'[q].file].checkpoint)
    BY <1>8 DEF FoundOK, MayFind, Solo, EntriesOf
  <2>1. CASE q = p
    <3>1. MayFind(exec'[p], c)
      <4> DEFINE x == exec'[p]
      <4>1. x.pc \in {next, "failFile"}
        BY <1>4, <1>6
      <4> HIDE DEF x
      <4>2. MayFind(x, c)
        BY <4>1
      <4> QED BY <4>2 DEF x
    <3>2. exec'[q].file = f /\ job'[f].checkpoint = c
      BY <1>3, <1>6, <2>1
    <3> QED BY <2>1, <3>1, <3>2
  <2>2. CASE q # p
    <3>1. exec'[q] = exec[q] /\ exec[q].file \in Files
      BY <1>7, <2>2 DEF TakenOK
    <3>2. exec[q].file # f
      BY <1>1, <2>2, <3>1, SoloExecutor
    <3> QED
      BY <1>2, <3>1, <3>2 DEF FoundOK
  <2> QED
    BY <2>1, <2>2
<1>12. Monotone
  <2> SUFFICES ASSUME NEW g \in Files, Solo(g)
               PROVE  job'[g].checkpoint \notin Before(job[g].checkpoint)
    BY DEF Monotone
  <2>1. CASE g = f
    <3>1. MayFind(exec[p], job[f].checkpoint)
      BY <1>1, <2>1 DEF FoundOK
    <3> QED
      BY <1>3, <2>1, <3>1
  <2>2. CASE g # f
    <3>1. job[g].checkpoint \in Checkpoints
      BY DEF StoreTypeOK, JobRows
    <3> QED
      BY <1>2, <2>2, <3>1, Order
  <2> QED
    BY <2>1, <2>2
<1> QED
  BY <1>9, <1>10, <1>11, <1>12

\* One step of the processor.
LEMMA SaveStepMonotone ==
    ASSUME TypeOK, LockOK, AbsentOK, TakenOK, FoundOK, NEW p \in Procs,
           \/ SaveRetrieved(p) \/ SaveProcessed(p) \/ SaveUploaded(p)
           \/ SaveMetadata(p) \/ SaveCompleted(p)
    PROVE  AbsentOK' /\ TakenOK' /\ FoundOK' /\ Monotone
<1>1. ASSUME NEW pc \in TryPcs, NEW c \in Checkpoints, NEW next \in ExecPcs,
             SaveCheckpoint(p, pc, c, next),
             \A x, d : x.pc = pc /\ MayFind(x, d) => c \notin Before(d),
             \A x : x.pc \in {next, "failFile"} => MayFind(x, c)
      PROVE  AbsentOK' /\ TakenOK' /\ FoundOK' /\ Monotone
  <2>1. exec[p].pc = pc
    BY <1>1 DEF SaveCheckpoint, At
  <2>2. \A d : MayFind(exec[p], d) => c \notin Before(d)
    BY <1>1, <2>1
  <2> QED
    BY <1>1, <2>2, SaveMonotone
<1>2. CASE SaveRetrieved(p)
  <2>1. \A x, d : x.pc = "saveRetrieved" /\ MayFind(x, d)
                  => "FILE_RETRIEVED" \notin Before(d)
    BY Order DEF MayFind
  <2>2. \A x : x.pc \in {"process", "failFile"} => MayFind(x, "FILE_RETRIEVED")
    BY DEF MayFind
  <2>3. /\ "saveRetrieved" \in TryPcs
        /\ "FILE_RETRIEVED" \in Checkpoints
        /\ "process" \in ExecPcs
    BY Names DEF TryPcs
  <2> QED BY <1>1, <1>2, <2>1, <2>2, <2>3 DEF SaveRetrieved
<1>3. CASE SaveProcessed(p)
  <2>1. \A x, d : x.pc = "saveProcessed" /\ MayFind(x, d)
                  => "FILE_PROCESSED" \notin Before(d)
    BY Order DEF MayFind, Early
  <2>2. \A x : x.pc \in {"putObject", "failFile"} => MayFind(x, "FILE_PROCESSED")
    BY DEF MayFind, Unstored
  <2>3. /\ "saveProcessed" \in TryPcs
        /\ "FILE_PROCESSED" \in Checkpoints
        /\ "putObject" \in ExecPcs
    BY Names DEF TryPcs
  <2> QED BY <1>1, <1>3, <2>1, <2>2, <2>3 DEF SaveProcessed
<1>4. CASE SaveUploaded(p)
  <2>1. \A x, d : x.pc = "saveUploaded" /\ MayFind(x, d)
                  => "UPLOADED_TO_STORAGE" \notin Before(d)
    BY Order DEF MayFind, Unstored, Early
  <2>2. \A x : x.pc \in {"publish", "failFile"} => MayFind(x, "UPLOADED_TO_STORAGE")
    BY DEF MayFind
  <2>3. /\ "saveUploaded" \in TryPcs
        /\ "UPLOADED_TO_STORAGE" \in Checkpoints
        /\ "publish" \in ExecPcs
    BY Names DEF TryPcs
  <2> QED BY <1>1, <1>4, <2>1, <2>2, <2>3 DEF SaveUploaded
<1>5. CASE SaveMetadata(p)
  <2>1. \A x, d : x.pc = "saveMetadata" /\ MayFind(x, d)
                  => "METADATA_UPDATED" \notin Before(d)
    BY Order DEF MayFind, Unstored, Early
  <2>2. \A x : x.pc \in {"completeJob", "failFile"} => MayFind(x, "METADATA_UPDATED")
    BY DEF MayFind
  <2>3. /\ "saveMetadata" \in TryPcs
        /\ "METADATA_UPDATED" \in Checkpoints
        /\ "completeJob" \in ExecPcs
    BY Names DEF TryPcs
  <2> QED BY <1>1, <1>5, <2>1, <2>2, <2>3 DEF SaveMetadata
<1>6. CASE SaveCompleted(p)
  <2>1. \A d : "COMPLETED" \notin Before(d)
    BY Latest
  <2>2. \A x : x.pc \in {"ack", "failFile"} => MayFind(x, "COMPLETED")
    BY DEF MayFind
  <2>3. /\ "saveCompleted" \in TryPcs
        /\ "COMPLETED" \in Checkpoints
        /\ "ack" \in ExecPcs
    BY Names DEF TryPcs
  <2> QED BY <1>1, <1>6, <2>1, <2>2, <2>3 DEF SaveCompleted
<1> QED
  BY <1>2, <1>3, <1>4, <1>5, <1>6

\* What an execution that resumed from "from" may find at a, it may find at b.
Leads(from, a, b) ==
    \A x, y : /\ x.pc = a /\ y.pc = b
              /\ x.from = from /\ y.from = from
              => \A c : MayFind(x, c) => MayFind(y, c)

LEMMA Leading ==
    ASSUME NEW from
    PROVE  /\ Leads(from, "startJob", "startFile")
           /\ Leads(from, "startFile", "getObject")
           /\ from = "INIT" => Leads(from, "getObject", "saveRetrieved")
           /\ Leads(from, "getObject", "process")
           /\ from \in Early => Leads(from, "process", "saveProcessed")
           /\ from = "FILE_PROCESSED" => Leads(from, "process", "putObject")
           /\ from = "UPLOADED_TO_STORAGE" => Leads(from, "process", "publish")
           /\ Leads(from, "publish", "saveMetadata")
           /\ \A a, b : b \in {"failFile", "failJob", "nack", "completeJob",
                               "saveCompleted", "ack"}
                        => Leads(from, a, b)
<1>1. Leads(from, "startJob", "startFile") /\ Leads(from, "startFile", "getObject")
  BY DEF Leads, MayFind
<1>2. from = "INIT" => Leads(from, "getObject", "saveRetrieved")
  BY DEF Leads, MayFind
<1>3. Leads(from, "getObject", "process")
  BY DEF Leads, MayFind
<1>4. from \in Early => Leads(from, "process", "saveProcessed")
  BY DEF Leads, MayFind, Early
<1>5. from = "FILE_PROCESSED" => Leads(from, "process", "putObject")
  BY DEF Leads, MayFind, Early, Unstored
<1>6. from = "UPLOADED_TO_STORAGE" => Leads(from, "process", "publish")
  BY DEF Leads, MayFind, Early, Unstored
<1>7. Leads(from, "publish", "saveMetadata")
  BY DEF Leads, MayFind
<1>8. ASSUME NEW a, NEW b \in {"failFile", "failJob", "nack", "completeJob",
                               "saveCompleted", "ack"}
      PROVE  Leads(from, a, b)
  BY DEF Leads, MayFind
<1> QED
  BY <1>1, <1>2, <1>3, <1>4, <1>5, <1>6, <1>7, <1>8

LEMMA ProcessStepMonotone ==
    ASSUME TypeOK, LockOK, AbsentOK, TakenOK, FoundOK, NEW p \in Procs,
           ProcessStep(p)
    PROVE  AbsentOK' /\ TakenOK' /\ FoundOK' /\ Monotone
<1> USE DEF TypeOK
<1> DEFINE f == exec[p].file
           Done == AbsentOK' /\ TakenOK' /\ FoundOK' /\ Monotone
<1>1. exec[p].pc # "idle" => f \in Files /\ exec[p] \in BusyExecs
  BY Busy DEF TakenOK
<1>2. ASSUME exec[p].pc # "idle", NEW pc \in ExecPcs,
             exec' = [exec EXCEPT ![p].pc = pc], queue' = queue, Unsaved,
             Leads(exec[p].from, exec[p].pc, pc)
      PROVE  Done
  <2> DEFINE y == [exec[p] EXCEPT !.pc = pc]
  <2>1. y.pc = pc /\ y.from = exec[p].from
    BY <1>1, <1>2 DEF BusyExecs
  <2> HIDE DEF y
  <2>2. \A c : MayFind(exec[p], c) => MayFind(y, c)
    BY <1>2, <2>1 DEF Leads
  <2> QED
    BY <1>2, <2>2, FoundGoes, UnsavedMonotone DEF y
<1>3. ASSUME exec[p].pc # "idle", NEW pc \in {"failFile", "failJob", "nack"},
             exec' = [exec EXCEPT ![p].pc = pc], queue' = queue, Unsaved
      PROVE  Done
  <2>1. pc \in ExecPcs
    BY <1>3, Names
  <2>2. Leads(exec[p].from, exec[p].pc, pc)
    BY <1>3, Leading
  <2> QED
    BY <1>2, <1>3, <2>1, <2>2
<1>4. ASSUME exec[p].pc # "idle", NEW next \in ExecPcs, Goto(p, next),
             queue' = queue, Unsaved, Leads(exec[p].from, exec[p].pc, next)
      PROVE  Done
  <2>1. PICK pc \in {next, "failFile"} : exec' = [exec EXCEPT ![p].pc = pc]
    BY <1>4 DEF Goto, After
  <2>2. CASE pc = "failFile"
    BY <1>3, <1>4, <2>1, <2>2
  <2>3. CASE pc = next
    BY <1>2, <1>4, <2>1, <2>3
  <2> QED
    BY <2>1, <2>2, <2>3
<1> SUFFICES Done
  OBVIOUS
<1> HIDE DEF Done
\* The calls that change the Job row.
<1>5. CASE StartJob(p)
  <2>1. exec[p].pc = "startJob" /\ SetJobStatus(f, "PROCESSING")
    BY <1>5 DEF StartJob, At
  <2>2. Unsaved
    BY <1>1, <2>1, JobStatusUnsaved, Names
  <2>3. Leads(exec[p].from, exec[p].pc, "startFile") /\ "startFile" \in ExecPcs
    BY <2>1, Leading, Names
  <2> QED
    BY <1>4, <1>5, <2>1, <2>2, <2>3 DEF StartJob
<1>6. CASE CompleteJob(p)
  <2>1. exec[p].pc = "completeJob" /\ SetJobStatus(f, "COMPLETED")
    BY <1>6 DEF CompleteJob, At
  <2>2. Unsaved
    BY <1>1, <2>1, JobStatusUnsaved, Names
  <2>3. Leads(exec[p].from, exec[p].pc, "saveCompleted") /\ "saveCompleted" \in ExecPcs
    BY <2>1, Leading, Names
  <2> QED
    BY <1>4, <1>6, <2>1, <2>2, <2>3 DEF CompleteJob
<1>7. CASE FailJob(p)
  <2>1. exec[p].pc = "failJob" /\ SetJobStatus(f, "FAILED")
    BY <1>7 DEF FailJob, At
  <2>2. Unsaved
    BY <1>1, <2>1, JobStatusUnsaved, Names
  <2> QED
    BY <1>3, <1>7, <2>1, <2>2 DEF FailJob
\* The calls that leave it alone.
<1>8. CASE StartFile(p)
  <2>1. exec[p].pc = "startFile" /\ Unsaved
    BY <1>8, JobsSame DEF StartFile, At
  <2>3. Leads(exec[p].from, exec[p].pc, "getObject") /\ "getObject" \in ExecPcs
    BY <2>1, Leading, Names
  <2> QED
    BY <1>4, <1>8, <2>1, <2>3 DEF StartFile
<1>9. CASE Publish(p)
  <2>1. exec[p].pc = "publish" /\ Unsaved
    BY <1>9, JobsSame DEF Publish, At
  <2>3. Leads(exec[p].from, exec[p].pc, "saveMetadata") /\ "saveMetadata" \in ExecPcs
    BY <2>1, Leading, Names
  <2> QED
    BY <1>4, <1>9, <2>1, <2>3 DEF Publish
<1>10. CASE GetObject(p)
  <2>1. exec[p].pc = "getObject" /\ Unsaved
    BY <1>10, JobsSame DEF GetObject, At, storeVars
  <2>2. CASE exec[p].from = "INIT"
    <3>1. exec' = [exec EXCEPT ![p].pc = "saveRetrieved"] /\ queue' = queue
      BY <1>10, <2>2 DEF GetObject
    <3>2. /\ Leads(exec[p].from, exec[p].pc, "saveRetrieved")
          /\ "saveRetrieved" \in ExecPcs
      BY <2>1, <2>2, Leading, Names
    <3> QED
      BY <1>2, <2>1, <3>1, <3>2
  <2>3. CASE exec[p].from # "INIT"
    <3>1. exec' = [exec EXCEPT ![p].pc = "process"] /\ queue' = queue
      BY <1>10, <2>3 DEF GetObject
    <3>2. Leads(exec[p].from, exec[p].pc, "process") /\ "process" \in ExecPcs
      BY <2>1, Leading, Names
    <3> QED
      BY <1>2, <2>1, <3>1, <3>2
  <2> QED
    BY <2>2, <2>3
<1>11. CASE ProcessFile(p)
  <2> DEFINE from == exec[p].from
             pc == AfterProcess(from)
  <2>1. /\ exec[p].pc = "process" /\ Unsaved
        /\ exec' = [exec EXCEPT ![p].pc = pc] /\ queue' = queue
    BY <1>11, JobsSame DEF ProcessFile, At, storeVars
  <2>2. from \in Checkpoints
    BY <1>1, <2>1 DEF BusyExecs
  <2>3. \/ from \in Early /\ pc = "saveProcessed"
        \/ from = "FILE_PROCESSED" /\ pc = "putObject"
        \/ from = "UPLOADED_TO_STORAGE" /\ pc = "publish"
        \/ from \in PublishedCheckpoints /\ pc = "completeJob"
    BY <2>2 DEF AfterProcess, Early, Checkpoints, PublishedCheckpoints
  <2> HIDE DEF pc, from
  <2>4. Leads(from, exec[p].pc, pc)
    BY <2>1, <2>3, Leading
  <2>5. pc \in ExecPcs
    BY <2>3, Names
  <2> QED
    BY <1>2, <2>1, <2>4, <2>5 DEF from
<1>12. CASE PutObject(p)
  <2>1. /\ exec[p].pc = "putObject" /\ Unsaved /\ queue' = queue
        /\ \E pc \in {"saveUploaded", "failFile"} :
               exec' = [exec EXCEPT ![p].pc = pc, ![p].key = "key"]
    BY <1>12, JobsSame DEF PutObject, At, After
  <2>2. PICK pc \in {"saveUploaded", "failFile"} :
            exec' = [exec EXCEPT ![p].pc = pc, ![p].key = "key"]
    BY <2>1
  <2> DEFINE x == [exec[p] EXCEPT !.pc = pc, !.key = "key"]
  <2>3. exec' = [exec EXCEPT ![p] = x]
    BY <2>2 DEF ExecTypeOK
  <2>4. x.pc = pc /\ x.entry = exec[p].entry /\ x.file = f
    BY <1>1, <2>1 DEF BusyExecs
  <2> HIDE DEF x
  <2>5. x.pc # "idle"
    BY <2>4
  <2>6. \A c : MayFind(exec[p], c) => MayFind(x, c)
    BY <2>1, <2>4 DEF MayFind
  <2>7. TakenOK' /\ FoundOK'
    BY <2>1, <2>3, <2>4, <2>5, <2>6, FoundMoves
  <2> QED
    BY <2>1, <2>7, UnsavedMonotone DEF Done
<1>13. CASE FindJob(p)
  <2> DEFINE from == IF HasJob(f) THEN job[f].checkpoint ELSE "INIT"
             x == [exec[p] EXCEPT !.pc = "startJob", !.from = from,
                                  !.key = job[f].key]
  <2>1. exec[p].pc = "findJob" /\ Unsaved /\ queue' = queue
    BY <1>13, JobsSame DEF FindJob, At, storeVars
  <2>2. exec' = [exec EXCEPT ![p] = x]
    BY <1>13 DEF FindJob, ExecTypeOK
  <2>3. /\ x.pc = "startJob" /\ x.from = from
        /\ x.entry = exec[p].entry /\ x.file = f
    BY <1>1, <2>1 DEF BusyExecs
  <2>4. from = job[f].checkpoint
    BY <1>1, <2>1 DEF AbsentOK
  <2> HIDE DEF x, from
  <2>5. MayFind(x, job[f].checkpoint) /\ x.pc # "idle"
    BY <2>3, <2>4 DEF MayFind
  <2>6. TakenOK' /\ FoundOK'
    BY <2>1, <2>2, <2>3, <2>5, FoundMoves
  <2> QED
    BY <2>1, <2>6, UnsavedMonotone DEF Done
<1>14. CASE Throw(p) \/ CatchThrows(p)
  <2>1. Unsaved /\ exec[p].pc # "idle" /\ queue' = queue
    BY <1>14, JobsSame, Names DEF Throw, CatchThrows, At, storeVars
  <2>2. PICK pc \in {"failFile", "nack"} : exec' = [exec EXCEPT ![p].pc = pc]
    BY <1>14 DEF Throw, CatchThrows
  <2> QED
    BY <1>3, <2>1, <2>2
<1>15. CASE FailFile(p)
  <2>1. Unsaved /\ exec[p].pc # "idle" /\ queue' = queue
    BY <1>15, JobsSame DEF FailFile, At
  <2>2. PICK pc \in {"failJob", "nack"} : exec' = [exec EXCEPT ![p].pc = pc]
    BY <1>15 DEF FailFile, After
  <2> QED
    BY <1>3, <2>1, <2>2
<1>16. CASE Ack(p) \/ Nack(p) \/ ReportLost(p)
  <2>1. Unsaved /\ exec' = [exec EXCEPT ![p] = IdleExec]
    BY <1>16, JobsSame DEF Ack, Nack, ReportLost, storeVars
  <2>2. QueueGrows
    <3>1. CASE queue' = queue
      BY <3>1 DEF QueueGrows
    <3>2. CASE queue' # queue
      <4> DEFINE e == exec[p].entry
      <4>1. /\ exec[p].pc # "idle"
            /\ queue[e].state = "active"
            /\ CompleteEntry(e) \/ FailEntry(e)
        BY <1>16, <3>2 DEF Ack, Nack, ReportLost, At, Holds
      <4>2. e \in Entries
        BY <4>1 DEF TakenOK
      <4>3. queue'[e].file = queue[e].file
        BY <4>1, <4>2, EntryFile DEF CompleteEntry, FailEntry, QueueTypeOK
      <4>4. \A d \in Entries : d # e => queue'[d] = queue[d]
        BY <4>1 DEF CompleteEntry, FailEntry, QueueTypeOK
      <4> QED BY <4>3, <4>4 DEF QueueGrows
    <3> QED BY <3>1, <3>2
  <2>3. \A q \in Procs : exec'[q].pc # "idle" => exec'[q] = exec[q]
    BY <2>1 DEF ExecTypeOK, IdleExec
  <2>4. TakenOK' /\ FoundOK'
    BY <2>1, <2>2, <2>3, FoundStays
  <2> QED
    BY <2>1, <2>4, UnsavedMonotone DEF Done
<1> QED
  BY <1>5, <1>6, <1>7, <1>8, <1>9, <1>10, <1>11, <1>12, <1>13, <1>14, <1>15,
     <1>16, SaveStepMonotone DEF ProcessStep, Done

-----------------------------------------------------------------------------
(* All steps.                                                                *)

\* A step of the queue that is not the processor's own report.
LEMMA QueueStepGrows ==
    ASSUME QueueTypeOK, NEW e \in Entries,
           \/ \E p \in Procs : TakeEntry(e, p)
           \/ StallEntry(e)
           \/ \E f \in Files : AddEntry(e, f)
           \/ RetryFailedJob(e) \/ RemoveFailedJob(e)
    PROVE  QueueGrows
<1>1. CASE \E f \in Files : AddEntry(e, f)
  <2>1. queue[e].state = "none"
    BY <1>1 DEF AddEntry, NextEntry
  <2>2. queue[e].file \notin Files
    BY <2>1, Names, NilAssumption DEF QueueTypeOK, QueueEntries, NoEntry
  <2> QED
    BY <1>1, <2>2 DEF AddEntry, QueueGrows, QueueTypeOK
<1>2. CASE ~\E f \in Files : AddEntry(e, f)
  <2>1. queue[e].state # "none"
    BY <1>2 DEF TakeEntry, StallEntry, RetryFailedJob, RemoveFailedJob
  <2>2. queue'[e].file = queue[e].file
    BY <1>2, <2>1, EntryFile DEF TakeEntry, StallEntry, RetryFailedJob,
       RemoveFailedJob, QueueTypeOK
  <2>3. \A d \in Entries : d # e => queue'[d] = queue[d]
    BY <1>2 DEF TakeEntry, StallEntry, RetryFailedJob, RemoveFailedJob,
       QueueTypeOK
  <2> QED
    BY <2>2, <2>3 DEF QueueGrows
<1> QED
  BY <1>1, <1>2

\* A new execution has read nothing.
LEMMA TakeMonotone ==
    ASSUME TypeOK, AbsentOK, TakenOK, FoundOK, NEW p \in Procs,
           NEW e \in Entries, Take(p, e)
    PROVE  AbsentOK' /\ TakenOK' /\ FoundOK' /\ Monotone
<1> USE DEF TypeOK
<1>1. Unsaved
  BY JobsSame DEF Take, storeVars
<1>2. queue[e].state = "waiting" /\ TakeEntry(e, p)
  BY DEF Take, TakeEntry
<1>3. QueueGrows /\ queue[e].file \in Files
  BY <1>2, QueueStepGrows, EntryFile
<1>4. /\ exec'[p].pc = "findJob"
      /\ exec'[p].entry = e
      /\ exec'[p].file = queue[e].file
  BY DEF Take, ExecTypeOK, IdleExec
<1>5. \A q \in Procs : q # p => exec'[q] = exec[q]
  BY DEF Take, ExecTypeOK
<1>6. queue'[e].file = queue[e].file
  BY <1>3 DEF QueueGrows
<1>7. TakenOK'
  BY <1>3, <1>4, <1>5, <1>6 DEF TakenOK, QueueGrows
<1>8. FoundOK'
  <2> SUFFICES ASSUME NEW q \in Procs, exec'[q].pc # "idle", Solo(exec[q].file)'
               PROVE  MayFind(exec'[q], job'[exec'[q].file].checkpoint)
    BY DEF FoundOK, MayFind, Solo, EntriesOf
  <2>1. CASE q = p
    BY <1>4, <2>1 DEF MayFind
  <2>2. CASE q # p
    <3>1. exec'[q] = exec[q] /\ exec[q].file \in Files
      BY <1>5, <2>2 DEF TakenOK
    <3>2. Solo(exec[q].file)
      BY <1>3, <3>1, SoloBackwards DEF Solo, EntriesOf
    <3>3. job' = job
      BY DEF Take, storeVars
    <3> QED
      BY <3>1, <3>2, <3>3 DEF FoundOK
  <2> QED
    BY <2>1, <2>2
<1> QED
  BY <1>1, <1>7, <1>8, UnsavedMonotone

LEMMA RecoveryUnsaved ==
    ASSUME TypeOK, AbsentOK, RecoveryNext
    PROVE  Unsaved /\ QueueGrows
<1> USE DEF TypeOK
<1>1. ASSUME NEW p \in Procs, RecoveryStep(p)
      PROVE  Unsaved /\ QueueGrows
  <2>1. CASE ResetJob(p)
    <3>1. PICK f \in rec[p].todo : SetJobStatus(f, "PENDING")
      BY <2>1 DEF ResetJob
    <3>2. f \in Files
      BY <2>1 DEF ResetJob, RecTypeOK, Recs
    <3>3. Unsaved
      BY <3>1, <3>2, JobStatusUnsaved, Names
    <3> QED
      BY <2>1, <3>3 DEF ResetJob, QueueGrows
  <2>2. CASE Reenqueue(p)
    <3>1. PICK e \in Entries : AddEntry(e, rec[p].cur)
      BY <2>2 DEF Reenqueue
    <3>2. rec[p].cur \in Files
      BY <2>2 DEF Reenqueue, RecTypeOK, Recs
    <3>3. QueueGrows
      BY <3>1, <3>2, QueueStepGrows
    <3> QED
      BY <2>2, <3>3, JobsSame DEF Reenqueue, storeVars
  <2>3. CASE job' = job /\ queue' = queue
    BY <2>3, JobsSame DEF QueueGrows
  <2> QED
    BY <1>1, <2>1, <2>2, <2>3 DEF RecoveryStep, Scan, SkipJob, ReenqueueFails,
       RecoveryDone, storeVars
<1>2. ASSUME NEW e \in Entries, RetryFailedJob(e) \/ RemoveFailedJob(e)
      PROVE  Unsaved /\ QueueGrows
  BY <1>2, JobsSame, QueueStepGrows DEF RetryFailedJob, RemoveFailedJob, storeVars
<1> QED
  BY <1>1, <1>2 DEF RecoveryNext

LEMMA ServingUnsaved ==
    ASSUME TypeOK, AbsentOK,
           \/ \E p \in Procs : Accept(p)
           \/ \E r \in Requests : ServiceStep(r)
           \/ \E f \in Files : ClientStep(f)
    PROVE  Unsaved /\ QueueGrows
<1> USE DEF TypeOK
<1>1. CASE job' = job /\ queue' = queue
  BY <1>1, JobsSame DEF QueueGrows
<1>2. ASSUME NEW r \in Requests, AddJob(r)
      PROVE  Unsaved /\ QueueGrows
  <2>1. PICK e \in Entries : AddEntry(e, req[r].file)
    BY <1>2 DEF AddJob
  <2>2. req[r].file \in Files
    BY <1>2, BusyRequest DEF AddJob, At_
  <2>3. QueueGrows
    BY <2>1, <2>2, QueueStepGrows
  <2> QED
    BY <1>2, <2>3, JobsSame DEF AddJob, storeVars
<1>3. ASSUME NEW r \in Requests, CreateJob(r)
      PROVE  Unsaved /\ QueueGrows
  <2>1. req[r].file \in Files
    BY <1>3, BusyRequest DEF CreateJob, At_
  <2>2. Unsaved
    BY <1>3, <2>1, JobCreatedUnsaved DEF CreateJob
  <2> QED
    BY <1>3, <2>2 DEF CreateJob, QueueGrows
<1>4. ASSUME NEW r \in Requests, DeleteRow(r)
      PROVE  Unsaved /\ QueueGrows
  <2>1. req[r].file \in Files
    BY <1>4, BusyRequest DEF DeleteRow, At_
  <2>2. Unsaved
    BY <1>4, <2>1, RowDeletedUnsaved DEF DeleteRow
  <2> QED
    BY <1>4, <2>2 DEF DeleteRow, QueueGrows
<1>5. ASSUME NEW r \in Requests, ServiceStep(r)
      PROVE  Unsaved /\ QueueGrows
  <2>1. \/ AddJob(r) \/ CreateJob(r) \/ DeleteRow(r)
        \/ job' = job /\ queue' = queue
    BY <1>5 DEF ServiceStep, PutUpload, CreateFile, StatObject, MarkUploaded,
       DelUpload, DelProcessed, ReqFails, storeVars
  <2> QED
    BY <1>1, <1>2, <1>3, <1>4, <2>1
<1>6. ASSUME NEW p \in Procs, Accept(p)
      PROVE  Unsaved /\ QueueGrows
  BY <1>1, <1>6 DEF Accept, BeginUpload, PresignUpload, BeginComplete,
     BeginDelete, storeVars
<1>7. ASSUME NEW f \in Files, ClientStep(f)
      PROVE  Unsaved /\ QueueGrows
  BY <1>1, <1>7 DEF ClientStep, ClientPut, ExpireUrl, storeVars
<1> QED
  BY <1>5, <1>6, <1>7

LEMMA CleaningUnsaved ==
    ASSUME TypeOK, AbsentOK, Cleaning
    PROVE  Unsaved /\ QueueGrows
<1> USE DEF TypeOK
<1>1. QueueGrows
  BY DEF Cleaning, QueueGrows
<1>2. ASSUME NEW p \in Procs, DeleteExpiredRow(p)
      PROVE  Unsaved
  <2>1. pass[p].cur \in Files
    BY <1>2, BusyPass DEF DeleteExpiredRow, DeletePcs
  <2> QED
    BY <1>2, <2>1, RowDeletedUnsaved DEF DeleteExpiredRow
<1>3. (\E p \in Procs : DeleteExpiredRow(p)) \/ job' = job
  BY DEF Cleaning, Expire, HandleCleanup, CleanupStep, NextExpired,
     DelExpiredUpload, DelExpiredProcessed, VisitFails, CleanupDone, storeVars
<1> QED
  BY <1>1, <1>2, <1>3, JobsSame

LEMMA MonotoneStep ==
    ASSUME TypeOK, LockOK, AbsentOK, TakenOK, FoundOK, [Next]_vars
    PROVE  AbsentOK' /\ TakenOK' /\ FoundOK' /\ Monotone
<1> USE DEF TypeOK
<1>1. ASSUME Unsaved, QueueGrows,
             \A p \in Procs : exec'[p].pc # "idle" => exec'[p] = exec[p]
      PROVE  AbsentOK' /\ TakenOK' /\ FoundOK' /\ Monotone
  BY <1>1, FoundStays, UnsavedMonotone
<1>2. CASE Processing
  <2>1. ASSUME NEW e \in Entries, Stall(e)
        PROVE  AbsentOK' /\ TakenOK' /\ FoundOK' /\ Monotone
    BY <1>1, <2>1, QueueStepGrows, JobsSame DEF Stall, storeVars
  <2> QED
    BY <1>2, <2>1, ProcessStepMonotone, TakeMonotone DEF Processing, ProcessorNext
<1>3. CASE Recovering
  BY <1>1, <1>3, RecoveryUnsaved DEF Recovering
<1>4. CASE Serving
  BY <1>1, <1>4, ServingUnsaved DEF Serving
<1>5. CASE Cleaning
  <2>1. exec' = exec
    BY <1>5 DEF Cleaning
  <2> QED
    BY <1>1, <1>5, <2>1, CleaningUnsaved
<1>6. ASSUME NEW p \in Procs, Crash(p) \/ ScanFails(p)
      PROVE  AbsentOK' /\ TakenOK' /\ FoundOK' /\ Monotone
  <2> USE DEF Crash, ScanFails, Stops
  <2>1. Unsaved /\ QueueGrows
    BY <1>6, JobsSame DEF storeVars, QueueGrows
  <2>2. \A q \in Procs : exec'[q].pc # "idle" => exec'[q] = exec[q]
    BY <1>6 DEF ExecCrash, IdleExec, ExecTypeOK
  <2> QED
    BY <1>1, <2>1, <2>2
<1>7. CASE (\E p \in Procs : Restart(p)) \/ UNCHANGED vars
  <2>1. UNCHANGED <<job, queue, exec>>
    BY <1>7 DEF Restart, vars, storeVars
  <2> QED
    BY <1>1, <2>1, JobsSame DEF QueueGrows
<1> QED
  BY <1>2, <1>3, <1>4, <1>5, <1>6, <1>7 DEF Next

LEMMA MonotoneInit == Init => LockOK /\ AbsentOK /\ TakenOK /\ FoundOK
BY DEF Init, StoreInit, ExecInit, NoJob, IdleExec, LockOK, AbsentOK, TakenOK,
   FoundOK

\* While a file has had a single queue entry its checkpoint never goes back,
\* whatever fails, crashes or is retried, provided that a worker renews its
\* lock while it executes.
THEOREM SoloCheckpointMonotoneHolds ==
    ASSUME LiveStalls = FALSE
    PROVE  Spec => SoloCheckpointMonotone
<1> DEFINE Forward ==
      \A f \in Files :
          Cardinality(EntriesOf(f)) <= 1 /\ HasJob(f) /\ HasJob(f)'
          => job'[f].checkpoint \notin Before(job[f].checkpoint)
<1>1. Init => LockOK /\ AbsentOK /\ TakenOK /\ FoundOK
  BY MonotoneInit
<1>2. TypeOK /\ (LockOK /\ AbsentOK /\ TakenOK /\ FoundOK) /\ [Next]_vars
      => (LockOK /\ AbsentOK /\ TakenOK /\ FoundOK)'
  BY LockStep, MonotoneStep
<1>3. TypeOK /\ (LockOK /\ AbsentOK /\ TakenOK /\ FoundOK) /\ [Next]_vars
      => [Forward]_vars
  BY MonotoneStep, SoloIsOne DEF Monotone
<1> QED
  BY <1>1, <1>2, <1>3, TypeCorrect, PTL DEF Spec, SoloCheckpointMonotone
=============================================================================
