---------------------------- MODULE CrashProofs ----------------------------
(***************************************************************************)
(* What crashes and failures leave behind, for any number of files,        *)
(* processes, requests and crashes. Two invariants, for two questions.     *)
(*                                                                         *)
(* Which crashes lose a job: CrashLosesNoJob holds provided that           *)
(*                                                                         *)
(*  - no crash hits a hand-over, the moment at which the only trace of a   *)
(*    job that is still to be done is in the memory of one process;        *)
(*  - an entry survives as many stalls as there are crashes;               *)
(*  - the operator removes no entry, and PostgreSQL and Redis, unlike      *)
(*    MinIO, answer.                                                       *)
(*                                                                         *)
(* JobsKept names, for a job that is not decided, someone who is still     *)
(* going to decide it. A queue entry is not enough: one whose execution is *)
(* about to be reported will do nothing more for the job.                  *)
(*                                                                         *)
(* Whether a failure can be retried: FailedCanBeRetried holds whatever     *)
(* fails. FailedOK names, for a row that says FAILED, an entry that        *)
(* answers for it: one that is dead, or whose execution has yet to take    *)
(* the failure back.                                                       *)
(*                                                                         *)
(* Both need locks to be renewed while their owners execute.               *)
(***************************************************************************)
EXTENDS CheckpointProofs

\* There is, or is about to be, a Job row that is not decided.
Undecided(f) ==
    /\ HasFile(f)
    /\ job[f].status \notin {"COMPLETED", "FAILED"}
    /\ \/ HasJob(f)
       \/ \E r \in Requests : At_(r, "createJob") /\ req[r].file = f

\* From these calls on, an execution writes no outcome, or only to a row that
\* it found missing once.
ClosingPcs == {"saveCompleted", "ack", "nack", "failJob"}
Closing(p) ==
    /\ exec[p].pc \in ClosingPcs
    /\ exec[p].pc = "failJob" => ~HasJob(exec[p].file)

Open(e) ==
    /\ Live(e)
    /\ \A p \in Procs : exec[p].entry = e => ~Closing(p)

\* Someone is going to decide the job of f, or has given the file up.
WillDecide(f) ==
    \/ file[f].status = "FAILED"
    \/ \E e \in Entries : queue[e].file = f /\ Open(e)
    \/ \E p \in Procs : rec[p].cur = f
    \/ \E r \in Requests : At_(r, "addJob") /\ req[r].file = f

JobsKept == \A f \in Files : Undecided(f) => WillDecide(f)

\* An active entry nobody executes has still its stall to come.
Abandoned(e) == queue[e].state = "active" /\ exec[queue[e].owner].entry # e

StallsOK ==
    /\ crashes <= MaxCrashes
    /\ \A e \in Entries :
           /\ queue[e].state = "active" => queue[e].owner \in Procs
           /\ queue[e].stalls <= crashes
           /\ Abandoned(e) => queue[e].stalls < crashes

-----------------------------------------------------------------------------
(* What is assumed of the behaviours.                                        *)

\* Between the reset of a job and its new entry, recovery alone knows of it;
\* so does a repeated completeUpload between the status and the entry.
HandsOver(p) ==
    \/ rec[p].pc = "enqueue"
    \/ \E r \in Requests :
           req[r].host = p /\ At_(r, "addJob") /\ Undecided(req[r].file)

Spares == \A p \in Procs : p \in up /\ p \notin up' => ~HandsOver(p)
CrashesSpareHandOvers == [][Spares]_vars

Keeps ==
    \A e \in Entries : queue'[e].state = "removed" => queue[e].state = "removed"
NobodyRemovesEntries == [][Keeps]_vars

-----------------------------------------------------------------------------
(* Who is going to decide a job still is after a step of somebody else.      *)

LEMMA EntryOfExecution ==
    ASSUME ExecTypeOK, LockOK, NEW p \in Procs, exec[p].pc # "idle"
    PROVE  /\ exec[p].entry \in Entries
           /\ Holds(p, exec[p].entry)
           /\ \A q \in Procs : exec[q].entry = exec[p].entry => q = p
<1>1. exec[p].entry \in Entries
  BY Busy DEF BusyExecs
<1>2. exec[p].entry # Nil
  BY <1>1, QueueAssumption DEF Entries
<1> QED
  BY <1>1, <1>2 DEF LockOK, Holds

LEMMA Executes ==
    ASSUME ExecTypeOK, NEW p \in Procs, NEW e \in Entries, exec[p].entry = e
    PROVE  exec[p].pc # "idle"
<1> SUFFICES ASSUME exec[p].pc = "idle"
             PROVE  FALSE
  OBVIOUS
<1>1. exec[p] = IdleExec
  BY Names DEF ExecTypeOK, Execs
<1> QED
  BY <1>1, QueueAssumption DEF IdleExec, Entries

LEMMA OpenStays ==
    ASSUME NEW e \in Entries, Open(e), Live(e)',
           \A q \in Procs : exec'[q].entry = e =>
               \/ exec'[q].pc \notin ClosingPcs
               \/ /\ exec'[q] = exec[q]
                  /\ HasJob(exec[q].file) => job'[exec[q].file].status \notin NoRow
    PROVE  Open(e)'
<1> SUFFICES ASSUME NEW q \in Procs, exec'[q].entry = e, Closing(q)'
             PROVE  FALSE
  BY DEF Open
<1>1. exec'[q].pc \in ClosingPcs
  BY DEF Closing
<1>2. /\ exec'[q] = exec[q]
      /\ HasJob(exec[q].file) => job'[exec[q].file].status \notin NoRow
  BY <1>1
<1>3. ~Closing(q)
  BY <1>2 DEF Open
<1> QED
  BY <1>1, <1>2, <1>3 DEF Closing, HasJob

LEMMA DecisionWaits ==
    ASSUME JobsKept, NEW f \in Files,
           Undecided(f)' => Undecided(f),
           file[f].status = "FAILED" => file'[f].status = "FAILED",
           \A e \in Entries : queue[e].file = f /\ Open(e) =>
               queue'[e].file = f /\ Open(e)',
           \A q \in Procs : rec[q].cur = f => rec'[q].cur = f,
           \A r \in Requests :
               At_(r, "addJob") /\ req[r].file = f /\ Undecided(f) =>
                   req'[r] = req[r]
    PROVE  Undecided(f)' => WillDecide(f)'
<1> SUFFICES ASSUME Undecided(f)'
             PROVE  WillDecide(f)'
  OBVIOUS
<1>1. Undecided(f) /\ WillDecide(f)
  BY DEF JobsKept
<1>2. CASE file[f].status = "FAILED"
  BY <1>2 DEF WillDecide
<1>3. CASE \E e \in Entries : queue[e].file = f /\ Open(e)
  BY <1>3 DEF WillDecide
<1>4. CASE \E q \in Procs : rec[q].cur = f
  BY <1>4 DEF WillDecide
<1>5. CASE \E r \in Requests : At_(r, "addJob") /\ req[r].file = f
  BY <1>1, <1>5 DEF WillDecide, At_
<1> QED
  BY <1>1, <1>2, <1>3, <1>4, <1>5 DEF WillDecide

\* The same, for a step that is neither the queue's nor the processor's.
LEMMA TablesWait ==
    ASSUME ExecTypeOK, TakenOK, JobsKept, UNCHANGED <<queue, exec>>,
           NEW f \in Files,
           Undecided(f)' => Undecided(f),
           file[f].status = "FAILED" => file'[f].status = "FAILED",
           HasJob(f) => job'[f].status \notin NoRow,
           \A q \in Procs : rec[q].cur = f => rec'[q].cur = f,
           \A r \in Requests :
               At_(r, "addJob") /\ req[r].file = f /\ Undecided(f) =>
                   req'[r] = req[r]
    PROVE  Undecided(f)' => WillDecide(f)'
<1>1. ASSUME NEW e \in Entries, queue[e].file = f, Open(e)
      PROVE  Open(e)'
  <2>1. Live(e)'
    BY <1>1 DEF Open, Live
  <2>2. \A q \in Procs : exec[q].entry = e => exec[q].file = f
    BY <1>1, Executes DEF TakenOK
  <2> QED
    BY <1>1, <2>1, <2>2, OpenStays
<1> QED
  BY <1>1, DecisionWaits

-----------------------------------------------------------------------------
(* The processor.                                                            *)

\* Process p goes on. It disturbs no other file, nor its own while it is
\* still going to decide the job, has decided it, or had already done with it.
LEMMA ExecutionGoesOn ==
    ASSUME TypeOK, LockOK, TakenOK, JobsKept,
           NEW p \in Procs, exec[p].pc # "idle",
           NEW f \in Files, exec[p].file = f,
           \A q \in Procs : q # p => exec'[q] = exec[q],
           exec'[p].entry = exec[p].entry, UNCHANGED <<queue, rec, req>>,
           \A g \in Files \ {f} : file'[g] = file[g] /\ job'[g] = job[g],
           \/ exec'[p].pc \notin ClosingPcs
           \/ ~Undecided(f)'
           \/ file'[f].status = "FAILED"
           \/ /\ Closing(p) /\ file' = file
              /\ job'[f].status = job[f].status
    PROVE  JobsKept'
<1> USE DEF TypeOK
<1>1. PICK d \in Entries : exec[p].entry = d /\ queue[d].file = f
  BY DEF TakenOK
<1>2. Holds(p, d) /\ \A q \in Procs : exec[q].entry = d => q = p
  BY <1>1, EntryOfExecution
<1>3. ASSUME NEW e \in Entries, Open(e), e # d,
             HasJob(queue[e].file) => job'[queue[e].file].status \notin NoRow
      PROVE  Open(e)'
  <2>1. Live(e)'
    BY <1>3 DEF Open, Live
  <2>2. ASSUME NEW q \in Procs, exec'[q].entry = e
        PROVE  exec'[q] = exec[q] /\ exec[q].file = queue[e].file
    <3>1. exec'[q] = exec[q]
      BY <1>1, <1>3, <2>2
    <3> QED
      BY <2>2, <3>1, Executes DEF TakenOK
  <2> QED
    BY <1>3, <2>1, <2>2, OpenStays
<1>4. ASSUME NEW g \in Files, file'[g] = file[g], HasJob(g)' = HasJob(g),
             Undecided(g)' => Undecided(g),
             \A e \in Entries : queue[e].file = g /\ Open(e) => e # d
      PROVE  Undecided(g)' => WillDecide(g)'
  <2>1. \A e \in Entries : queue[e].file = g /\ Open(e) =>
            queue'[e].file = g /\ Open(e)'
    BY <1>3, <1>4 DEF HasJob
  <2> QED
    BY <1>4, <2>1, DecisionWaits
<1>5. ASSUME NEW g \in Files \ {f}
      PROVE  Undecided(g)' => WillDecide(g)'
  <2>1. file'[g] = file[g] /\ job'[g] = job[g] /\ g \in Files
    OBVIOUS
  <2>2. HasJob(g)' = HasJob(g) /\ (Undecided(g)' => Undecided(g))
    BY <2>1 DEF Undecided, HasJob, HasFile, At_
  <2>3. \A e \in Entries : queue[e].file = g => e # d
    BY <1>1
  <2> QED
    BY <1>4, <2>1, <2>2, <2>3
<1>6. Undecided(f)' => WillDecide(f)'
  <2>1. CASE exec'[p].pc \notin ClosingPcs
    <3>1. \A q \in Procs : exec'[q].entry = d => exec'[q].pc \notin ClosingPcs
      BY <1>1, <1>2, <2>1
    <3>2. Open(d)'
      BY <1>2, <3>1 DEF Open, Live, Closing, Holds
    <3> QED
      BY <1>1, <3>2 DEF WillDecide
  <2>2. CASE /\ Closing(p)
             /\ file' = file
             /\ job'[f].status = job[f].status
    <3>1. ~Open(d)
      BY <1>1, <2>2 DEF Open
    <3>2. HasJob(f)' = HasJob(f) /\ (Undecided(f)' => Undecided(f))
      BY <2>2 DEF Undecided, HasJob, HasFile, At_
    <3> QED
      BY <1>1, <1>4, <2>2, <3>1, <3>2
  <2> QED
    BY <1>1, <2>1, <2>2 DEF WillDecide
<1> QED
  BY <1>5, <1>6 DEF JobsKept

LEMMA ExecutionGoesTo ==
    ASSUME TypeOK, LockOK, TakenOK, JobsKept,
           NEW p \in Procs, exec[p].pc # "idle",
           NEW f \in Files, exec[p].file = f,
           NEW pc, exec' = [exec EXCEPT ![p].pc = pc],
           UNCHANGED <<queue, rec, req>>,
           \A g \in Files \ {f} : file'[g] = file[g] /\ job'[g] = job[g],
           \/ pc \notin ClosingPcs
           \/ ~Undecided(f)'
           \/ file'[f].status = "FAILED"
           \/ /\ Closing(p) /\ file' = file
              /\ job'[f].status = job[f].status
    PROVE  JobsKept'
<1>1. exec'[p].pc = pc /\ exec'[p].entry = exec[p].entry
  BY Busy DEF TypeOK, ExecTypeOK, BusyExecs
<1>2. \A q \in Procs : q # p => exec'[q] = exec[q]
  BY DEF TypeOK, ExecTypeOK
<1> QED
  BY <1>1, <1>2, ExecutionGoesOn

\* The outcome is reported: the execution had done with the job.
LEMMA ReportKeeps ==
    ASSUME "queue" \notin Faulty, TypeOK, LockOK, TakenOK, JobsKept,
           NEW p \in Procs, Ack(p) \/ Nack(p) \/ ReportLost(p),
           UNCHANGED <<rec, req>>
    PROVE  JobsKept'
<1> USE DEF TypeOK
<1>1. exec[p].pc \in {"ack", "nack"}
  BY DEF Ack, Nack, ReportLost, At
<1>2. PICK d \in Entries : exec[p].entry = d
  BY <1>1 DEF TakenOK
<1>3. Holds(p, d) /\ Closing(p) /\ ~Open(d)
  BY <1>1, <1>2, EntryOfExecution DEF Closing, ClosingPcs, Open
<1>4. exec' = [exec EXCEPT ![p] = IdleExec] /\ UNCHANGED <<file, job>>
  BY DEF Ack, Nack, ReportLost, storeVars
<1>5. \A e \in Entries : e # d => queue'[e] = queue[e]
  BY <1>2, <1>3 DEF Ack, Nack, ReportLost, MayFail, CompleteEntry, FailEntry,
     QueueTypeOK
<1>6. ASSUME NEW e \in Entries, Open(e)
      PROVE  queue'[e].file = queue[e].file /\ Open(e)'
  <2>1. queue'[e] = queue[e] /\ Live(e)'
    BY <1>3, <1>5, <1>6 DEF Open, Live
  <2>2. \A q \in Procs : exec'[q].entry = e => exec'[q] = exec[q]
    BY <1>4, QueueAssumption DEF ExecTypeOK, IdleExec, Entries
  <2> QED
    BY <1>4, <1>6, <2>1, <2>2, OpenStays DEF HasJob
<1>7. ASSUME NEW f \in Files
      PROVE  Undecided(f)' => WillDecide(f)'
  <2>1. Undecided(f)' => Undecided(f)
    BY <1>4 DEF Undecided, HasJob, HasFile, At_
  <2> QED
    BY <1>4, <1>6, <2>1, DecisionWaits
<1> QED
  BY <1>7 DEF JobsKept

LEMMA ProcessStepKeeps ==
    ASSUME Faulty \subseteq {"storage"}, TypeOK, LockOK, TakenOK, JobsKept,
           NEW p \in Procs, ProcessStep(p), UNCHANGED <<rec, req>>
    PROVE  JobsKept'
<1> USE DEF TypeOK
<1>0. ~MayFail("db") /\ ~MayFail("queue")
  BY DEF MayFail
<1>1. CASE Ack(p) \/ Nack(p) \/ ReportLost(p)
  BY <1>0, <1>1, ReportKeeps DEF MayFail
<1>2. CASE ~(Ack(p) \/ Nack(p) \/ ReportLost(p))
  <2>1. exec[p].pc # "idle" /\ queue' = queue
    BY <1>2, Names DEF ProcessStep, FindJob, StartJob, StartFile, GetObject,
       SaveRetrieved, ProcessFile, SaveProcessed, PutObject, SaveUploaded,
       Publish, SaveMetadata, CompleteJob, SaveCompleted, SaveCheckpoint,
       Throw, FailFile, FailJob, CatchThrows, At
  <2>2. PICK f \in Files : exec[p].file = f
    BY <2>1 DEF TakenOK
  <2>3. \A g \in Files \ {f} : file'[g] = file[g] /\ job'[g] = job[g]
    BY <1>2, <2>2 DEF ProcessStep, FindJob, StartJob, StartFile, GetObject,
       SaveRetrieved, ProcessFile, SaveProcessed, PutObject, SaveUploaded,
       Publish, SaveMetadata, CompleteJob, SaveCompleted, SaveCheckpoint,
       Throw, FailFile, FailJob, CatchThrows, SetJobStatus, SetFileStatus,
       storeVars, StoreTypeOK
  <2>4. ASSUME NEW pc, exec' = [exec EXCEPT ![p].pc = pc],
               \/ pc \notin ClosingPcs
               \/ ~Undecided(f)'
               \/ file'[f].status = "FAILED"
               \/ /\ Closing(p) /\ file' = file
                  /\ job'[f].status = job[f].status
        PROVE  JobsKept'
    BY <2>1, <2>2, <2>3, <2>4, ExecutionGoesTo
\* The calls that lead to no closing one.
  <2>5. CASE FindJob(p) \/ PutObject(p)
    <3>1. exec[p] \in BusyExecs
      BY <2>1, Busy
    <3>2. \A q \in Procs : q # p => exec'[q] = exec[q]
      BY <2>5 DEF FindJob, PutObject, ExecTypeOK
    <3>3. /\ exec'[p].entry = exec[p].entry
          /\ exec'[p].pc \in {"startJob", "saveUploaded", "failFile"}
      <4>1. CASE FindJob(p)
        BY <3>1, <4>1 DEF FindJob, ExecTypeOK, BusyExecs
      <4>2. CASE PutObject(p)
        <5>1. PICK pc \in {"saveUploaded", "failFile"} :
                  exec' = [exec EXCEPT ![p].pc = pc, ![p].key = "key"]
          BY <4>2 DEF PutObject, After
        <5> QED
          BY <3>1, <5>1 DEF ExecTypeOK, BusyExecs
      <4> QED
        BY <2>5, <4>1, <4>2
    <3>4. exec'[p].pc \notin ClosingPcs
      BY <3>3 DEF ClosingPcs
    <3> QED
      BY <2>1, <2>2, <2>3, <3>2, <3>3, <3>4, ExecutionGoesOn
  <2>6. CASE \/ StartJob(p) \/ StartFile(p) \/ GetObject(p)
             \/ SaveRetrieved(p) \/ ProcessFile(p) \/ SaveProcessed(p)
             \/ SaveUploaded(p) \/ Publish(p) \/ SaveMetadata(p) \/ Throw(p)
    <3>1. AfterProcess(exec[p].from)
              \in {"saveProcessed", "putObject", "publish", "completeJob"}
      BY DEF AfterProcess
    <3>2. PICK pc \in {"startFile", "getObject", "saveRetrieved", "process",
                       "saveProcessed", "putObject", "publish", "saveMetadata",
                       "completeJob", "failFile"} :
              exec' = [exec EXCEPT ![p].pc = pc]
      BY <2>6, <3>1 DEF StartJob, StartFile, GetObject, SaveRetrieved,
         ProcessFile, SaveProcessed, SaveUploaded, Publish, SaveMetadata,
         SaveCheckpoint, Throw, Goto, After
    <3>3. pc \notin ClosingPcs
      BY DEF ClosingPcs
    <3> QED
      BY <2>4, <3>2, <3>3
\* The calls that decide the job.
  <2>7. CASE CompleteJob(p) \/ FailJob(p)
    <3>1. job'[f].status \in {"COMPLETED", "FAILED"}
      BY <2>2, <2>7 DEF CompleteJob, FailJob, SetJobStatus, StoreTypeOK, JobRows
    <3>2. PICK pc : exec' = [exec EXCEPT ![p].pc = pc]
      BY <2>7 DEF CompleteJob, FailJob, Goto
    <3> QED
      BY <2>4, <3>1, <3>2 DEF Undecided
  <2>8. CASE FailFile(p)
    <3>1. file'[f].status = "FAILED"
      BY <2>2, <2>8 DEF FailFile, SetFileStatus, StoreTypeOK, FileRows
    <3>2. PICK pc : exec' = [exec EXCEPT ![p].pc = pc]
      BY <2>8 DEF FailFile
    <3> QED
      BY <2>4, <3>1, <3>2
\* The calls after the job was decided, or was found missing.
  <2>9. CASE SaveCompleted(p)
    <3>1. Closing(p) /\ file' = file
      BY <2>9 DEF SaveCompleted, SaveCheckpoint, At, Closing, ClosingPcs
    <3>2. job'[f].status = job[f].status
      BY <2>2, <2>9 DEF SaveCompleted, SaveCheckpoint, StoreTypeOK, JobRows
    <3>3. PICK pc : exec' = [exec EXCEPT ![p].pc = pc]
      BY <2>9 DEF SaveCompleted, SaveCheckpoint, Goto
    <3> QED
      BY <2>4, <3>1, <3>2, <3>3
  <2>10. CASE CatchThrows(p)
    <3>1. exec' = [exec EXCEPT ![p].pc = "nack"] /\ UNCHANGED <<file, job>>
      BY <2>10 DEF CatchThrows, storeVars
    <3>2. CASE ~HasFile(f)
      BY <2>4, <3>1, <3>2 DEF Undecided, HasFile
    <3>3. CASE HasFile(f)
      <4>1. Closing(p)
        BY <1>0, <2>2, <2>10, <3>3 DEF CatchThrows, At, Closing, ClosingPcs
      <4> QED
        BY <2>4, <3>1, <4>1
    <3> QED
      BY <3>2, <3>3
  <2> QED
    BY <1>2, <2>5, <2>6, <2>7, <2>8, <2>9, <2>10 DEF ProcessStep
<1> QED
  BY <1>1, <1>2

-----------------------------------------------------------------------------
(* The queue.                                                                *)

\* Open entries stay open, and entries keep their file.
OpenEntriesStay ==
    \A e \in Entries : Open(e) => queue'[e].file = queue[e].file /\ Open(e)'

LEMMA EntriesWait ==
    ASSUME OpenEntriesStay, JobsKept, UNCHANGED <<file, job, rec, req>>
    PROVE  JobsKept'
<1> SUFFICES ASSUME NEW f \in Files
             PROVE  Undecided(f)' => WillDecide(f)'
  BY DEF JobsKept
<1>1. Undecided(f)' => Undecided(f)
  BY DEF Undecided, HasJob, HasFile, At_
<1> QED
  BY <1>1, DecisionWaits DEF OpenEntriesStay

LEMMA TakeKeeps ==
    ASSUME TypeOK, LockOK, JobsKept, NEW p \in Procs, NEW d \in Entries,
           Take(p, d), UNCHANGED <<rec, req>>
    PROVE  JobsKept'
<1> USE DEF TypeOK
<1>1. UNCHANGED <<file, job>>
  BY DEF Take, storeVars
<1>2. exec'[p].pc = "findJob" /\ \A q \in Procs : q # p => exec'[q] = exec[q]
  BY DEF Take, ExecTypeOK, IdleExec
<1>3. /\ queue[d].state # "none"
      /\ queue' = [queue EXCEPT ![d].state = "active", ![d].owner = p]
  BY DEF Take, TakeEntry
<1>4. \A e \in Entries : queue'[e].file = queue[e].file /\ (Live(e) => Live(e)')
  BY <1>3, EntryFile DEF QueueTypeOK, Live
<1>5. ASSUME NEW e \in Entries, Open(e)
      PROVE  Open(e)'
  <2>1. ASSUME NEW q \in Procs, exec'[q].entry = e
        PROVE  exec'[q].pc \notin ClosingPcs \/ exec'[q] = exec[q]
    BY <1>2 DEF ClosingPcs
  <2> QED
    BY <1>1, <1>4, <1>5, <2>1, OpenStays DEF HasJob, Open
<1> QED
  BY <1>1, <1>4, <1>5, EntriesWait DEF OpenEntriesStay

\* An entry nobody executes has a stall left.
LEMMA StallKeeps ==
    ASSUME LiveStalls = FALSE, MaxCrashes <= MaxStalls,
           TypeOK, StallsOK, JobsKept,
           NEW d \in Entries, Stall(d), UNCHANGED <<rec, req>>
    PROVE  JobsKept'
<1> USE DEF TypeOK
<1>1. UNCHANGED <<file, job, exec>>
  BY DEF Stall, storeVars
<1>2. queue[d].stalls + 1 <= MaxStalls
  <2>1. Abandoned(d) /\ queue[d].stalls \in Nat
    BY EntryFile DEF Stall, StallEntry, Abandoned
  <2>2. queue[d].stalls < crashes /\ crashes <= MaxCrashes
    BY <2>1 DEF StallsOK
  <2> QED
    BY <2>1, <2>2, CrashAssumption, QueueAssumption
<1>3. \A e \in Entries : queue'[e].file = queue[e].file /\ (Live(e) => Live(e)')
  BY <1>2, EntryFile DEF Stall, StallEntry, QueueTypeOK, Live
<1>4. ASSUME NEW e \in Entries, Open(e)
      PROVE  Open(e)'
  BY <1>1, <1>3, <1>4, OpenStays DEF Open, HasJob
<1> QED
  BY <1>1, <1>3, <1>4, EntriesWait DEF OpenEntriesStay

\* A new entry is open: nobody executes it.
LEMMA NewEntryIsOpen ==
    ASSUME QueueTypeOK, LockOK, NEW d \in Entries, NEW f \in Files,
           AddEntry(d, f), UNCHANGED <<job, exec>>
    PROVE  OpenEntriesStay /\ queue'[d].file = f /\ Open(d)'
<1>1. /\ queue[d].state = "none"
      /\ queue'[d].state = "waiting"
      /\ queue'[d].file = f
  BY DEF AddEntry, NextEntry, QueueTypeOK, NoEntry
<1>2. \A q \in Procs : exec[q].entry # d
  BY <1>1, QueueAssumption DEF LockOK, Holds, Entries
<1>3. Open(d)'
  BY <1>1, <1>2 DEF Open, Live
<1>4. \A e \in Entries : e # d => queue'[e] = queue[e]
  BY DEF AddEntry, QueueTypeOK
<1>5. ASSUME NEW e \in Entries, Open(e)
      PROVE  queue'[e].file = queue[e].file /\ Open(e)'
  <2>1. e # d
    BY <1>1, <1>5 DEF Open, Live
  <2> QED
    BY <1>4, <1>5, <2>1, OpenStays DEF Open, Live, HasJob
<1> QED
  BY <1>1, <1>3, <1>5 DEF OpenEntriesStay

\* The dead letter queue: failed entries go back to the queue.
LEMMA RepairKeeps ==
    ASSUME TypeOK, JobsKept, Keeps, NEW d \in Entries,
           RetryFailedJob(d) \/ RemoveFailedJob(d),
           UNCHANGED <<exec, req>>
    PROVE  JobsKept'
<1> USE DEF TypeOK
<1>1. RetryFailedJob(d)
  <2>1. RemoveFailedJob(d) => queue'[d].state = "removed"
    BY EntryFile DEF RemoveFailedJob, QueueTypeOK
  <2> QED
    BY <2>1 DEF Keeps, RemoveFailedJob
<1>2. UNCHANGED <<file, job, rec>>
  BY <1>1 DEF RetryFailedJob, storeVars
<1>3. queue[d].state = "failed" /\ \A e \in Entries : e # d => queue'[e] = queue[e]
  BY <1>1 DEF RetryFailedJob, QueueTypeOK
<1>4. ASSUME NEW e \in Entries, Open(e)
      PROVE  queue'[e].file = queue[e].file /\ Open(e)'
  BY <1>2, <1>3, <1>4, OpenStays DEF Open, Live, HasJob
<1> QED
  BY <1>2, <1>4, EntriesWait DEF OpenEntriesStay

-----------------------------------------------------------------------------
(* The recovery.                                                             *)

LEMMA RecoveryStepKeeps ==
    ASSUME Faulty \subseteq {"storage"}, TypeOK, LockOK, TakenOK, JobsKept,
           NEW p \in Procs, RecoveryStep(p), UNCHANGED <<exec, req>>
    PROVE  JobsKept'
<1> USE DEF TypeOK
<1>0. ~MayFail("db") /\ ~MayFail("queue")
  BY DEF MayFail
<1>1. \A q \in Procs : rec[q].pc # "enqueue" => rec[q].cur \notin Files
  BY NilAssumption DEF RecTypeOK, Recs
<1>2. CASE ResetJob(p)
  <2>1. PICK f \in rec[p].todo :
            /\ SetJobStatus(f, "PENDING")
            /\ rec' = [rec EXCEPT ![p] = [pc |-> "enqueue", todo |-> @.todo \ {f},
                                          cur |-> f]]
    BY <1>0, <1>2 DEF ResetJob, After
  <2>2. /\ f \in Files /\ rec[p].pc = "loop"
        /\ UNCHANGED <<file, queue>>
    BY <1>2 DEF ResetJob, RecTypeOK, Recs
  <2>3. rec'[p].cur = f /\ \A q \in Procs : q # p => rec'[q] = rec[q]
    BY <2>1 DEF RecTypeOK
  <2>4. WillDecide(f)'
    BY <2>3 DEF WillDecide
  <2>5. ASSUME NEW g \in Files, g # f
        PROVE  Undecided(g)' => WillDecide(g)'
    <3>1. job'[g] = job[g]
      BY <2>1, <2>5 DEF SetJobStatus, StoreTypeOK
    <3>2. Undecided(g)' => Undecided(g)
      BY <2>2, <3>1 DEF Undecided, HasJob, HasFile, At_
    <3>3. \A q \in Procs : rec[q].cur = g => rec'[q].cur = g
      BY <1>1, <2>2, <2>3, <2>5
    <3> QED
      BY <2>2, <3>1, <3>2, <3>3, TablesWait DEF HasJob
  <2> QED
    BY <2>4, <2>5 DEF JobsKept
<1>3. CASE Reenqueue(p)
  <2>1. PICK f \in Files : rec[p].cur = f
    BY <1>3 DEF Reenqueue, RecTypeOK, Recs
  <2>2. PICK d \in Entries : AddEntry(d, f)
    BY <1>3, <2>1 DEF Reenqueue
  <2>3. UNCHANGED <<file, job>> /\ \A q \in Procs : q # p => rec'[q] = rec[q]
    BY <1>3 DEF Reenqueue, storeVars, RecTypeOK
  <2>4. OpenEntriesStay /\ queue'[d].file = f /\ Open(d)'
    BY <2>2, <2>3, NewEntryIsOpen
  <2>5. WillDecide(f)'
    BY <2>4 DEF WillDecide
  <2>6. ASSUME NEW g \in Files, g # f
        PROVE  Undecided(g)' => WillDecide(g)'
    <3>1. Undecided(g)' => Undecided(g)
      BY <2>3 DEF Undecided, HasJob, HasFile, At_
    <3>2. \A q \in Procs : rec[q].cur = g => rec'[q].cur = g
      BY <2>1, <2>3, <2>6
    <3> QED
      BY <2>3, <2>4, <3>1, <3>2, DecisionWaits DEF OpenEntriesStay
  <2> QED
    BY <2>5, <2>6 DEF JobsKept
<1>4. CASE Scan(p) \/ SkipJob(p) \/ RecoveryDone(p)
  <2>1. UNCHANGED <<file, job, queue>> /\ rec[p].pc # "enqueue"
    BY <1>4 DEF Scan, SkipJob, RecoveryDone, storeVars
  <2>2. \A q \in Procs : q # p => rec'[q] = rec[q]
    BY <1>4 DEF Scan, SkipJob, RecoveryDone, RecTypeOK
  <2>3. ASSUME NEW f \in Files
        PROVE  Undecided(f)' => WillDecide(f)'
    <3>1. Undecided(f)' => Undecided(f)
      BY <2>1 DEF Undecided, HasJob, HasFile, At_
    <3>2. \A q \in Procs : rec[q].cur = f => rec'[q].cur = f
      BY <1>1, <2>1, <2>2
    <3> QED
      BY <2>1, <3>1, <3>2, TablesWait DEF HasJob
  <2> QED
    BY <2>3 DEF JobsKept
<1>5. CASE ReenqueueFails(p)
  BY <1>0, <1>5 DEF ReenqueueFails
<1> QED
  BY <1>2, <1>3, <1>4, <1>5 DEF RecoveryStep

-----------------------------------------------------------------------------
(* The API.                                                                  *)

\* Request r takes a step that is about no job: it is, and will be, at neither
\* of the calls that are.
LEMMA RequestKeeps ==
    ASSUME TypeOK, TakenOK, JobsKept, UNCHANGED <<job, queue, exec, rec>>,
           \A g \in Files : file[g] # NoFile => file'[g] = file[g],
           \A g \in Files : file[g] = NoFile => ~Undecided(g)',
           NEW r \in Requests, \A s \in Requests : s # r => req'[s] = req[s],
           ~At_(r, "addJob"), req'[r].pc # "createJob"
    PROVE  JobsKept'
<1> SUFFICES ASSUME NEW f \in Files, Undecided(f)'
             PROVE  WillDecide(f)'
  BY DEF JobsKept
<1>1. file'[f] = file[f]
  OBVIOUS
<1>2. Undecided(f)
  BY <1>1 DEF Undecided, HasJob, HasFile, At_
<1>3. \A s \in Requests : At_(s, "addJob") => req'[s] = req[s]
  OBVIOUS
<1> QED
  BY <1>1, <1>2, <1>3, TablesWait DEF TypeOK, HasJob

\* A row that does not exist yet has no job, nor is one about to be created.
LEMMA NoFileNoJob ==
    ASSUME RowsOK, ReqOK, NEW f \in Files, file[f] = NoFile
    PROVE  /\ ~HasJob(f)
           /\ \A r \in Requests : req[r].file = f => ~At_(r, "createJob")
<1>1. ~HasFile(f) /\ ~Created(f)
  BY DEF HasFile, Created, NoFile, NoRow
<1>2. ~HasJob(f)
  BY <1>1 DEF RowsOK, HasJob, NoJob, NoRow
<1>3. \A r \in Requests : req[r].file = f => ~At_(r, "createJob")
  BY <1>1 DEF ReqOK, Warranted, Accepted, At_
<1> QED
  BY <1>2, <1>3

LEMMA AcceptKeeps ==
    ASSUME TypeOK, RowsOK, ReqOK, TakenOK, JobsKept,
           NEW p \in Procs, Accept(p), UNCHANGED <<exec, rec>>
    PROVE  JobsKept'
<1> USE DEF TypeOK
<1> SUFFICES ASSUME NEW r \in Requests,
                    \/ BeginUpload(r, p) \/ PresignUpload(r, p)
                    \/ BeginComplete(r, p) \/ BeginDelete(r, p)
             PROVE  JobsKept'
  BY DEF Accept
<1>1. req[r].pc = "new" /\ UNCHANGED <<job, queue>>
  BY DEF BeginUpload, PresignUpload, BeginComplete, BeginDelete, Begin, At_,
     storeVars
<1>2. /\ \A s \in Requests : s # r => req'[s] = req[s]
      /\ req'[r].pc \in {"putUpload", "end", "statObject", "delUpload"}
  BY DEF BeginUpload, PresignUpload, BeginComplete, BeginDelete, Begin, EndReq,
     EndedReq, NewReq, ServiceTypeOK
<1>3. \A g \in Files : file[g] # NoFile => file'[g] = file[g]
  BY DEF BeginUpload, PresignUpload, BeginComplete, BeginDelete, storeVars,
     StoreTypeOK
<1>4. ASSUME NEW g \in Files, file[g] = NoFile
      PROVE  ~Undecided(g)'
  <2>1. ~HasJob(g)'
    BY <1>1, <1>4, NoFileNoJob DEF HasJob
  <2>2. \A s \in Requests : req'[s].file = g => req'[s].pc # "createJob"
    BY <1>2, <1>4, NoFileNoJob DEF At_
  <2> QED
    BY <2>1, <2>2 DEF Undecided, At_
<1> QED
  BY <1>1, <1>2, <1>3, <1>4, RequestKeeps DEF At_

\* The row of f is created or updated; the request goes on to add its entry.
LEMMA RowThenEntryKeeps ==
    ASSUME Faulty \subseteq {"storage"}, TypeOK, TakenOK, JobsKept,
           NEW r \in Requests, CreateFile(r) \/ MarkUploaded(r),
           UNCHANGED <<exec, rec>>
    PROVE  JobsKept'
<1> USE DEF TypeOK
<1>1. PICK f \in Files : req[r].file = f /\ req[r] \in BusyReqs
  BY BusyRequest DEF CreateFile, MarkUploaded, At_
<1>2. ~At_(r, "addJob") /\ UNCHANGED <<job, queue>>
  BY DEF CreateFile, MarkUploaded, At_
<1>3. req' = [req EXCEPT ![r].pc = "addJob"]
  BY DEF CreateFile, MarkUploaded, ReqGoto, After, MayFail
<1>4. /\ req'[r].pc = "addJob" /\ req'[r].file = f
      /\ \A s \in Requests : s # r => req'[s] = req[s]
  BY <1>1, <1>3 DEF ServiceTypeOK, BusyReqs
<1>5. WillDecide(f)'
  BY <1>4 DEF WillDecide, At_
<1>6. ASSUME NEW g \in Files, g # f
      PROVE  Undecided(g)' => WillDecide(g)'
  <2>1. file'[g] = file[g]
    BY <1>1, <1>6 DEF CreateFile, MarkUploaded, SetFileStatus, StoreTypeOK
  <2>2. Undecided(g)' => Undecided(g)
    BY <1>2, <1>4, <2>1 DEF Undecided, HasJob, HasFile, At_
  <2>3. \A s \in Requests : At_(s, "addJob") => req'[s] = req[s]
    BY <1>2, <1>4
  <2> QED
    BY <1>2, <2>1, <2>2, <2>3, TablesWait DEF HasJob
<1> QED
  BY <1>5, <1>6 DEF JobsKept

LEMMA AddJobKeeps ==
    ASSUME TypeOK, LockOK, TakenOK, JobsKept,
           NEW r \in Requests, AddJob(r), UNCHANGED <<exec, rec>>
    PROVE  JobsKept'
<1> USE DEF TypeOK
<1>1. PICK f \in Files : req[r].file = f /\ req[r] \in BusyReqs
  BY BusyRequest DEF AddJob, At_
<1>2. PICK d \in Entries : AddEntry(d, f)
  BY <1>1 DEF AddJob
<1>3. /\ UNCHANGED <<file, job>>
      /\ \A s \in Requests : s # r => req'[s] = req[s]
      /\ req'[r].file \in {f, Nil}
  BY <1>1 DEF AddJob, storeVars, ReqGoto, EndReq, EndedReq, NewReq,
     ServiceTypeOK, BusyReqs
<1>4. OpenEntriesStay /\ queue'[d].file = f /\ Open(d)'
  BY <1>2, <1>3, NewEntryIsOpen
<1>5. WillDecide(f)'
  BY <1>4 DEF WillDecide
<1>6. ASSUME NEW g \in Files, g # f
      PROVE  Undecided(g)' => WillDecide(g)'
  <2>1. \A s \in Requests : req[s].file = g \/ req'[s].file = g => s # r
    BY <1>1, <1>3, <1>6, NilAssumption
  <2>2. Undecided(g)' => Undecided(g)
    BY <1>3, <2>1 DEF Undecided, HasJob, HasFile, At_
  <2> QED
    BY <1>3, <1>4, <2>1, <2>2, DecisionWaits DEF OpenEntriesStay
<1> QED
  BY <1>5, <1>6 DEF JobsKept

LEMMA CreateJobKeeps ==
    ASSUME TypeOK, TakenOK, JobsKept,
           NEW r \in Requests, CreateJob(r), UNCHANGED <<exec, rec>>
    PROVE  JobsKept'
<1> USE DEF TypeOK
<1>1. PICK f \in Files : req[r].file = f
  BY BusyRequest DEF CreateJob, At_
<1>2. /\ At_(r, "createJob") /\ HasFile(f) /\ ~HasJob(f)
      /\ job' = [job EXCEPT ![f] = NewJob]
      /\ UNCHANGED <<file, queue>>
  BY <1>1 DEF CreateJob
<1>3. \A s \in Requests : s # r => req'[s] = req[s]
  BY DEF CreateJob, EndReq, ServiceTypeOK
<1>4. req'[r].pc = "end"
  BY DEF CreateJob, EndReq, EndedReq, NewReq, ServiceTypeOK
<1>5. \A g \in Files : g # f => job'[g] = job[g]
  BY <1>2 DEF StoreTypeOK
<1>6. \A g \in Files : HasJob(g) => job'[g].status \notin NoRow
  BY <1>2, <1>5 DEF HasJob
<1>7. Undecided(f)
  BY <1>1, <1>2 DEF Undecided, HasJob, NoRow
<1>8. ASSUME NEW g \in Files
      PROVE  Undecided(g)' => Undecided(g)
  BY <1>2, <1>3, <1>4, <1>5, <1>7, <1>8 DEF Undecided, HasJob, HasFile, At_
<1>9. \A s \in Requests : At_(s, "addJob") => req'[s] = req[s]
  BY <1>2, <1>3 DEF At_
<1> QED
  BY <1>2, <1>6, <1>8, <1>9, TablesWait DEF JobsKept

\* A File row and its Job row are deleted.
LEMMA RowDeletedKeeps ==
    ASSUME TypeOK, TakenOK, JobsKept, NEW f \in Files, DeleteFileRow(f),
           UNCHANGED <<queue, exec, rec>>,
           \A s \in Requests : At_(s, "addJob") => req'[s] = req[s],
           \A s \in Requests : req'[s].pc = "createJob" => req'[s] = req[s]
    PROVE  JobsKept'
<1> USE DEF TypeOK
<1>1. ~Undecided(f)'
  BY DEF DeleteFileRow, StoreTypeOK, DeletedFile, NoRow, Undecided, HasFile
<1>2. ASSUME NEW g \in Files, g # f
      PROVE  Undecided(g)' => WillDecide(g)'
  <2>1. file'[g] = file[g] /\ job'[g] = job[g]
    BY <1>2 DEF DeleteFileRow, StoreTypeOK
  <2>2. Undecided(g)' => Undecided(g)
    BY <2>1 DEF Undecided, HasJob, HasFile, At_
  <2> QED
    BY <2>1, <2>2, TablesWait DEF HasJob
<1> QED
  BY <1>1, <1>2 DEF JobsKept

LEMMA ServiceStepKeeps ==
    ASSUME Faulty \subseteq {"storage"}, TypeOK, RowsOK, ReqOK, LockOK, TakenOK,
           JobsKept, NEW r \in Requests, ServiceStep(r), UNCHANGED <<exec, rec>>
    PROVE  JobsKept'
<1> USE DEF TypeOK
<1>1. CASE DeleteRow(r)
  <2>1. PICK f \in Files : req[r].file = f
    BY <1>1, BusyRequest DEF DeleteRow, At_
  <2>2. /\ \A s \in Requests : s # r => req'[s] = req[s]
        /\ req'[r].pc = "end"
    BY <1>1 DEF DeleteRow, EndReq, EndedReq, NewReq, ServiceTypeOK
  <2> QED
    BY <1>1, <2>1, <2>2, RowDeletedKeeps DEF DeleteRow, At_
<1>2. CASE \/ PutUpload(r) \/ StatObject(r) \/ DelUpload(r) \/ DelProcessed(r)
           \/ ReqFails(r)
  <2>1. UNCHANGED <<file, job, queue>>
    BY <1>2 DEF PutUpload, StatObject, DelUpload, DelProcessed, ReqFails,
       storeVars
  <2>2. ~At_(r, "addJob")
    BY <1>2 DEF PutUpload, StatObject, DelUpload, DelProcessed, ReqFails, At_,
       MayFail
  <2>3. /\ \A s \in Requests : s # r => req'[s] = req[s]
        /\ req'[r].pc # "createJob"
    <3>1. CASE EndReq(r)
      BY <3>1 DEF EndReq, EndedReq, NewReq, ServiceTypeOK
    <3>2. CASE ~EndReq(r)
      <4>1. PICK pc \in {"createFile", "markUploaded", "delProcessed",
                        "deleteRow"} : req' = [req EXCEPT ![r].pc = pc]
        BY <1>2, <3>2 DEF PutUpload, StatObject, DelUpload, AfterDelUpload,
           DelProcessed, ReqFails, ReqGoto, After
      <4>2. req[r] \in BusyReqs
        BY <1>2, BusyRequest DEF PutUpload, StatObject, DelUpload,
           DelProcessed, ReqFails, At_
      <4> QED
        BY <4>1, <4>2 DEF ServiceTypeOK, BusyReqs
    <3> QED
      BY <3>1, <3>2
  <2>4. ASSUME NEW g \in Files, file[g] = NoFile
        PROVE  ~Undecided(g)'
    BY <2>1, <2>4 DEF NoFile, NoRow, Undecided, HasFile
  <2> QED
    BY <2>1, <2>2, <2>3, <2>4, RequestKeeps
<1> QED
  BY <1>1, <1>2, RowThenEntryKeeps, AddJobKeeps, CreateJobKeeps DEF ServiceStep

-----------------------------------------------------------------------------
(* The cleanup, and crashes.                                                 *)

LEMMA TablesKeep ==
    ASSUME TypeOK, TakenOK, JobsKept,
           UNCHANGED <<file, job, queue, exec, rec, req>>
    PROVE  JobsKept'
<1> SUFFICES ASSUME NEW f \in Files
             PROVE  Undecided(f)' => WillDecide(f)'
  BY DEF JobsKept
<1>1. Undecided(f)' => Undecided(f)
  BY DEF Undecided, HasJob, HasFile, At_
<1> QED
  BY <1>1, TablesWait DEF TypeOK, HasJob

LEMMA CleaningKeeps ==
    ASSUME TypeOK, TakenOK, JobsKept, Cleaning
    PROVE  JobsKept'
<1> USE DEF TypeOK
<1>1. UNCHANGED <<queue, exec, rec, req>>
  BY DEF Cleaning, recoveryVars, serviceVars
<1>2. ASSUME NEW p \in Procs, DeleteExpiredRow(p)
      PROVE  JobsKept'
  <2>1. PICK f \in Files : pass[p].cur = f
    BY <1>2, BusyPass DEF DeleteExpiredRow, DeletePcs
  <2> QED
    BY <1>1, <1>2, <2>1, RowDeletedKeeps DEF DeleteExpiredRow
<1>3. (\E p \in Procs : DeleteExpiredRow(p)) \/ UNCHANGED <<file, job>>
  BY DEF Cleaning, Expire, HandleCleanup, CleanupStep, NextExpired,
     DelExpiredUpload, DelExpiredProcessed, VisitFails, CleanupDone, storeVars
<1> QED
  BY <1>1, <1>2, <1>3, TablesKeep

\* The recovery's scan fails only with the database.
LEMMA NoScanFails ==
    ASSUME Faulty \subseteq {"storage"}, NEW p
    PROVE  ~ScanFails(p)
BY DEF ScanFails, MayFail

\* Executions that are cut short only open their entries.
LEMMA CrashKeeps ==
    ASSUME TypeOK, JobsKept, NEW p \in Procs, Crash(p), Spares
    PROVE  JobsKept'
<1> USE DEF TypeOK
<1>1. UNCHANGED <<file, job, queue>>
  BY DEF Crash, Stops, storeVars
<1>2. ~HandsOver(p)
  BY DEF Crash, Stops, Spares
<1>3. ASSUME NEW e \in Entries, Open(e)
      PROVE  queue'[e].file = queue[e].file /\ Open(e)'
  <2>1. \A q \in Procs : exec'[q].entry = e => exec'[q] = exec[q]
    BY QueueAssumption DEF Crash, Stops, ExecCrash, ExecTypeOK, IdleExec, Entries
  <2> QED
    BY <1>1, <1>3, <2>1, OpenStays DEF Open, Live, HasJob
<1>4. ASSUME NEW f \in Files
      PROVE  Undecided(f)' => WillDecide(f)'
  <2>1. Undecided(f)' => Undecided(f)
    BY <1>1 DEF Undecided, HasJob, HasFile, At_, Crash, Stops,
       ReqCrash, EndedReq, NewReq
  <2>2. ASSUME NEW q \in Procs, rec[q].cur = f
        PROVE  rec'[q].cur = f
    <3>1. rec[q].pc = "enqueue"
      BY <2>2, NilAssumption DEF RecTypeOK, Recs
    <3> QED
      BY <1>2, <2>2, <3>1 DEF HandsOver, Crash, Stops, RecCrash, RecTypeOK
  <2>3. ASSUME NEW r \in Requests, At_(r, "addJob"), req[r].file = f,
               Undecided(f)
        PROVE  req'[r] = req[r]
    BY <1>2, <2>3 DEF HandsOver, Crash, Stops, ReqCrash
  <2> QED
    BY <1>1, <1>3, <2>1, <2>2, <2>3, DecisionWaits
<1> QED
  BY <1>4 DEF JobsKept

-----------------------------------------------------------------------------
(* The stalls of an entry.                                                   *)

\* No crash, and an active entry that is abandoned was so before.
LEMMA StallsWait ==
    ASSUME crashes \in Nat, StallsOK, crashes' = crashes,
           \A e \in Entries :
               \/ /\ queue'[e].state # "active"
                  /\ queue'[e].stalls \in {0, queue[e].stalls}
               \/ /\ queue'[e] = queue[e]
                  /\ queue[e].state = "active" /\ exec[queue[e].owner].entry = e
                     => exec'[queue[e].owner].entry = e
    PROVE  StallsOK'
<1> SUFFICES ASSUME NEW e \in Entries
             PROVE  /\ queue'[e].state = "active" => queue'[e].owner \in Procs
                    /\ queue'[e].stalls <= crashes
                    /\ Abandoned(e)' => queue'[e].stalls < crashes
  BY DEF StallsOK
<1>1. CASE queue'[e].state # "active" /\ queue'[e].stalls \in {0, queue[e].stalls}
  BY <1>1 DEF StallsOK, Abandoned
<1>2. CASE /\ queue'[e] = queue[e]
           /\ queue[e].state = "active" /\ exec[queue[e].owner].entry = e
              => exec'[queue[e].owner].entry = e
  BY <1>2 DEF StallsOK, Abandoned
<1> QED
  BY <1>1, <1>2

LEMMA TakeStalls ==
    ASSUME TypeOK, StallsOK, NEW p \in Procs, NEW d \in Entries, Take(p, d),
           crashes' = crashes
    PROVE  StallsOK'
<1> USE DEF TypeOK
<1>1. /\ exec'[p].entry = d
      /\ \A q \in Procs : q # p => exec'[q] = exec[q]
      /\ exec[p].pc = "idle"
  BY DEF Take, At, ExecTypeOK, IdleExec
<1>2. /\ queue'[d].owner = p /\ queue'[d].stalls = queue[d].stalls
      /\ \A e \in Entries : e # d => queue'[e] = queue[e]
  BY EntryFile DEF Take, TakeEntry, QueueTypeOK
<1>3. \A e \in Entries : exec[p].entry # e
  BY <1>1, Executes
<1> SUFFICES ASSUME NEW e \in Entries
             PROVE  /\ queue'[e].state = "active" => queue'[e].owner \in Procs
                    /\ queue'[e].stalls <= crashes
                    /\ Abandoned(e)' => queue'[e].stalls < crashes
  BY DEF StallsOK
<1>4. CASE e = d
  BY <1>1, <1>2, <1>4 DEF StallsOK, Abandoned
<1>5. CASE e # d
  BY <1>1, <1>2, <1>3, <1>5 DEF StallsOK, Abandoned
<1> QED
  BY <1>4, <1>5

\* A stall uses up what the crash allowed.
LEMMA StallStalls ==
    ASSUME LiveStalls = FALSE, TypeOK, StallsOK, NEW d \in Entries, Stall(d),
           crashes' = crashes
    PROVE  StallsOK'
<1> USE DEF TypeOK
<1>1. Abandoned(d) /\ queue[d].stalls \in Nat /\ queue[d].stalls < crashes
  BY EntryFile DEF Stall, StallEntry, Abandoned, StallsOK
<1>2. /\ exec' = exec
      /\ queue'[d].state # "active"
      /\ queue'[d].stalls = queue[d].stalls + 1
      /\ \A e \in Entries : e # d => queue'[e] = queue[e]
  BY EntryFile DEF Stall, StallEntry, QueueTypeOK
<1> SUFFICES ASSUME NEW e \in Entries
             PROVE  /\ queue'[e].state = "active" => queue'[e].owner \in Procs
                    /\ queue'[e].stalls <= crashes
                    /\ Abandoned(e)' => queue'[e].stalls < crashes
  BY DEF StallsOK
<1>3. CASE e = d
  BY <1>1, <1>2, <1>3 DEF Abandoned
<1>4. CASE e # d
  BY <1>2, <1>4 DEF StallsOK, Abandoned
<1> QED
  BY <1>3, <1>4

LEMMA ProcessStepStalls ==
    ASSUME "queue" \notin Faulty, TypeOK, LockOK, TakenOK, StallsOK,
           NEW p \in Procs, ProcessStep(p), crashes' = crashes
    PROVE  StallsOK'
<1> USE DEF TypeOK
<1>1. CASE Ack(p) \/ Nack(p) \/ ReportLost(p)
  <2>1. exec[p].pc # "idle"
    BY <1>1 DEF Ack, Nack, ReportLost, At
  <2>2. PICK d \in Entries : exec[p].entry = d
    BY <2>1 DEF TakenOK
  <2>3. Holds(p, d)
    BY <2>1, <2>2, EntryOfExecution
  <2>4. \A q \in Procs : q # p => exec'[q] = exec[q]
    BY <1>1 DEF Ack, Nack, ReportLost, ExecTypeOK
  <2>5. CompleteEntry(d) \/ FailEntry(d)
    BY <1>1, <2>2, <2>3 DEF Ack, Nack, ReportLost, MayFail
  <2>6. /\ queue'[d].state # "active"
        /\ queue'[d].stalls = queue[d].stalls
        /\ \A e \in Entries : e # d => queue'[e] = queue[e]
    BY <2>3, <2>5, EntryFile DEF CompleteEntry, FailEntry, QueueTypeOK, Holds
  <2>7. ASSUME NEW e \in Entries, e # d, queue[e].state = "active",
               exec[queue[e].owner].entry = e
        PROVE  exec'[queue[e].owner].entry = e
    BY <2>2, <2>4, <2>7 DEF StallsOK
  <2> QED
    BY <2>6, <2>7, StallsWait
<1>2. CASE ~(Ack(p) \/ Nack(p) \/ ReportLost(p))
  <2>1. queue' = queue /\ \A q \in Procs : exec'[q].entry = exec[q].entry
    BY <1>2, ProcessStepEntry
  <2>2. \A e \in Entries : queue[e].state = "active" => queue[e].owner \in Procs
    BY DEF StallsOK
  <2> QED
    BY <2>1, <2>2, StallsWait
<1> QED
  BY <1>1, <1>2

\* A step that changes entries which are not active.
LEMMA IdleEntryStalls ==
    ASSUME TypeOK, StallsOK, NEW d \in Entries, exec' = exec, crashes' = crashes,
           \/ \E f \in Files : AddEntry(d, f)
           \/ RetryFailedJob(d) \/ RemoveFailedJob(d)
    PROVE  StallsOK'
<1>1. /\ queue'[d].state # "active"
      /\ queue'[d].stalls \in {0, queue[d].stalls}
  <2>1. CASE \E f \in Files : AddEntry(d, f)
    BY <2>1 DEF TypeOK, QueueTypeOK, AddEntry, NoEntry
  <2>2. CASE RetryFailedJob(d) \/ RemoveFailedJob(d)
    BY <2>2, EntryFile DEF TypeOK, QueueTypeOK, RetryFailedJob, RemoveFailedJob
  <2> QED
    BY <2>1, <2>2
<1>2. \A e \in Entries : e # d => queue'[e] = queue[e]
  BY DEF TypeOK, QueueTypeOK, AddEntry, RetryFailedJob, RemoveFailedJob
<1> QED
  BY <1>1, <1>2, StallsWait DEF TypeOK

LEMMA StallsStep ==
    ASSUME LiveStalls = FALSE, Faulty \subseteq {"storage"}, TypeOK, LockOK,
           TakenOK, StallsOK, [Next]_vars
    PROVE  StallsOK'
<1> USE DEF TypeOK
<1> "queue" \notin Faulty
  OBVIOUS
<1>1. ASSUME UNCHANGED <<queue, exec, crashes>>
      PROVE  StallsOK'
  BY <1>1, StallsWait
<1>2. CASE Processing
  BY <1>2, ProcessStepStalls, TakeStalls, StallStalls DEF Processing,
     ProcessorNext, platformVars
<1>3. CASE Recovering
  <2>1. exec' = exec /\ crashes' = crashes
    BY <1>3 DEF Recovering, platformVars
  <2>2. ASSUME NEW p \in Procs, Reenqueue(p)
        PROVE  StallsOK'
    <3>1. rec[p].cur \in Files
      BY <2>2 DEF Reenqueue, RecTypeOK, Recs
    <3> QED
      BY <2>1, <2>2, <3>1, IdleEntryStalls DEF Reenqueue
  <2>3. ASSUME NEW p \in Procs, RecoveryStep(p), ~Reenqueue(p)
        PROVE  queue' = queue
    BY <2>3 DEF RecoveryStep, Scan, ResetJob, SkipJob, ReenqueueFails,
       RecoveryDone
  <2> QED
    BY <1>1, <1>3, <2>1, <2>2, <2>3, IdleEntryStalls DEF Recovering, RecoveryNext
<1>4. CASE Serving
  <2>1. exec' = exec /\ crashes' = crashes
    BY <1>4 DEF Serving, platformVars
  <2>2. ASSUME NEW r \in Requests, AddJob(r)
        PROVE  StallsOK'
    <3>1. req[r].file \in Files
      BY <2>2, BusyRequest DEF AddJob, At_
    <3> QED
      BY <2>1, <2>2, <3>1, IdleEntryStalls DEF AddJob
  <2>3. (\E r \in Requests : AddJob(r)) \/ queue' = queue
    BY <1>4 DEF Serving, Accept, BeginUpload, PresignUpload, BeginComplete,
       BeginDelete, ServiceStep, PutUpload, CreateFile, CreateJob, StatObject,
       MarkUploaded, DelUpload, DelProcessed, DeleteRow, ReqFails, ClientStep,
       ClientPut, ExpireUrl
  <2> QED
    BY <1>1, <2>1, <2>2, <2>3
<1>5. CASE Cleaning
  BY <1>1, <1>5 DEF Cleaning, platformVars
<1>6. ASSUME NEW p \in Procs, Crash(p)
      PROVE  StallsOK'
  <2>1. queue' = queue /\ crashes' = crashes + 1 /\ crashes < MaxCrashes
    BY <1>6 DEF Crash, Stops
  <2>2. \A e \in Entries : queue[e].stalls \in Nat
    BY DEF QueueTypeOK, QueueEntries, NoEntry
  <2> QED
    BY <2>1, <2>2, CrashAssumption DEF StallsOK, Abandoned
<1>7. CASE (\E p \in Procs : Restart(p)) \/ UNCHANGED vars
  BY <1>1, <1>7 DEF Restart, vars, platformVars
<1> QED
  BY <1>2, <1>3, <1>4, <1>5, <1>6, <1>7, NoScanFails DEF Next

-----------------------------------------------------------------------------
(* All steps.                                                                *)

LEMMA JobsStep ==
    ASSUME LiveStalls = FALSE, Faulty \subseteq {"storage"},
           MaxCrashes <= MaxStalls,
           Inv, LockOK, TakenOK, StallsOK, JobsKept,
           [Next]_vars, [Spares]_vars, [Keeps]_vars
    PROVE  JobsKept'
<1> USE DEF Inv
<1>1. UNCHANGED <<file, job, queue, exec, rec, req>> => JobsKept'
  BY TablesKeep DEF TypeOK
<1>2. CASE Processing
  <2>1. UNCHANGED <<rec, req>>
    BY <1>2 DEF Processing, recoveryVars, serviceVars
  <2> QED
    BY <1>2, <2>1, ProcessStepKeeps, TakeKeeps, StallKeeps DEF Processing,
       ProcessorNext
<1>3. CASE Recovering
  <2>1. UNCHANGED <<exec, req>>
    BY <1>3 DEF Recovering, serviceVars
  <2>2. ASSUME NEW e \in Entries, RetryFailedJob(e) \/ RemoveFailedJob(e)
        PROVE  JobsKept'
    <3>1. queue' # queue
      BY <2>2, EntryFile DEF TypeOK, RetryFailedJob, RemoveFailedJob, QueueTypeOK
    <3>2. Keeps
      BY <3>1 DEF vars
    <3> QED
      BY <2>1, <2>2, <3>2, RepairKeeps
  <2> QED
    BY <1>3, <2>1, <2>2, RecoveryStepKeeps DEF Recovering, RecoveryNext
<1>4. CASE Serving
  <2>1. UNCHANGED <<exec, rec>>
    BY <1>4 DEF Serving, recoveryVars
  <2>2. ASSUME NEW f \in Files, ClientStep(f)
        PROVE  JobsKept'
    BY <1>1, <2>1, <2>2 DEF ClientStep, ClientPut, ExpireUrl, serviceVars,
       storeVars
  <2> QED
    BY <1>4, <2>1, <2>2, AcceptKeeps, ServiceStepKeeps DEF Serving, StoreOK
<1>5. CASE Cleaning
  BY <1>5, CleaningKeeps
<1>6. ASSUME NEW p \in Procs, Crash(p)
      PROVE  JobsKept'
  <2>1. up' # up
    BY <1>6 DEF Crash, Stops
  <2>2. Spares
    BY <2>1 DEF vars, platformVars
  <2> QED
    BY <1>6, <2>2, CrashKeeps
<1>7. CASE (\E p \in Procs : Restart(p)) \/ UNCHANGED vars
  BY <1>1, <1>7 DEF Restart, vars, storeVars, recoveryVars, serviceVars
<1> QED
  BY <1>2, <1>3, <1>4, <1>5, <1>6, <1>7, NoScanFails DEF Next

LEMMA JobsInit == Init => StallsOK /\ JobsKept
<1> SUFFICES ASSUME Init
             PROVE  StallsOK /\ JobsKept
  OBVIOUS
<1>1. StallsOK
  BY CrashAssumption DEF Init, QueueInit, NoEntry, StallsOK, Abandoned
<1>2. JobsKept
  BY DEF Init, StoreInit, NoFile, NoRow, JobsKept, Undecided, HasFile
<1> QED
  BY <1>1, <1>2

\* The safety of the jobs: what the invariant says of a quiet file.
LEMMA QuietIsDecided ==
    ASSUME Inv, JobsKept, NEW f \in Files, Quiet(f), HasJob(f),
           file[f].status # "FAILED"
    PROVE  job[f].status \in {"COMPLETED", "FAILED"}
<1>1. HasFile(f)
  BY JobHasFile DEF Inv, StoreOK
<1>2. ~WillDecide(f)
  <2>1. \A e \in Entries : queue[e].file = f => ~Open(e)
    BY DEF Quiet, EntriesOf, Open
  <2>2. \A p \in Procs : rec[p].cur # f
    BY NilAssumption DEF Quiet, Inv, TypeOK, RecTypeOK, Recs
  <2> QED
    BY <2>1, <2>2 DEF Quiet, WillDecide
<1> QED
  BY <1>1, <1>2 DEF JobsKept, Undecided

LEMMA JobsAreKept ==
    ASSUME LiveStalls = FALSE, Faulty \subseteq {"storage"},
           MaxCrashes <= MaxStalls
    PROVE  Spec /\ CrashesSpareHandOvers /\ NobodyRemovesEntries
           => [](Inv /\ JobsKept)
<1> DEFINE IInv == LockOK /\ AbsentOK /\ TakenOK /\ FoundOK /\ StallsOK /\ JobsKept
<1>1. Init => IInv
  BY MonotoneInit, JobsInit
<1>2. Inv /\ IInv /\ [Next]_vars /\ [Spares]_vars /\ [Keeps]_vars => IInv'
  <2> SUFFICES ASSUME Inv, IInv, [Next]_vars, [Spares]_vars, [Keeps]_vars
               PROVE  IInv'
    OBVIOUS
  <2>2. TypeOK
    BY DEF Inv
  <2>3. LockOK'
    BY <2>2, LockStep
  <2>4. AbsentOK' /\ TakenOK' /\ FoundOK'
    BY <2>2, MonotoneStep
  <2>5. StallsOK'
    BY <2>2, StallsStep
  <2>6. JobsKept'
    BY JobsStep
  <2> QED
    BY <2>3, <2>4, <2>5, <2>6
<1>3. IInv => JobsKept
  OBVIOUS
<1> HIDE DEF IInv
<1> QED
  BY <1>1, <1>2, <1>3, Invariance, PTL DEF Spec, CrashesSpareHandOvers,
     NobodyRemovesEntries

\* However many files, processes, requests and crashes there are, and although
\* MinIO may fail, once a file is quiet its job is decided: by a retry of the
\* stalled entry or by the entry that a recovery added. Provided that no crash
\* hits a hand-over, an entry survives as many stalls as there are crashes,
\* locks are renewed, no entry is removed, and PostgreSQL and Redis answer.
THEOREM CrashesLoseNoJob ==
    ASSUME LiveStalls = FALSE, Faulty \subseteq {"storage"},
           MaxCrashes <= MaxStalls
    PROVE  Spec /\ CrashesSpareHandOvers /\ NobodyRemovesEntries
           => []CrashLosesNoJob
<1>1. Inv /\ JobsKept => CrashLosesNoJob
  BY QuietIsDecided DEF CrashLosesNoJob
<1> QED
  BY <1>1, JobsAreKept, PTL

-----------------------------------------------------------------------------
(* One process and one crash. Nothing has to be assumed of the behaviours:   *)
(* the first recovery finds no job, because requests are accepted only after *)
(* it, and an upload, unlike a completeUpload, hands over a job that has no  *)
(* row yet.                                                                  *)

\* Before the first crash recovery finds nothing.
FreshOK ==
    crashes = 0 => \A p \in Procs :
        /\ rec[p].todo = {}
        /\ rec[p].pc # "enqueue"
        /\ rec[p].pc # "done" =>
               /\ \A r \in Requests : req[r].pc = "new"
               /\ \A f \in Files : ~HasJob(f)

UploadPcs == {"putUpload", "createFile", "addJob", "createJob"}
CompletePcs == {"statObject", "markUploaded"}

\* An upload is the only request that creates rows for its file.
UploadsOK ==
    /\ \A f \in Files : Created(f) => f \in known
    /\ \A r \in Requests : req[r].pc \notin CompletePcs
    /\ \A r \in Requests : req[r].pc \in UploadPcs =>
           /\ req[r].file \in known
           /\ req[r].pc # "createJob" => ~HasJob(req[r].file)
           /\ \A s \in Requests : s # r /\ req[s].pc \in UploadPcs =>
                  req[s].file # req[r].file

\* Only createJob creates a Job row.
LEMMA JobCreated ==
    ASSUME TypeOK, [Next]_vars, NEW f \in Files, ~HasJob(f), HasJob(f)'
    PROVE  \E r \in Requests : CreateJob(r) /\ req[r].file = f
<1> USE DEF TypeOK
<1>1. job'[f] # job[f]
  BY DEF HasJob
<1>2. ~\E g \in Files : \E status : SetJobStatus(g, status)
  BY <1>1 DEF SetJobStatus, StoreTypeOK
<1>3. ~\E g \in Files : DeleteFileRow(g)
  <2> SUFFICES ASSUME NEW g \in Files, DeleteFileRow(g)
               PROVE  FALSE
    OBVIOUS
  <2>1. job'[f] = NoJob
    BY <1>1 DEF DeleteFileRow, StoreTypeOK
  <2> QED
    BY <2>1 DEF HasJob, NoJob, NoRow
<1>4. CASE Processing
  <2>1. job' # job
    BY <1>1
  <2>2. PICK p \in Procs : ProcessStep(p)
    BY <1>4, <2>1 DEF Processing, ProcessorNext, Take, Stall, storeVars
  <2>3. \/ StartJob(p) \/ CompleteJob(p) \/ FailJob(p)
        \/ SaveRetrieved(p) \/ SaveProcessed(p) \/ SaveUploaded(p)
        \/ SaveMetadata(p) \/ SaveCompleted(p)
    BY <2>1, <2>2 DEF ProcessStep, FindJob, StartFile, GetObject, ProcessFile,
       PutObject, Publish, Throw, FailFile, CatchThrows, Ack, Nack, ReportLost,
       storeVars
  <2>4. CASE StartJob(p) \/ CompleteJob(p) \/ FailJob(p)
    <3>1. exec[p].file \in Files
      BY <2>4, Busy DEF StartJob, CompleteJob, FailJob, At, BusyExecs
    <3> QED
      BY <1>2, <2>4, <3>1 DEF StartJob, CompleteJob, FailJob
  <2>5. ASSUME NEW pc, NEW c, NEW next, SaveCheckpoint(p, pc, c, next)
        PROVE  FALSE
    BY <1>1, <2>5 DEF SaveCheckpoint, StoreTypeOK
  <2> QED
    BY <2>3, <2>4, <2>5 DEF SaveRetrieved, SaveProcessed, SaveUploaded,
       SaveMetadata, SaveCompleted
<1>5. CASE Recovering
  <2>1. job' # job
    BY <1>1
  <2>2. PICK p \in Procs : ResetJob(p)
    BY <1>5, <2>1 DEF Recovering, RecoveryNext, RecoveryStep, Scan, SkipJob,
       Reenqueue, ReenqueueFails, RecoveryDone, RetryFailedJob,
       RemoveFailedJob, storeVars
  <2>3. rec[p].todo \subseteq Files
    BY <2>2 DEF RecTypeOK, Recs
  <2> QED
    BY <1>2, <2>2, <2>3 DEF ResetJob
<1>6. CASE Serving
  <2>1. job' # job
    BY <1>1
  <2>2. PICK r \in Requests : CreateJob(r) \/ DeleteRow(r)
    BY <1>6, <2>1 DEF Serving, Accept, BeginUpload, PresignUpload,
       BeginComplete, BeginDelete, ServiceStep, PutUpload, CreateFile, AddJob,
       StatObject, MarkUploaded, DelUpload, DelProcessed, ReqFails, ClientStep,
       ClientPut, ExpireUrl, storeVars
  <2>3. req[r].file \in Files
    BY <2>2, BusyRequest DEF CreateJob, DeleteRow, At_
  <2>4. CreateJob(r)
    BY <1>3, <2>2, <2>3 DEF DeleteRow
  <2>5. req[r].file = f
    BY <1>1, <2>3, <2>4 DEF CreateJob, StoreTypeOK
  <2> QED
    BY <2>4, <2>5
<1>7. CASE Cleaning
  <2>1. job' # job
    BY <1>1
  <2>2. PICK p \in Procs : DeleteExpiredRow(p)
    BY <1>7, <2>1 DEF Cleaning, Expire, HandleCleanup, CleanupStep, NextExpired,
       DelExpiredUpload, DelExpiredProcessed, VisitFails, CleanupDone, storeVars
  <2>3. pass[p].cur \in Files
    BY <2>2, BusyPass DEF DeleteExpiredRow, DeletePcs
  <2> QED
    BY <1>3, <2>2, <2>3 DEF DeleteExpiredRow
<1>8. CASE (\E p \in Procs : Crash(p) \/ ScanFails(p) \/ Restart(p)) \/ UNCHANGED vars
  BY <1>1, <1>8 DEF Crash, ScanFails, Stops, Restart, vars, storeVars
<1> QED
  BY <1>4, <1>5, <1>6, <1>7, <1>8 DEF Next

LEMMA FreshStep ==
    ASSUME Faulty \subseteq {"storage"}, \A p, q \in Procs : p = q, TypeOK,
           FreshOK, [Next]_vars
    PROVE  FreshOK'
<1> USE DEF TypeOK
<1> SUFFICES ASSUME crashes' = 0, NEW p \in Procs
             PROVE  /\ rec'[p].todo = {}
                    /\ rec'[p].pc # "enqueue"
                    /\ rec'[p].pc # "done" =>
                           /\ \A r \in Requests : req'[r].pc = "new"
                           /\ \A f \in Files : ~HasJob(f)'
  BY DEF FreshOK, HasJob
<1>1. crashes = 0 /\ ~\E q \in Procs : Crash(q)
  BY NoScanFails DEF Next, Processing, Recovering, Serving, Cleaning, Crash,
     Restart, platformVars, vars
<1>2. /\ rec[p].todo = {}
      /\ rec[p].pc # "enqueue"
      /\ rec[p].pc # "done" =>
             /\ \A r \in Requests : req[r].pc = "new"
             /\ \A f \in Files : ~HasJob(f)
  BY <1>1 DEF FreshOK
<1>3. /\ rec'[p].todo = {}
      /\ rec'[p].pc # "enqueue"
      /\ rec'[p].pc # "done" => rec[p].pc # "done"
  <2>1. CASE rec' = rec
    BY <1>2, <2>1
  <2>2. CASE rec' # rec
    <3>1. PICK q \in Procs : RecoveryStep(q)
      BY <1>1, <2>2, NoScanFails DEF Next, Processing, Recovering, Serving,
         Cleaning, Restart, recoveryVars, vars, RecoveryNext, RetryFailedJob, RemoveFailedJob
    <3>2. q = p
      OBVIOUS
    <3>3. CASE Scan(p)
      <4>1. {f \in Files : job[f].status = "PROCESSING"} = {}
        BY <1>2, <3>3 DEF Scan, HasJob, NoRow
      <4> QED
        BY <1>2, <3>3, <4>1 DEF Scan, RecTypeOK
    <3>4. CASE RecoveryDone(p)
      BY <1>2, <3>4 DEF RecoveryDone, RecTypeOK, Recs
    <3> QED
      BY <1>2, <3>1, <3>2, <3>3, <3>4 DEF RecoveryStep, ResetJob, SkipJob,
         Reenqueue, ReenqueueFails
  <2> QED
    BY <2>1, <2>2
<1>4. ASSUME rec'[p].pc # "done", NEW r \in Requests
      PROVE  req'[r].pc = "new"
  <2>1. \A s \in Requests : req[s].pc = "new"
    BY <1>2, <1>3, <1>4
  <2>2. ~\E q \in Procs : Ready(q)
    <3>1. rec[p].pc # "done"
      BY <1>3, <1>4
    <3> QED
      BY <3>1 DEF Ready
  <2>3. ~\E s \in Requests : ServiceStep(s)
    BY <2>1 DEF ServiceStep, PutUpload, CreateFile, AddJob, CreateJob,
       StatObject, MarkUploaded, DelUpload, DelProcessed, DeleteRow, ReqFails,
       At_
  <2>4. req' = req
    BY <1>1, <2>2, <2>3, NoScanFails DEF Next, Processing, Recovering, Serving,
       Cleaning, Restart, ClientStep, ClientPut, ExpireUrl, serviceVars, vars
  <2> QED
    BY <2>1, <2>4
<1>5. ASSUME rec'[p].pc # "done", NEW f \in Files
      PROVE  ~HasJob(f)'
  <2>1. \A s \in Requests : req[s].pc = "new"
    BY <1>2, <1>3, <1>5
  <2>2. ~HasJob(f)
    BY <1>2, <1>3, <1>5
  <2> QED
    BY <2>1, <2>2, JobCreated DEF CreateJob, At_
<1> QED
  BY <1>3, <1>4, <1>5

\* Only createFile and presign create a File row.
LEMMA FileCreated ==
    ASSUME TypeOK, [Next]_vars, NEW f \in Files, ~Created(f), Created(f)'
    PROVE  \/ \E r \in Requests : CreateFile(r) /\ req[r].file = f
           \/ f \in known'
<1> USE DEF TypeOK
<1>1. file'[f] # file[f] /\ ~HasFile(f)
  BY DEF Created, HasFile, NoRow
<1>2. file' # file
  BY <1>1
<1>3. ~\E g \in Files : \E status : SetFileStatus(g, status)
  BY <1>1 DEF SetFileStatus, StoreTypeOK
<1>4. ~\E g \in Files : DeleteFileRow(g)
  BY <1>1 DEF DeleteFileRow, StoreTypeOK
<1>5. CASE Processing
  <2>1. PICK p \in Procs : StartFile(p) \/ FailFile(p) \/ Publish(p)
    BY <1>2, <1>5 DEF Processing, ProcessorNext, Take, Stall, ProcessStep,
       FindJob, StartJob, GetObject, SaveRetrieved, ProcessFile, SaveProcessed,
       PutObject, SaveUploaded, SaveMetadata, CompleteJob, SaveCompleted,
       SaveCheckpoint, Throw, FailJob, CatchThrows, Ack, Nack, ReportLost,
       storeVars
  <2>2. exec[p].file \in Files
    BY <2>1, Busy DEF StartFile, FailFile, Publish, At, BusyExecs
  <2>3. CASE StartFile(p) \/ FailFile(p)
    BY <1>3, <2>2, <2>3 DEF StartFile, FailFile
  <2>4. CASE Publish(p)
    BY <1>1, <2>4 DEF Publish, StoreTypeOK
  <2> QED
    BY <2>1, <2>3, <2>4
<1>6. CASE Serving
  <2>1. CASE \E r \in Requests, p \in Procs : PresignUpload(r, p)
    BY <1>1, <2>1 DEF PresignUpload, StoreTypeOK
  <2>2. CASE ~\E r \in Requests, p \in Procs : PresignUpload(r, p)
    <3>1. PICK r \in Requests : CreateFile(r) \/ MarkUploaded(r) \/ DeleteRow(r)
      BY <1>2, <1>6, <2>2 DEF Serving, Accept, BeginUpload, BeginComplete,
         BeginDelete, ServiceStep, PutUpload, AddJob, CreateJob, StatObject,
         DelUpload, DelProcessed, ReqFails, ClientStep, ClientPut, ExpireUrl,
         storeVars
    <3>2. req[r].file \in Files
      BY <3>1, BusyRequest DEF CreateFile, MarkUploaded, DeleteRow, At_
    <3>3. CreateFile(r)
      BY <1>3, <1>4, <3>1, <3>2 DEF MarkUploaded, DeleteRow
    <3>4. req[r].file = f
      BY <1>1, <3>2, <3>3 DEF CreateFile, StoreTypeOK
    <3> QED
      BY <3>3, <3>4
  <2> QED
    BY <2>1, <2>2
<1>7. CASE Cleaning
  <2>1. PICK p \in Procs : DeleteExpiredRow(p)
    BY <1>2, <1>7 DEF Cleaning, Expire, HandleCleanup, CleanupStep, NextExpired,
       DelExpiredUpload, DelExpiredProcessed, VisitFails, CleanupDone, storeVars
  <2>2. pass[p].cur \in Files
    BY <2>1, BusyPass DEF DeleteExpiredRow, DeletePcs
  <2> QED
    BY <1>4, <2>1, <2>2 DEF DeleteExpiredRow
<1>8. CASE Recovering
  BY <1>2, <1>8 DEF Recovering, RecoveryNext, RecoveryStep, Scan, ResetJob,
     SkipJob, Reenqueue, ReenqueueFails, RecoveryDone, RetryFailedJob,
     RemoveFailedJob, storeVars
<1>9. CASE (\E p \in Procs : Crash(p) \/ ScanFails(p) \/ Restart(p)) \/ UNCHANGED vars
  BY <1>2, <1>9 DEF Crash, ScanFails, Stops, Restart, vars, storeVars
<1> QED
  BY <1>5, <1>6, <1>7, <1>8, <1>9 DEF Next

\* Uploads go on or end, and none begins.
LEMMA UploadsGoOn ==
    ASSUME TypeOK, UploadsOK, [Next]_vars, known \subseteq known',
           \A r \in Requests :
               \/ req'[r] = req[r]
               \/ req'[r].pc \notin UploadPcs \cup CompletePcs
               \/ /\ req'[r].file = req[r].file
                  /\ req[r].pc \in UploadPcs \ {"createJob"}
                  /\ req'[r].pc \in UploadPcs
    PROVE  UploadsOK'
<1>1. ASSUME NEW f \in Files, Created(f)'
      PROVE  f \in known'
  <2>1. CASE Created(f)
    BY <2>1 DEF UploadsOK
  <2>2. CASE \E r \in Requests : CreateFile(r) /\ req[r].file = f
    BY <2>2 DEF UploadsOK, UploadPcs, CreateFile, At_
  <2> QED
    BY <1>1, <2>1, <2>2, FileCreated
<1>2. \A r \in Requests : req'[r].pc \notin CompletePcs
  BY DEF UploadsOK, UploadPcs, CompletePcs
<1>3. \A r \in Requests : req'[r].pc \in UploadPcs =>
          /\ req[r].pc \in UploadPcs
          /\ req'[r].file = req[r].file
          /\ req'[r].pc # "createJob" => req[r].pc # "createJob"
  OBVIOUS
<1>4. ASSUME NEW r \in Requests, req'[r].pc \in UploadPcs
      PROVE  /\ req'[r].file \in known'
             /\ \A s \in Requests : s # r /\ req'[s].pc \in UploadPcs =>
                    req'[s].file # req'[r].file
  BY <1>3, <1>4 DEF UploadsOK
<1>5. ASSUME NEW r \in Requests, req'[r].pc \in UploadPcs,
             req'[r].pc # "createJob", job'[req'[r].file].status \notin NoRow
      PROVE  FALSE
  <2>1. /\ req[r].pc \in UploadPcs
        /\ req[r].pc # "createJob"
    BY <1>3, <1>5
  <2>2. PICK f \in Files : req[r].file = f
    BY <2>1, BusyRequest DEF TypeOK, UploadPcs
  <2>3. ~HasJob(f) /\ HasJob(f)'
    BY <1>3, <1>5, <2>1, <2>2 DEF UploadsOK, HasJob
  <2>4. PICK s \in Requests : CreateJob(s) /\ req[s].file = f
    BY <2>3, JobCreated
  <2> QED
    BY <2>1, <2>2, <2>4 DEF UploadsOK, CreateJob, At_, UploadPcs
<1> QED
  BY <1>1, <1>2, <1>4, <1>5 DEF UploadsOK, HasJob

LEMMA UploadBegins ==
    ASSUME TypeOK, RowsOK, UploadsOK, [Next]_vars,
           NEW r \in Requests, NEW p \in Procs, BeginUpload(r, p)
    PROVE  UploadsOK'
<1> USE DEF TypeOK
<1>1. PICK f \in Files \ known :
          /\ req' = [req EXCEPT ![r] = [pc |-> "putUpload", file |-> f,
                                        host |-> p, key |-> "null"]]
          /\ known' = known \cup {f}
          /\ UNCHANGED <<file, job>>
  BY DEF BeginUpload, Begin, storeVars
<1>2. /\ req'[r].pc = "putUpload" /\ req'[r].file = f
      /\ \A s \in Requests : s # r => req'[s] = req[s]
  BY <1>1 DEF ServiceTypeOK
<1>3. ~HasJob(f)'
  BY <1>1 DEF UploadsOK, RowsOK, Created, HasFile, HasJob, NoJob, NoRow
<1>4. \A g \in Files : Created(g)' => g \in known'
  BY <1>1 DEF UploadsOK, Created
<1>5. \A s \in Requests : req'[s].pc \notin CompletePcs
  BY <1>2 DEF UploadsOK, CompletePcs
<1>6. ASSUME NEW s \in Requests, req'[s].pc \in UploadPcs
      PROVE  /\ req'[s].file \in known'
             /\ req'[s].pc # "createJob" => job'[req'[s].file].status \in NoRow
             /\ \A t \in Requests : t # s /\ req'[t].pc \in UploadPcs =>
                    req'[t].file # req'[s].file
  <2>1. \A t \in Requests : t # r /\ req'[t].pc \in UploadPcs =>
            req'[t].file \in known /\ req'[t].file # f
    BY <1>1, <1>2 DEF UploadsOK
  <2>2. CASE s = r
    BY <1>1, <1>2, <1>3, <2>1, <2>2 DEF HasJob
  <2>3. CASE s # r
    BY <1>1, <1>2, <1>6, <2>1, <2>3 DEF UploadsOK, HasJob
  <2> QED
    BY <2>2, <2>3
<1> QED
  BY <1>4, <1>5, <1>6 DEF UploadsOK, HasJob

LEMMA ServiceStepUploads ==
    ASSUME TypeOK, UploadsOK, [Next]_vars, NEW r \in Requests, ServiceStep(r)
    PROVE  UploadsOK'
<1> USE DEF TypeOK
<1>1. known' = known
  BY DEF ServiceStep, PutUpload, CreateFile, AddJob, CreateJob, StatObject,
     MarkUploaded, DelUpload, DelProcessed, DeleteRow, ReqFails
<1>2. CASE EndReq(r)
  BY <1>1, <1>2, UploadsGoOn DEF EndReq, EndedReq, NewReq, ServiceTypeOK,
     UploadPcs, CompletePcs
<1>3. CASE ~EndReq(r)
  <2>1. ~StatObject(r) /\ ~MarkUploaded(r)
    BY DEF StatObject, MarkUploaded, At_, UploadsOK, CompletePcs
  <2>2. PICK pc : /\ req' = [req EXCEPT ![r].pc = pc]
                  /\ \/ pc \in {"delProcessed", "deleteRow"}
                     \/ req[r].pc = "putUpload" /\ pc = "createFile"
                     \/ req[r].pc = "createFile" /\ pc = "addJob"
                     \/ req[r].pc = "addJob" /\ pc = "createJob"
    BY <1>3, <2>1 DEF ServiceStep, PutUpload, CreateFile, AddJob, CreateJob,
       DelUpload, AfterDelUpload, DelProcessed, DeleteRow, ReqFails, ReqGoto,
       After, At_
  <2>3. req[r] \in BusyReqs
    BY BusyRequest DEF ServiceStep, PutUpload, CreateFile, AddJob, CreateJob,
       StatObject, MarkUploaded, DelUpload, DelProcessed, DeleteRow, ReqFails, At_
  <2>4. req'[r].pc = pc /\ req'[r].file = req[r].file
    BY <2>2, <2>3 DEF ServiceTypeOK, BusyReqs
  <2>5. \A s \in Requests : s # r => req'[s] = req[s]
    BY <2>2 DEF ServiceTypeOK
  <2>6. \/ req'[r].pc \notin UploadPcs \cup CompletePcs
        \/ /\ req[r].pc \in UploadPcs \ {"createJob"}
           /\ req'[r].pc \in UploadPcs
    BY <2>2, <2>4 DEF UploadPcs, CompletePcs
  <2> QED
    BY <1>1, <2>4, <2>5, <2>6, UploadsGoOn
<1> QED
  BY <1>2, <1>3

LEMMA UploadsStep ==
    ASSUME "complete" \notin Operations, TypeOK, RowsOK, UploadsOK, [Next]_vars
    PROVE  UploadsOK'
<1> USE DEF TypeOK
<1>1. CASE UNCHANGED <<req, known>>
  BY <1>1, UploadsGoOn
<1>2. CASE Serving
  <2>1. ASSUME NEW r \in Requests, NEW p \in Procs, PresignUpload(r, p)
        PROVE  UploadsOK'
    <3>1. known \subseteq known'
      BY <2>1 DEF PresignUpload
    <3>2. \A s \in Requests : s # r => req'[s] = req[s]
      BY <2>1 DEF PresignUpload, EndReq, ServiceTypeOK
    <3>3. req'[r].pc \notin UploadPcs \cup CompletePcs
      BY <2>1 DEF PresignUpload, EndReq, EndedReq, NewReq, ServiceTypeOK,
         UploadPcs, CompletePcs
    <3> QED
      BY <3>1, <3>2, <3>3, UploadsGoOn
  <2>2. ASSUME NEW r \in Requests, NEW p \in Procs, BeginDelete(r, p)
        PROVE  UploadsOK'
    <3>1. known' = known
      BY <2>2 DEF BeginDelete
    <3>2. \A s \in Requests : s # r => req'[s] = req[s]
      BY <2>2 DEF BeginDelete, Begin, ServiceTypeOK
    <3>3. req'[r].pc \notin UploadPcs \cup CompletePcs
      BY <2>2 DEF BeginDelete, Begin, ServiceTypeOK, UploadPcs, CompletePcs
    <3> QED
      BY <3>1, <3>2, <3>3, UploadsGoOn
  <2>3. ~\E r \in Requests, p \in Procs : BeginComplete(r, p)
    BY DEF BeginComplete, Begin
  <2>4. ASSUME NEW f \in Files, ClientStep(f)
        PROVE  UploadsOK'
    BY <1>1, <2>4 DEF ClientStep, ClientPut, ExpireUrl, serviceVars
  <2> QED
    BY <1>2, <2>1, <2>2, <2>3, <2>4, UploadBegins, ServiceStepUploads
       DEF Serving, Accept
<1>3. ASSUME NEW p \in Procs, Crash(p) \/ ScanFails(p)
      PROVE  UploadsOK'
  <2>1. /\ known' = known
        /\ \A r \in Requests : req'[r] = req[r] \/ req'[r].pc = "end"
    BY <1>3 DEF Crash, ScanFails, Stops, ReqCrash, EndedReq, NewReq
  <2> QED
    BY <2>1, UploadsGoOn DEF UploadPcs, CompletePcs
<1> QED
  BY <1>1, <1>2, <1>3 DEF Next, Processing, Recovering, Cleaning, Restart,
     serviceVars, vars

LEMMA NothingIsRemoved ==
    ASSUME MaxRepairs = 0, TypeOK, [Next]_vars
    PROVE  Keeps
<1> USE DEF TypeOK
<1> SUFFICES ASSUME NEW e \in Entries, queue'[e] # queue[e]
             PROVE  queue'[e].state # "removed"
  BY DEF Keeps
<1>1. ~\E d \in Entries : RetryFailedJob(d) \/ RemoveFailedJob(d)
  BY DEF RetryFailedJob, RemoveFailedJob, RecTypeOK
<1>2. PICK d : \/ CompleteEntry(d) \/ FailEntry(d) \/ StallEntry(d)
               \/ \E p \in Procs : TakeEntry(d, p)
               \/ \E f : AddEntry(d, f)
  BY <1>1 DEF Next, Processing, Recovering, Serving, Cleaning, Crash,
     ScanFails, Stops, Restart, vars, ProcessorNext, Take, Stall, ProcessStep, FindJob, StartJob, StartFile,
     GetObject, SaveRetrieved, ProcessFile, SaveProcessed, PutObject,
     SaveUploaded, Publish, SaveMetadata, CompleteJob, SaveCompleted,
     SaveCheckpoint, Throw, FailFile, FailJob, CatchThrows, Ack, Nack,
     ReportLost, RecoveryNext, RecoveryStep, Scan, ResetJob, SkipJob, Reenqueue,
     ReenqueueFails, RecoveryDone, Accept, BeginUpload, PresignUpload,
     BeginComplete, BeginDelete, ServiceStep, PutUpload, CreateFile, AddJob,
     CreateJob, StatObject, MarkUploaded, DelUpload, DelProcessed, DeleteRow,
     ReqFails, ClientStep, ClientPut, ExpireUrl
<1>3. d = e
  BY <1>2 DEF CompleteEntry, FailEntry, StallEntry, TakeEntry, AddEntry,
     QueueTypeOK
<1>4. queue[e] \in QueueEntries
  BY DEF QueueTypeOK
<1>5. CASE CompleteEntry(e)
  BY <1>4, <1>5 DEF CompleteEntry, QueueTypeOK, QueueEntries, NoEntry
<1>6. CASE FailEntry(e)
  BY <1>4, <1>6 DEF FailEntry, QueueTypeOK, QueueEntries, NoEntry
<1>7. CASE StallEntry(e)
  BY <1>4, <1>7 DEF StallEntry, QueueTypeOK, QueueEntries, NoEntry
<1>8. CASE \E p \in Procs : TakeEntry(e, p)
  BY <1>4, <1>8 DEF TakeEntry, QueueTypeOK, QueueEntries, NoEntry
<1>9. CASE \E f : AddEntry(e, f)
  BY <1>9 DEF AddEntry, QueueTypeOK, NoEntry
<1> QED
  BY <1>2, <1>3, <1>5, <1>6, <1>7, <1>8, <1>9

\* The only crash there is hits no hand-over.
LEMMA FirstCrashSpares ==
    ASSUME Faulty \subseteq {"storage"}, MaxCrashes <= 1, TypeOK, FreshOK,
           UploadsOK, [Next]_vars
    PROVE  Spares
<1> SUFFICES ASSUME NEW p \in Procs, p \in up, p \notin up'
             PROVE  ~HandsOver(p)
  BY DEF Spares
<1>1. PICK q \in Procs : Crash(q)
  BY NoScanFails DEF Next, Processing, Recovering, Serving, Cleaning, Restart, vars,
     platformVars
<1>2. crashes = 0
  BY <1>1, CrashAssumption DEF Crash, TypeOK
<1>3. rec[p].pc # "enqueue"
  BY <1>2 DEF FreshOK
<1>4. ASSUME NEW r \in Requests, At_(r, "addJob"), Undecided(req[r].file)
      PROVE  FALSE
  <2>1. PICK s \in Requests : At_(s, "createJob") /\ req[s].file = req[r].file
    BY <1>4 DEF UploadsOK, UploadPcs, At_, Undecided
  <2> QED
    BY <1>4, <2>1 DEF UploadsOK, UploadPcs, At_
<1> QED
  BY <1>3, <1>4 DEF HandsOver

LEMMA OneProcessInit == Init => FreshOK /\ UploadsOK
BY DEF Init, StoreInit, RecInit, ServiceInit, NoFile, NoJob, NoRow, StartedRec,
   NewReq, FreshOK, UploadsOK, UploadPcs, CompletePcs, Created, HasJob

\* A deployment of one process whose files are uploaded through it survives a
\* crash at any moment: no job is lost, although MinIO may fail and files may be
\* deleted or expire, provided that locks are renewed and the dead letter queue
\* is left alone.
THEOREM OneCrashLosesNoJob ==
    ASSUME LiveStalls = FALSE, Faulty \subseteq {"storage"},
           \A p, q \in Procs : p = q, "complete" \notin Operations,
           MaxCrashes <= 1, MaxStalls >= 1, MaxRepairs = 0
    PROVE  Spec => []CrashLosesNoJob
<1>1. Init => FreshOK /\ UploadsOK
  BY OneProcessInit
<1>2. Inv /\ (FreshOK /\ UploadsOK) /\ [Next]_vars => (FreshOK /\ UploadsOK)'
  BY FreshStep, UploadsStep DEF Inv, StoreOK
<1>3. Inv /\ (FreshOK /\ UploadsOK) /\ [Next]_vars
      => [Spares]_vars /\ [Keeps]_vars
  BY FirstCrashSpares, NothingIsRemoved DEF Inv
<1>4. Spec => CrashesSpareHandOvers /\ NobodyRemovesEntries
  BY <1>1, <1>2, <1>3, Invariance, PTL DEF Spec, CrashesSpareHandOvers,
     NobodyRemovesEntries
<1>5. MaxCrashes <= MaxStalls
  BY CrashAssumption, QueueAssumption
<1>6. Spec /\ CrashesSpareHandOvers /\ NobodyRemovesEntries => []CrashLosesNoJob
  BY <1>5, CrashesLoseNoJob
<1> QED
  BY <1>4, <1>6, PTL

-----------------------------------------------------------------------------
(* What failures leave behind. A row is FAILED because an execution is about *)
(* to report a failure, or did: its entry is dead, or is tried again, and    *)
(* nothing but a new attempt's update of that row takes the failure back.    *)

\* The calls at which an execution has not yet taken back what an earlier
\* attempt wrote to the File row, or has itself failed; likewise the Job row.
FilePcs == {"findJob", "startJob", "startFile", "failFile", "failJob", "nack"}
JobPcs == FilePcs \ {"startFile"}

Retriable(e, pcs) ==
    \/ queue[e].state \in {"failed", "removed"}
    \/ /\ Live(e)
       /\ \A p \in Procs : exec[p].entry = e => exec[p].pc \in pcs

\* Some entry of f answers for a failure.
Answers(f, pcs) == \E e \in Entries : queue[e].file = f /\ Retriable(e, pcs)

FailedOK ==
    \A f \in Files :
        /\ file[f].status = "FAILED" => Answers(f, FilePcs)
        /\ job[f].status = "FAILED" => Answers(f, JobPcs)

NoNewFailure ==
    \A f \in Files :
        /\ file'[f].status = "FAILED" => file[f].status = "FAILED"
        /\ job'[f].status = "FAILED" => job[f].status = "FAILED"

LEMMA RetriableStays ==
    ASSUME NEW e \in Entries, NEW pcs, Retriable(e, pcs), queue'[e] = queue[e],
           \A q \in Procs : exec'[q].entry = e =>
               exec'[q] = exec[q] \/ exec'[q].pc \in pcs
    PROVE  queue'[e].file = queue[e].file /\ Retriable(e, pcs)'
BY DEF Retriable, Live

\* A step that fails no row, and no entry of a failed row loses its retry.
LEMMA FailuresWait ==
    ASSUME FailedOK, NoNewFailure,
           \A e \in Entries : \A pcs \in {FilePcs, JobPcs} : Retriable(e, pcs) =>
               queue'[e].file = queue[e].file /\ Retriable(e, pcs)'
    PROVE  FailedOK'
<1> SUFFICES ASSUME NEW f \in Files
             PROVE  /\ file'[f].status = "FAILED" => Answers(f, FilePcs)'
                    /\ job'[f].status = "FAILED" => Answers(f, JobPcs)'
  BY DEF FailedOK
<1>1. ASSUME NEW pcs \in {FilePcs, JobPcs}, Answers(f, pcs)
      PROVE  Answers(f, pcs)'
  BY <1>1 DEF Answers
<1> QED
  BY <1>1 DEF FailedOK, NoNewFailure

LEMMA FailuresStay ==
    ASSUME FailedOK, NoNewFailure, UNCHANGED <<queue, exec>>
    PROVE  FailedOK'
BY RetriableStays, FailuresWait

\* An execution goes on. Its entry answers for its file afterwards if the call
\* it goes to is one of pcs, and did before only if the one it made was.
LEMMA AnswerMoves ==
    ASSUME ExecTypeOK, LockOK, TakenOK, NEW p \in Procs, exec[p].pc # "idle",
           queue' = queue, \A q \in Procs : q # p => exec'[q] = exec[q],
           exec'[p].entry = exec[p].entry, NEW pcs, NEW g \in Files,
           \/ Answers(g, pcs)
           \/ g = exec[p].file /\ exec'[p].pc \in pcs,
           \/ exec'[p].pc \in pcs
           \/ g # exec[p].file
           \/ exec[p].pc \notin pcs
    PROVE  Answers(g, pcs)'
<1>1. PICK d \in Entries : exec[p].entry = d /\ queue[d].file = exec[p].file
  BY DEF TakenOK
<1>2. Holds(p, d) /\ \A q \in Procs : exec[q].entry = d => q = p
  BY <1>1, EntryOfExecution
<1>3. ASSUME exec'[p].pc \in pcs
      PROVE  Retriable(d, pcs)'
  BY <1>1, <1>2, <1>3 DEF Retriable, Live, Holds
<1>4. CASE g = exec[p].file /\ exec'[p].pc \in pcs
  BY <1>1, <1>3, <1>4 DEF Answers
<1>5. CASE Answers(g, pcs) /\ ~(g = exec[p].file /\ exec'[p].pc \in pcs)
  <2>1. PICK e \in Entries : queue[e].file = g /\ Retriable(e, pcs)
    BY <1>5 DEF Answers
  <2>2. CASE exec'[p].pc \in pcs
    <3>1. \A q \in Procs : exec'[q].entry = e =>
              exec'[q] = exec[q] \/ exec'[q].pc \in pcs
      BY <2>2
    <3> QED
      BY <2>1, <3>1, RetriableStays DEF Answers
  <2>3. CASE exec'[p].pc \notin pcs
    <3>1. e # d
      <4>1. CASE g # exec[p].file
        BY <1>1, <2>1, <4>1
      <4>2. CASE exec[p].pc \notin pcs
        BY <1>1, <1>2, <2>1, <4>2 DEF Retriable, Holds
      <4> QED
        BY <2>3, <4>1, <4>2
    <3>2. \A q \in Procs : exec'[q].entry = e => exec'[q] = exec[q]
      BY <1>1, <3>1
    <3> QED
      BY <2>1, <3>2, RetriableStays DEF Answers
  <2> QED
    BY <2>2, <2>3
<1> QED
  BY <1>4, <1>5

\* Process p goes on: it is going to report a failure, or has not taken one
\* back; or it fails no row and has taken back what it had to.
LEMMA ExecutionFails ==
    ASSUME TypeOK, LockOK, TakenOK, FailedOK,
           NEW p \in Procs, exec[p].pc # "idle",
           queue' = queue, \A q \in Procs : q # p => exec'[q] = exec[q],
           exec'[p].entry = exec[p].entry,
           \A g \in Files \ {exec[p].file} :
               file'[g] = file[g] /\ job'[g] = job[g],
           \/ exec'[p].pc \in FilePcs
           \/ file'[exec[p].file].status # "FAILED"
           \/ exec[p].pc \notin FilePcs /\ NoNewFailure,
           \/ exec'[p].pc \in JobPcs
           \/ job'[exec[p].file].status # "FAILED"
           \/ exec[p].pc \notin JobPcs /\ NoNewFailure
    PROVE  FailedOK'
<1> SUFFICES ASSUME NEW g \in Files
             PROVE  /\ file'[g].status = "FAILED" => Answers(g, FilePcs)'
                    /\ job'[g].status = "FAILED" => Answers(g, JobPcs)'
  BY DEF FailedOK
<1>1. ASSUME file'[g].status = "FAILED"
      PROVE  Answers(g, FilePcs)'
  <2>1. \/ Answers(g, FilePcs)
        \/ g = exec[p].file /\ exec'[p].pc \in FilePcs
    BY <1>1 DEF FailedOK, NoNewFailure
  <2>2. \/ exec'[p].pc \in FilePcs
        \/ g # exec[p].file
        \/ exec[p].pc \notin FilePcs
    BY <1>1
  <2> QED
    BY <2>1, <2>2, AnswerMoves DEF TypeOK
<1>2. ASSUME job'[g].status = "FAILED"
      PROVE  Answers(g, JobPcs)'
  <2>1. \/ Answers(g, JobPcs)
        \/ g = exec[p].file /\ exec'[p].pc \in JobPcs
    BY <1>2 DEF FailedOK, NoNewFailure
  <2>2. \/ exec'[p].pc \in JobPcs
        \/ g # exec[p].file
        \/ exec[p].pc \notin JobPcs
    BY <1>2
  <2> QED
    BY <2>1, <2>2, AnswerMoves DEF TypeOK
<1> QED
  BY <1>1, <1>2

LEMMA ProcessStepFails ==
    ASSUME TypeOK, LockOK, TakenOK, FailedOK, NEW p \in Procs, ProcessStep(p),
           ~(Ack(p) \/ Nack(p) \/ ReportLost(p))
    PROVE  FailedOK'
<1> USE DEF TypeOK
<1>1. exec[p].pc # "idle"
  BY Names DEF ProcessStep, FindJob, StartJob, StartFile, GetObject,
     SaveRetrieved, ProcessFile, SaveProcessed, PutObject, SaveUploaded,
     Publish, SaveMetadata, CompleteJob, SaveCompleted, SaveCheckpoint,
     Throw, FailFile, FailJob, CatchThrows, At
<1>2. PICK f \in Files : exec[p].file = f /\ exec[p] \in BusyExecs
  BY <1>1, Busy DEF TakenOK
<1>3. \A g \in Files \ {f} : file'[g] = file[g] /\ job'[g] = job[g]
  BY <1>2 DEF ProcessStep, FindJob, StartJob, StartFile, GetObject,
     SaveRetrieved, ProcessFile, SaveProcessed, PutObject, SaveUploaded,
     Publish, SaveMetadata, CompleteJob, SaveCompleted, SaveCheckpoint,
     Throw, FailFile, FailJob, CatchThrows, SetJobStatus, SetFileStatus,
     storeVars, StoreTypeOK
<1>4. queue' = queue /\ exec'[p].entry = exec[p].entry
  BY ProcessStepEntry
<1>5. \A q \in Procs : q # p => exec'[q] = exec[q]
  BY DEF ProcessStep, FindJob, StartJob, StartFile, GetObject,
     SaveRetrieved, ProcessFile, SaveProcessed, PutObject, SaveUploaded,
     Publish, SaveMetadata, CompleteJob, SaveCompleted, SaveCheckpoint,
     Throw, FailFile, FailJob, CatchThrows, Goto, ExecTypeOK
<1>6. ASSUME \/ exec'[p].pc \in FilePcs
             \/ file'[f].status # "FAILED"
             \/ exec[p].pc \notin FilePcs /\ NoNewFailure,
             \/ exec'[p].pc \in JobPcs
             \/ job'[f].status # "FAILED"
             \/ exec[p].pc \notin JobPcs /\ NoNewFailure
      PROVE  FailedOK'
  BY <1>1, <1>2, <1>3, <1>4, <1>5, <1>6, ExecutionFails
\* The calls that come before, and after, the work.
<1>7. CASE FindJob(p) \/ Throw(p) \/ FailFile(p) \/ FailJob(p) \/ CatchThrows(p)
  <2>1. exec'[p].pc \in JobPcs
    <3>1. CASE FindJob(p)
      BY <1>2, <3>1 DEF FindJob, ExecTypeOK, BusyExecs, JobPcs, FilePcs
    <3>2. CASE ~FindJob(p)
      <4>1. PICK pc \in {"failFile", "failJob", "nack"} :
                exec' = [exec EXCEPT ![p].pc = pc]
        BY <1>7, <3>2 DEF Throw, FailFile, FailJob, CatchThrows, After
      <4> QED
        BY <1>2, <4>1 DEF ExecTypeOK, BusyExecs, JobPcs, FilePcs
    <3> QED
      BY <3>1, <3>2
  <2> QED
    BY <1>6, <2>1 DEF JobPcs
\* The two calls by which an attempt takes back the failure of an earlier one.
<1>8. CASE StartJob(p)
  <2>1. job'[f].status # "FAILED"
    BY <1>2, <1>8 DEF StartJob, SetJobStatus, StoreTypeOK, JobRows
  <2>2. PICK pc \in {"startFile", "failFile"} :
            exec' = [exec EXCEPT ![p].pc = pc]
    BY <1>8 DEF StartJob, Goto, After
  <2>3. exec'[p].pc \in FilePcs
    BY <1>2, <2>2 DEF ExecTypeOK, BusyExecs, FilePcs
  <2> QED
    BY <1>6, <2>1, <2>3
<1>9. CASE StartFile(p)
  <2>1. file'[f].status # "FAILED"
    BY <1>2, <1>9 DEF StartFile, SetFileStatus, StoreTypeOK, FileRows
  <2>2. job' = job /\ exec[p].pc = "startFile"
    BY <1>9 DEF StartFile, At
  <2>3. exec[p].pc \notin JobPcs
    BY <2>2 DEF JobPcs
  <2>4. NoNewFailure
    BY <1>2, <1>3, <2>1, <2>2 DEF NoNewFailure
  <2> QED
    BY <1>6, <2>1, <2>3, <2>4
\* The work.
<1>10. CASE \/ GetObject(p) \/ SaveRetrieved(p) \/ ProcessFile(p)
            \/ SaveProcessed(p) \/ PutObject(p) \/ SaveUploaded(p)
            \/ Publish(p) \/ SaveMetadata(p) \/ CompleteJob(p)
            \/ SaveCompleted(p)
  <2>1. exec[p].pc \notin FilePcs /\ exec[p].pc \notin JobPcs
    BY <1>10 DEF GetObject, SaveRetrieved, ProcessFile, SaveProcessed,
       PutObject, SaveUploaded, Publish, SaveMetadata, CompleteJob,
       SaveCompleted, SaveCheckpoint, At, FilePcs, JobPcs
  <2>2. /\ file'[f].status = "FAILED" => file[f].status = "FAILED"
        /\ job'[f].status = "FAILED" => job[f].status = "FAILED"
    BY <1>2, <1>10 DEF GetObject, SaveRetrieved, ProcessFile, SaveProcessed,
       PutObject, SaveUploaded, Publish, SaveMetadata, CompleteJob,
       SaveCompleted, SaveCheckpoint, SetJobStatus, storeVars, StoreTypeOK,
       FileRows, JobRows
  <2>3. NoNewFailure
    BY <1>2, <1>3, <2>2 DEF NoNewFailure
  <2> QED
    BY <1>6, <2>1, <2>3
<1> QED
  BY <1>7, <1>8, <1>9, <1>10 DEF ProcessStep

\* A report of success is not that of a retriable entry; one of a failure
\* leaves the entry dead, or waiting for its retry.
LEMMA ReportFails ==
    ASSUME TypeOK, LockOK, TakenOK, FailedOK, NEW p \in Procs,
           Ack(p) \/ Nack(p) \/ ReportLost(p)
    PROVE  FailedOK'
<1> USE DEF TypeOK
<1>1. exec[p].pc \in {"ack", "nack"}
  BY DEF Ack, Nack, ReportLost, At
<1>2. PICK d \in Entries : exec[p].entry = d
  BY <1>1 DEF TakenOK
<1>3. Holds(p, d) /\ \A q \in Procs : exec[q].entry = d => q = p
  BY <1>1, <1>2, EntryOfExecution
<1>4. exec' = [exec EXCEPT ![p] = IdleExec] /\ UNCHANGED <<file, job>>
  BY DEF Ack, Nack, ReportLost, storeVars
<1>5. \A q \in Procs : exec'[q].entry \in Entries => q # p /\ exec'[q] = exec[q]
  BY <1>4, QueueAssumption DEF ExecTypeOK, IdleExec, Entries
<1>6. \A e \in Entries : e # d => queue'[e] = queue[e]
  BY <1>2 DEF Ack, Nack, ReportLost, CompleteEntry, FailEntry, QueueTypeOK
<1>7. ASSUME NEW pcs \in {FilePcs, JobPcs}, Retriable(d, pcs)
      PROVE  queue'[d].file = queue[d].file /\ Retriable(d, pcs)'
  <2>1. exec[p].pc \in pcs
    BY <1>2, <1>3, <1>7 DEF Retriable, Holds
  <2>2. exec[p].pc = "nack"
    BY <1>1, <2>1 DEF FilePcs, JobPcs
  <2>3. CASE Nack(p)
    <3>1. queue[d].state = "active"
      BY <1>3 DEF Holds
    <3>2. /\ queue'[d].file = queue[d].file
          /\ queue'[d].state \in {"waiting", "failed"}
      BY <1>2, <2>3, <3>1, EntryFile DEF Nack, FailEntry, QueueTypeOK
    <3>3. \A q \in Procs : exec'[q].entry # d
      BY <1>3, <1>5
    <3> QED
      BY <3>2, <3>3 DEF Retriable, Live
  <2>4. CASE ReportLost(p)
    BY <1>5, <1>7, <2>4, RetriableStays DEF ReportLost
  <2> QED
    BY <2>2, <2>3, <2>4 DEF Ack, At
<1>8. ASSUME NEW e \in Entries, e # d, NEW pcs, Retriable(e, pcs)
      PROVE  queue'[e].file = queue[e].file /\ Retriable(e, pcs)'
  BY <1>5, <1>6, <1>8, RetriableStays
<1> QED
  BY <1>4, <1>7, <1>8, FailuresWait DEF NoNewFailure

\* An entry that no execution holds is taken, stalls, is retried or removed.
LEMMA EntryFails ==
    ASSUME TypeOK, LockOK, FailedOK, UNCHANGED <<file, job>>,
           NEW d \in Entries,
           \A e \in Entries : e # d => queue'[e] = queue[e],
           queue[d].state # "none" => queue'[d].file = queue[d].file,
           \A q \in Procs : exec[q].entry # d,
           \A q \in Procs :
               \/ exec'[q] = exec[q]
               \/ exec'[q].entry = d /\ exec'[q].pc = "findJob",
           \/ queue'[d].state \in {"waiting", "active", "failed", "removed"}
           \/ queue[d].state \in {"none", "completed"}
    PROVE  FailedOK'
<1>1. ASSUME NEW e \in Entries, NEW pcs \in {FilePcs, JobPcs}, Retriable(e, pcs)
      PROVE  queue'[e].file = queue[e].file /\ Retriable(e, pcs)'
  <2>1. CASE e # d
    BY <1>1, <2>1, RetriableStays
  <2>2. CASE e = d
    <3>1. queue[d].state \notin {"none", "completed"}
      BY <1>1, <2>2 DEF Retriable, Live
    <3>2. "findJob" \in pcs
      BY DEF FilePcs, JobPcs
    <3> QED
      BY <2>2, <3>1, <3>2 DEF Retriable, Live
  <2> QED
    BY <2>1, <2>2
<1> QED
  BY <1>1, FailuresWait DEF NoNewFailure

LEMMA Unheld ==
    ASSUME LockOK, NEW e \in Entries, queue[e].state # "active"
    PROVE  \A q \in Procs : exec[q].entry # e
BY QueueAssumption DEF LockOK, Holds, Entries

LEMMA AddEntryFails ==
    ASSUME TypeOK, LockOK, FailedOK, NEW d \in Entries, NEW f \in Files,
           AddEntry(d, f), UNCHANGED <<file, job, exec>>
    PROVE  FailedOK'
<1>1. queue[d].state = "none" /\ \A e \in Entries : e # d => queue'[e] = queue[e]
  BY DEF AddEntry, NextEntry, TypeOK, QueueTypeOK
<1>2. \A q \in Procs : exec[q].entry # d
  BY <1>1, Unheld
<1> QED
  BY <1>1, <1>2, EntryFails

LEMMA QueueFails ==
    ASSUME LiveStalls = FALSE, TypeOK, LockOK, FailedOK, NEW d \in Entries,
           \/ \E p \in Procs : Take(p, d)
           \/ Stall(d)
           \/ RetryFailedJob(d) /\ UNCHANGED exec
           \/ RemoveFailedJob(d) /\ UNCHANGED exec
    PROVE  FailedOK'
<1> USE DEF TypeOK
<1>1. UNCHANGED <<file, job>>
  BY DEF Take, Stall, RetryFailedJob, RemoveFailedJob, storeVars
<1>2. \A e \in Entries : e # d => queue'[e] = queue[e]
  BY DEF Take, TakeEntry, Stall, StallEntry, RetryFailedJob, RemoveFailedJob,
     QueueTypeOK
<1>3. queue[d].state \in {"waiting", "active", "completed", "failed"}
  BY DEF Take, TakeEntry, Stall, StallEntry, RetryFailedJob, RemoveFailedJob
<1>4. /\ queue'[d].file = queue[d].file
      /\ queue'[d].state \in {"waiting", "active", "failed", "removed"}
  BY <1>3, EntryFile DEF Take, TakeEntry, Stall, StallEntry, RetryFailedJob,
     RemoveFailedJob, QueueTypeOK
<1>5. \A q \in Procs : exec[q].entry # d
  <2>1. CASE Stall(d)
    BY <2>1, QueueAssumption DEF Stall, LockOK, Holds, Entries
  <2>2. CASE ~Stall(d)
    BY <2>2, Unheld DEF Take, TakeEntry, RetryFailedJob, RemoveFailedJob
  <2> QED
    BY <2>1, <2>2
<1>6. \A q \in Procs :
          \/ exec'[q] = exec[q]
          \/ exec'[q].entry = d /\ exec'[q].pc = "findJob"
  BY DEF Take, Stall, ExecTypeOK, IdleExec
<1> QED
  BY <1>1, <1>2, <1>4, <1>5, <1>6, EntryFails

LEMMA RecoveryStepFails ==
    ASSUME TypeOK, LockOK, FailedOK, NEW p \in Procs, RecoveryStep(p),
           UNCHANGED exec
    PROVE  FailedOK'
<1> USE DEF TypeOK
<1>1. CASE Reenqueue(p)
  <2>1. PICK f \in Files : rec[p].cur = f
    BY <1>1 DEF Reenqueue, RecTypeOK, Recs
  <2> QED
    BY <1>1, <2>1, AddEntryFails DEF Reenqueue, storeVars
<1>2. CASE ~Reenqueue(p)
  <2>1. queue' = queue /\ file' = file
    BY <1>2 DEF RecoveryStep, Scan, ResetJob, SkipJob, ReenqueueFails,
       RecoveryDone, storeVars
  <2>2. job' = job \/ \E f : SetJobStatus(f, "PENDING")
    BY <1>2 DEF RecoveryStep, Scan, ResetJob, SkipJob, ReenqueueFails,
       RecoveryDone, storeVars
  <2>3. NoNewFailure
    BY <2>1, <2>2 DEF NoNewFailure, SetJobStatus, StoreTypeOK, JobRows
  <2> QED
    BY <2>1, <2>3, FailuresStay
<1> QED
  BY <1>1, <1>2

LEMMA ServingFails ==
    ASSUME TypeOK, LockOK, FailedOK, Serving
    PROVE  FailedOK'
<1> USE DEF TypeOK
<1>1. exec' = exec
  BY DEF Serving
<1>2. ASSUME NEW r \in Requests, AddJob(r)
      PROVE  FailedOK'
  <2>1. PICK f \in Files : req[r].file = f
    BY <1>2, BusyRequest DEF AddJob, At_
  <2> QED
    BY <1>1, <1>2, <2>1, AddEntryFails DEF AddJob, storeVars
<1>3. ASSUME NEW r \in Requests, CreateFile(r) \/ MarkUploaded(r)
      PROVE  FailedOK'
  <2>1. PICK f \in Files : req[r].file = f
    BY <1>3, BusyRequest DEF CreateFile, MarkUploaded, At_
  <2>2. NoNewFailure
    BY <1>3, <2>1 DEF CreateFile, MarkUploaded, SetFileStatus, NoNewFailure,
       StoreTypeOK, FileRows
  <2> QED
    BY <1>1, <1>3, <2>2, FailuresStay DEF CreateFile, MarkUploaded
<1>4. ASSUME NEW r \in Requests, CreateJob(r)
      PROVE  FailedOK'
  <2>1. NoNewFailure
    BY <1>4 DEF CreateJob, NoNewFailure, StoreTypeOK, NewJob
  <2> QED
    BY <1>1, <1>4, <2>1, FailuresStay DEF CreateJob
<1>5. ASSUME NEW r \in Requests, DeleteRow(r)
      PROVE  FailedOK'
  <2>1. NoNewFailure
    BY <1>5 DEF DeleteRow, DeleteFileRow, DeletedFile, NoJob, NoNewFailure,
       StoreTypeOK
  <2> QED
    BY <1>1, <1>5, <2>1, FailuresStay DEF DeleteRow
<1>6. ASSUME NEW r \in Requests, NEW p \in Procs, PresignUpload(r, p)
      PROVE  FailedOK'
  <2>1. NoNewFailure
    BY <1>6 DEF PresignUpload, NoNewFailure, StoreTypeOK, FileRows
  <2> QED
    BY <1>1, <1>6, <2>1, FailuresStay DEF PresignUpload
<1>7. UNCHANGED <<file, job, queue>> => FailedOK'
  BY <1>1, FailuresStay DEF NoNewFailure
<1>8. ASSUME NEW r \in Requests, ServiceStep(r)
      PROVE  FailedOK'
  BY <1>2, <1>3, <1>4, <1>5, <1>7, <1>8 DEF ServiceStep, PutUpload,
     StatObject, DelUpload, DelProcessed, ReqFails, storeVars
<1>9. ASSUME NEW p \in Procs, Accept(p)
      PROVE  FailedOK'
  BY <1>6, <1>7, <1>9 DEF Accept, BeginUpload, BeginComplete, BeginDelete,
     storeVars
<1>10. ASSUME NEW f \in Files, ClientStep(f)
       PROVE  FailedOK'
  BY <1>7, <1>10 DEF ClientStep, ClientPut, ExpireUrl, storeVars
<1> QED
  BY <1>8, <1>9, <1>10 DEF Serving

LEMMA CleaningFails ==
    ASSUME TypeOK, FailedOK, Cleaning
    PROVE  FailedOK'
<1> USE DEF TypeOK
<1>1. UNCHANGED <<queue, exec>>
  BY DEF Cleaning
<1>2. ASSUME NEW p \in Procs, DeleteExpiredRow(p)
      PROVE  NoNewFailure
  BY <1>2 DEF DeleteExpiredRow, DeleteFileRow, DeletedFile, NoJob, NoNewFailure,
     StoreTypeOK
<1>3. (\E p \in Procs : DeleteExpiredRow(p)) \/ UNCHANGED <<file, job>>
  BY DEF Cleaning, Expire, HandleCleanup, CleanupStep, NextExpired,
     DelExpiredUpload, DelExpiredProcessed, VisitFails, CleanupDone, storeVars
<1>4. NoNewFailure
  BY <1>2, <1>3 DEF NoNewFailure
<1> QED
  BY <1>1, <1>4, FailuresStay

LEMMA FailedStep ==
    ASSUME LiveStalls = FALSE, TypeOK, LockOK, TakenOK, FailedOK, [Next]_vars
    PROVE  FailedOK'
<1> USE DEF TypeOK
<1>1. CASE Processing
  BY <1>1, ProcessStepFails, ReportFails, QueueFails DEF Processing,
     ProcessorNext
<1>2. CASE Recovering
  BY <1>2, RecoveryStepFails, QueueFails DEF Recovering, RecoveryNext
<1>3. CASE Serving
  BY <1>3, ServingFails
<1>4. CASE Cleaning
  BY <1>4, CleaningFails
<1>5. ASSUME NEW p \in Procs, Crash(p) \/ ScanFails(p)
      PROVE  FailedOK'
  <2>1. UNCHANGED <<file, job, queue>>
    BY <1>5 DEF Crash, ScanFails, Stops, storeVars
  <2>2. \A e \in Entries : \A q \in Procs : exec'[q].entry = e => exec'[q] = exec[q]
    BY <1>5, QueueAssumption DEF Crash, ScanFails, Stops, ExecCrash, ExecTypeOK,
       IdleExec, Entries
  <2>3. \A e \in Entries : \A pcs \in {FilePcs, JobPcs} : Retriable(e, pcs) =>
            queue'[e].file = queue[e].file /\ Retriable(e, pcs)'
    BY <2>1, <2>2, RetriableStays
  <2> QED
    BY <2>1, <2>3, FailuresWait DEF NoNewFailure
<1>6. CASE (\E p \in Procs : Restart(p)) \/ UNCHANGED vars
  BY <1>6, FailuresStay DEF Restart, vars, storeVars, NoNewFailure
<1> QED
  BY <1>1, <1>2, <1>3, <1>4, <1>5, <1>6 DEF Next

\* Once a file is quiet and it, or its job, is reported FAILED, one of its
\* entries is dead, whatever fails or crashes and whoever repairs it, provided
\* that a worker renews its lock while it executes: an execution that lost its
\* lock reports the failure of an entry that another one may complete.
THEOREM FailedCanBeRetriedHolds ==
    ASSUME LiveStalls = FALSE
    PROVE  Spec => []FailedCanBeRetried
<1> DEFINE IInv == LockOK /\ AbsentOK /\ TakenOK /\ FoundOK /\ FailedOK
<1>1. Init => IInv
  <2>1. Init => FailedOK
    BY DEF Init, StoreInit, NoFile, NoJob, FailedOK
  <2> QED
    BY <2>1, MonotoneInit
<1>2. TypeOK /\ IInv /\ [Next]_vars => IInv'
  <2> SUFFICES ASSUME TypeOK, IInv, [Next]_vars
               PROVE  IInv'
    OBVIOUS
  <2>1. LockOK'
    BY LockStep
  <2>2. AbsentOK' /\ TakenOK' /\ FoundOK'
    BY MonotoneStep
  <2>3. FailedOK'
    BY FailedStep
  <2> QED
    BY <2>1, <2>2, <2>3
<1>3. IInv => FailedCanBeRetried
  <2> SUFFICES ASSUME FailedOK, NEW f \in Files, Quiet(f),
                      "FAILED" \in {file[f].status, job[f].status}
               PROVE  \E e \in EntriesOf(f) :
                          queue[e].state \in {"failed", "removed"}
    BY DEF FailedCanBeRetried
  <2>1. PICK e \in Entries :
            /\ queue[e].file = f
            /\ Retriable(e, FilePcs) \/ Retriable(e, JobPcs)
    BY DEF FailedOK, Answers
  <2> QED
    BY <2>1 DEF Quiet, EntriesOf, Retriable
<1> HIDE DEF IInv
<1> QED
  BY <1>1, <1>2, <1>3, TypeCorrect, PTL DEF Spec
=============================================================================
