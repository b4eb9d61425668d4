---------------------------- MODULE JobRecovery ----------------------------
(***************************************************************************)
(* JobRecoveryService (job-recovery.service.ts). Its onModuleInit runs once *)
(* in every process that imports QueueModule, the API and the worker, each  *)
(* time the process starts. Its operations on the dead letter queue are     *)
(* exported to other modules; no controller calls them.                     *)
(***************************************************************************)
EXTENDS JobQueue

CONSTANT MaxRepairs  \* bound: manual operations on the dead letter queue

ASSUME OperationsAssumption == MaxRepairs \in Nat

VARIABLES
    rec,        \* per process: the progress of recoverInterruptedJobs
    repairs  \* manual operations on the dead letter queue so far

recoveryVars == <<rec, repairs>>

Recs ==
    [pc : {"scan", "loop", "done"}, todo : SUBSET Files, cur : {Nil}]
    \cup [pc : {"enqueue"}, todo : SUBSET Files, cur : Files]

StartedRec == [pc |-> "scan", todo |-> {}, cur |-> Nil]

RecInit ==
    /\ rec = [p \in Procs |-> StartedRec]
    /\ repairs = 0

RecTypeOK ==
    /\ rec \in [Procs -> Recs]
    /\ repairs \in Nat

-----------------------------------------------------------------------------
\* findMany where status = PROCESSING. The result is a snapshot.
Scan(p) ==
    /\ p \in up
    /\ rec[p].pc = "scan"
    /\ rec' = [rec EXCEPT
           ![p].pc = "loop",
           ![p].todo = {f \in Files : job[f].status = "PROCESSING"}]
    /\ UNCHANGED <<storeVars, queue, repairs>>

\* The row goes back to PENDING, whoever may be working on it.
ResetJob(p) ==
    /\ rec[p].pc = "loop"
    /\ \E f \in rec[p].todo :
           /\ SetJobStatus(f, "PENDING")
           /\ \E pc \in After("db", "enqueue", "loop") :
                  rec' = [rec EXCEPT
                      ![p] = [pc |-> pc, todo |-> @.todo \ {f},
                              cur |-> IF pc = "enqueue" THEN f ELSE Nil]]
    /\ UNCHANGED <<file, uploads, processed, doomed, queue, repairs>>

\* The update fails: the error is logged and the loop goes on.
SkipJob(p) ==
    /\ rec[p].pc = "loop"
    /\ \E f \in rec[p].todo :
           /\ ~HasJob(f) \/ MayFail("db")
           /\ rec' = [rec EXCEPT ![p].todo = @ \ {f}]
    /\ UNCHANGED <<storeVars, queue, repairs>>

\* Mutant: one entry per file (a jobId that makes BullMQ ignore a second add).
ReenqueueDeduplicates(p) ==
    /\ rec[p].pc = "enqueue"
    /\ IF EntriesOf(rec[p].cur) # {} THEN queue' = queue
       ELSE \E e \in Entries : AddEntry(e, rec[p].cur)
    /\ rec' = [rec EXCEPT ![p].pc = "loop", ![p].cur = Nil]
    /\ UNCHANGED <<storeVars, repairs>>

\* A new entry, beside whatever entries of this file the queue still holds.
Reenqueue(p) ==
    /\ rec[p].pc = "enqueue"
    /\ \E e \in Entries : AddEntry(e, rec[p].cur)
    /\ rec' = [rec EXCEPT ![p].pc = "loop", ![p].cur = Nil]
    /\ UNCHANGED <<storeVars, repairs>>

\* queue.add fails: the error is logged, the row stays PENDING.
ReenqueueFails(p) ==
    /\ rec[p].pc = "enqueue"
    /\ MayFail("queue")
    /\ rec' = [rec EXCEPT ![p].pc = "loop", ![p].cur = Nil]
    /\ UNCHANGED <<storeVars, queue, repairs>>

RecoveryDone(p) ==
    /\ rec[p].pc = "loop"
    /\ rec[p].todo = {}
    /\ rec' = [rec EXCEPT ![p].pc = "done"]
    /\ UNCHANGED <<storeVars, queue, repairs>>

RecoveryStep(p) ==
    \/ Scan(p) \/ ResetJob(p) \/ SkipJob(p)
    \/ Reenqueue(p) \/ ReenqueueFails(p) \/ RecoveryDone(p)

-----------------------------------------------------------------------------
(* The dead letter queue. BullMQ retries an entry only if it is failed, and  *)
(* keeps its attempt count; it removes any entry that is not locked.         *)

RetryFailedJob(e) ==
    /\ up # {}
    /\ repairs < MaxRepairs
    /\ queue[e].state = "failed"
    /\ queue' = [queue EXCEPT ![e].state = "waiting"]
    /\ repairs' = repairs + 1
    /\ UNCHANGED <<storeVars, rec>>

RemoveFailedJob(e) ==
    /\ up # {}
    /\ repairs < MaxRepairs
    /\ queue[e].state \in {"waiting", "completed", "failed"}
    /\ queue' = [queue EXCEPT ![e].state = "removed"]
    /\ repairs' = repairs + 1
    /\ UNCHANGED <<storeVars, rec>>

RecoveryNext ==
    \/ \E p \in Procs : RecoveryStep(p)
    \/ \E e \in Entries : RetryFailedJob(e) \/ RemoveFailedJob(e)

\* A process that starts again starts with a scan.
RecCrash(p) == rec' = [rec EXCEPT ![p] = StartedRec]
=============================================================================
